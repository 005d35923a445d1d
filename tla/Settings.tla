------------------------------ MODULE Settings ------------------------------
(***************************************************************************)
(* Rows that requests get or create, and update field by field: a user's   *)
(* preferences (server/app/api/preferences.py), a device's (api/devices.py *)
(* _prefs and its endpoints), a runtime setting (core/runtime.py           *)
(* set_setting, api/admin.py), an account (api/admin.py create_user) and a *)
(* device (api/devices.py update_device, set_push_endpoint).               *)
(*                                                                         *)
(* One row of one kind.  Each request has a database session of its own:   *)
(* an UPDATE names the attributes whose value differs from the one that    *)
(* was loaded, an INSERT waits for that of the same key, and the row goes  *)
(* with its owner.                                                         *)
(***************************************************************************)
EXTENDS Naturals

CONSTANTS
  Call,     \* requests under way at once
  Field,    \* columns of a row
  Checked,  \* the one that is validated (manual_presence)
  Value, Default,
  Invalid,  \* a value that manual_presence may not have
  Keep,     \* a field the request leaves alone
  None      \* no row

ASSUME FieldAssumption == Checked \in Field
ASSUME ValueAssumption ==
  Default \in Value /\ Invalid \notin Value /\ Keep \notin Value \cup {Invalid}
ASSUME NoneAssumption == None \notin [Field -> Value \cup {Invalid}]

VARIABLES
  kind,    \* which table the row is of
  owned,   \* the user or device that the row belongs to exists
  row,
  call,    \* per request: pc, the body, the row it has loaded
  held,    \* history: fields the row has had as the body says, since the load
  bereft   \* history: requests under way when the row or its owner was deleted

vars == <<kind, owned, row, call, held, bereft>>

Preferences == {"user_preferences", "device_preferences"}
Kind == Preferences \cup {"app_settings", "users", "devices"}
Row == [Field -> Value \cup {Invalid}]
Ends == {"ok", "refused", "failed"}

Defaults == [f \in Field |-> Default]

(* What requests may ask: preferences one field or several, or none (GET); *)
(* a setting has one column; an account is created as a whole; a device's  *)
(* name and push endpoint are set by two endpoints.                        *)
Bodies ==
  CASE kind = "user_preferences" ->
         {b \in [Field -> Value \cup {Invalid, Keep}] :
            \A f \in Field \ {Checked} : b[f] # Invalid}
    [] kind = "device_preferences" -> [Field -> Value \cup {Keep}]
    [] kind = "app_settings" ->
         {b \in [Field -> Value \cup {Keep}] : \A f \in Field : b[f] = Keep <=> f # Checked}
    [] kind = "devices" ->
         UNION {{[g \in Field |-> IF g = f THEN v ELSE Keep] : v \in Value} : f \in Field}
    [] OTHER -> [Field -> Value]

Unsent == [pc |-> "ok", body |-> [f \in Field |-> Keep], loaded |-> None]

Init ==
  /\ kind \in Kind
  /\ owned = TRUE
  /\ row = IF kind = "devices" THEN Defaults ELSE None
  /\ call = [c \in Call |-> Unsent]
  /\ held = [c \in Call |-> {}]
  /\ bereft = {}

-----------------------------------------------------------------------------
Asked(c) == {f \in Field : call[c].body[f] # Keep}

AsAsked(c, r) == {f \in Field : r # None /\ r[f] = call[c].body[f]}

(* The row becomes r. *)
Store(r) ==
  /\ row' = r
  /\ held' = [c \in Call |-> held[c] \cup AsAsked(c, r)]

Goto(c, from, to) == call[c].pc = from /\ call' = [call EXCEPT ![c].pc = to]

(* The row is read, if it is still there. *)
Reads(c, from) ==
  /\ call[c].pc = from
  /\ call' = [call EXCEPT ![c].pc = IF row = None THEN "failed" ELSE "loaded",
                          ![c].loaded = row]

(* The request is authenticated, its device found to be the user's. *)
Request(c) ==
  /\ call[c].pc \in Ends /\ owned
  /\ \E b \in Bodies : call' = [call EXCEPT ![c] = [pc |-> "sent", body |-> b, loaded |-> None]]
  /\ held' = [held EXCEPT ![c] = {}]
  /\ bereft' = bereft \ {c}
  /\ UNCHANGED <<kind, owned, row>>

(* session.get; create_user answers 409 if the address is taken, and a     *)
(* device that is gone is not found.                                       *)
Load(c) ==
  /\ \/ row = None /\ kind # "devices" /\ Goto(c, "sent", "inserting")
     \/ row = None /\ kind = "devices" /\ Goto(c, "sent", "refused")
     \/ row # None /\ kind = "users" /\ Goto(c, "sent", "refused")
     \/ row # None /\ kind # "users" /\ Reads(c, "sent")
  /\ held' = [held EXCEPT ![c] = AsAsked(c, row)]
  /\ UNCHANGED <<kind, owned, row, bereft>>

(* The row that is inserted: preferences with their defaults. *)
Inserted(c) ==
  [f \in Field |-> IF kind \in Preferences \/ call[c].body[f] = Keep THEN Default
                   ELSE call[c].body[f]]

(* set_setting is done; preferences and accounts are read back. *)
AfterInsert ==
  CASE kind = "app_settings" -> "ok" [] kind = "users" -> "answering" [] OTHER -> "created"

Insert(c) ==
  /\ row = None /\ owned
  /\ Goto(c, "inserting", AfterInsert)
  /\ Store(Inserted(c))
  /\ UNCHANGED <<kind, owned, bereft>>

RecoversNowhere == FALSE

(* preferences.py's _get_or_create catches the IntegrityError. *)
Recovers == kind = "user_preferences"

InsertRaisesUnnoticed(c) ==
  /\ row # None \/ ~owned
  /\ Goto(c, "inserting", IF Recovers THEN "created" ELSE AfterInsert)
  /\ UNCHANGED <<kind, owned, row, held, bereft>>

(* The key is taken by now, or the owner gone. *)
InsertRaises(c) ==
  /\ row # None \/ ~owned
  /\ Goto(c, "inserting", IF Recovers THEN "created" ELSE "failed")
  /\ UNCHANGED <<kind, owned, row, held, bereft>>

(* session.refresh, or session.get after the rollback. *)
ReadBack(c) == Reads(c, "created") /\ UNCHANGED <<kind, owned, row, held, bereft>>

(* GET *)
Get(c) ==
  /\ Asked(c) = {}
  /\ Goto(c, "loaded", "ok")
  /\ UNCHANGED <<kind, owned, row, held, bereft>>

(* A value of manual_presence that is none: 400, the row created or not. *)
Refuse(c) ==
  /\ kind = "user_preferences" /\ call[c].body[Checked] = Invalid
  /\ Goto(c, "loaded", "refused")
  /\ UNCHANGED <<kind, owned, row, held, bereft>>

Changed(c) == {f \in Asked(c) : call[c].body[f] # call[c].loaded[f]}

UpdatedWhole(c) ==
  [f \in Field |-> IF f \in Asked(c) THEN call[c].body[f] ELSE call[c].loaded[f]]

Updated(c) == [f \in Field |-> IF f \in Changed(c) THEN call[c].body[f] ELSE row[f]]

(* The commit: nothing is written if nothing changes, and an UPDATE that   *)
(* finds no row raises.  Preferences are read back.                        *)
Update(c) ==
  /\ call[c].pc = "loaded"
  /\ ~(kind = "user_preferences" /\ call[c].body[Checked] = Invalid)
  /\ Goto(c, "loaded", IF Changed(c) # {} /\ row = None THEN "failed"
                       ELSE IF kind = "app_settings" THEN "ok" ELSE "answering")
  /\ IF Changed(c) = {} \/ row = None THEN UNCHANGED <<row, held>> ELSE Store(Updated(c))
  /\ UNCHANGED <<kind, owned, bereft>>

(* session.refresh, and the response. *)
Answer(c) ==
  /\ Goto(c, "answering", IF row = None THEN "failed" ELSE "ok")
  /\ UNCHANGED <<kind, owned, row, held, bereft>>

(* delete_user, delete_device; an address may be used again. *)
Delete ==
  /\ kind # "app_settings"
  /\ IF kind = "users" THEN row # None /\ UNCHANGED owned ELSE owned /\ owned' = FALSE
  /\ row' = None
  /\ bereft' = Call
  /\ UNCHANGED <<kind, call, held>>

Next ==
  \/ Delete
  \/ \E c \in Call :
       \/ Request(c) \/ Load(c) \/ Insert(c) \/ InsertRaises(c) \/ ReadBack(c)
       \/ Get(c) \/ Refuse(c) \/ Update(c) \/ Answer(c)

Spec == Init /\ [][Next]_vars

-----------------------------------------------------------------------------
(* Invariants *)

(* The values the variables range over. *)
TypeOK ==
  /\ kind \in Kind /\ owned \in BOOLEAN
  /\ row \in Row \cup {None}
  /\ call \in [Call -> [pc : Ends \cup {"sent", "inserting", "created", "loaded", "answering"},
                        body : [Field -> Value \cup {Invalid, Keep}], loaded : Row \cup {None}]]
  /\ held \in [Call -> SUBSET Field]
  /\ bereft \subseteq Call

(* What a request was told it has set was in the row at some moment        *)
(* between its load and its answer, also when the row was created under it *)
(* by another request, and when it wrote nothing because it loaded the     *)
(* value it was to set.                                                    *)
AnsweredTookEffect == \A c \in Call : call[c].pc = "ok" => Asked(c) \subseteq held[c]

(* A request for a user's preferences fails only if the user is deleted    *)
(* under it, however requests race to create the row.  Elsewhere the loser *)
(* of such a race fails too, but no request that finds the row.            *)
FailuresAreDue ==
  \A c \in Call : call[c].pc = "failed" =>
    \/ c \in bereft
    \/ kind # "user_preferences" /\ call[c].loaded = None

-----------------------------------------------------------------------------
(* Properties of behaviours *)

(* No lost update: a field of a row changes only to what a request that is *)
(* under way asks for that field, so that updates of different fields both *)
(* survive, and neither a creation nor a refused request resets anything.  *)
FieldsAreIndependent ==
  [][\A f \in Field :
       row # None /\ row' # None /\ row'[f] # row[f]
         => \E c \in Call : call[c].pc = "loaded" /\ row'[f] = call[c].body[f]]_vars

=============================================================================
