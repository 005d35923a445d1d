------------------------------ MODULE Creation ------------------------------
(***************************************************************************)
(* POST /notifications with and without an Idempotency-Key                 *)
(* (server/app/notifications/service.py create_notification and            *)
(* api/notifications.py create).                                           *)
(*                                                                         *)
(* A request looks its key up in Redis, creates and dispatches the         *)
(* notification, and stores the key at its very end; the agent that got no *)
(* answer sends another request with the same key.  dispatch is one step   *)
(* here: Delivery.tla takes it apart.  A notification is named by the      *)
(* request that created it.                                                *)
(***************************************************************************)
EXTENDS FiniteSets, Naturals

CONSTANTS
  Request,    \* requests one agent sends
  Key,        \* idempotency keys
  NoKey,      \* no Idempotency-Key header
  Nothing,    \* no notification
  Patient,    \* the agent has at most one request under way per key
  MaxFaults   \* bound on errors and restarts

ASSUME KeyAssumption == NoKey \notin Key
ASSUME NothingAssumption == Nothing \notin Request
ASSUME PatientAssumption == Patient \in BOOLEAN
ASSUME FaultsAssumption == MaxFaults \in Nat

VARIABLES
  req,      \* per request: pc, key, the notification it found or returns
  idem,     \* Redis: idempotency:{agent}:{key}, Nothing if absent
  stored,   \* committed notifications
  alive,    \* the user, and with it the agent, exists
  settled,  \* history: requests sent when their key had been answered with
  lapsed,   \* history: keys that expired
  faults

vars == <<req, idem, stored, alive, settled, lapsed, faults>>

Unsent == [pc |-> "unsent", key |-> NoKey, found |-> Nothing]

Init ==
  /\ req = [r \in Request |-> Unsent]
  /\ idem = [k \in Key |-> Nothing]
  /\ stored = {}
  /\ alive = TRUE
  /\ settled = {}
  /\ lapsed = {}
  /\ faults = 0

Running == {"sent", "fetching", "creating", "flushed", "committed"}

Fault == faults < MaxFaults /\ faults' = faults + 1

Goto(r, from, to) == req[r].pc = from /\ req' = [req EXCEPT ![r].pc = to]

(* Some earlier request with the key has its answer. *)
Answered(k) == \E q \in Request : req[q].key = k /\ req[q].pc = "answered"

-----------------------------------------------------------------------------
Send(r, k) ==
  /\ alive
  /\ req[r].pc = "unsent"
  /\ Patient => \A q \in Request : req[q].key = k => req[q].pc \notin Running
  /\ req' = [req EXCEPT ![r].pc = "sent", ![r].key = k]
  /\ settled' = IF k # NoKey /\ Answered(k) THEN settled \cup {r} ELSE settled
  /\ UNCHANGED <<idem, stored, alive, lapsed, faults>>

(* _validate and _check_scopes come before the key. *)
Refuse(r) ==
  /\ Goto(r, "sent", "refused")
  /\ UNCHANGED <<idem, stored, alive, settled, lapsed, faults>>

(* redis.get of the key, if there is one. *)
Found(r) == IF req[r].key = NoKey THEN Nothing ELSE idem[req[r].key]

LookUpReserves(r) ==
  /\ req[r].pc = "sent"
  /\ req' = [req EXCEPT ![r].pc = IF Found(r) = Nothing THEN "creating" ELSE "fetching",
                        ![r].found = Found(r)]
  /\ idem' = IF req[r].key # NoKey /\ Found(r) = Nothing
             THEN [idem EXCEPT ![req[r].key] = r] ELSE idem
  /\ UNCHANGED <<stored, alive, settled, lapsed, faults>>

LookUp(r) ==
  /\ req[r].pc = "sent"
  /\ req' = [req EXCEPT ![r].pc = IF Found(r) = Nothing THEN "creating" ELSE "fetching",
                        ![r].found = Found(r)]
  /\ UNCHANGED <<idem, stored, alive, settled, lapsed, faults>>

(* session.get of what the key names: answered with it, or created anew    *)
(* when it is gone.                                                        *)
Fetch(r) ==
  /\ \/ req[r].found \in stored /\ Goto(r, "fetching", "answered")
     \/ req[r].found \notin stored /\ Goto(r, "fetching", "creating")
  /\ UNCHANGED <<idem, stored, alive, settled, lapsed, faults>>

FlushUnchecked(r) ==
  /\ Goto(r, "creating", "flushed")
  /\ UNCHANGED <<idem, stored, alive, settled, lapsed, faults>>

(* session.flush: the foreign key holds the user's row to the commit. *)
Flush(r) ==
  /\ alive
  /\ Goto(r, "creating", "flushed")
  /\ UNCHANGED <<idem, stored, alive, settled, lapsed, faults>>

FlushRaises(r) ==
  /\ ~alive
  /\ Goto(r, "creating", "failed")
  /\ UNCHANGED <<idem, stored, alive, settled, lapsed, faults>>

(* The device named is not the user's, or (after the flush) the audio named *)
(* is not, or not uploaded: 400, and what was flushed rolls back.          *)
RefuseNamed(r) ==
  /\ Goto(r, "creating", "refused") \/ Goto(r, "flushed", "refused")
  /\ UNCHANGED <<idem, stored, alive, settled, lapsed, faults>>

(* Synthesis, presence, a delivery row or a push fails: all rolls back.    *)
CreateRaises(r) ==
  /\ Fault
  /\ Goto(r, "flushed", "failed")
  /\ UNCHANGED <<idem, stored, alive, settled, lapsed>>

(* dispatch commits. *)
Commit(r) ==
  /\ Goto(r, "flushed", "committed")
  /\ stored' = stored \cup {r}
  /\ UNCHANGED <<idem, alive, settled, lapsed, faults>>

(* A push wake, or redis.set, raises after the commit. *)
AfterwardsRaises(r) ==
  /\ Fault
  /\ Goto(r, "committed", "failed")
  /\ UNCHANGED <<idem, stored, alive, settled, lapsed>>

RememberedNot(r) == idem

(* redis.set, over whatever another request stored since the lookup. *)
Remembered(r) == IF req[r].key = NoKey THEN idem ELSE [idem EXCEPT ![req[r].key] = r]

RememberEarly(r) ==
  /\ req[r].pc \in {"flushed", "committed"}
  /\ idem' = Remembered(r)
  /\ req' = [req EXCEPT ![r].pc = "answered", ![r].found = r]
  /\ UNCHANGED <<stored, alive, settled, lapsed, faults>>

(* schedule_fallback, redis.set, return. *)
Remember(r) ==
  /\ req[r].pc = "committed"
  /\ idem' = Remembered(r)
  /\ req' = [req EXCEPT ![r].pc = "answered", ![r].found = r]
  /\ UNCHANGED <<stored, alive, settled, lapsed, faults>>

-----------------------------------------------------------------------------
(* IDEMPOTENCY_TTL *)
KeyExpires(k) ==
  /\ idem[k] # Nothing
  /\ idem' = [idem EXCEPT ![k] = Nothing]
  /\ lapsed' = lapsed \cup {k}
  /\ UNCHANGED <<req, stored, alive, settled, faults>>

(* api/admin.py delete_user: agents and notifications cascade; it waits    *)
(* for the transactions that hold the user's row.                          *)
DeleteUser ==
  /\ alive
  /\ \A r \in Request : req[r].pc # "flushed"
  /\ alive' = FALSE
  /\ stored' = {}
  /\ UNCHANGED <<req, idem, settled, lapsed, faults>>

(* The process restarts: what is not committed is gone. *)
Restart ==
  /\ Fault
  /\ req' = [r \in Request |-> IF req[r].pc \in Running THEN [req[r] EXCEPT !.pc = "failed"]
                               ELSE req[r]]
  /\ UNCHANGED <<idem, stored, alive, settled, lapsed>>

Serve(r) ==
  \/ Refuse(r) \/ LookUp(r) \/ Fetch(r) \/ Flush(r) \/ FlushRaises(r)
  \/ RefuseNamed(r) \/ CreateRaises(r) \/ Commit(r) \/ AfterwardsRaises(r) \/ Remember(r)

Next ==
  \/ \E r \in Request : Serve(r) \/ \E k \in Key \cup {NoKey} : Send(r, k)
  \/ \E k \in Key : KeyExpires(k)
  \/ DeleteUser \/ Restart

Spec == Init /\ [][Next]_vars

-----------------------------------------------------------------------------
(* Invariants *)

(* The values the variables range over. *)
TypeOK ==
  /\ req \in [Request -> [pc : Running \cup {"unsent", "refused", "answered", "failed"},
                          key : Key \cup {NoKey}, found : Request \cup {Nothing}]]
  /\ idem \in [Key -> Request \cup {Nothing}]
  /\ stored \in SUBSET Request
  /\ alive \in BOOLEAN
  /\ settled \in SUBSET Request
  /\ lapsed \in SUBSET Key
  /\ faults \in 0..MaxFaults

Created(r) == req[r].pc \in {"flushed", "committed"} \/ r \in stored

(* A request sent after its key was answered with creates nothing as long  *)
(* as the key lives, whatever overlapping requests did to the key.         *)
SettledKeysCreateNothing ==
  \A r \in settled : alive /\ req[r].key \notin lapsed => ~Created(r)

(* Every answer is a notification that is in the database, created for the *)
(* same key.                                                               *)
AnswersAreStored ==
  alive => \A r \in Request :
    req[r].pc = "answered" => /\ req[r].found \in stored
                              /\ req[req[r].found].key = req[r].key

(* A key never names a notification that is not committed, or another      *)
(* key's.                                                                  *)
KeysNameStored ==
  alive => \A k \in Key :
    idem[k] # Nothing => idem[k] \in stored /\ req[idem[k]].key = k

(* Both: what a caller or the key was told of exists, and is its own.      *)
NamesAreStored == AnswersAreStored /\ KeysNameStored

(* No notification survives, or appears after, the deletion of its user.   *)
NothingForTheDeleted == ~alive => stored = {}

-----------------------------------------------------------------------------
(* What the documents say and the code does not do *)

(* service.py, create_notification: "same agent + key returns the original *)
(* notification"; SKILL.md, on retries with a key: "retries won't          *)
(* double-ping".                                                           *)
OnePerKey ==
  \A q, r \in stored :
    req[q].key = req[r].key /\ req[q].key \notin lapsed \cup {NoKey} => q = r

=============================================================================
