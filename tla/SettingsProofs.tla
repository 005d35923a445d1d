---------------------------- MODULE SettingsProofs ----------------------------
(***************************************************************************)
(* Proofs about Settings.tla, for any requests, fields and values, and for *)
(* every kind of row.                                                      *)
(***************************************************************************)
EXTENDS Settings, TLAPS

CallType ==
  [pc : Ends \cup {"sent", "inserting", "created", "loaded", "answering"},
   body : [Field -> Value \cup {Invalid, Keep}], loaded : Row \cup {None}]

(* A request past its load has seen every value that the row has now, and  *)
(* of what it was asked only what differs from the loaded row is left to   *)
(* be written.                                                             *)
Seen(c) ==
  /\ call[c].pc \in {"inserting", "created", "loaded", "answering"}
       => AsAsked(c, row) \subseteq held[c]
  /\ call[c].pc = "loaded" =>
       call[c].loaded # None /\ Asked(c) \ Changed(c) \subseteq held[c]
  /\ call[c].pc \in {"answering", "ok"} => Asked(c) \subseteq held[c]

(* A request that misses the row has had it deleted under it, and fails    *)
(* for that, or for the race to create the row.                            *)
Due(c) ==
  /\ ~owned /\ call[c].pc \notin Ends => c \in bereft
  /\ row = None /\ call[c].pc \in {"created", "loaded", "answering"} => c \in bereft
  /\ call[c].pc \in {"sent", "inserting"} => call[c].loaded = None
  /\ call[c].pc = "failed" =>
       c \in bereft \/ (kind # "user_preferences" /\ call[c].loaded = None)

(* What it asks for is what the schemas accept. *)
Accepted(c) == call[c].pc \notin Ends => call[c].body \in Bodies

(* The row goes with its owner, and is never invalid. *)
RowInv ==
  /\ ~owned => row = None
  /\ row # None => row \in [Field -> Value]

CallInv(c) == Seen(c) /\ Due(c) /\ Accepted(c)

IInv == TypeOK /\ RowInv /\ \A c \in Call : CallInv(c)

-----------------------------------------------------------------------------
LEMMA BodiesType == Bodies \subseteq [Field -> Value \cup {Invalid, Keep}]
BY ValueAssumption DEF Bodies

LEMMA RowType == [Field -> Value] \subseteq Row /\ Defaults \in [Field -> Value] /\ None \notin Row
BY ValueAssumption, NoneAssumption DEF Row, Defaults

(* A row that the requests before it left alone keeps the invariant of a   *)
(* request that does not move.                                             *)
LEMMA Bystander ==
  ASSUME NEW d \in Call, CallInv(d), call'[d] = call[d],
         kind' = kind, owned' = owned \/ d \in bereft',
         held[d] \subseteq held'[d],
         AsAsked(d, row)' \subseteq AsAsked(d, row) \cup held'[d],
         row' = None => row = None \/ d \in bereft',
         d \in bereft => d \in bereft'
  PROVE  CallInv(d)'
<1>1. Asked(d)' = Asked(d) /\ Changed(d)' = Changed(d) /\ Bodies' = Bodies
  BY DEF Asked, Changed, Bodies
<1>2. Seen(d)'
  BY <1>1 DEF CallInv, Seen
<1>3. Due(d)'
  BY DEF CallInv, Due
<1>4. Accepted(d)'
  BY <1>1 DEF CallInv, Accepted
<1> QED
  BY <1>2, <1>3, <1>4 DEF CallInv

(* The invariant holds before any request: nothing is asked for yet.       *)
LEMMA InitIInv == Init => IInv
<1> SUFFICES ASSUME Init PROVE IInv
  OBVIOUS
<1>1. TypeOK /\ RowInv
  BY RowType, ValueAssumption DEF Init, TypeOK, RowInv, Unsent, Ends
<1>2. ASSUME NEW c \in Call PROVE CallInv(c)
  <2>1. call[c].pc = "ok" /\ Asked(c) = {}
    BY DEF Init, Unsent, Asked
  <2> QED
    BY <2>1 DEF CallInv, Seen, Due, Accepted, Ends
<1> QED
  BY <1>1, <1>2 DEF IInv

(* A step of a request that does not write the row.                        *)
LEMMA QuietStep ==
  ASSUME IInv, NEW c \in Call, NEW q \in CallType,
         call' = [call EXCEPT ![c] = q],
         held' = held \/ \E fs \in SUBSET Field : held' = [held EXCEPT ![c] = fs],
         UNCHANGED <<kind, owned, row, bereft>>,
         CallInv(c)'
  PROVE  IInv'
<1>1. TypeOK'
  BY DEF IInv, TypeOK, CallType
<1>2. RowInv'
  BY DEF IInv, RowInv
<1>3. ASSUME NEW d \in Call, d # c PROVE CallInv(d)'
  <2>1. call'[d] = call[d] /\ held'[d] = held[d]
    BY <1>3 DEF IInv, TypeOK
  <2>2. AsAsked(d, row)' = AsAsked(d, row)
    BY <2>1 DEF AsAsked
  <2> QED
    BY <2>1, <2>2, Bystander DEF IInv
<1> QED
  BY <1>1, <1>2, <1>3 DEF IInv

(* A step of a request that makes r the row.                               *)
LEMMA StoringStep ==
  ASSUME IInv, NEW c \in Call, NEW q \in CallType, NEW r \in [Field -> Value],
         call' = [call EXCEPT ![c] = q],
         Store(r), owned,
         UNCHANGED <<kind, owned, bereft>>,
         CallInv(c)'
  PROVE  IInv'
<1>1. TypeOK'
  <2>1. \A d \in Call : AsAsked(d, r) \subseteq Field
    BY DEF AsAsked
  <2> QED
    BY <2>1, RowType DEF IInv, TypeOK, CallType, Store
<1>2. RowInv'
  BY RowType DEF IInv, RowInv, Store
<1>3. ASSUME NEW d \in Call, d # c PROVE CallInv(d)'
  <2>1. call'[d] = call[d]
    BY <1>3 DEF IInv, TypeOK
  <2>2. held'[d] = held[d] \cup AsAsked(d, r)
    BY DEF Store
  <2>3. AsAsked(d, row)' = AsAsked(d, r) /\ row' # None
    BY <2>1, RowType DEF AsAsked, Store
  <2> QED
    BY <2>1, <2>2, <2>3, Bystander DEF IInv
<1> QED
  BY <1>1, <1>2, <1>3 DEF IInv

-----------------------------------------------------------------------------
(* A new request has seen nothing yet.                                     *)
LEMMA RequestIInv ==
  ASSUME IInv, NEW c \in Call, Request(c)
  PROVE  IInv'
<1>1. PICK b \in Bodies :
        call' = [call EXCEPT ![c] = [pc |-> "sent", body |-> b, loaded |-> None]]
  BY DEF Request
<1>2. /\ owned /\ held' = [held EXCEPT ![c] = {}] /\ bereft' = bereft \ {c}
      /\ UNCHANGED <<kind, owned, row>>
  BY DEF Request
<1>3. TypeOK'
  BY <1>1, <1>2, BodiesType DEF IInv, TypeOK
<1>4. RowInv'
  BY <1>2 DEF IInv, RowInv
<1>5. CallInv(c)'
  <2>1. call'[c].pc = "sent" /\ call'[c].body = b /\ call'[c].loaded = None
    BY <1>1 DEF IInv, TypeOK
  <2>2. Bodies' = Bodies
    BY <1>2 DEF Bodies
  <2> QED
    BY <1>2, <2>1, <2>2 DEF CallInv, Seen, Due, Accepted, Ends
<1>6. ASSUME NEW d \in Call, d # c PROVE CallInv(d)'
  <2>1. /\ call'[d] = call[d] /\ held'[d] = held[d]
        /\ d \in bereft => d \in bereft'
    BY <1>1, <1>2, <1>6 DEF IInv, TypeOK
  <2>2. AsAsked(d, row)' = AsAsked(d, row)
    BY <1>2, <2>1 DEF AsAsked
  <2> QED
    BY <1>2, <2>1, <2>2, Bystander DEF IInv
<1> QED
  BY <1>3, <1>4, <1>5, <1>6 DEF IInv

(* The deletion of the row is due for all that miss it.                    *)
LEMMA DeleteIInv ==
  ASSUME IInv, Delete
  PROVE  IInv'
<1>1. /\ row' = None /\ bereft' = Call /\ owned' \in BOOLEAN
      /\ UNCHANGED <<kind, call, held>>
  BY DEF Delete, IInv, TypeOK
<1>2. TypeOK' /\ RowInv'
  BY <1>1 DEF IInv, TypeOK, RowInv
<1>3. ASSUME NEW d \in Call PROVE CallInv(d)'
  <2>1. AsAsked(d, row)' = {}
    BY <1>1 DEF AsAsked
  <2> QED
    BY <1>1, <2>1, Bystander DEF IInv
<1> QED
  BY <1>2, <1>3 DEF IInv

(* A load sees the row, and what it equals of what is asked.               *)
LEMMA LoadIInv ==
  ASSUME IInv, NEW c \in Call, Load(c)
  PROVE  IInv'
<1>1. /\ held' = [held EXCEPT ![c] = AsAsked(c, row)]
      /\ UNCHANGED <<kind, owned, row, bereft>>
      /\ call[c].pc = "sent"
  BY DEF Load, Goto, Reads
<1>2. call \in [Call -> CallType] /\ AsAsked(c, row) \in SUBSET Field
  BY DEF IInv, TypeOK, CallType, AsAsked
<1>3. PICK p \in {"inserting", "refused", "loaded"}, l \in {call[c].loaded, row} :
        /\ call' = [call EXCEPT ![c] = [call[c] EXCEPT !.pc = p, !.loaded = l]]
        /\ p = "inserting" => row = None /\ l = call[c].loaded
        /\ p = "loaded" => row # None /\ l = row
  <2>1. CASE Reads(c, "sent") /\ row # None
    BY <2>1 DEF Reads
  <2>2. CASE row = None /\ Goto(c, "sent", "inserting")
    BY <1>2, <2>2 DEF Goto, CallType
  <2>3. CASE Goto(c, "sent", "refused")
    BY <1>2, <2>3 DEF Goto, CallType
  <2> QED
    BY <2>1, <2>2, <2>3 DEF Load
<1> DEFINE q == [call[c] EXCEPT !.pc = p, !.loaded = l]
<1>4. q \in CallType /\ q.pc = p /\ q.body = call[c].body /\ q.loaded = l
  <2>1. call[c] \in CallType /\ row \in Row \cup {None}
    BY <1>2 DEF IInv, TypeOK
  <2> QED
    BY <2>1 DEF CallType, Ends
<1>5. CallInv(c)'
  <2>1. call'[c] = q /\ held'[c] = AsAsked(c, row)
    BY <1>1, <1>2, <1>3 DEF IInv, TypeOK
  <2>2. AsAsked(c, row)' = AsAsked(c, row) /\ Bodies' = Bodies
    BY <1>1, <1>4, <2>1 DEF AsAsked, Bodies
  <2>3. p = "loaded" => (Asked(c) \ Changed(c))' \subseteq held'[c]
    BY <1>1, <1>3, <1>4, <2>1 DEF Asked, Changed, AsAsked
  <2>4. Seen(c)'
    BY <1>3, <1>4, <2>1, <2>2, <2>3 DEF Seen
  <2>5. Due(c)'
    BY <1>1, <1>3, <1>4, <2>1 DEF Due, IInv, CallInv, Ends
  <2>6. Accepted(c)'
    BY <1>1, <1>4, <2>1, <2>2 DEF Accepted, IInv, CallInv, Ends
  <2> QED
    BY <2>4, <2>5, <2>6 DEF CallInv
<1> QED
  BY <1>1, <1>2, <1>3, <1>4, <1>5, QuietStep

(* Where the pc of a request goes, nothing else of it changes.             *)
LEMMA GotoMoves ==
  ASSUME IInv, NEW c \in Call, NEW from, NEW to \in Ends \cup {"created", "loaded", "answering"},
         Goto(c, from, to)
  PROVE  /\ call[c].pc = from
         /\ call' = [call EXCEPT ![c] = [call[c] EXCEPT !.pc = to]]
         /\ [call[c] EXCEPT !.pc = to] \in CallType
         /\ call'[c].pc = to /\ call'[c].body = call[c].body /\ call'[c].loaded = call[c].loaded
         /\ Asked(c)' = Asked(c) /\ Changed(c)' = Changed(c)
         /\ row' = row => AsAsked(c, row)' = AsAsked(c, row)
<1>1. call[c] \in CallType
  BY DEF IInv, TypeOK, CallType
<1> QED
  BY <1>1 DEF Goto, IInv, TypeOK, CallType, Asked, Changed, AsAsked

(* The row that an INSERT makes has what was asked for, in the kinds of    *)
(* rows that it is all that happens for.                                   *)
LEMMA InsertedType ==
  ASSUME IInv, NEW c \in Call, call[c].pc = "inserting"
  PROVE  /\ Inserted(c) \in [Field -> Value]
         /\ kind \notin Preferences => Asked(c) \subseteq AsAsked(c, Inserted(c))
<1>1. call[c].body \in Bodies /\ call[c].body \in [Field -> Value \cup {Invalid, Keep}]
  BY BodiesType DEF IInv, CallInv, Accepted, Ends
<1>2. kind \notin Preferences => \A f \in Field : call[c].body[f] \in Value \cup {Keep}
  <2>1. CASE kind = "app_settings"
    BY <1>1, <2>1 DEF Bodies
  <2>2. CASE kind = "devices"
    BY <1>1, <2>2 DEF Bodies
  <2>3. CASE kind \notin Preferences \cup {"app_settings", "devices"}
    BY <1>1, <2>3 DEF Bodies, Preferences
  <2> QED
    BY <2>1, <2>2, <2>3
<1>3. Inserted(c) \in [Field -> Value]
  BY <1>2, ValueAssumption DEF Inserted
<1>4. kind \notin Preferences => Asked(c) \subseteq AsAsked(c, Inserted(c))
  BY <1>3, RowType DEF Inserted, Asked, AsAsked
<1> QED
  BY <1>3, <1>4

(* The INSERT that comes first. *)
LEMMA InsertIInv ==
  ASSUME IInv, NEW c \in Call, Insert(c)
  PROVE  IInv'
<1>1. /\ owned /\ Store(Inserted(c))
      /\ UNCHANGED <<kind, owned, bereft>>
      /\ Goto(c, "inserting", AfterInsert)
  BY DEF Insert
<1>2. AfterInsert \in {"ok", "answering", "created"}
      /\ (AfterInsert # "created" => kind \notin Preferences)
  BY DEF AfterInsert, Preferences
<1> DEFINE q == [call[c] EXCEPT !.pc = AfterInsert]
<1>3. /\ call[c].pc = "inserting" /\ call' = [call EXCEPT ![c] = q] /\ q \in CallType
      /\ call'[c].pc = AfterInsert /\ call'[c].body = call[c].body
      /\ Asked(c)' = Asked(c)
  BY <1>1, <1>2, GotoMoves DEF Ends
<1>4. Inserted(c) \in [Field -> Value]
      /\ (AfterInsert # "created" => Asked(c) \subseteq AsAsked(c, Inserted(c)))
  BY <1>2, <1>3, InsertedType
<1>5. CallInv(c)'
  <2>1. AsAsked(c, Inserted(c)) \subseteq held'[c] /\ row' = Inserted(c) /\ row' # None
    BY <1>1, <1>4, RowType DEF Store
  <2>2. AsAsked(c, row)' = AsAsked(c, Inserted(c))
    BY <1>3, <2>1 DEF AsAsked
  <2>3. Seen(c)'
    BY <1>2, <1>3, <1>4, <2>1, <2>2 DEF Seen
  <2>4. Due(c)'
    BY <1>1, <1>2, <1>3, <2>1 DEF Due
  <2>5. Accepted(c)'
    <3>1. Bodies' = Bodies
      BY <1>1 DEF Bodies
    <3> QED
      BY <1>3, <3>1 DEF Accepted, IInv, CallInv, Ends
  <2> QED
    BY <2>3, <2>4, <2>5 DEF CallInv
<1> QED
  BY <1>1, <1>3, <1>4, <1>5, StoringStep

(* The steps that only move the pc: the loser's INSERT, a read, a refusal, *)
(* an answer.                                                              *)
LEMMA QuietIInv ==
  ASSUME IInv, NEW c \in Call,
         InsertRaises(c) \/ Get(c) \/ Refuse(c) \/ Answer(c)
  PROVE  IInv'
<1>1. UNCHANGED <<kind, owned, row, held, bereft>>
  BY DEF InsertRaises, Get, Refuse, Answer
<1>2. PICK to \in Ends \cup {"created"} :
        \/ /\ Goto(c, "inserting", to) /\ to \in {"created", "failed"}
           /\ row # None \/ ~owned
           /\ to = "failed" => kind # "user_preferences"
        \/ Goto(c, "loaded", to) /\ to \in {"ok", "refused"} /\ (to = "ok" => Asked(c) = {})
        \/ Goto(c, "answering", to) /\ to = (IF row = None THEN "failed" ELSE "ok")
  BY DEF InsertRaises, Get, Refuse, Answer, Recovers, Ends
<1>3. PICK from \in {"inserting", "loaded", "answering"} : Goto(c, from, to)
  BY <1>2
<1> DEFINE q == [call[c] EXCEPT !.pc = to]
<1>4. /\ call[c].pc = from /\ call' = [call EXCEPT ![c] = q] /\ q \in CallType
      /\ call'[c].pc = to /\ call'[c].body = call[c].body /\ call'[c].loaded = call[c].loaded
      /\ Asked(c)' = Asked(c) /\ AsAsked(c, row)' = AsAsked(c, row) /\ held'[c] = held[c]
  BY <1>1, <1>3, GotoMoves
<1>5. \/ /\ call[c].pc = "inserting" /\ to \in {"created", "failed"}
         /\ row # None \/ ~owned
         /\ to = "failed" => kind # "user_preferences"
      \/ call[c].pc = "loaded" /\ to \in {"ok", "refused"} /\ (to = "ok" => Asked(c) = {})
      \/ call[c].pc = "answering" /\ to = (IF row = None THEN "failed" ELSE "ok")
  BY <1>2 DEF Goto
<1>6. Seen(c) /\ Due(c) /\ Accepted(c)
  BY DEF IInv, CallInv
<1>7. CallInv(c)'
  <2>1. Seen(c)'
    BY <1>4, <1>5, <1>6 DEF Seen
  <2>2. Due(c)'
    BY <1>1, <1>4, <1>5, <1>6 DEF Due, Ends
  <2>3. Accepted(c)'
    <3>1. Bodies' = Bodies
      BY <1>1 DEF Bodies
    <3> QED
      BY <1>4, <1>5, <1>6, <3>1 DEF Accepted, Ends
  <2> QED
    BY <2>1, <2>2, <2>3 DEF CallInv
<1> QED
  BY <1>1, <1>4, <1>7, QuietStep

(* The row is read back, whoever has created it, or was deleted meanwhile. *)
LEMMA ReadBackIInv ==
  ASSUME IInv, NEW c \in Call, ReadBack(c)
  PROVE  IInv'
<1> DEFINE p == IF row = None THEN "failed" ELSE "loaded"
           q == [call[c] EXCEPT !.pc = p, !.loaded = row]
<1>1. /\ call[c].pc = "created" /\ call' = [call EXCEPT ![c] = q]
      /\ UNCHANGED <<kind, owned, row, held, bereft>>
  BY DEF ReadBack, Reads
<1>2. /\ q \in CallType /\ q.pc = p /\ q.body = call[c].body /\ q.loaded = row
      /\ call'[c] = q
  <2>1. call[c] \in CallType /\ row \in Row \cup {None}
    BY DEF IInv, TypeOK, CallType
  <2> QED
    BY <1>1, <2>1 DEF CallType, Ends, IInv, TypeOK
<1>3. Seen(c) /\ Due(c) /\ Accepted(c)
  BY DEF IInv, CallInv
<1> HIDE DEF q
<1>4. CallInv(c)'
  <2>1. AsAsked(c, row)' = AsAsked(c, row) /\ Bodies' = Bodies
    BY <1>1, <1>2 DEF AsAsked, Bodies
  <2>2. p = "loaded" => (Asked(c) \ Changed(c))' \subseteq AsAsked(c, row)
    BY <1>2 DEF Asked, Changed, AsAsked
  <2>3. Seen(c)'
    BY <1>1, <1>2, <1>3, <2>1, <2>2 DEF Seen
  <2>4. Due(c)'
    BY <1>1, <1>2, <1>3 DEF Due, Ends
  <2>5. Accepted(c)'
    BY <1>1, <1>2, <1>3, <2>1 DEF Accepted, Ends
  <2> QED
    BY <2>3, <2>4, <2>5 DEF CallInv
<1> QED
  BY <1>1, <1>2, <1>4, QuietStep

(* What an UPDATE makes of the row is valid, and has what was asked for    *)
(* and differed.                                                           *)
LEMMA UpdatedType ==
  ASSUME IInv, NEW c \in Call, Update(c), row # None
  PROVE  /\ Updated(c) \in [Field -> Value]
         /\ Changed(c) \subseteq AsAsked(c, Updated(c))
<1>1. call[c].pc = "loaded" /\ ~(kind = "user_preferences" /\ call[c].body[Checked] = Invalid)
  BY DEF Update
<1>2. call[c].body \in Bodies /\ row \in [Field -> Value]
  BY <1>1 DEF IInv, CallInv, Accepted, Ends, RowInv
<1>3. call[c].body \in [Field -> Value \cup {Invalid, Keep}]
  BY <1>2, BodiesType
<1>4. \A f \in Field : call[c].body[f] \in Value \cup {Keep}
  <2>1. CASE kind = "user_preferences"
    BY <1>1, <1>2, <2>1 DEF Bodies
  <2>2. CASE kind = "device_preferences"
    BY <1>2, <2>2 DEF Bodies
  <2>3. CASE kind = "app_settings"
    BY <1>2, <2>3 DEF Bodies
  <2>4. CASE kind = "devices"
    BY <1>2, <2>4 DEF Bodies
  <2>5. CASE kind \notin {"user_preferences", "device_preferences", "app_settings", "devices"}
    BY <1>2, <2>5 DEF Bodies
  <2> QED
    BY <2>1, <2>2, <2>3, <2>4, <2>5
<1>5. Changed(c) \subseteq Field /\ \A f \in Changed(c) : call[c].body[f] \in Value
  BY <1>4 DEF Changed, Asked
<1>6. Updated(c) \in [Field -> Value]
  BY <1>2, <1>5 DEF Updated
<1> QED
  BY <1>5, <1>6, RowType DEF Updated, AsAsked

(* Every field that is asked for has been seen in the row, or is written.  *)
LEMMA UpdateIInv ==
  ASSUME IInv, NEW c \in Call, Update(c)
  PROVE  IInv'
<1>1. PICK to \in {"failed", "ok", "answering"} :
        /\ Goto(c, "loaded", to)
        /\ to = "failed" <=> Changed(c) # {} /\ row = None
  BY DEF Update
<1> DEFINE q == [call[c] EXCEPT !.pc = to]
<1>2. /\ call[c].pc = "loaded" /\ call' = [call EXCEPT ![c] = q] /\ q \in CallType
      /\ call'[c].pc = to /\ call'[c].body = call[c].body /\ call'[c].loaded = call[c].loaded
      /\ Asked(c)' = Asked(c) /\ UNCHANGED <<kind, owned, bereft>>
      /\ row' = row => AsAsked(c, row)' = AsAsked(c, row)
  BY <1>1, GotoMoves DEF Ends, Update
<1>3. Seen(c) /\ Due(c) /\ Accepted(c)
  BY DEF IInv, CallInv
<1>4. Accepted(c)'
  <2>1. Bodies' = Bodies
    BY <1>2 DEF Bodies
  <2> QED
    BY <1>2, <1>3, <2>1 DEF Accepted, Ends
<1>5. CASE Changed(c) = {} \/ row = None
  <2>1. UNCHANGED <<row, held>>
    BY <1>5 DEF Update
  <2>2. Seen(c)'
    BY <1>1, <1>2, <1>3, <1>5, <2>1 DEF Seen
  <2>3. Due(c)'
    BY <1>1, <1>2, <1>3, <1>5, <2>1 DEF Due, Ends
  <2>4. CallInv(c)'
    BY <1>4, <2>2, <2>3 DEF CallInv
  <2> QED
    BY <1>2, <2>1, <2>4, QuietStep
<1>6. CASE ~(Changed(c) = {} \/ row = None)
  <2>1. Store(Updated(c)) /\ owned
    BY <1>6 DEF Update, IInv, RowInv
  <2>2. Updated(c) \in [Field -> Value] /\ Changed(c) \subseteq AsAsked(c, Updated(c))
    BY <1>6, UpdatedType
  <2>3. /\ row' = Updated(c) /\ row' # None
        /\ held'[c] = held[c] \cup AsAsked(c, Updated(c))
    BY <2>1, <2>2, RowType DEF Store
  <2>4. AsAsked(c, row)' = AsAsked(c, Updated(c))
    BY <1>2, <2>3 DEF AsAsked
  <2>5. Seen(c)'
    BY <1>1, <1>2, <1>3, <2>2, <2>3, <2>4 DEF Seen
  <2>6. Due(c)'
    BY <1>1, <1>2, <1>3, <1>6, <2>1, <2>3 DEF Due, Ends
  <2>7. CallInv(c)'
    BY <1>4, <2>5, <2>6 DEF CallInv
  <2> QED
    BY <1>2, <2>1, <2>2, <2>7, StoringStep
<1> QED
  BY <1>5, <1>6

-----------------------------------------------------------------------------
LEMMA StepIInv == IInv /\ [Next]_vars => IInv'
<1> SUFFICES ASSUME IInv, [Next]_vars PROVE IInv'
  OBVIOUS
<1>1. ASSUME NEW c \in Call,
             \/ Request(c) \/ Load(c) \/ Insert(c) \/ InsertRaises(c) \/ ReadBack(c)
             \/ Get(c) \/ Refuse(c) \/ Update(c) \/ Answer(c)
      PROVE  IInv'
  BY <1>1, RequestIInv, LoadIInv, InsertIInv, ReadBackIInv, QuietIInv, UpdateIInv
<1>2. CASE UNCHANGED vars
  BY <1>2 DEF vars, IInv, TypeOK, RowInv, CallInv, Seen, Due, Accepted, AsAsked, Asked, Changed,
              Bodies
<1> QED
  BY <1>1, <1>2, DeleteIInv DEF Next

(* The types, that every request has seen what it will not write, and that *)
(* who misses a row has had it deleted, hold in every state.               *)
THEOREM Inductive == Spec => []IInv
BY InitIInv, StepIInv, PTL DEF Spec

(* The types, for any requests, fields and values. *)
THEOREM TypeCorrect == Spec => []TypeOK
<1>1. IInv => TypeOK
  BY DEF IInv
<1> QED BY <1>1, Inductive, PTL

(* What update_preferences, set_setting and the device endpoints have      *)
(* answered was in the row between load and answer, for any number of      *)
(* requests that overlap.                                                  *)
THEOREM AnswersTookEffect == Spec => []AnsweredTookEffect
<1>1. IInv => AnsweredTookEffect
  BY DEF IInv, CallInv, Seen, AnsweredTookEffect
<1> QED BY <1>1, Inductive, PTL

(* Only a deletion makes a request for a user's preferences fail, and only *)
(* a deletion or the race to create the row any other.                     *)
THEOREM FailuresDue == Spec => []FailuresAreDue
<1>1. IInv => FailuresAreDue
  BY DEF IInv, CallInv, Due, FailuresAreDue
<1> QED BY <1>1, Inductive, PTL

(* A presence that the endpoint refuses never gets into the row, however   *)
(* requests overlap.                                                       *)
THEOREM NothingInvalidStored == Spec => [](row # None => row[Checked] # Invalid)
<1>1. IInv => (row # None => row[Checked] # Invalid)
  BY FieldAssumption, ValueAssumption DEF IInv, RowInv
<1> QED BY <1>1, Inductive, PTL

(* No lost update: a field changes only to what a request that is past its *)
(* load asks for it.                                                       *)
THEOREM FieldsIndependent == Spec => FieldsAreIndependent
<1> DEFINE Asks == \A f \in Field :
             row # None /\ row' # None /\ row'[f] # row[f]
               => \E c \in Call : call[c].pc = "loaded" /\ row'[f] = call[c].body[f]
<1>1. ASSUME [Next]_vars PROVE Asks
  <2> SUFFICES ASSUME NEW f \in Field, row # None, row' # None, row'[f] # row[f]
               PROVE  \E c \in Call : call[c].pc = "loaded" /\ row'[f] = call[c].body[f]
    OBVIOUS
  <2>1. PICK c \in Call : Insert(c) \/ Update(c)
    BY <1>1 DEF Next, vars, Delete, Request, Load, InsertRaises, ReadBack, Get, Refuse, Answer
  <2>2. Update(c) /\ row' = Updated(c)
    BY <2>1 DEF Insert, Update, Store
  <2> QED
    BY <2>2 DEF Update, Updated, Changed, Asked
<1>2. [Next]_vars => [Asks]_vars
  BY <1>1
<1> QED
  BY <1>2, PTL DEF Spec, FieldsAreIndependent

=============================================================================
