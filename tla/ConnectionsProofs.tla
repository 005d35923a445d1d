--------------------------- MODULE ConnectionsProofs ---------------------------
(***************************************************************************)
(* Proofs about Connections.tla, for any number of sockets and faults:     *)
(* its invariants, and that it implements Link.tla.                        *)
(***************************************************************************)
EXTENDS Connections, FiniteSetTheorems, TLAPS

Served == {"accepted", "keyed", "absent", "present", "marked", "serving"}

(* Sockets are opened in order, and the client's is on its way in or       *)
(* served.                                                                 *)
ClientInv ==
  /\ \A s \in Socket : s > opened => pc[s] = "none"
  /\ client # 0 => pc[client] \in Served \cup {"arriving"}

(* The socket that is registered has a handler that is to pop it, or has   *)
(* failed.                                                                 *)
EntryInv == registered # 0 => pc[registered] \in Served \cup {"failed"}

(* The Redis key ws:device is there only if a handler has yet to delete    *)
(* it, or has failed.                                                      *)
KeyInv ==
  wskey => \E s \in Socket :
    pc[s] \in {"keyed", "absent", "present", "marked", "serving", "popped", "failed"}

IInv == TypeOK /\ ClientInv /\ KeyInv /\ EntryInv

-----------------------------------------------------------------------------
LEMMA InitIInv == Init => IInv
<1> SUFFICES ASSUME Init PROVE IInv
  OBVIOUS
<1>1. TypeOK
  <2>1. wskey \in BOOLEAN
    BY Zenon DEF Init
  <2>2. pc \in [Socket -> HandlerStates]
    BY DEF Init, HandlerStates
  <2> QED
    BY <2>1, <2>2, SocketsAssumption, FaultsAssumption DEF Init, TypeOK
<1>2. ClientInv /\ KeyInv /\ EntryInv
  BY DEF Init, ClientInv, KeyInv, EntryInv
<1> QED
  BY <1>1, <1>2 DEF IInv

(* The client and Redis in their own time, and a restart. *)
LEMMA OutsideIInv ==
  ASSUME IInv, Open \/ Drop \/ Observe \/ ActivityExpires \/ KeyExpires \/ Restart
  PROVE  IInv'
<1>1. CASE Open
  <2>1. /\ opened \in Nat /\ opened + 1 \in Socket /\ pc[opened + 1] = "none"
        /\ client' = opened + 1 /\ opened' = opened + 1
        /\ pc' = [pc EXCEPT ![opened + 1] = "arriving"]
        /\ UNCHANGED <<registered, wskey, activity, faults>>
    BY <1>1, SocketsAssumption DEF Open, IInv, TypeOK, ClientInv, Socket
  <2>2. TypeOK'
    BY <2>1, SocketsAssumption DEF IInv, TypeOK, HandlerStates, Socket
  <2>3. ClientInv'
    BY <2>1 DEF IInv, TypeOK, ClientInv, Socket
  <2>4. KeyInv'
    BY <2>1 DEF IInv, TypeOK, KeyInv
  <2>5. EntryInv'
    BY <2>1, SocketsAssumption DEF IInv, TypeOK, EntryInv, Served, Socket
  <2> QED
    BY <2>2, <2>3, <2>4, <2>5 DEF IInv
<1>2. CASE Drop \/ Observe \/ ActivityExpires \/ KeyExpires
  <2>1. /\ client' \in {0, client} /\ activity' \in {"none", "observed", activity}
        /\ UNCHANGED <<opened, pc, registered, faults>>
    BY <1>2 DEF Drop, Observe, ActivityExpires, KeyExpires
  <2>5. wskey' \in BOOLEAN /\ (wskey' => wskey)
    <3>1. CASE Drop \/ Observe \/ ActivityExpires
      <4>1. wskey' = wskey
        BY <3>1 DEF Drop, Observe, ActivityExpires
      <4> QED
        BY <4>1, Zenon DEF IInv, TypeOK
    <3>2. CASE KeyExpires
      BY <3>2, Zenon DEF KeyExpires
    <3> QED
      BY <1>2, <3>1, <3>2
  <2>2. TypeOK'
    BY <2>1, <2>5, SocketsAssumption DEF IInv, TypeOK
  <2>3. ClientInv'
    BY <2>1 DEF IInv, ClientInv
  <2>4. KeyInv' /\ EntryInv'
    BY <2>1, <2>5 DEF IInv, KeyInv, EntryInv
  <2> QED
    BY <2>2, <2>3, <2>4 DEF IInv
<1>3. CASE Restart
  <2>1. /\ client' = 0 /\ registered' = 0 /\ UNCHANGED <<opened, wskey, activity>>
        /\ pc' = [s \in Socket |-> IF pc[s] \in {"none", "ended"} THEN pc[s] ELSE "failed"]
        /\ faults' \in 0..MaxFaults
    BY <1>3, FaultsAssumption DEF Restart, Fault, IInv, TypeOK
  <2>2. TypeOK'
    BY <2>1, SocketsAssumption DEF IInv, TypeOK, HandlerStates
  <2>3. ClientInv' /\ EntryInv'
    BY <2>1 DEF IInv, ClientInv, EntryInv
  <2>4. KeyInv'
    BY <2>1 DEF IInv, KeyInv
  <2> QED
    BY <2>2, <2>3, <2>4 DEF IInv
<1> QED
  BY <1>1, <1>2, <1>3

(* A step of a handler: the entry and the key follow where it gets to.     *)
LEMMA HandlerStep ==
  ASSUME IInv, NEW s \in Socket, NEW to \in HandlerStates,
         pc[s] # "none", to # "none", pc[s] # "failed", pc' = [pc EXCEPT ![s] = to],
         opened' = opened, client' \in {client, Closed(s)},
         registered' \in {registered, s, 0}, wskey' \in BOOLEAN,
         activity' \in {"none", "baseline", "observed"}, faults' \in 0..MaxFaults,
         client' = s => to \in Served \cup {"arriving"},
         registered' = s => to \in Served \cup {"failed"},
         wskey' => /\ to \in {"keyed", "absent", "present", "marked", "serving", "popped", "failed"}
                   \/ /\ wskey
                      /\ pc[s] \notin {"keyed", "absent", "present", "marked", "serving", "popped"}
  PROVE  IInv'
<1>1. s # 0 /\ pc'[s] = to /\ \A r \in Socket \ {s} : pc'[r] = pc[r]
  BY SocketsAssumption DEF IInv, TypeOK, Socket
<1>2. TypeOK'
  BY SocketsAssumption DEF IInv, TypeOK, Socket, Closed
<1>3. ClientInv'
  <2>1. ASSUME NEW r \in Socket, r > opened PROVE pc'[r] = "none"
    BY <1>1, <2>1 DEF IInv, ClientInv
  <2>2. ASSUME client' # 0 PROVE pc'[client'] \in Served \cup {"arriving"}
    <3>1. CASE client' = s
      BY <1>1, <3>1
    <3>2. CASE client' # s
      BY <1>1, <2>2, <3>2 DEF IInv, TypeOK, ClientInv, Closed, Socket
    <3> QED
      BY <3>1, <3>2
  <2> QED
    BY <2>1, <2>2 DEF ClientInv
<1>4. KeyInv'
  BY <1>1 DEF IInv, KeyInv
<1>5. EntryInv'
  <2>1. CASE registered' = s
    BY <1>1, <2>1 DEF EntryInv
  <2>2. CASE registered' # s
    BY <1>1, <2>2 DEF IInv, TypeOK, EntryInv, Socket
  <2> QED
    BY <2>1, <2>2
<1> QED
  BY <1>2, <1>3, <1>4, <1>5 DEF IInv

(* Every step of a handler, up to the end or into a failure. *)
LEMMA HandleIInv ==
  ASSUME IInv, NEW s \in Socket, Handle(s)
  PROVE  IInv'
<1>0. /\ client \in 0..Sockets /\ registered \in 0..Sockets /\ s # 0
      /\ pc \in [Socket -> HandlerStates] /\ wskey \in BOOLEAN
      /\ activity \in {"none", "baseline", "observed"} /\ faults \in 0..MaxFaults
  BY SocketsAssumption DEF IInv, TypeOK, Socket
<1>a. client = s => pc[s] \in Served \cup {"arriving"}
  BY <1>0 DEF IInv, ClientInv
<1>b. registered = s => pc[s] \in Served \cup {"failed"}
  BY <1>0 DEF IInv, EntryInv
<1>1. CASE Refuse(s)
  BY <1>0, <1>1, <1>b, HandlerStep DEF Refuse, Goto, HandlerStates, Served, Closed
<1>2. CASE Accept(s)
  BY <1>0, <1>2, HandlerStep DEF Accept, Goto, HandlerStates, Served
<1>3. CASE SetKey(s)
  BY <1>0, <1>3, HandlerStep DEF SetKey, Goto, HandlerStates, Served
<1>4. CASE MarkOnlineLooks(s)
  BY <1>0, <1>4, HandlerStep DEF MarkOnlineLooks, Goto, HandlerStates, Served
<1>5. CASE MarkOnlineWrites(s)
  BY <1>0, <1>5, HandlerStep DEF MarkOnlineWrites, Goto, HandlerStates, Served
<1>6. CASE EnterLoop(s)
  BY <1>0, <1>6, HandlerStep DEF EnterLoop, Goto, HandlerStates, Served
<1>7. CASE Leave(s)
  BY <1>0, <1>7, HandlerStep DEF Leave, Pop, Goto, HandlerStates, Served
<1>8. CASE DeleteKey(s)
  BY <1>0, <1>8, <1>a, <1>b, HandlerStep DEF DeleteKey, Goto, HandlerStates, Served
<1>9. CASE MarkOffline(s)
  BY <1>0, <1>9, <1>a, <1>b, HandlerStep DEF MarkOffline, Goto, HandlerStates, Served
<1> QED
  BY <1>1, <1>2, <1>3, <1>4, <1>5, <1>6, <1>7, <1>8, <1>9 DEF Handle

LEMMA FailsIInv ==
  ASSUME IInv, NEW s \in Socket, Fails(s)
  PROVE  IInv'
<1>0. /\ client \in 0..Sockets /\ registered \in 0..Sockets /\ s # 0
      /\ pc \in [Socket -> HandlerStates] /\ wskey \in BOOLEAN
      /\ activity \in {"none", "baseline", "observed"} /\ faults \in 0..MaxFaults
  BY SocketsAssumption DEF IInv, TypeOK, Socket
<1>a. client = s => pc[s] \in Served \cup {"arriving"}
  BY <1>0 DEF IInv, ClientInv
<1>b. Fault => faults' \in 0..MaxFaults
  BY <1>0, FaultsAssumption DEF Fault
<1>1. CASE SetupRaises(s)
  BY <1>0, <1>1, <1>b, HandlerStep
     DEF SetupRaises, InSetup, Closed, HandlerStates, Served
<1>2. CASE HandlerRaises(s)
  BY <1>0, <1>2, <1>b, HandlerStep
     DEF HandlerRaises, Pop, Goto, Closed, HandlerStates, Served
<1>3. CASE CleanupRaises(s)
  BY <1>0, <1>3, <1>a, <1>b, HandlerStep DEF CleanupRaises, HandlerStates, Served
<1> QED
  BY <1>1, <1>2, <1>3 DEF Fails

LEMMA StepIInv == IInv /\ [Next]_vars => IInv'
<1> SUFFICES ASSUME IInv, [Next]_vars PROVE IInv'
  OBVIOUS
<1>1. CASE UNCHANGED vars
  BY <1>1 DEF vars, IInv, TypeOK, ClientInv, KeyInv, EntryInv
<1>2. ASSUME NEW s \in Socket, Handle(s) \/ Fails(s) PROVE IInv'
  BY <1>2, HandleIInv, FailsIInv
<1> QED
  BY <1>1, <1>2, OutsideIInv DEF Next

-----------------------------------------------------------------------------
(* Whatever the sockets and handlers do, and in whatever order: the types, *)
(* the life of a socket, the entry and the key's handler.                  *)
THEOREM Inductive == Spec => []IInv
BY InitIInv, StepIInv, PTL DEF Spec

(* The variables keep to their values. *)
THEOREM TypeCorrect == Spec => []TypeOK
<1>1. IInv => TypeOK
  BY DEF IInv
<1> QED
  BY <1>1, Inductive, PTL

(* The registry never holds a socket whose handler has cleaned up.         *)
THEOREM RegisteredServed == Spec => []RegisteredIsServed
<1>1. IInv => RegisteredIsServed
  BY DEF IInv, EntryInv, RegisteredIsServed, Serving, InSetup, Served
<1> QED
  BY <1>1, Inductive, PTL

(* When the handlers of all sockets have run to their ends, neither the    *)
(* entry nor the Redis key is left.                                        *)
THEOREM NothingIsLeaked == Spec => []NothingLeaks
<1>1. IInv => NothingLeaks
  <2> SUFFICES ASSUME IInv, \A s \in Socket : pc[s] \in {"none", "arriving", "ended"}
               PROVE  registered = 0 /\ ~wskey
    BY DEF NothingLeaks
  <2>1. registered = 0
    BY SocketsAssumption DEF IInv, TypeOK, EntryInv, Served, Socket
  <2>2. ~wskey
    BY DEF IInv, KeyInv
  <2> QED
    BY <2>1, <2>2
<1> QED
  BY <1>1, Inductive, PTL

-----------------------------------------------------------------------------
(* The refinement.  Link.tla's state is read off the entry, whether the    *)
(* client is served, and how many handlers serve.                          *)
Live == {s \in Socket : Serving(s)}
Count == Cardinality(Live)
Up == client # 0 /\ Serving(client)

LEMMA CountIsNat == SocketsAssumption => IsFiniteSet(Live) /\ Count \in Nat
<1> SUFFICES ASSUME SocketsAssumption PROVE IsFiniteSet(Live) /\ Count \in Nat
  OBVIOUS
<1>1. IsFiniteSet(Socket)
  BY FS_Interval DEF SocketsAssumption, Socket
<1>2. IsFiniteSet(Live)
  BY <1>1, FS_Subset DEF Live
<1> QED
  BY <1>2, FS_CardinalityType DEF Count

(* The step of one handler changes the count by whether it serves.         *)
LEMMA CountSteps ==
  ASSUME TypeOK, NEW s \in Socket, NEW to \in HandlerStates, pc' = [pc EXCEPT ![s] = to]
  PROVE  /\ (Serving(s) <=> to \in Served) => Count' = Count
         /\ (~Serving(s) /\ to \in Served) => Count' = Count + 1
         /\ (Serving(s) /\ to \notin Served) => Count' = Count - 1
<1>1. pc'[s] = to /\ \A r \in Socket \ {s} : pc'[r] = pc[r]
  BY DEF TypeOK
<1>2. IsFiniteSet(Live) /\ Count \in Nat
  BY CountIsNat, SocketsAssumption
<1>3. Live' = IF to \in Served THEN Live \cup {s} ELSE Live \ {s}
  BY <1>1 DEF Live, Serving, InSetup, Served
<1>4. s \in Live <=> Serving(s)
  BY DEF Live
<1>5. CASE Serving(s) <=> to \in Served
  <2>1. Live' = Live
    BY <1>3, <1>4, <1>5
  <2> QED
    BY <2>1, <1>5 DEF Count
<1>6. CASE ~Serving(s) /\ to \in Served
  BY <1>2, <1>3, <1>4, <1>6, FS_AddElement DEF Count
<1>7. CASE Serving(s) /\ to \notin Served
  BY <1>2, <1>3, <1>4, <1>7, FS_RemoveElement DEF Count
<1> QED
  BY <1>5, <1>6, <1>7

(* A serving handler that is not the client's is an orphan. *)
LEMMA CountAtLeast ==
  ASSUME TypeOK, NEW s \in Socket, Serving(s)
  PROVE  /\ Count > 0
         /\ client # s => Count - (IF Up THEN 1 ELSE 0) > 0
<1>1. IsFiniteSet(Live) /\ Count \in Nat
  BY CountIsNat, SocketsAssumption
<1>2. /\ IsFiniteSet(Live \ {s}) /\ Cardinality(Live \ {s}) = Count - 1
      /\ Cardinality(Live \ {s}) \in Nat
  <2>1. s \in Live
    BY DEF Live
  <2>2. IsFiniteSet(Live \ {s}) /\ Cardinality(Live \ {s}) = Count - 1
    BY <1>1, <2>1, FS_RemoveElement DEF Count
  <2> QED
    BY <2>2, FS_CardinalityType
<1>3. ASSUME client # s, Up PROVE Count - 1 > 0
  <2>1. client \in Live \ {s}
    BY <1>3, SocketsAssumption DEF Up, Live, TypeOK, Socket
  <2>2. Cardinality(Live \ {s}) # 0
    BY <2>1, <1>2, FS_EmptySet
  <2> QED
    BY <1>1, <1>2, <2>2
<1> QED
  BY <1>1, <1>2, <1>3

(* What Link.tla allows, said of the entry, the client and the count. *)
LEMMA LinkSteps ==
  ASSUME Count \in Nat,
         \/ (Up' <=> Up) /\ EntryState' = EntryState /\ Count' = Count
         \/ ~Up /\ Up' /\ EntryState' = "live" /\ Count' = Count + 1
         \/ (Up' <=> Up) /\ EntryState' = "dead" /\ Count' = Count + 1
         \/ /\ Up /\ ~Up' /\ Count' = Count
            /\ EntryState' = IF EntryState = "live" THEN "dead" ELSE EntryState
         \/ /\ Count - (IF Up THEN 1 ELSE 0) > 0
            /\ (Up' <=> Up) /\ EntryState' = "none" /\ Count' = Count - 1
         \/ Up /\ Count > 0 /\ ~Up' /\ EntryState' = "none" /\ Count' = Count - 1
         \/ /\ Count > 0 /\ Up /\ ~Up' /\ Count' = Count - 1
            /\ EntryState' = IF EntryState = "live" THEN "dead" ELSE EntryState
         \/ /\ Count > 0 /\ Count - (IF Up THEN 1 ELSE 0) > 0
            /\ (Up' <=> Up) /\ EntryState' = EntryState /\ Count' = Count - 1
         \/ ~Up' /\ EntryState' = "none" /\ Count' = 0
  PROVE  [L!Next]_(L!vars)
<1> DEFINE d == "device"
<1>1. CASE (Up' <=> Up) /\ EntryState' = EntryState /\ Count' = Count
  BY <1>1 DEF L!vars, Up, Count, Live
<1>2. CASE ~Up /\ Up' /\ EntryState' = "live" /\ Count' = Count + 1
  <2>1. L!Connect(d)
    BY <1>2 DEF L!Connect, Up, Count, Live
  <2> QED
    BY <2>1 DEF L!Next
<1>3. CASE (Up' <=> Up) /\ EntryState' = "dead" /\ Count' = Count + 1
  <2>1. L!ConnectGone(d)
    BY <1>3 DEF L!ConnectGone, Up, Count, Live
  <2> QED
    BY <2>1 DEF L!Next
<1>4. CASE /\ Up /\ ~Up' /\ Count' = Count
           /\ EntryState' = IF EntryState = "live" THEN "dead" ELSE EntryState
  <2>1. L!PeerGone(d)
    BY <1>4 DEF L!PeerGone, L!Severed, Up, Count, Live
  <2> QED
    BY <2>1 DEF L!Next
<1>5. CASE /\ Count - (IF Up THEN 1 ELSE 0) > 0
           /\ (Up' <=> Up) /\ EntryState' = "none" /\ Count' = Count - 1
  <2>1. L!HandlerExits(d)
    BY <1>5 DEF L!HandlerExits, L!Orphans, Up, Count, Live
  <2> QED
    BY <2>1 DEF L!Next
<1>6. CASE Up /\ Count > 0 /\ ~Up' /\ EntryState' = "none" /\ Count' = Count - 1
  <2>1. L!HandlerRaises(d)
    BY <1>6 DEF L!HandlerRaises, Up, Count, Live
  <2> QED
    BY <2>1 DEF L!Next
<1>7. CASE /\ Count > 0 /\ Up /\ ~Up' /\ Count' = Count - 1
           /\ EntryState' = IF EntryState = "live" THEN "dead" ELSE EntryState
  <2>1. L!SetupRaises(d)
    BY <1>7 DEF L!SetupRaises, L!Severed, Up, Count, Live
  <2> QED
    BY <2>1 DEF L!Next
<1>8. CASE /\ Count > 0 /\ Count - (IF Up THEN 1 ELSE 0) > 0
           /\ (Up' <=> Up) /\ EntryState' = EntryState /\ Count' = Count - 1
  <2>1. L!SetupRaises(d)
    BY <1>8 DEF L!SetupRaises, L!Orphans, Up, Count, Live
  <2> QED
    BY <2>1 DEF L!Next
<1>9. CASE ~Up' /\ EntryState' = "none" /\ Count' = 0
  <2>1. L!Restart
    BY <1>9 DEF L!Restart, Up, Count, Live
  <2> QED
    BY <2>1 DEF L!Next
<1> QED
  BY <1>1, <1>2, <1>3, <1>4, <1>5, <1>6, <1>7, <1>8, <1>9

LEMMA OutsideImplements ==
  ASSUME IInv, Open \/ Drop \/ Observe \/ ActivityExpires \/ KeyExpires \/ Restart
  PROVE  [L!Next]_(L!vars)
<1>0. /\ TypeOK /\ Count \in Nat /\ client \in 0..Sockets /\ registered \in 0..Sockets
      /\ opened \in 0..Sockets
  BY CountIsNat, SocketsAssumption DEF IInv, TypeOK
<1>a. client # 0 => client \in Socket /\ (~Serving(client) => pc[client] = "arriving")
  BY <1>0 DEF IInv, ClientInv, Serving, InSetup, Served, Socket
<1>b. registered # 0 => registered \in Socket /\ pc[registered] \in Served \cup {"failed"}
  BY <1>0 DEF IInv, EntryInv, Socket
<1>1. CASE Open
  <2>1. /\ opened + 1 \in Socket /\ opened + 1 # 0 /\ client = 0 /\ client' = opened + 1
        /\ pc' = [pc EXCEPT ![opened + 1] = "arriving"] /\ registered' = registered
        /\ pc[opened + 1] = "none"
    BY <1>0, <1>1, SocketsAssumption DEF Open, IInv, ClientInv, Socket
  <2>2. Count' = Count
    BY <1>0, <2>1, CountSteps DEF Serving, InSetup, Served, HandlerStates
  <2>3. ~Up /\ ~Up'
    BY <1>0, <2>1 DEF Up, Serving, InSetup, TypeOK
  <2>4. EntryState' = EntryState
    BY <1>b, <2>1 DEF EntryState, Served
  <2> QED
    BY <1>0, <2>2, <2>3, <2>4, LinkSteps
<1>2. CASE Drop
  <2>1. /\ client # 0 /\ client' = 0 /\ pc' = pc /\ registered' = registered
    BY <1>2 DEF Drop
  <2>2. Count' = Count /\ ~Up'
    BY <2>1 DEF Count, Live, Serving, InSetup, Up
  <2>3. CASE Up
    <3>1. EntryState' = IF EntryState = "live" THEN "dead" ELSE EntryState
      BY <2>1 DEF EntryState
    <3> QED
      BY <1>0, <2>2, <2>3, <3>1, LinkSteps
  <2>4. CASE ~Up
    <3>1. EntryState' = EntryState
      BY <1>a, <1>b, <2>1, <2>4 DEF EntryState, Up, Served
    <3> QED
      BY <1>0, <2>2, <2>4, <3>1, LinkSteps
  <2> QED
    BY <2>3, <2>4
<1>3. CASE Observe \/ ActivityExpires \/ KeyExpires
  <2>1. UNCHANGED <<client, pc, registered>>
    BY <1>3 DEF Observe, ActivityExpires, KeyExpires
  <2>2. (Up' <=> Up) /\ EntryState' = EntryState /\ Count' = Count
    BY <2>1 DEF Count, Live, Serving, InSetup, Up, EntryState
  <2> QED
    BY <1>0, <2>2, LinkSteps
<1>4. CASE Restart
  <2>1. /\ client' = 0 /\ registered' = 0
        /\ pc' = [s \in Socket |-> IF pc[s] \in {"none", "ended"} THEN pc[s] ELSE "failed"]
    BY <1>4 DEF Restart
  <2>2. ~Up' /\ EntryState' = "none"
    BY <2>1 DEF Up, EntryState
  <2>3. Live' = {}
    BY <2>1 DEF Live, Serving, InSetup
  <2>4. Count' = 0
    BY <2>3, FS_EmptySet DEF Count
  <2> QED
    BY <1>0, <2>2, <2>4, LinkSteps
<1> QED
  BY <1>1, <1>2, <1>3, <1>4

(* A handler's step is Link's Connect, ConnectGone or HandlerExits, or, in *)
(* the set-up and the clean-up of Redis, none.                             *)
LEMMA HandleImplements ==
  ASSUME IInv, NEW s \in Socket, Handle(s)
  PROVE  [L!Next]_(L!vars)
<1>0. /\ TypeOK /\ Count \in Nat /\ client \in 0..Sockets /\ registered \in 0..Sockets
      /\ pc \in [Socket -> HandlerStates] /\ s # 0
  BY CountIsNat, SocketsAssumption DEF IInv, TypeOK, Socket
<1>a. client # 0 => client \in Socket /\ (~Serving(client) => pc[client] = "arriving")
  BY <1>0 DEF IInv, ClientInv, Serving, InSetup, Served, Socket
<1>b. registered # 0 => registered \in Socket /\ pc[registered] \in Served \cup {"failed"}
  BY <1>0 DEF IInv, EntryInv, Socket
<1>1. CASE Refuse(s)
  <2>1. /\ pc[s] = "arriving" /\ pc' = [pc EXCEPT ![s] = "ended"]
        /\ client' = Closed(s) /\ registered' = registered
    BY <1>1 DEF Refuse, Goto
  <2>2. Count' = Count
    BY <1>0, <2>1, CountSteps DEF Serving, InSetup, Served, HandlerStates
  <2>3. Up' <=> Up
    BY <1>0, <1>a, <2>1 DEF Up, Closed, Serving, InSetup
  <2>4. EntryState' = EntryState
    BY <1>b, <2>1 DEF EntryState, Closed, Served
  <2> QED
    BY <1>0, <2>2, <2>3, <2>4, LinkSteps
<1>2. CASE Accept(s)
  <2>1. /\ pc[s] = "arriving" /\ pc' = [pc EXCEPT ![s] = "accepted"]
        /\ client' = client /\ registered' = s
    BY <1>2 DEF Accept, Goto
  <2>2. Count' = Count + 1
    BY <1>0, <2>1, CountSteps DEF Serving, InSetup, Served, HandlerStates
  <2>3. CASE client = s
    <3>1. ~Up /\ Up' /\ EntryState' = "live"
      BY <1>0, <2>1, <2>3 DEF Up, EntryState, Serving, InSetup
    <3> QED
      BY <1>0, <2>2, <3>1, LinkSteps
  <2>4. CASE client # s
    <3>1. (Up' <=> Up) /\ EntryState' = "dead"
      BY <1>0, <1>a, <2>1, <2>4 DEF Up, EntryState, Serving, InSetup
    <3> QED
      BY <1>0, <2>2, <3>1, LinkSteps
  <2> QED
    BY <2>3, <2>4
<1>3. CASE SetKey(s) \/ MarkOnlineLooks(s) \/ MarkOnlineWrites(s) \/ EnterLoop(s)
  <2>1. PICK to \in Served : /\ pc[s] \in Served /\ pc' = [pc EXCEPT ![s] = to]
                             /\ client' = client /\ registered' = registered
    BY <1>3 DEF SetKey, MarkOnlineLooks, MarkOnlineWrites, EnterLoop, Goto, Served
  <2>2. Count' = Count
    BY <1>0, <2>1, CountSteps DEF Serving, InSetup, Served, HandlerStates
  <2>3. (Up' <=> Up) /\ EntryState' = EntryState
    BY <1>0, <1>a, <2>1 DEF Up, EntryState, Serving, InSetup, Served
  <2> QED
    BY <1>0, <2>2, <2>3, LinkSteps
<1>4. CASE Leave(s)
  <2>1. /\ pc[s] = "serving" /\ pc' = [pc EXCEPT ![s] = "popped"]
        /\ client # s /\ client' = client /\ registered' = 0
    BY <1>4 DEF Leave, Goto, Pop
  <2>2. Count' = Count - 1
    BY <1>0, <2>1, CountSteps DEF Serving, InSetup, Served, HandlerStates
  <2>3. (Up' <=> Up) /\ EntryState' = "none"
    BY <1>0, <1>a, <2>1 DEF Up, EntryState, Serving, InSetup
  <2>4. Count - (IF Up THEN 1 ELSE 0) > 0
    BY <1>0, <2>1, CountAtLeast DEF Serving
  <2> QED
    BY <1>0, <2>2, <2>3, <2>4, LinkSteps
<1>5. CASE DeleteKey(s) \/ MarkOffline(s)
  <2>1. PICK to \in {"unkeyed", "ended"} :
          /\ pc[s] \in {"popped", "unkeyed"} /\ pc' = [pc EXCEPT ![s] = to]
          /\ client' = client /\ registered' = registered
    BY <1>5 DEF DeleteKey, MarkOffline, Goto
  <2>2. Count' = Count
    BY <1>0, <2>1, CountSteps DEF Serving, InSetup, Served, HandlerStates
  <2>3. (Up' <=> Up) /\ EntryState' = EntryState
    BY <1>0, <1>a, <2>1 DEF Up, EntryState, Serving, InSetup
  <2> QED
    BY <1>0, <2>2, <2>3, LinkSteps
<1> QED
  BY <1>1, <1>2, <1>3, <1>4, <1>5 DEF Handle

LEMMA FailsImplements ==
  ASSUME IInv, NEW s \in Socket, Fails(s)
  PROVE  [L!Next]_(L!vars)
<1>0. /\ TypeOK /\ Count \in Nat /\ client \in 0..Sockets /\ registered \in 0..Sockets
      /\ pc \in [Socket -> HandlerStates] /\ s # 0
  BY CountIsNat, SocketsAssumption DEF IInv, TypeOK, Socket
<1>a. client # 0 => client \in Socket
  BY <1>0 DEF Socket
<1>1. CASE SetupRaises(s)
  <2>1. /\ InSetup(s) /\ pc' = [pc EXCEPT ![s] = "failed"]
        /\ client' = Closed(s) /\ registered' = registered
    BY <1>1 DEF SetupRaises
  <2>2. Count' = Count - 1
    BY <1>0, <2>1, CountSteps DEF Serving, Served, HandlerStates
  <2>3. Count > 0 /\ (client # s => Count - (IF Up THEN 1 ELSE 0) > 0)
    BY <1>0, <2>1, CountAtLeast DEF Serving
  <2>4. CASE client = s
    <3>1. Up /\ ~Up'
      BY <1>0, <2>1, <2>4 DEF Up, Closed, Serving
    <3>2. EntryState' = IF EntryState = "live" THEN "dead" ELSE EntryState
      BY <1>0, <2>1, <2>4 DEF EntryState, Closed
    <3> QED
      BY <1>0, <2>2, <2>3, <3>1, <3>2, LinkSteps
  <2>5. CASE client # s
    <3>1. (Up' <=> Up) /\ EntryState' = EntryState
      BY <1>0, <1>a, <2>1, <2>5 DEF Up, EntryState, Closed, Serving, InSetup
    <3> QED
      BY <1>0, <2>2, <2>3, <2>5, <3>1, LinkSteps
  <2> QED
    BY <2>4, <2>5
<1>2. CASE HandlerRaises(s)
  <2>1. /\ pc[s] = "serving" /\ pc' = [pc EXCEPT ![s] = "popped"]
        /\ client' = Closed(s) /\ registered' = 0
    BY <1>2 DEF HandlerRaises, Goto, Pop
  <2>2. Count' = Count - 1
    BY <1>0, <2>1, CountSteps DEF Serving, InSetup, Served, HandlerStates
  <2>3. Count > 0 /\ (client # s => Count - (IF Up THEN 1 ELSE 0) > 0)
    BY <1>0, <2>1, CountAtLeast DEF Serving
  <2>4. EntryState' = "none"
    BY <2>1 DEF EntryState
  <2>5. CASE client = s
    <3>1. Up /\ ~Up'
      BY <1>0, <2>1, <2>5 DEF Up, Closed, Serving
    <3> QED
      BY <1>0, <2>2, <2>3, <2>4, <3>1, LinkSteps
  <2>6. CASE client # s
    <3>1. Up' <=> Up
      BY <1>0, <1>a, <2>1, <2>6 DEF Up, Closed, Serving, InSetup
    <3> QED
      BY <1>0, <2>2, <2>3, <2>4, <2>6, <3>1, LinkSteps
  <2> QED
    BY <2>5, <2>6
<1>3. CASE CleanupRaises(s)
  <2>1. /\ pc[s] \in {"popped", "unkeyed"} /\ pc' = [pc EXCEPT ![s] = "failed"]
        /\ client' = client /\ registered' = registered
    BY <1>3 DEF CleanupRaises
  <2>2. Count' = Count
    BY <1>0, <2>1, CountSteps DEF Serving, InSetup, Served, HandlerStates
  <2>3. (Up' <=> Up) /\ EntryState' = EntryState
    BY <1>0, <1>a, <2>1 DEF Up, EntryState, Serving, InSetup
  <2> QED
    BY <1>0, <2>2, <2>3, LinkSteps
<1> QED
  BY <1>1, <1>2, <1>3 DEF Fails

(* Accepting, losing and cleaning up sockets, in any overlap and in any    *)
(* number, is what Link.tla says.                                          *)
THEOREM Refinement == Spec => ImplementsLink
<1>1. Init => L!Init
  <2> SUFFICES ASSUME Init PROVE L!Init
    OBVIOUS
  <2>1. client = 0 /\ registered = 0
    BY DEF Init
  <2>2. Live = {}
    BY DEF Init, Live, Serving, InSetup
  <2>3. Count = 0
    BY <2>2, FS_EmptySet DEF Count
  <2>4. Cardinality({s \in Socket : Serving(s)}) = 0
    BY <2>3 DEF Count, Live
  <2> QED
    BY <2>1, <2>4 DEF L!Init, EntryState
<1>2. IInv /\ [Next]_vars => [L!Next]_(L!vars)
  <2> SUFFICES ASSUME IInv, [Next]_vars PROVE [L!Next]_(L!vars)
    OBVIOUS
  <2>1. CASE UNCHANGED vars
    BY <2>1 DEF vars, L!vars, EntryState, Serving, InSetup
  <2>2. ASSUME NEW s \in Socket, Handle(s) \/ Fails(s) PROVE [L!Next]_(L!vars)
    BY <2>2, HandleImplements, FailsImplements
  <2> QED
    BY <2>1, <2>2, OutsideImplements DEF Next
<1> QED
  BY <1>1, <1>2, Inductive, PTL DEF Spec, ImplementsLink, L!Spec

=============================================================================
