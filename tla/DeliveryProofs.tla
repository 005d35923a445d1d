--------------------------- MODULE DeliveryProofs ---------------------------
(***************************************************************************)
(* Proofs about Delivery.tla and Removal.tla, for every number of targets, *)
(* every ack order and any number of faults and removals: the inductive    *)
(* invariants behind the safety invariants that MCDelivery and MCRemoval   *)
(* check on small instances, and the refinement of Ledger.tla.             *)
(***************************************************************************)
EXTENDS Removal, WellFoundedInduction, TLAPS

(* The timer has pushed, or may have before it stopped. *)
EscalationPushed == timer.pc \in {"sent", "escalated", "failed", "lost"}

(* The notification, its rows and the timer appear in the order in which   *)
(* the request creates them.                                               *)
PhaseInv ==
  /\ nstatus = "none" <=> disp.pc \in {"sending", "sent", "rolledback", "killed"}
  /\ nstatus = "none" => \A k \in Device : row[k] = "none"
  /\ \A k \in Device : row[k] # "none" => k \in 1..targets
  /\ timer.pc # "off" => disp.pc = "done" /\ mode = "active_with_fallback"

(* Pushes come from the dispatch loop, and one from the timer. *)
PushInv ==
  /\ \A k \in disp.sent : k \in 1..targets /\ k < disp.i
  /\ \A a \in DOMAIN pushes :
       pushes[a] \in disp.sent \/ (EscalationPushed /\ pushes[a] = timer.nxt)
  /\ mode \notin Multi /\ disp.pc \in {"sending", "rolledback"}
       => pushes = <<>> /\ disp.sent = {}
  /\ mode \notin Multi => \A j, k \in disp.sent : j = k
  /\ mode \notin Multi => Len(pushes) <= IF EscalationPushed THEN 2 ELSE 1
  /\ \A d \in Device : told[d] > 0 => d \in 1..targets

(* What the timer picked: a device dispatch served and a later target. *)
TimerInv ==
  /\ timer.pc \in {"off", "armed"} => timer.sent = 0
  /\ timer.pc \in {"picked", "flushed", "sent", "escalated"} => timer.nxt # 0
  /\ timer.nxt # 0 => /\ timer.sent \in disp.sent
                      /\ timer.nxt \in 1..targets
                      /\ timer.sent < timer.nxt

(* How the committed rows relate to the two coroutines that write them. *)
RowInv ==
  /\ \A k \in Device : row[k] = "sent"
       => k \in disp.sent \/ (timer.pc = "escalated" /\ k = timer.nxt)
  /\ nstatus = "routed" => disp.sent = {}
  /\ nstatus # "none" => \A k \in disp.sent : row[k] # "routed"
  /\ \A k \in Device : row[k] = "fallback_cancelled"
       => timer.pc = "escalated" /\ k = timer.sent
  /\ timer.pc = "escalated"
       => row[timer.nxt] # "routed" /\ row[timer.sent] # "sent"
  /\ timer.pc = "failed" /\ Pushed(timer.nxt) => row[timer.nxt] # "routed"

(* An ack is applied after the commit, with a status a client may send. *)
AckInv ==
  \A d \in Device :
    handler[d].pc # "idle" => handler[d].status \in AckStatuses /\ nstatus # "none"

(* What holds whether or not rows are deleted meanwhile ... *)
CoreInv ==
  TypeOK /\ PhaseInv /\ PushInv /\ PushesInPlanOrder /\ TimerInv /\ RowInv /\ AckInv

(* ... and what holds as long as none is. *)
RowsStay ==
  /\ nstatus # "none" => \A k \in Device : k \in 1..targets => row[k] # "none"
  /\ \A d \in Device : handler[d].pc # "idle" => row[d] # "none"

IInv == CoreInv /\ RowsStay

-----------------------------------------------------------------------------
(* Type correctness *)

(* dispatch starts with variables of their types.                          *)
LEMMA InitType == Init => TypeOK
<1> SUFFICES ASSUME Init PROVE TypeOK
  OBVIOUS
<1> QED
  BY NAssumption, FaultsAssumption
  DEF Init, L!Init, TypeOK, Device, NoAck, HandlerType, RowStatuses, LifecycleStatuses,
      LifecycleRank, DispatchStates, TimerStates

(* Every step of dispatch, its commit and the scheduling of the timer      *)
(* keeps the types.                                                        *)
LEMMA DispatchType == TypeOK /\ Dispatch => TypeOK'
<1> SUFFICES ASSUME TypeOK, Dispatch PROVE TypeOK'
  OBVIOUS
<1> USE NAssumption DEF TypeOK, plan, conns, clients, db, DispatchStates
<1>1. CASE DispatchSend
  <2>1. PICK k \in Device : NextOnline(k) /\ Write(k) /\ disp' = AfterSend(k)
    BY <1>1 DEF DispatchSend
  <2>2. disp' \in [pc : DispatchStates, i : Nat, sent : SUBSET Device]
    <3>1. k \in Nat
      BY DEF Device
    <3> QED
      BY <2>1, <3>1 DEF AfterSend
  <2>3. told' \in [Device -> Nat] /\ pushes' \in Seq(Device)
    BY <2>1 DEF Write, Receive
  <2> QED
    BY <1>1, <2>2, <2>3 DEF DispatchSend
<1>2. CASE DispatchRaises
  BY <1>2 DEF DispatchRaises
<1>3. CASE DispatchLoopEnds
  BY <1>3 DEF DispatchLoopEnds
<1>4. CASE DispatchCommit
  BY <1>4 DEF DispatchCommit, CommittedRow, DispatchedStatus, RowStatuses,
              LifecycleStatuses, LifecycleRank
<1>5. CASE ScheduleFallback
  BY <1>5 DEF ScheduleFallback, TimerStates
<1>6. CASE WakeRaises
  BY <1>6 DEF WakeRaises
<1> QED
  BY <1>1, <1>2, <1>3, <1>4, <1>5, <1>6 DEF Dispatch

(* Every step of run_fallback keeps the types.                             *)
LEMMA FallbackType == TypeOK /\ Fallback => TypeOK'
<1> SUFFICES ASSUME TypeOK, Fallback PROVE TypeOK'
  OBVIOUS
<1> USE NAssumption DEF TypeOK, plan, conns, clients, db, TimerStates
<1>1. CASE FallbackPicks
  <2>1. PICK s, k \in Device : timer' = [pc |-> "picked", sent |-> s, nxt |-> k]
    BY <1>1 DEF FallbackPicks
  <2>2. s \in Nat /\ k \in Nat
    BY DEF Device
  <2> QED
    BY <1>1, <2>1, <2>2 DEF FallbackPicks
<1>2. CASE FallbackDeclines
  BY <1>2 DEF FallbackDeclines
<1>3. CASE FallbackFlush
  BY <1>3 DEF FallbackFlush
<1>4. CASE FallbackSend
  <2>1. told' \in [Device -> Nat] /\ pushes' \in Seq(Device)
    <3>1. CASE Write(timer.nxt)
      BY <3>1 DEF Write, Receive, Online
    <3>2. CASE UNCHANGED <<told, pushes>>
      BY <3>2
    <3> QED
      BY <1>4, <3>1, <3>2 DEF FallbackSend
  <2> QED
    BY <1>4, <2>1 DEF FallbackSend
<1>5. CASE FallbackRaises
  BY <1>5 DEF FallbackRaises
<1>6. CASE FallbackCommit
  BY <1>6 DEF FallbackCommit, EscalatedRows, RowStatuses
<1> QED
  BY <1>1, <1>2, <1>3, <1>4, <1>5, <1>6 DEF Fallback

(* Every step of apply_ack keeps the types: a "failed" ack never reaches   *)
(* the notification.                                                       *)
LEMMA ApplyAckType ==
  ASSUME NEW d \in Device, TypeOK, ApplyAck(d)
  PROVE  TypeOK'
<1> USE DEF TypeOK, plan, conns, clients, db
<1>1. CASE AckRead(d)
  BY <1>1 DEF AckRead, HandlerType, LifecycleStatuses, LifecycleRank
<1>2. CASE AckFlush(d)
  BY <1>2 DEF AckFlush, HandlerType
<1>3. CASE AckCommit(d)
  BY <1>3 DEF AckCommit, AckedNotification, NoAck, HandlerType, RowStatuses,
              LifecycleStatuses, LifecycleRank, AckStatuses, AckedStatuses
<1> QED
  BY <1>1, <1>2, <1>3 DEF ApplyAck

(* Clients and connections keep the types.                                 *)
LEMMA EnvironmentType ==
  ASSUME NEW d \in Device, TypeOK, Environment(d)
  PROVE  TypeOK'
<1> USE FaultsAssumption DEF TypeOK, plan, conns, clients, db
<1>1. CASE ClientAck(d)
  BY <1>1, AckAssumption DEF ClientAck
<1>2. CASE Connect(d)
  BY <1>2 DEF Connect, L!Connect
<1>3. CASE PeerGone(d)
  <2>1. wire' \in [Device -> Seq(AckStatuses)]
    <3>1. CASE UNCHANGED wire
      BY <3>1
    <3>2. CASE \E k \in 0..Len(wire[d]) : wire' = [wire EXCEPT ![d] = SubSeq(@, 1, k)]
      <4>1. PICK k \in 0..Len(wire[d]) : wire' = [wire EXCEPT ![d] = SubSeq(@, 1, k)]
        BY <3>2
      <4>2. wire[d] \in Seq(AckStatuses)
        OBVIOUS
      <4>3. SubSeq(wire[d], 1, k) \in Seq(AckStatuses)
        BY <4>2
      <4> QED
        BY <4>1, <4>3
    <3> QED
      BY <1>3, <3>1, <3>2 DEF PeerGone
  <2>2. /\ entry' \in [Device -> {"none", "live", "dead"}]
        /\ up' \in SUBSET Device /\ serving' \in [Device -> Nat]
    <3>1. CASE L!PeerGone(d)
      BY <3>1 DEF L!PeerGone, L!Severed
    <3>2. CASE L!ConnectGone(d)
      BY <3>2 DEF L!ConnectGone
    <3> QED
      BY <1>3, <3>1, <3>2 DEF PeerGone
  <2> QED
    BY <1>3, <2>1, <2>2 DEF PeerGone
<1>4. CASE HandlerExits(d)
  <2>1. serving[d] > 0
    BY <1>4 DEF HandlerExits, L!HandlerExits, L!Orphans
  <2> QED
    BY <1>4, <2>1 DEF HandlerExits, L!HandlerExits
<1>5. CASE HandlerRaises(d)
  <2>1. /\ entry' \in [Device -> {"none", "live", "dead"}]
        /\ up' \in SUBSET Device /\ serving' \in [Device -> Nat]
    <3>1. CASE L!HandlerRaises(d)
      BY <3>1 DEF L!HandlerRaises
    <3>2. CASE L!HandlerExits(d)
      BY <3>2 DEF L!HandlerExits, L!Orphans
    <3>3. CASE L!SetupRaises(d)
      <4>1. serving' \in [Device -> Nat]
        BY <3>3 DEF L!SetupRaises
      <4>2. CASE UNCHANGED <<up, entry>>
        BY <4>1, <4>2
      <4>3. CASE up' = up \ {d} /\ entry' = L!Severed(d)
        BY <4>1, <4>3 DEF L!Severed
      <4> QED
        BY <3>3, <4>2, <4>3 DEF L!SetupRaises
    <3> QED
      BY <1>5, <3>1, <3>2, <3>3 DEF HandlerRaises
  <2>2. /\ wire' \in [Device -> Seq(AckStatuses)]
        /\ handler' \in [Device -> HandlerType]
    <3>1. CASE UNCHANGED <<wire, handler>>
      BY <3>1
    <3>2. CASE wire' = [wire EXCEPT ![d] = <<>>] /\ handler' = [handler EXCEPT ![d] = NoAck]
      BY <3>2 DEF NoAck, HandlerType, RowStatuses, LifecycleStatuses, LifecycleRank
    <3> QED
      BY <1>5, <3>1, <3>2 DEF HandlerRaises
  <2> QED
    BY <1>5, <2>1, <2>2 DEF HandlerRaises
<1> QED
  BY <1>1, <1>2, <1>3, <1>4, <1>5 DEF Environment

(* A restart of the process keeps the types.                               *)
LEMMA RestartType == TypeOK /\ Restart => TypeOK'
<1> SUFFICES ASSUME TypeOK, Restart PROVE TypeOK'
  OBVIOUS
<1> USE FaultsAssumption DEF TypeOK, Restart, plan, db
<1>1. /\ handler' \in [Device -> HandlerType]
      /\ wire' \in [Device -> Seq(AckStatuses)]
  BY DEF NoAck, HandlerType, RowStatuses, LifecycleStatuses, LifecycleRank
<1>2. disp' \in [pc : DispatchStates, i : Nat, sent : SUBSET Device]
  BY DEF DispatchStates
<1>3. timer' \in [pc : TimerStates, sent : Nat, nxt : Nat]
  BY DEF TimerStates
<1> QED
  BY <1>1, <1>2, <1>3 DEF L!Restart

(* Every variable keeps to its type in every reachable state. *)
THEOREM TypeCorrect == Spec => []TypeOK
<1>1. TypeOK /\ [Next]_vars => TypeOK'
  <2> SUFFICES ASSUME TypeOK, [Next]_vars PROVE TypeOK'
    OBVIOUS
  <2>1. CASE UNCHANGED vars
    BY <2>1 DEF vars, TypeOK
  <2> QED
    BY <2>1, DispatchType, FallbackType, ApplyAckType, EnvironmentType, RestartType
    DEF Next
<1> QED
  BY <1>1, InitType, PTL DEF Spec

-----------------------------------------------------------------------------
(* The inductive invariant *)

(* The inductive invariant holds when dispatch starts.                     *)
LEMMA InitCore == Init => CoreInv
<1> SUFFICES ASSUME Init PROVE CoreInv
  OBVIOUS
<1>1. TypeOK
  BY InitType
<1>2. PhaseInv /\ PushInv /\ PushesInPlanOrder /\ TimerInv /\ RowInv /\ AckInv
  BY DEF Init, PhaseInv, PushInv, PushesInPlanOrder, TimerInv, RowInv, AckInv,
         EscalationPushed, NoAck
<1> QED
  BY <1>1, <1>2 DEF CoreInv

(* A send of the dispatch loop appends the next online device, which is    *)
(* later than all that were served.                                        *)
LEMMA DispatchSendCore == CoreInv /\ DispatchSend => CoreInv'
<1> SUFFICES ASSUME CoreInv, DispatchSend PROVE CoreInv'
  OBVIOUS
<1> USE NAssumption DEF CoreInv
<1>0. TypeOK'
  BY DispatchType DEF Dispatch
<1>1. PICK k \in Device : NextOnline(k) /\ Write(k) /\ disp' = AfterSend(k)
  BY DEF DispatchSend
<1>2. /\ k \in 1..targets /\ k >= disp.i /\ k \in Nat /\ disp.i \in Nat
      /\ pushes' = Append(pushes, k) /\ pushes \in Seq(Device)
      /\ disp'.sent = disp.sent \cup {k} /\ disp'.i = k + 1
      /\ disp'.pc \in {"sending", "sent"}
      /\ mode \notin Multi => disp'.pc = "sent"
      /\ UNCHANGED <<mode, targets, timer, handler, row, nstatus>>
  <2>1. k \in Nat /\ targets \in Nat /\ disp.i \in Nat
    BY DEF TypeOK, Device
  <2>2. k \in 1..targets /\ k >= disp.i
    <3>1. k \in disp.i..targets /\ k >= 1
      BY <1>1 DEF NextOnline, Device
    <3> QED
      BY <2>1, <3>1
  <2> QED
    BY <1>1, <2>1, <2>2 DEF DispatchSend, AfterSend, Write, TypeOK, plan, db
<1>3. disp.pc = "sending" /\ nstatus = "none" /\ timer.pc = "off"
  BY DEF DispatchSend, PhaseInv, TypeOK, TimerStates
<1>4. PhaseInv'
  BY <1>2, <1>3 DEF PhaseInv
<1>5. \A a \in DOMAIN pushes : pushes[a] < k
  BY <1>2, <1>3 DEF PushInv, EscalationPushed, TypeOK, Device
<1>6. PushInv'
  <2>1. \A j \in disp'.sent : j \in 1..targets' /\ j < disp'.i
    <3>1. \A j \in disp.sent : j \in 1..targets /\ j < disp.i
      BY DEF PushInv
    <3>2. \A j \in disp.sent : j < k + 1
      BY <1>2, <3>1
    <3> QED
      BY <1>2, <3>1, <3>2
  <2>2. \A a \in DOMAIN pushes' : pushes'[a] \in disp'.sent
    BY <1>2, <1>3 DEF PushInv, EscalationPushed
  <2>3. mode \notin Multi => pushes = <<>> /\ disp.sent = {}
    BY <1>3 DEF PushInv
  <2>4. mode' \notin Multi => Len(pushes') = 1 /\ \A i, j \in disp'.sent : i = j
    BY <1>2, <2>3
  <2>5. \A d \in Device : told'[d] > 0 => d \in 1..targets'
    BY <1>1, <1>2 DEF PushInv, Write, Receive, TypeOK
  <2>6. ~EscalationPushed'
    BY <1>2, <1>3 DEF EscalationPushed
  <2> QED
    BY <1>2, <2>1, <2>2, <2>4, <2>5, <2>6 DEF PushInv
<1>7. PushesInPlanOrder'
  <2>1. \A a \in DOMAIN pushes : pushes'[a] = pushes[a]
    BY <1>2
  <2>2. DOMAIN pushes' = 1..(Len(pushes) + 1) /\ pushes'[Len(pushes) + 1] = k
        /\ DOMAIN pushes = 1..Len(pushes) /\ Len(pushes) \in Nat
    BY <1>2
  <2> SUFFICES ASSUME NEW a \in DOMAIN pushes', NEW b \in DOMAIN pushes', a < b
               PROVE  pushes'[a] < pushes'[b]
    BY DEF PushesInPlanOrder
  <2>3. a \in DOMAIN pushes
    BY <2>2
  <2>4. CASE b \in DOMAIN pushes
    BY <2>1, <2>3, <2>4 DEF PushesInPlanOrder
  <2>5. CASE b = Len(pushes) + 1
    BY <1>5, <2>1, <2>2, <2>3, <2>5
  <2> QED
    BY <2>2, <2>4, <2>5
<1>8. TimerInv'
  BY <1>2, <1>3 DEF TimerInv
<1>9. RowInv' /\ AckInv'
  BY <1>2, <1>3 DEF RowInv, AckInv, PhaseInv, TypeOK
<1> QED
  BY <1>0, <1>4, <1>6, <1>7, <1>8, <1>9

(* The other steps of the request keep the invariant: the commit writes    *)
(* "sent" exactly for the devices pushed to, and the timer is armed with   *)
(* one push at most.                                                       *)
LEMMA DispatchCore == CoreInv /\ Dispatch => CoreInv'
<1> SUFFICES ASSUME CoreInv, Dispatch PROVE CoreInv'
  OBVIOUS
<1> USE DEF CoreInv
<1>0. TypeOK'
  BY DispatchType
<1>1. CASE DispatchSend
  BY <1>1, DispatchSendCore
<1>2. CASE DispatchRaises
  BY <1>0, <1>2 DEF DispatchRaises, PhaseInv, PushInv, PushesInPlanOrder, TimerInv, RowInv,
     AckInv, EscalationPushed, TypeOK, plan, clients, db
<1>3. CASE DispatchLoopEnds
  BY <1>0, <1>3 DEF DispatchLoopEnds, PhaseInv, PushInv, PushesInPlanOrder, TimerInv, RowInv,
     AckInv, EscalationPushed, TypeOK, plan, clients, db
<1>4. CASE DispatchCommit
  <2>1. /\ disp.pc = "sent" /\ nstatus = "none" /\ timer.pc = "off"
        /\ disp'.pc = "waking" /\ disp'.sent = disp.sent /\ disp'.i = disp.i
        /\ nstatus' \in {"sent", "routed"} /\ (nstatus' = "routed" <=> disp.sent = {})
        /\ \A k \in Device : row'[k] = CommittedRow(k)
        /\ UNCHANGED <<mode, targets, told, timer, handler, pushes>>
    BY <1>4 DEF DispatchCommit, DispatchedStatus, PhaseInv, TypeOK, TimerStates, plan, clients
  <2>2. PhaseInv'
    BY <2>1 DEF PhaseInv, CommittedRow
  <2>3. PushInv' /\ PushesInPlanOrder' /\ TimerInv'
    BY <2>1 DEF PushInv, PushesInPlanOrder, TimerInv, EscalationPushed
  <2>4. RowInv' /\ AckInv'
    BY <2>1 DEF RowInv, AckInv, CommittedRow, PhaseInv, PushInv, TypeOK
  <2> QED
    BY <1>0, <2>2, <2>3, <2>4
<1>5. CASE ScheduleFallback
  BY <1>0, <1>5 DEF ScheduleFallback, NeedsFallback, PhaseInv, PushInv, PushesInPlanOrder,
     TimerInv, RowInv, AckInv, EscalationPushed, TypeOK, plan, clients, db
<1>6. CASE WakeRaises
  BY <1>0, <1>6 DEF WakeRaises, PhaseInv, PushInv, PushesInPlanOrder, TimerInv, RowInv,
     AckInv, EscalationPushed, TypeOK, plan, clients, db
<1> QED
  BY <1>1, <1>2, <1>3, <1>4, <1>5, <1>6 DEF Dispatch

(* The pick of run_fallback finds the one pushed device not acknowledged   *)
(* and a later target not pushed to.                                       *)
LEMMA FallbackPicksCore == CoreInv /\ FallbackPicks => CoreInv'
<1> SUFFICES ASSUME CoreInv, FallbackPicks PROVE CoreInv'
  OBVIOUS
<1> USE DEF CoreInv
<1>0. TypeOK'
  BY FallbackType DEF Fallback
<1>1. PICK s, k \in Device :
        /\ FirstSent(s) /\ NextCandidate(s, k)
        /\ timer' = [pc |-> "picked", sent |-> s, nxt |-> k]
  BY DEF FallbackPicks
<1>2. /\ timer.pc = "armed" /\ disp.pc = "done" /\ mode = "active_with_fallback"
      /\ UNCHANGED <<mode, targets, told, disp, handler, row, nstatus, pushes>>
  BY DEF FallbackPicks, PhaseInv, plan, clients, db
<1>3. s \in disp.sent
  BY <1>1, <1>2 DEF FirstSent, RowInv
<1>4. k \in 1..targets /\ s < k /\ k # 0
  <2>1. k \in (s+1)..targets /\ s \in Nat /\ k \in Nat /\ targets \in Nat /\ k >= 1
    BY <1>1, NAssumption DEF NextCandidate, Candidate, Device, TypeOK
  <2> QED
    BY <2>1
<1>5. PhaseInv' /\ PushInv' /\ PushesInPlanOrder'
  BY <1>1, <1>2 DEF PhaseInv, PushInv, PushesInPlanOrder, EscalationPushed
<1>6. TimerInv' /\ RowInv' /\ AckInv'
  BY <1>1, <1>2, <1>3, <1>4 DEF TimerInv, RowInv, AckInv
<1> QED
  BY <1>0, <1>5, <1>6

(* The timer's push goes to the second device, later than the only one     *)
(* that dispatch served.                                                   *)
LEMMA FallbackSendCore == CoreInv /\ FallbackSend => CoreInv'
<1> SUFFICES ASSUME CoreInv, FallbackSend PROVE CoreInv'
  OBVIOUS
<1> USE DEF CoreInv
<1>0. TypeOK'
  BY FallbackType DEF Fallback
<1>1. /\ timer.pc = "flushed" /\ timer'.pc = "sent"
      /\ timer'.sent = timer.sent /\ timer'.nxt = timer.nxt
      /\ disp.pc = "done" /\ mode \notin Multi
      /\ timer.sent \in disp.sent /\ timer.nxt \in 1..targets /\ timer.sent < timer.nxt
      /\ UNCHANGED <<mode, targets, disp, handler, row, nstatus>>
  BY DEF FallbackSend, PhaseInv, TimerInv, TypeOK, Multi, plan, db
<1>2. Len(pushes) <= 1 /\ \A a \in DOMAIN pushes : pushes[a] = timer.sent
  BY <1>1 DEF PushInv, EscalationPushed
<1>3. /\ pushes' = pushes \/ pushes' = Append(pushes, timer.nxt)
      /\ \A d \in Device : told'[d] > 0 => told[d] > 0 \/ d = timer.nxt
  BY DEF FallbackSend, Write, Receive, TypeOK
<1>4. PhaseInv' /\ TimerInv' /\ RowInv' /\ AckInv'
  BY <1>1 DEF PhaseInv, TimerInv, RowInv, AckInv
<1>5. pushes \in Seq(Device)
  BY DEF TypeOK
<1>6. PushInv'
  <2>1. \A a \in DOMAIN pushes' : pushes'[a] \in disp.sent \/ pushes'[a] = timer.nxt
    BY <1>1, <1>2, <1>3, <1>5
  <2>2. Len(pushes') <= 2
    BY <1>2, <1>3, <1>5
  <2> QED
    BY <1>1, <1>3, <2>1, <2>2 DEF PushInv, EscalationPushed
<1>7. PushesInPlanOrder'
  BY <1>1, <1>2, <1>3, <1>5 DEF PushesInPlanOrder
<1> QED
  BY <1>0, <1>4, <1>6, <1>7

(* The commit of run_fallback cancels the first device and marks the       *)
(* second in one step.                                                     *)
LEMMA FallbackCommitCore == CoreInv /\ FallbackCommit => CoreInv'
<1> SUFFICES ASSUME CoreInv, FallbackCommit PROVE CoreInv'
  OBVIOUS
<1> USE DEF CoreInv
<1>0. TypeOK'
  BY FallbackType DEF Fallback
<1>1. /\ timer.pc = "sent" /\ timer'.pc = "escalated"
      /\ timer'.sent = timer.sent /\ timer'.nxt = timer.nxt
      /\ disp.pc = "done" /\ mode \notin Multi
      /\ timer.sent \in disp.sent /\ timer.nxt \in 1..targets /\ timer.sent < timer.nxt
      /\ UNCHANGED <<mode, targets, told, disp, handler, nstatus, pushes>>
  BY DEF FallbackCommit, PhaseInv, TimerInv, TypeOK, Multi, plan, clients
<1>2. /\ timer.sent \in Device /\ timer.nxt \in Device
      /\ timer.sent \in 1..targets /\ timer.sent # timer.nxt
  <2>1. timer.sent \in 1..targets
    BY <1>1 DEF PushInv
  <2>2. targets \in 0..N
    BY DEF TypeOK
  <2> QED
    BY <1>1, <2>1, <2>2, NAssumption DEF Device
<1>3. \A k \in Device : row'[k] = IF k = timer.nxt THEN "sent"
                                  ELSE IF k = timer.sent THEN "fallback_cancelled" ELSE row[k]
  BY <1>2 DEF FallbackCommit, EscalatedRows, TypeOK
<1>4. PhaseInv'
  BY <1>1, <1>2, <1>3 DEF PhaseInv
<1>5. PushInv' /\ PushesInPlanOrder' /\ TimerInv'
  BY <1>1 DEF PushInv, PushesInPlanOrder, TimerInv, EscalationPushed
<1>6. RowInv' /\ AckInv'
  BY <1>1, <1>2, <1>3 DEF RowInv, AckInv, TypeOK
<1> QED
  BY <1>0, <1>4, <1>5, <1>6

(* Every step of the timer keeps the invariant.                            *)
LEMMA FallbackCore == CoreInv /\ Fallback => CoreInv'
<1> SUFFICES ASSUME CoreInv, Fallback PROVE CoreInv'
  OBVIOUS
<1> USE DEF CoreInv
<1>0. TypeOK'
  BY FallbackType
<1>1. CASE FallbackDeclines \/ FallbackFlush \/ FallbackRaises
  <2>1. /\ timer.pc = "armed" => timer'.pc = "declined"
        /\ timer.pc \in {"armed", "picked", "flushed"}
        /\ timer'.pc \in {"declined", "flushed", "failed"}
        /\ timer'.pc = "flushed" => timer.pc = "picked"
        /\ timer'.sent = timer.sent /\ timer'.nxt = timer.nxt
        /\ UNCHANGED <<mode, targets, told, disp, handler, row, nstatus, pushes>>
    BY <1>1 DEF FallbackDeclines, FallbackFlush, FallbackRaises, TypeOK, plan, clients, db
  <2>2. PhaseInv' /\ PushInv' /\ PushesInPlanOrder' /\ TimerInv' /\ AckInv'
    BY <2>1 DEF PhaseInv, PushInv, PushesInPlanOrder, TimerInv, AckInv, EscalationPushed
  <2>3. Pushed(timer.nxt) => row[timer.nxt] # "routed"
    BY <2>1 DEF PhaseInv, PushInv, RowInv, EscalationPushed, Pushed
  <2>4. RowInv'
    BY <2>1, <2>3 DEF RowInv, Pushed
  <2> QED
    BY <1>0, <2>2, <2>4
<1> QED
  BY <1>1, FallbackPicksCore, FallbackSendCore, FallbackCommitCore DEF Fallback

(* Acks, which select, wait for a row lock and write blindly, keep the     *)
(* invariant: only rows of devices that were pushed to are written.        *)
LEMMA ApplyAckCore ==
  ASSUME NEW d \in Device, CoreInv, ApplyAck(d), handler[d].pc = "flushed" => row[d] # "none"
  PROVE  CoreInv'
<1> USE DEF CoreInv
<1>0. TypeOK'
  BY ApplyAckType
<1>1. UNCHANGED <<mode, targets, told, disp, timer, pushes>>
  BY DEF ApplyAck, AckRead, AckFlush, AckCommit, plan, clients
<1>2. PushInv' /\ PushesInPlanOrder' /\ TimerInv'
  BY <1>1 DEF PushInv, PushesInPlanOrder, TimerInv, EscalationPushed
<1>3. CASE AckRead(d)
  <2>1. row' = row /\ nstatus' = nstatus
    BY <1>3 DEF AckRead, db
  <2>2. Head(wire[d]) \in AckStatuses
    BY <1>3 DEF AckRead, TypeOK
  <2>3. AckInv'
    BY <1>3, <2>1, <2>2 DEF AckRead, AckInv, PhaseInv, TypeOK, db
  <2> QED
    BY <1>0, <1>1, <1>2, <2>1, <2>3 DEF PhaseInv, RowInv, Pushed
<1>4. CASE AckFlush(d)
  <2>1. row' = row /\ nstatus' = nstatus
    BY <1>4 DEF AckFlush, db
  <2>2. handler[d].pc # "idle" /\ handler'[d].status = handler[d].status
    BY <1>4 DEF AckFlush, TypeOK
  <2>3. \A e \in Device : e # d => handler'[e] = handler[e]
    BY <1>4 DEF AckFlush, TypeOK
  <2>4. AckInv'
    BY <2>1, <2>2, <2>3 DEF AckInv
  <2>5. PhaseInv' /\ RowInv'
    BY <1>1, <2>1 DEF PhaseInv, RowInv, Pushed
  <2> QED
    BY <1>0, <1>2, <2>4, <2>5
<1>5. CASE AckCommit(d)
  <2>1. /\ handler[d].status \in AckStatuses /\ row[d] # "none" /\ nstatus # "none"
        /\ handler'[d].pc = "idle" /\ \A e \in Device : e # d => handler'[e] = handler[e]
    BY <1>5 DEF AckCommit, AckInv, PhaseInv, NoAck, TypeOK
  <2>2. /\ \A e \in Device : e # d => row'[e] = row[e]
        /\ row'[d] = row[d] \/ row'[d] \in AckStatuses
        /\ nstatus' = nstatus \/ nstatus' \in AckedStatuses
    BY <1>5, <2>1 DEF AckCommit, AckedNotification, AckStatuses, TypeOK
  <2>3. nstatus' # "none" /\ (nstatus' = "routed" => nstatus = "routed")
    BY <2>1, <2>2 DEF AckedStatuses
  <2>4. \A e \in Device : row'[e] = row[e]
          \/ row'[e] \notin {"none", "routed", "sent", "fallback_cancelled"}
    BY <2>2 DEF AckStatuses, AckedStatuses
  <2>5. PhaseInv'
    <3>1. \A e \in Device : row'[e] # "none" <=> row[e] # "none"
      BY <2>1, <2>2, <2>4
    <3> QED
      BY <1>1, <2>1, <2>3, <3>1 DEF PhaseInv
  <2>6. RowInv'
    <3>1. timer.pc = "escalated" => timer.sent \in Device /\ timer.nxt \in Device
      BY NAssumption DEF TimerInv, PushInv, TypeOK, Device
    <3>2. Pushed(timer.nxt) => timer.nxt \in Device
      BY DEF Pushed, TypeOK
    <3> QED
      BY <1>1, <2>1, <2>3, <2>4, <3>1, <3>2 DEF RowInv, TypeOK, Pushed
  <2>7. AckInv'
    BY <2>1, <2>3 DEF AckInv
  <2> QED
    BY <1>0, <1>2, <2>5, <2>6, <2>7
<1> QED
  BY <1>3, <1>4, <1>5 DEF ApplyAck

(* Connections that come and go, and acks that are sent, keep the          *)
(* invariant.                                                              *)
LEMMA EnvironmentCore ==
  ASSUME NEW d \in Device, CoreInv, Environment(d)
  PROVE  CoreInv'
<1> USE DEF CoreInv
<1>0. TypeOK'
  BY EnvironmentType
<1>1. /\ UNCHANGED <<mode, targets, disp, timer, row, nstatus, pushes>>
      /\ \A e \in Device : told'[e] > 0 => told[e] > 0
  BY DEF Environment, ClientAck, Connect, PeerGone, HandlerExits, HandlerRaises,
         plan, clients, db, TypeOK
<1>2. PushInv'
  BY <1>1 DEF PushInv, EscalationPushed
<1>3. AckInv'
  <2>1. \A e \in Device : handler'[e] = handler[e] \/ handler'[e].pc = "idle"
    BY DEF Environment, ClientAck, Connect, PeerGone, HandlerExits, HandlerRaises, NoAck, TypeOK
  <2> QED
    BY <1>1, <2>1 DEF AckInv
<1> QED
  BY <1>0, <1>1, <1>2, <1>3 DEF PhaseInv, PushesInPlanOrder, TimerInv, RowInv, Pushed

(* A restart keeps the invariant: what was not committed is gone and the   *)
(* timer never resumes.                                                    *)
LEMMA RestartCore == CoreInv /\ Restart => CoreInv'
<1> SUFFICES ASSUME CoreInv, Restart PROVE CoreInv'
  OBVIOUS
<1> USE DEF CoreInv
<1>0. TypeOK'
  BY RestartType
<1>1. UNCHANGED <<mode, targets, told, row, nstatus, pushes>>
  BY DEF Restart, plan, db
<1>2. /\ disp'.sent = disp.sent /\ disp'.i = disp.i
      /\ disp.pc \in {"sending", "sent"} => disp'.pc = "killed"
      /\ disp.pc = "waking" => disp'.pc = "unscheduled"
      /\ disp.pc \notin {"sending", "sent", "waking"} => disp'.pc = disp.pc
  BY DEF Restart, TypeOK
<1>3. /\ timer'.sent = timer.sent /\ timer'.nxt = timer.nxt
      /\ timer.pc \in {"armed", "picked", "flushed", "sent"} => timer'.pc = "lost"
      /\ timer.pc \notin {"armed", "picked", "flushed", "sent"} => timer'.pc = timer.pc
  BY DEF Restart, TypeOK
<1>4. PhaseInv'
  BY <1>1, <1>2, <1>3 DEF PhaseInv
<1>5. PushInv' /\ PushesInPlanOrder'
  BY <1>1, <1>2, <1>3 DEF PushInv, PushesInPlanOrder, EscalationPushed
<1>6. TimerInv' /\ RowInv'
  BY <1>1, <1>2, <1>3 DEF TimerInv, RowInv, Pushed
<1>7. AckInv'
  BY DEF Restart, AckInv, NoAck
<1> QED
  BY <1>0, <1>4, <1>5, <1>6, <1>7

(* A row that is committed stays, and an ack is applied to a row there is. *)
LEMMA RowsStayStep ==
  ASSUME IInv, [Next]_vars
  PROVE  RowsStay'
<1> USE DEF IInv
<1>1. CASE DispatchCommit
  <2>1. nstatus = "none" /\ \A d \in Device : handler'[d].pc = "idle"
    BY <1>1 DEF DispatchCommit, CoreInv, PhaseInv, AckInv, TypeOK, HandlerType
  <2>2. targets' = targets /\ \A d \in Device : row'[d] = CommittedRow(d)
    BY <1>1 DEF DispatchCommit, plan
  <2> QED
    BY <2>1, <2>2 DEF RowsStay, CommittedRow
<1>2. CASE (Dispatch /\ ~DispatchCommit) \/ UNCHANGED vars
  <2>1. UNCHANGED <<targets, row, nstatus, handler>>
    BY <1>2 DEF Dispatch, DispatchSend, DispatchRaises, DispatchLoopEnds, ScheduleFallback,
       WakeRaises, vars, plan, db
  <2> QED
    BY <2>1 DEF RowsStay
<1>3. CASE Fallback
  <2>1. /\ UNCHANGED <<targets, nstatus, handler>>
        /\ \A d \in Device : row'[d] # row[d] => row'[d] \in {"fallback_cancelled", "sent"}
    BY <1>3 DEF Fallback, FallbackPicks, FallbackDeclines, FallbackFlush, FallbackSend,
       FallbackRaises, FallbackCommit, EscalatedRows, plan, db, CoreInv, TypeOK
  <2> QED
    BY <2>1 DEF RowsStay
<1>4. ASSUME NEW d \in Device, ApplyAck(d) PROVE RowsStay'
  <2>1. /\ targets' = targets
        /\ \A e \in Device \ {d} : row'[e] = row[e] /\ handler'[e] = handler[e]
    BY <1>4 DEF ApplyAck, AckRead, AckFlush, AckCommit, plan, db, CoreInv, TypeOK
  <2>2. CASE AckRead(d) \/ AckFlush(d)
    <3>1. row' = row /\ nstatus' = nstatus /\ (handler'[d].pc # "idle" => row[d] # "none")
      BY <2>2 DEF AckRead, AckFlush, db, CoreInv, TypeOK, RowsStay
    <3> QED
      BY <2>1, <3>1 DEF RowsStay
  <2>3. CASE AckCommit(d)
    <3>1. nstatus # "none" /\ row[d] # "none" /\ handler[d].status \in AckStatuses
      BY <2>3 DEF AckCommit, CoreInv, AckInv, RowsStay
    <3>2. row'[d] # "none" /\ handler'[d].pc = "idle"
      BY <2>3, <3>1 DEF AckCommit, NoAck, AckStatuses, AckedStatuses, CoreInv, TypeOK
    <3> QED
      BY <2>1, <3>1, <3>2 DEF RowsStay
  <2> QED
    BY <1>4, <2>2, <2>3 DEF ApplyAck
<1>5. ASSUME Restart \/ \E d \in Device : Environment(d) PROVE RowsStay'
  <2>1. /\ UNCHANGED <<targets, row, nstatus>>
        /\ \A e \in Device : handler'[e] \in {handler[e], NoAck}
    BY <1>5 DEF Restart, Environment, ClientAck, Connect, PeerGone, HandlerExits,
       HandlerRaises, plan, db, CoreInv, TypeOK
  <2> QED
    BY <2>1 DEF RowsStay, NoAck
<1> QED
  BY <1>1, <1>2, <1>3, <1>4, <1>5 DEF Next

(* The strengthened invariant of dispatch, the timer and the acks holds    *)
(* throughout.                                                             *)
THEOREM Inductive == Spec => []IInv
<1>1. Init => IInv
  BY InitCore DEF IInv, RowsStay, Init, NoAck
<1>2. IInv /\ [Next]_vars => IInv'
  <2> SUFFICES ASSUME IInv, [Next]_vars PROVE CoreInv'
    BY RowsStayStep DEF IInv
  <2>1. CASE UNCHANGED vars
    BY <2>1 DEF vars, IInv, CoreInv, TypeOK, PhaseInv, PushInv, PushesInPlanOrder, TimerInv,
       RowInv, AckInv, EscalationPushed, Pushed
  <2> QED
    BY <2>1, DispatchCore, FallbackCore, ApplyAckCore, EnvironmentCore, RestartCore
    DEF Next, IInv, RowsStay
<1> QED
  BY <1>1, <1>2, PTL DEF Spec

-----------------------------------------------------------------------------
(* The safety invariants *)

(* What follows from the core of the invariant, rows deleted or not.  The  *)
(* pushes are in plan order and escalate once.                             *)
LEMMA CorePushes == CoreInv => PushesInPlanOrder /\ EscalatesOnce
BY DEF CoreInv, PushInv, EscalatesOnce, TypeOK

(* In the active modes one device at most is awaited: the one that         *)
(* dispatch pushed to or its replacement.                                  *)
LEMMA CoreOneAwaited == CoreInv => OneAwaitedDevice
<1> SUFFICES ASSUME CoreInv, mode \notin Multi, NEW j \in Device, NEW k \in Device,
                    row[j] = "sent", row[k] = "sent"
             PROVE  j = k
  BY DEF OneAwaitedDevice
<1>1. CASE timer.pc = "escalated"
  BY <1>1 DEF CoreInv, RowInv, TimerInv, PushInv
<1>2. CASE timer.pc # "escalated"
  BY <1>2 DEF CoreInv, RowInv, PushInv
<1> QED
  BY <1>1, <1>2

(* A routed row is of a device that was not pushed to, an interrupted      *)
(* escalation apart.                                                       *)
LEMMA CoreLedger == CoreInv => LedgerMatchesPushes
<1> SUFFICES ASSUME CoreInv, NEW k \in Device, row[k] = "routed", Pushed(k)
             PROVE  timer.nxt = k /\ timer.pc \in {"sent", "lost"}
  BY DEF LedgerMatchesPushes
<1>1. nstatus # "none"
  BY DEF CoreInv, PhaseInv
<1>2. k \notin disp.sent
  BY <1>1 DEF CoreInv, RowInv
<1>3. EscalationPushed /\ timer.nxt = k
  BY <1>2 DEF CoreInv, PushInv, Pushed
<1> QED
  BY <1>3 DEF EscalationPushed, CoreInv, RowInv

(* A notification that is reported as routed was pushed to nobody. *)
LEMMA CoreSilent == CoreInv => RoutedMeansSilent
<1> SUFFICES ASSUME CoreInv, nstatus = "routed" PROVE pushes = <<>>
  BY DEF RoutedMeansSilent
<1>1. disp.sent = {}
  BY DEF CoreInv, RowInv
<1>2. timer.nxt = 0
  BY <1>1 DEF CoreInv, TimerInv
<1>3. pushes \in Seq(Device)
  BY DEF CoreInv, TypeOK
<1>4. ASSUME NEW a \in DOMAIN pushes PROVE FALSE
  <2>1. pushes[a] \in Device /\ pushes[a] # 0
    BY <1>3, NAssumption DEF Device
  <2> QED
    BY <1>1, <1>2, <2>1 DEF CoreInv, PushInv
<1>5. Len(pushes) = 0
  <2>1. Len(pushes) \in Nat /\ DOMAIN pushes = 1..Len(pushes)
    BY <1>3
  <2>2. 1 \notin DOMAIN pushes
    BY <1>4
  <2> QED
    BY <2>1, <2>2
<1> QED
  BY <1>3, <1>5

(* An active-mode dispatch that failed has shown the notification to       *)
(* nobody.                                                                 *)
LEMMA CoreRolledBack == CoreInv => RolledBackReachedNobody
BY DEF CoreInv, PushInv, RolledBackReachedNobody

(* The payload reaches devices in plan order and no device twice, from the *)
(* dispatch loop and the timer together.                                   *)
THEOREM PlanOrder == Spec => []PushesInPlanOrder
<1>1. IInv => PushesInPlanOrder
  BY CorePushes DEF IInv
<1> QED
  BY <1>1, Inductive, PTL

(* At most one escalation in the active modes. *)
THEOREM OneEscalation == Spec => []EscalatesOnce
<1>1. IInv => EscalatesOnce
  BY CorePushes DEF IInv
<1> QED
  BY <1>1, Inductive, PTL

(* The cancelled row and its replacement are committed together. *)
THEOREM Replacement == Spec => []CancelledWasReplaced
<1>1. IInv => CancelledWasReplaced
  <2> SUFFICES ASSUME IInv, NEW k \in Device, row[k] = "fallback_cancelled"
               PROVE  timer.nxt \in Device /\ timer.nxt > k
                        /\ row[timer.nxt] \notin {"none", "routed"}
    BY DEF CancelledWasReplaced
  <2>1. nstatus # "none"
    BY DEF IInv, CoreInv, PhaseInv
  <2>2. timer.nxt \in 1..targets /\ timer.nxt \in Device /\ timer.nxt > k
    BY NAssumption DEF IInv, CoreInv, RowInv, TimerInv, TypeOK, Device
  <2> QED
    BY <2>1, <2>2 DEF IInv, CoreInv, RowInv, RowsStay
<1> QED
  BY <1>1, Inductive, PTL

(* In the active modes one device at most is awaited. *)
THEOREM OneAwaited == Spec => []OneAwaitedDevice
<1>1. IInv => OneAwaitedDevice
  BY CoreOneAwaited DEF IInv
<1> QED
  BY <1>1, Inductive, PTL

(* A routed row is of a device that was not pushed to, an interrupted      *)
(* escalation apart.                                                       *)
THEOREM LedgerAgrees == Spec => []LedgerMatchesPushes
<1>1. IInv => LedgerMatchesPushes
  BY CoreLedger DEF IInv
<1> QED
  BY <1>1, Inductive, PTL

(* A notification that is reported as routed was pushed to nobody. *)
THEOREM RoutedSilent == Spec => []RoutedMeansSilent
<1>1. IInv => RoutedMeansSilent
  BY CoreSilent DEF IInv
<1> QED
  BY <1>1, Inductive, PTL

(* An active-mode dispatch that failed has shown the notification to       *)
(* nobody.                                                                 *)
THEOREM RolledBackSilent == Spec => []RolledBackReachedNobody
<1>1. IInv => RolledBackReachedNobody
  BY CoreRolledBack DEF IInv
<1> QED
  BY <1>1, Inductive, PTL

(* After the commit every device that has the payload has its row. *)
THEOREM AcksFindRows == Spec => []CommittedAcksFindTheirRow
<1>1. IInv => CommittedAcksFindTheirRow
  BY DEF IInv, CoreInv, PushInv, RowsStay, CommittedAcksFindTheirRow
<1> QED
  BY <1>1, Inductive, PTL

(* The invariants by their subject, as the runs check them.  The pushes    *)
(* are in plan order and no more than one escalation adds.                 *)
THEOREM PushesOrderly == Spec => []PushesAreOrderly
<1>1. PushesInPlanOrder /\ EscalatesOnce => PushesAreOrderly
  BY DEF PushesAreOrderly
<1> QED
  BY <1>1, PlanOrder, OneEscalation, PTL

(* Rows and status tell the truth about the pushes, after any fault.       *)
THEOREM LedgerTrue == Spec => []LedgerIsTrue
<1>1. /\ CancelledWasReplaced /\ LedgerMatchesPushes
      /\ RoutedMeansSilent /\ RolledBackReachedNobody
      => LedgerIsTrue
  BY DEF LedgerIsTrue
<1> QED
  BY <1>1, Replacement, LedgerAgrees, RoutedSilent, RolledBackSilent, PTL

(* One device at a time is waited for, and every ack finds its row.        *)
THEOREM AcksAwaited == Spec => []AcksAreAwaited
<1>1. OneAwaitedDevice /\ CommittedAcksFindTheirRow => AcksAreAwaited
  BY DEF AcksAreAwaited
<1> QED
  BY <1>1, OneAwaited, AcksFindRows, PTL

-----------------------------------------------------------------------------
(* An acknowledgement committed before the timer fires is final *)

(* What keeps a device from being cancelled, once its ack is in. *)
Settled(d) ==
  /\ timer.sent # d
  /\ row[d] # "fallback_cancelled"
  /\ timer.pc \in {"off", "armed"} => row[d] \in AckStatuses

(* With a committed acknowledgement the timer can no longer cancel its     *)
(* device.                                                                 *)
LEMMA SettledIsStable ==
  ASSUME NEW d \in Device, TypeOK, IInv, Settled(d), [Next]_vars
  PROVE  Settled(d)'
<1> USE DEF Settled
<1>1. CASE Dispatch
  <2>1. row[d] \in AckStatuses => nstatus # "none"
    BY DEF IInv, CoreInv, PhaseInv, AckStatuses, AckedStatuses
  <2>2. /\ timer'.sent = timer.sent
        /\ timer'.pc \in {"off", "armed"} => timer.pc \in {"off", "armed"}
        /\ row' = row \/ (nstatus = "none" /\ timer.pc = "off")
    BY <1>1, <2>1 DEF Dispatch, DispatchSend, DispatchRaises, DispatchLoopEnds, DispatchCommit,
       ScheduleFallback, WakeRaises, db, TypeOK, IInv, CoreInv, PhaseInv, TimerStates
  <2> QED
    BY <2>1, <2>2
<1>2. CASE Fallback
  <2>1. CASE FallbackPicks
    BY <2>1 DEF FallbackPicks, FirstSent, AckStatuses, AckedStatuses, TypeOK, db
  <2>2. CASE FallbackDeclines \/ FallbackFlush \/ FallbackSend \/ FallbackRaises
    BY <2>2 DEF FallbackDeclines, FallbackFlush, FallbackSend, FallbackRaises, TypeOK, db
  <2>3. CASE FallbackCommit
    BY <2>3 DEF FallbackCommit, EscalatedRows, TypeOK
  <2> QED
    BY <1>2, <2>1, <2>2, <2>3 DEF Fallback
<1>3. CASE Restart
  BY <1>3 DEF Restart, TypeOK, db
<1>4. ASSUME NEW e \in Device, ApplyAck(e) PROVE Settled(d)'
  <2>1. timer' = timer
    BY <1>4 DEF ApplyAck, AckRead, AckFlush, AckCommit
  <2>2. row'[d] = row[d] \/ row'[d] \in AckStatuses
    BY <1>4 DEF ApplyAck, AckRead, AckFlush, AckCommit, IInv, CoreInv, AckInv, TypeOK, db
  <2> QED
    BY <2>1, <2>2 DEF AckStatuses, AckedStatuses
<1>5. ASSUME NEW e \in Device, Environment(e) PROVE Settled(d)'
  <2>1. UNCHANGED <<timer, row, nstatus>>
    BY <1>5 DEF Environment, ClientAck, Connect, PeerGone, HandlerExits, HandlerRaises, db
  <2>2. handler'[d] = handler[d] \/ handler'[d] = NoAck
    BY <1>5 DEF Environment, ClientAck, Connect, PeerGone, HandlerExits, HandlerRaises, IInv, CoreInv, TypeOK
  <2> QED
    BY <2>1, <2>2
<1>6. CASE UNCHANGED vars
  BY <1>6 DEF vars
<1> QED
  BY <1>1, <1>2, <1>3, <1>4, <1>5, <1>6 DEF Next

(* A device whose ack is committed before the timer fires is never         *)
(* cancelled afterwards.                                                   *)
THEOREM EarlyAckIsFinal == Spec => AckBeforeTimeoutIsFinal
<1>1. ASSUME NEW d \in Device
      PROVE  Spec => [](timer.pc \in {"off", "armed"} /\ Acknowledged(d)
                          => [](row[d] # "fallback_cancelled"))
  <2>1. IInv /\ timer.pc \in {"off", "armed"} /\ Acknowledged(d) => Settled(d)
    BY DEF IInv, CoreInv, TimerInv, Settled, Acknowledged, Device, AckStatuses, AckedStatuses
  <2>2. IInv /\ Settled(d) /\ [Next]_vars => Settled(d)'
    BY SettledIsStable DEF IInv, CoreInv
  <2>3. Settled(d) => row[d] # "fallback_cancelled"
    BY DEF Settled
  <2> QED
    BY <2>1, <2>2, <2>3, Inductive, PTL DEF Spec
<1> QED
  BY <1>1 DEF AckBeforeTimeoutIsFinal

-----------------------------------------------------------------------------
(* Devices that are removed meanwhile (Removal.tla) *)

(* The rows go one by one, so that less is known of them than in IInv:     *)
(* there are none before dispatch has committed, and none of the removed;  *)
(* whoever has updated a row finds it to its commit.                       *)
Unstarted ==
  /\ timer.pc # "off" => disp.pc = "done"
  /\ disp.pc \in {"sending", "sent", "rolledback", "killed"} =>
       \A d \in Device : row[d] = "none" /\ handler[d].pc = "idle"

GoneInv ==
  /\ removed \subseteq Device
  /\ \A d \in removed : row[d] = "none"
  /\ flushed /\ disp.pc \in {"sending", "sent"} => \A d \in 1..targets : d \notin removed

LockInv ==
  /\ timer.pc \in {"off", "armed"} => timer.sent = 0
  /\ timer.pc \in {"picked", "flushed", "sent"} => timer.sent \in Device /\ timer.nxt \in Device
  /\ timer.pc \in {"flushed", "sent"} => row[timer.sent] # "none"
  /\ \A d \in Device :
       /\ handler[d].pc # "idle" => handler[d].status \in AckStatuses
       /\ handler[d].pc = "flushed" => row[d] # "none"

RInv == TypeOK /\ Unstarted /\ GoneInv /\ LockInv

(* With the core of the invariant of Delivery, and of the rows this: once  *)
(* dispatch has committed, a target has its row or is removed.             *)
RowsAccounted ==
  nstatus # "none" => \A k \in Device : k \in 1..targets => row[k] # "none" \/ k \in removed

RIInv == RInv /\ CoreInv /\ RowsAccounted

LEMMA InitRInv == RInit => RInv
<1> SUFFICES ASSUME RInit PROVE RInv
  OBVIOUS
<1>1. TypeOK
  BY InitType DEF RInit
<1>2. Unstarted /\ GoneInv /\ LockInv
  BY DEF RInit, Init, NoAck, Unstarted, GoneInv, LockInv
<1> QED
  BY <1>1, <1>2 DEF RInv

(* dispatch, from the flush of its rows on. *)
LEMMA DispatchRInv == RInv /\ RDispatch => RInv'
<1> SUFFICES ASSUME RInv, RDispatch PROVE RInv'
  OBVIOUS
<1>1. CASE FlushRows
  <2>1. /\ disp.pc = "sending" /\ disp' \in {disp, [disp EXCEPT !.pc = "rolledback"]}
        /\ UNCHANGED <<mode, targets, entry, up, serving, told, wire, timer, handler, row,
                       nstatus, pushes, faults, removed>>
        /\ flushed' /\ ~flushed => ForeignKeysHold
    BY <1>1 DEF FlushRows, plan, conns, clients, db
  <2>2. TypeOK'
    BY <2>1 DEF RInv, TypeOK, DispatchStates
  <2>3. Unstarted' /\ GoneInv' /\ LockInv'
    BY <1>1, <2>1 DEF RInv, TypeOK, Unstarted, GoneInv, LockInv, ForeignKeysHold, FlushRows
  <2> QED
    BY <2>2, <2>3 DEF RInv
<1>2. CASE flushed /\ Dispatch /\ UNCHANGED <<removed, admitted, flushed>>
  <2>1. TypeOK'
    BY <1>2, DispatchType DEF RInv
  <2>2. CASE DispatchSend
    <3>1. PICK k \in Device : disp' = AfterSend(k)
      BY <2>2 DEF DispatchSend
    <3>2. /\ disp.pc = "sending" /\ disp'.pc \in {"sending", "sent"}
          /\ UNCHANGED <<targets, timer, handler, row>>
      BY <2>2, <3>1 DEF DispatchSend, AfterSend, plan, db
    <3> QED
      BY <1>2, <2>1, <3>2 DEF RInv, Unstarted, GoneInv, LockInv
  <2>3. CASE DispatchRaises \/ DispatchLoopEnds
    <3>1. /\ disp.pc = "sending" /\ disp'.pc \in {"rolledback", "sent"}
          /\ UNCHANGED <<targets, timer, handler, row>>
      BY <2>3 DEF DispatchRaises, DispatchLoopEnds, plan, db, RInv, TypeOK
    <3> QED
      BY <1>2, <2>1, <3>1 DEF RInv, Unstarted, GoneInv, LockInv
  <2>4. CASE DispatchCommit
    <3>1. /\ disp.pc = "sent" /\ disp'.pc = "waking" /\ UNCHANGED <<targets, timer, handler>>
          /\ \A k \in Device : k \notin 1..targets => row'[k] = "none"
      BY <2>4 DEF DispatchCommit, CommittedRow, plan, RInv, TypeOK
    <3>2. timer.pc = "off" /\ \A d \in Device : handler[d].pc = "idle"
      BY <3>1 DEF RInv, Unstarted
    <3> QED
      BY <1>2, <2>1, <3>1, <3>2 DEF RInv, Unstarted, GoneInv, LockInv
  <2>5. CASE ScheduleFallback \/ WakeRaises
    <3>1. /\ disp.pc = "waking" /\ disp'.pc \in {"done", "unscheduled"}
          /\ timer' \in {timer, [timer EXCEPT !.pc = "armed"]}
          /\ UNCHANGED <<targets, handler, row, disp.sent>>
          /\ disp'.pc = "unscheduled" => timer' = timer
      BY <2>5 DEF ScheduleFallback, WakeRaises, plan, db, RInv, TypeOK
    <3> QED
      BY <1>2, <2>1, <3>1 DEF RInv, Unstarted, GoneInv, LockInv, TypeOK
  <2> QED
    BY <1>2, <2>2, <2>3, <2>4, <2>5 DEF Dispatch
<1> QED
  BY <1>1, <1>2 DEF RDispatch

(* run_fallback, and the UPDATE that finds no row. *)
LEMMA FallbackRInv == RInv /\ RFallback => RInv'
<1> SUFFICES ASSUME RInv, RFallback PROVE RInv'
  OBVIOUS
<1>0. TypeOK'
  <2>1. CASE FallbackFindsNoRow
    BY <2>1 DEF FallbackFindsNoRow, RInv, TypeOK, TimerStates, plan, conns, clients, db
  <2> QED
    BY <2>1, FallbackType DEF RFallback, Fallback, RInv
<1>1. /\ UNCHANGED <<targets, disp, handler, removed, flushed>>
      /\ timer.pc \in {"armed", "picked", "flushed", "sent"}
  BY DEF RFallback, FallbackFindsNoRow, FallbackPicks, FallbackDeclines, FallbackSend,
         FallbackRaises, FallbackFlush, FallbackCommit, plan
<1>2. disp.pc = "done"
  BY <1>1 DEF RInv, Unstarted
<1>3. Unstarted'
  BY <1>1, <1>2 DEF Unstarted
<1>4. CASE FallbackPicks
  <2>1. PICK s, k \in Device : FirstSent(s) /\ timer' = [pc |-> "picked", sent |-> s, nxt |-> k]
    BY <1>4 DEF FallbackPicks
  <2>2. row' = row
    BY <1>4 DEF FallbackPicks, db
  <2> QED
    BY <1>0, <1>1, <1>2, <1>3, <2>1, <2>2 DEF RInv, GoneInv, LockInv
<1>5. CASE FallbackDeclines \/ FallbackRaises \/ FallbackFindsNoRow
  <2>1. row' = row /\ timer'.pc \in {"declined", "failed"}
    BY <1>5 DEF FallbackDeclines, FallbackRaises, FallbackFindsNoRow, db, RInv, TypeOK
  <2> QED
    BY <1>0, <1>1, <1>2, <1>3, <2>1 DEF RInv, GoneInv, LockInv
<1>6. CASE FallbackSend
  <2>1. /\ row' = row /\ timer.pc = "flushed" /\ timer'.pc = "sent"
        /\ timer'.sent = timer.sent /\ timer'.nxt = timer.nxt
    BY <1>6 DEF FallbackSend, db, RInv, TypeOK
  <2> QED
    BY <1>0, <1>1, <1>2, <1>3, <2>1 DEF RInv, GoneInv, LockInv
<1>7. CASE FallbackFlush /\ row[timer.sent] # "none"
  <2>1. /\ row' = row /\ timer.pc = "picked" /\ timer'.pc = "flushed"
        /\ timer'.sent = timer.sent /\ timer'.nxt = timer.nxt
    BY <1>7 DEF FallbackFlush, db, RInv, TypeOK
  <2> QED
    BY <1>0, <1>1, <1>2, <1>3, <1>7, <2>1 DEF RInv, GoneInv, LockInv
<1>8. CASE FallbackCommit /\ row[timer.nxt] # "none"
  <2>1. /\ timer.pc = "sent" /\ timer'.pc = "escalated" /\ row' = EscalatedRows
    BY <1>8 DEF FallbackCommit, RInv, TypeOK
  <2>2. /\ row[timer.sent] # "none" /\ timer.sent \in Device /\ timer.nxt \in Device
    BY <2>1 DEF RInv, LockInv
  <2>3. \A d \in Device : row[d] = "none" <=> row'[d] = "none"
    BY <1>8, <2>1, <2>2 DEF EscalatedRows, RInv, TypeOK
  <2> QED
    BY <1>0, <1>1, <1>2, <1>3, <2>1, <2>3 DEF RInv, GoneInv, LockInv
<1> QED
  BY <1>4, <1>5, <1>6, <1>7, <1>8 DEF RFallback

(* apply_ack, and the ack whose row is gone. *)
LEMMA ApplyAckRInv ==
  ASSUME NEW d \in Device, RInv, RApplyAck(d)
  PROVE  RInv'
<1>1. CASE AckFindsNoRow(d)
  <2>1. /\ entry' \in [Device -> {"none", "live", "dead"}]
        /\ up' \in SUBSET Device /\ serving' \in [Device -> Nat]
    <3>1. CASE L!HandlerRaises(d)
      BY <3>1 DEF L!HandlerRaises, RInv, TypeOK
    <3>2. CASE L!HandlerExits(d)
      BY <3>2 DEF L!HandlerExits, L!Orphans, RInv, TypeOK
    <3> QED
      BY <1>1, <3>1, <3>2 DEF AckFindsNoRow
  <2>2. handler' = [handler EXCEPT ![d] = NoAck] /\ wire' \in {wire, [wire EXCEPT ![d] = <<>>]}
        /\ UNCHANGED <<mode, targets, told, disp, timer, row, nstatus, pushes, faults>>
        /\ UNCHANGED <<removed, flushed>>
    <3>1. handler[d].pc = "selected" /\ row[d] = "none"
      BY <1>1 DEF AckFindsNoRow
    <3> QED
      BY <1>1, <3>1 DEF AckFindsNoRow, RApplyAck, plan, db
  <2>3. TypeOK'
    <3>1. NoAck \in HandlerType
      BY DEF NoAck, HandlerType, RowStatuses, LifecycleStatuses, LifecycleRank
    <3>2. handler' \in [Device -> HandlerType]
      BY <2>2, <3>1 DEF RInv, TypeOK
    <3>3. wire' \in [Device -> Seq(AckStatuses)]
      <4>1. <<>> \in Seq(AckStatuses) /\ wire \in [Device -> Seq(AckStatuses)]
        BY DEF RInv, TypeOK
      <4>2. [wire EXCEPT ![d] = <<>>] \in [Device -> Seq(AckStatuses)]
        BY <4>1
      <4> QED
        BY <2>2, <4>1, <4>2
    <3> QED
      BY <2>1, <2>2, <3>2, <3>3 DEF RInv, TypeOK
  <2> QED
    BY <2>2, <2>3 DEF RInv, TypeOK, Unstarted, GoneInv, LockInv, NoAck
<1>2. CASE AckRead(d) \/ AckCommit(d) \/ (AckFlush(d) /\ row[d] # "none")
  <2>1. TypeOK'
    BY <1>2, ApplyAckType DEF ApplyAck, RInv
  <2>2. /\ UNCHANGED <<targets, disp, timer, removed, flushed>>
        /\ \A e \in Device \ {d} : row'[e] = row[e] /\ handler'[e] = handler[e]
    BY <1>2 DEF RApplyAck, AckFindsNoRow, AckRead, AckCommit, AckFlush, plan, db, RInv, TypeOK
  <2>3. /\ row[d] # "none" \/ handler'[d] = handler[d]
        /\ row[d] = "none" <=> row'[d] = "none"
        /\ handler'[d].pc # "idle" => handler'[d].status \in AckStatuses
    <3>1. CASE AckRead(d)
      BY <3>1 DEF AckRead, RInv, TypeOK, LockInv, db
    <3>2. CASE AckFlush(d) /\ row[d] # "none"
      BY <3>2 DEF AckFlush, RInv, TypeOK, LockInv, db
    <3>3. CASE AckCommit(d)
      BY <3>3 DEF AckCommit, RInv, TypeOK, LockInv, NoAck, AckStatuses, AckedStatuses
    <3> QED
      BY <1>2, <3>1, <3>2, <3>3
  <2> QED
    BY <2>1, <2>2, <2>3 DEF RInv, Unstarted, GoneInv, LockInv
<1> QED
  BY <1>1, <1>2 DEF RApplyAck

(* A removal spares the rows that somebody has updated. *)
LEMMA RemoveRInv ==
  ASSUME NEW d \in Device, RInv, Remove(d)
  PROVE  RInv'
<1>1. /\ removed' = removed \cup {d} /\ row' = [row EXCEPT ![d] = "none"]
      /\ UNCHANGED <<mode, targets, entry, up, serving, told, wire, disp, timer, handler,
                     nstatus, pushes, faults, flushed>>
  BY DEF Remove, RowGone, plan, conns, clients
<1>2. TypeOK'
  BY <1>1 DEF RInv, TypeOK, RowStatuses
<1>3. Unstarted'
  BY <1>1 DEF RInv, TypeOK, Unstarted
<1>4. GoneInv'
  BY <1>1 DEF Remove, Locked, RInv, TypeOK, GoneInv
<1>5. LockInv'
  BY <1>1 DEF Remove, Locked, TimerLocks, RowFree, RInv, TypeOK, LockInv
<1> QED
  BY <1>2, <1>3, <1>4, <1>5 DEF RInv

(* Clients, connections and restarts. *)
LEMMA ElsewhereRInv ==
  ASSUME RInv, UNCHANGED <<removed, flushed>>,
         Restart \/ \E d \in Device : Environment(d)
  PROVE  RInv'
<1>1. TypeOK'
  BY EnvironmentType, RestartType DEF RInv
<1>2. CASE Restart
  <2>1. /\ UNCHANGED <<targets, row>> /\ \A d \in Device : handler'[d] = NoAck
        /\ timer' = timer \/ (timer'.pc = "lost" /\ timer.pc # "off")
    BY <1>2 DEF Restart, plan, db, RInv, TypeOK
  <2>2. /\ disp' = disp \/ (disp'.pc \in {"unscheduled", "killed"} /\ disp.pc # "done")
        /\ disp'.pc = "killed" => disp.pc \in {"sending", "sent", "killed"}
    <3>1. disp.pc \in {"sending", "sent"} => disp' = [disp EXCEPT !.pc = "killed"]
      BY <1>2 DEF Restart
    <3>2. disp.pc = "waking" => disp' = [disp EXCEPT !.pc = "unscheduled"]
      BY <1>2 DEF Restart
    <3>3. disp.pc \notin {"sending", "sent", "waking"} => disp' = disp
      BY <1>2 DEF Restart
    <3> QED
      BY <3>1, <3>2, <3>3 DEF RInv, TypeOK
  <2> QED
    BY <1>1, <2>1, <2>2 DEF RInv, Unstarted, GoneInv, LockInv, NoAck
<1>3. ASSUME NEW d \in Device, Environment(d) PROVE RInv'
  <2>1. /\ UNCHANGED <<targets, disp, timer, row>>
        /\ \A e \in Device : handler'[e] \in {handler[e], NoAck}
    BY <1>3 DEF Environment, ClientAck, Connect, PeerGone, HandlerExits, HandlerRaises,
       plan, db, RInv, TypeOK
  <2> QED
    BY <1>1, <2>1 DEF RInv, Unstarted, GoneInv, LockInv, NoAck
<1> QED
  BY <1>2, <1>3

(* Every step of Removal is one of these. *)
LEMMA RStepIsOneOf ==
  ASSUME [RNext]_rvars
  PROVE  \/ RDispatch \/ RFallback
         \/ \E d \in Device : RApplyAck(d) \/ Remove(d)
         \/ /\ UNCHANGED <<removed, flushed>>
            /\ Restart \/ \E d \in Device : Environment(d)
         \/ UNCHANGED rvars
BY DEF RNext, RConnect, Environment

LEMMA StepRInv == RInv /\ [RNext]_rvars => RInv'
<1> SUFFICES ASSUME RInv, [RNext]_rvars PROVE RInv'
  OBVIOUS
<1>1. CASE UNCHANGED rvars
  BY <1>1 DEF rvars, vars, RInv, TypeOK, Unstarted, GoneInv, LockInv
<1> QED
  BY <1>1, RStepIsOneOf, DispatchRInv, FallbackRInv, ApplyAckRInv, RemoveRInv, ElsewhereRInv

(* However removals, dispatch, the timer and acks overlap: a removed       *)
(* device has no row, and whoever has updated a row still finds it.        *)
THEOREM RemovalInductive == RFairSpec => []RInv
BY InitRInv, StepRInv, PTL DEF RFairSpec

(* The core of the invariant survives removals: dispatch, the timer and    *)
(* acks take the steps they take without, or end where a row is gone.      *)
LEMMA RemovalCore ==
  ASSUME RIInv, [RNext]_rvars
  PROVE  CoreInv'
<1> USE DEF RIInv
<1>0. TypeOK' /\ TypeOK
  BY StepRInv DEF RInv
<1>1. CASE FlushRows
  <2>1. /\ disp.pc = "sending" /\ disp' \in {disp, [disp EXCEPT !.pc = "rolledback"]}
        /\ UNCHANGED <<mode, targets, told, timer, handler, row, nstatus, pushes>>
    BY <1>1 DEF FlushRows, plan, clients, db
  <2>2. /\ disp'.i = disp.i /\ disp'.sent = disp.sent
        /\ disp'.pc \in {"sending", "rolledback"} /\ timer.pc = "off"
    BY <2>1 DEF CoreInv, TypeOK, PhaseInv
  <2> QED
    BY <1>0, <2>1, <2>2 DEF CoreInv, PhaseInv, PushInv, PushesInPlanOrder, TimerInv, RowInv,
       AckInv, EscalationPushed, Pushed
<1>2. CASE FallbackFindsNoRow
  <2>1. /\ timer.pc \in {"picked", "sent"} /\ timer'.pc = "failed"
        /\ timer'.sent = timer.sent /\ timer'.nxt = timer.nxt
        /\ timer.pc = "sent" => row[timer.nxt] = "none"
        /\ UNCHANGED <<mode, targets, told, disp, handler, row, nstatus, pushes>>
    BY <1>0, <1>2 DEF FallbackFindsNoRow, plan, clients, db, TypeOK
  <2>2. PhaseInv' /\ PushInv' /\ PushesInPlanOrder' /\ TimerInv' /\ AckInv'
    BY <2>1 DEF CoreInv, PhaseInv, PushInv, PushesInPlanOrder, TimerInv, AckInv,
       EscalationPushed
  <2>3. timer.pc = "picked" /\ Pushed(timer.nxt) => row[timer.nxt] # "routed"
    BY <2>1 DEF CoreInv, PhaseInv, PushInv, RowInv, EscalationPushed, Pushed
  <2>4. RowInv'
    BY <2>1, <2>3 DEF CoreInv, RowInv, Pushed
  <2> QED
    BY <1>0, <2>2, <2>4 DEF CoreInv
<1>3. ASSUME NEW d \in Device, AckFindsNoRow(d) PROVE CoreInv'
  <2>1. /\ UNCHANGED <<mode, targets, told, disp, timer, row, nstatus, pushes>>
        /\ \A e \in Device : handler'[e] \in {handler[e], NoAck}
    BY <1>0, <1>3 DEF AckFindsNoRow, plan, db, TypeOK
  <2> QED
    BY <1>0, <2>1 DEF CoreInv, PhaseInv, PushInv, PushesInPlanOrder, TimerInv, RowInv,
       AckInv, EscalationPushed, Pushed, NoAck
<1>4. ASSUME NEW d \in Device, Remove(d) PROVE CoreInv'
  <2>1. /\ UNCHANGED <<mode, targets, told, disp, timer, handler, nstatus, pushes>>
        /\ \A e \in Device : row'[e] \in {row[e], "none"}
    BY <1>0, <1>4 DEF Remove, RowGone, plan, clients, TypeOK
  <2>2. PhaseInv' /\ PushInv' /\ PushesInPlanOrder' /\ TimerInv' /\ AckInv'
    BY <2>1 DEF CoreInv, PhaseInv, PushInv, PushesInPlanOrder, TimerInv, AckInv,
       EscalationPushed
  <2>3. RowInv'
    <3>1. \A e \in Device : row'[e] \in {"sent", "routed", "fallback_cancelled"} => row'[e] = row[e]
      BY <2>1
    <3>2. disp.sent \subseteq Device
      BY <1>0 DEF TypeOK
    <3>3. timer.pc = "escalated" => timer.sent \in Device /\ timer.nxt \in Device
      BY <1>0, <3>2, NAssumption DEF CoreInv, TimerInv, TypeOK, Device
    <3>4. Pushed(timer.nxt) => timer.nxt \in Device
      BY <1>0 DEF Pushed, TypeOK
    <3> QED
      BY <2>1, <3>1, <3>2, <3>3, <3>4 DEF CoreInv, RowInv, Pushed
  <2> QED
    BY <1>0, <2>2, <2>3 DEF CoreInv
<1>5. CASE UNCHANGED rvars
  BY <1>5 DEF rvars, vars, CoreInv, TypeOK, PhaseInv, PushInv, PushesInPlanOrder, TimerInv,
     RowInv, AckInv, EscalationPushed, Pushed
<1>6. CASE Dispatch \/ Fallback \/ Restart
  BY <1>6, DispatchCore, FallbackCore, RestartCore
<1>7. ASSUME NEW d \in Device, ApplyAck(d) PROVE CoreInv'
  BY <1>7, ApplyAckCore DEF RInv, LockInv
<1>8. ASSUME NEW d \in Device, Environment(d) PROVE CoreInv'
  BY <1>8, EnvironmentCore
<1> QED
  BY <1>1, <1>2, <1>3, <1>4, <1>5, <1>6, <1>7, <1>8, RStepIsOneOf
  DEF RDispatch, RFallback, Fallback, RApplyAck, ApplyAck

(* A target's row is committed while the target is there, and goes with    *)
(* its removal only.                                                       *)
LEMMA RemovalAccounted ==
  ASSUME RIInv, [RNext]_rvars
  PROVE  RowsAccounted'
<1> USE DEF RIInv
<1>0. TypeOK
  BY DEF RInv
<1>1. CASE flushed /\ DispatchCommit /\ UNCHANGED removed
  <2>1. disp.pc = "sent" /\ targets' = targets /\ \A d \in Device : row'[d] = CommittedRow(d)
    BY <1>1 DEF DispatchCommit, plan
  <2> QED
    BY <2>1 DEF RowsAccounted, CommittedRow
<1>2. ASSUME NEW d \in Device, Remove(d) PROVE RowsAccounted'
  BY <1>0, <1>2 DEF Remove, RowGone, plan, RowsAccounted, TypeOK
<1>3. ASSUME UNCHANGED <<targets, removed>>, nstatus' # "none" => nstatus # "none",
             \A d \in Device : row[d] # "none" => row'[d] # "none"
      PROVE  RowsAccounted'
  BY <1>3 DEF RowsAccounted
<1>4. CASE FlushRows \/ UNCHANGED rvars
  BY <1>3, <1>4 DEF FlushRows, plan, db, rvars, vars
<1>5. CASE Dispatch /\ ~DispatchCommit /\ UNCHANGED removed
  BY <1>3, <1>5 DEF Dispatch, DispatchSend, DispatchRaises, DispatchLoopEnds, ScheduleFallback,
     WakeRaises, plan, db
<1>6. CASE RFallback
  <2>1. /\ UNCHANGED <<targets, removed, nstatus>>
        /\ \A d \in Device : row'[d] # row[d] => row'[d] \in {"fallback_cancelled", "sent"}
    BY <1>0, <1>6 DEF RFallback, FallbackFindsNoRow, FallbackPicks, FallbackDeclines, FallbackFlush, FallbackSend,
       FallbackRaises, FallbackCommit, EscalatedRows, plan, db, TypeOK
  <2> QED
    BY <1>3, <2>1
<1>7. ASSUME NEW d \in Device, RApplyAck(d) PROVE RowsAccounted'
  <2>1. /\ UNCHANGED <<targets, removed>>
        /\ handler[d].pc = "idle" => nstatus' = nstatus
        /\ \A e \in Device : row'[e] # row[e] => row'[e] \in AckStatuses
    BY <1>0, <1>7 DEF RApplyAck, AckFindsNoRow, AckRead, AckFlush, AckCommit, plan, db, TypeOK,
       RInv, LockInv
  <2>2. handler[d].pc # "idle" => nstatus # "none"
    BY DEF CoreInv, AckInv
  <2> QED
    BY <1>3, <2>1, <2>2 DEF AckStatuses, AckedStatuses
<1>8. ASSUME UNCHANGED removed, Restart \/ \E d \in Device : Environment(d) PROVE RowsAccounted'
  BY <1>3, <1>8 DEF Restart, Environment, ClientAck, Connect, PeerGone, HandlerExits,
     HandlerRaises, plan, db
<1> QED
  BY <1>1, <1>2, <1>4, <1>5, <1>6, <1>7, <1>8, RStepIsOneOf DEF RDispatch

(* What dispatch, the timer and the acks know of the rows and the pushes   *)
(* stays so whatever is removed.                                           *)
THEOREM CoreDespiteRemovals == RFairSpec => []RIInv
<1>1. RInit => RIInv
  BY InitRInv, InitCore DEF RInit, Init, RIInv, RowsAccounted
<1>2. RIInv /\ [RNext]_rvars => RIInv'
  BY StepRInv, RemovalCore, RemovalAccounted DEF RIInv
<1> QED
  BY <1>1, <1>2, PTL DEF RFairSpec

(* Whoever is removed: the payload reaches devices in plan order, and      *)
(* escalates once, and what the rows that are left say is so.              *)
THEOREM WhatRemainsTrue == RFairSpec => []WhatRemainsIsTrue
<1>1. RIInv => WhatRemainsIsTrue
  <2> SUFFICES ASSUME RIInv PROVE WhatRemainsIsTrue
    OBVIOUS
  <2>1. PushesAreOrderly /\ LedgerMatchesPushes /\ RoutedMeansSilent /\ OneAwaitedDevice
    BY CorePushes, CoreLedger, CoreSilent, CoreOneAwaited DEF RIInv, PushesAreOrderly
  <2>2. ASSUME NEW k \in Device, row[k] = "fallback_cancelled"
        PROVE  \E m \in Device : m > k /\ (row[m] = "none" => m \in removed) /\ row[m] # "routed"
    <3>1. timer.pc = "escalated" /\ k = timer.sent /\ row[timer.nxt] # "routed"
      BY <2>2 DEF RIInv, CoreInv, RowInv
    <3>2. timer.nxt \in 1..targets /\ timer.nxt \in Device /\ timer.nxt > k
      BY <3>1, NAssumption DEF RIInv, CoreInv, TimerInv, TypeOK, Device
    <3>3. nstatus # "none"
      BY <2>2 DEF RIInv, CoreInv, PhaseInv
    <3> QED
      BY <3>1, <3>2, <3>3 DEF RIInv, RowsAccounted
  <2>3. nstatus # "none" => \A d \in Device : told[d] > 0 => row[d] # "none" \/ d \in removed
    BY DEF RIInv, CoreInv, PushInv, RowsAccounted
  <2> QED
    BY <2>1, <2>2, <2>3 DEF WhatRemainsIsTrue
<1> QED
  BY <1>1, CoreDespiteRemovals, PTL

(* What a step writes to a removed device. *)
LEMMA LeftAlone ==
  ASSUME RInv, RInv', [RNext]_rvars, NEW d \in removed
  PROVE  /\ row'[d] = "none"
         /\ pushes' = Append(pushes, d) => timer.pc = "flushed" /\ timer.nxt = d
<1>1. row'[d] = "none"
  <2>1. removed \subseteq removed'
    BY RStepIsOneOf DEF RDispatch, FlushRows, RFallback, RApplyAck, Remove, rvars
  <2> QED
    BY <2>1 DEF RInv, GoneInv
<1>2. ASSUME pushes' = Append(pushes, d) PROVE timer.pc = "flushed" /\ timer.nxt = d
  <2>1. /\ pushes \in Seq(Device) /\ pushes' # pushes
        /\ \A k \in Device : pushes' = Append(pushes, k) => k = d
    BY <1>2 DEF RInv, TypeOK
  <2>2. CASE RDispatch
    <3>1. flushed /\ DispatchSend
      BY <2>1, <2>2 DEF RDispatch, FlushRows, Dispatch, DispatchRaises, DispatchLoopEnds,
         DispatchCommit, ScheduleFallback, WakeRaises
    <3>2. PICK k \in Device : NextOnline(k) /\ Write(k)
      BY <3>1 DEF DispatchSend
    <3>3. k = d /\ k \in 1..targets
      BY <2>1, <3>2, NAssumption DEF Write, NextOnline, Device, RInv, TypeOK
    <3> QED
      BY <3>1, <3>3 DEF RInv, GoneInv, DispatchSend
  <2>3. CASE RFallback
    <3>1. FallbackSend
      BY <2>1, <2>3 DEF RFallback, FallbackFindsNoRow, FallbackPicks, FallbackDeclines,
         FallbackRaises, FallbackFlush, FallbackCommit
    <3>2. timer.pc = "flushed" /\ Write(timer.nxt)
      BY <2>1, <3>1 DEF FallbackSend
    <3> QED
      BY <2>1, <3>2 DEF Write, Online
  <2>4. ~RDispatch /\ ~RFallback => pushes' = pushes
    BY RStepIsOneOf DEF RApplyAck, AckFindsNoRow, AckRead, AckCommit, AckFlush, Remove,
       Restart, Environment, ClientAck, Connect, PeerGone, HandlerExits, HandlerRaises,
       rvars, vars
  <2> QED
    BY <2>1, <2>2, <2>3, <2>4
<1> QED
  BY <1>1, <1>2

(* From its removal on a device has no delivery row and gets no push, but  *)
(* from an escalation that had picked it.                                  *)
THEOREM RemovedLeftAlone == RFairSpec => RemovedIsLeftAlone
<1>1. RInv /\ RInv' /\ [RNext]_rvars
        => [\A d \in removed :
              /\ row'[d] = "none"
              /\ pushes' = Append(pushes, d) => timer.pc = "flushed" /\ timer.nxt = d]_rvars
  BY LeftAlone
<1> QED
  BY <1>1, RemovalInductive, PTL DEF RFairSpec, RemovedIsLeftAlone

(* What keeps a device from being cancelled, once its ack is in, even if   *)
(* its row then goes.                                                      *)
Spared(d) ==
  /\ timer.sent # d
  /\ row[d] # "fallback_cancelled"
  /\ timer.pc \in {"off", "armed"}
       => disp.pc \notin {"sending", "sent"} /\ row[d] \in AckStatuses \cup {"none"}

LEMMA SparedIsStable ==
  ASSUME NEW d \in Device, RInv, Spared(d), [RNext]_rvars
  PROVE  Spared(d)'
<1> USE DEF Spared, RInv
<1>1. CASE RDispatch
  <2>1. CASE FlushRows
    BY <2>1 DEF FlushRows, db, TypeOK
  <2>2. CASE flushed /\ Dispatch
    <3>1. disp.pc = "waking" => row' = row /\ disp'.pc \notin {"sending", "sent"}
      BY <2>2 DEF Dispatch, DispatchSend, DispatchRaises, DispatchLoopEnds, DispatchCommit,
         ScheduleFallback, WakeRaises, db, TypeOK
    <3>2. disp.pc \in {"sending", "sent", "waking"} /\ timer.pc = "off"
      BY <2>2 DEF Dispatch, DispatchSend, DispatchRaises, DispatchLoopEnds, DispatchCommit,
         ScheduleFallback, WakeRaises, Unstarted
    <3>3. timer'.sent = timer.sent
      BY <2>2 DEF Dispatch, DispatchSend, DispatchRaises, DispatchLoopEnds, DispatchCommit,
         ScheduleFallback, WakeRaises, TypeOK
    <3> QED
      BY <3>1, <3>2, <3>3
  <2> QED
    BY <1>1, <2>1, <2>2 DEF RDispatch
<1>2. CASE RFallback
  <2>0. disp' = disp
    BY <1>2 DEF RFallback, FallbackFindsNoRow, FallbackPicks, FallbackDeclines, FallbackSend,
       FallbackRaises, FallbackFlush, FallbackCommit
  <2>1. CASE FallbackPicks
    BY <2>1 DEF FallbackPicks, FirstSent, AckStatuses, AckedStatuses, TypeOK, db
  <2>2. CASE \/ FallbackDeclines \/ FallbackFlush \/ FallbackSend \/ FallbackRaises
             \/ FallbackFindsNoRow
    BY <2>2 DEF FallbackDeclines, FallbackFlush, FallbackSend, FallbackRaises,
       FallbackFindsNoRow, TypeOK, db
  <2>3. CASE FallbackCommit
    BY <2>3 DEF FallbackCommit, EscalatedRows, TypeOK
  <2> QED
    BY <1>2, <2>1, <2>2, <2>3 DEF RFallback
<1>3. ASSUME NEW e \in Device, RApplyAck(e) PROVE Spared(d)'
  <2>1. timer' = timer /\ disp' = disp
    BY <1>3 DEF RApplyAck, AckFindsNoRow, AckRead, AckFlush, AckCommit
  <2>2. row'[d] = row[d] \/ row'[d] \in AckStatuses
    BY <1>3 DEF RApplyAck, AckFindsNoRow, AckRead, AckFlush, AckCommit, LockInv, TypeOK, db
  <2> QED
    BY <2>1, <2>2 DEF AckStatuses, AckedStatuses
<1>4. ASSUME NEW e \in Device, Remove(e) PROVE Spared(d)'
  <2>1. /\ UNCHANGED <<timer, disp>> /\ row'[d] \in {row[d], "none"}
    BY <1>4 DEF Remove, RowGone, TypeOK
  <2> QED
    BY <2>1
<1>5. ASSUME NEW e \in Device, Environment(e) PROVE Spared(d)'
  <2>1. UNCHANGED <<timer, disp, row>>
    BY <1>5 DEF Environment, ClientAck, Connect, PeerGone, HandlerExits, HandlerRaises, db
  <2> QED
    BY <2>1
<1>6. CASE Restart
  <2>1. /\ row' = row /\ timer'.sent = timer.sent
        /\ timer' = timer \/ timer'.pc = "lost"
    BY <1>6 DEF Restart, TypeOK, db
  <2>2. disp.pc \notin {"sending", "sent"} => disp'.pc \notin {"sending", "sent"}
    BY <1>6 DEF Restart, TypeOK
  <2> QED
    BY <2>1, <2>2
<1>7. CASE UNCHANGED rvars
  BY <1>7 DEF rvars, vars
<1> QED
  BY <1>1, <1>2, <1>3, <1>4, <1>5, <1>6, <1>7, RStepIsOneOf

(* The same of an ack whose device may be removed at any time. *)
THEOREM EarlyAckIsFinalDespiteRemovals == RFairSpec => AckBeforeTimeoutIsFinal
<1>1. ASSUME NEW d \in Device
      PROVE  RFairSpec => [](timer.pc \in {"off", "armed"} /\ Acknowledged(d)
                               => [](row[d] # "fallback_cancelled"))
  <2>1. RInv /\ timer.pc \in {"off", "armed"} /\ Acknowledged(d) => Spared(d)
    BY DEF RInv, LockInv, Unstarted, Spared, Acknowledged, Device, AckStatuses, AckedStatuses
  <2>2. RInv /\ Spared(d) /\ [RNext]_rvars => Spared(d)'
    BY SparedIsStable
  <2>3. Spared(d) => row[d] # "fallback_cancelled"
    BY DEF Spared
  <2> QED
    BY <2>1, <2>2, <2>3, RemovalInductive, PTL DEF RFairSpec
<1> QED
  BY <1>1 DEF AckBeforeTimeoutIsFinal

-----------------------------------------------------------------------------
(* The rows implement the abstract ledger *)

(* Only devices that were pushed to have anything to acknowledge. *)
AckersHaveIt ==
  \A d \in Device :
    /\ told[d] > 0 => Pushed(d)
    /\ wire[d] # <<>> \/ handler[d].pc # "idle" => told[d] > 0

(* A write of the payload is recorded before its device can answer it. *)
LEMMA WriteIsRecorded ==
  ASSUME TypeOK, NEW k \in Device, Write(k), AckersHaveIt, UNCHANGED <<wire, handler>>
  PROVE  AckersHaveIt'
<1>1. \A d \in Device : told'[d] = told[d] \/ (d = k /\ told'[d] = 1)
  BY DEF Write, Receive, TypeOK
<1>2. \A d \in Device : Pushed(d) => Pushed(d)'
  <2>1. pushes' = Append(pushes, k) /\ pushes \in Seq(Device)
    BY DEF Write, TypeOK
  <2>2. \A a \in DOMAIN pushes : a \in DOMAIN pushes' /\ pushes'[a] = pushes[a]
    BY <2>1
  <2> QED
    BY <2>2 DEF Pushed
<1>3. Pushed(k)'
  <2>1. pushes' = Append(pushes, k) /\ pushes \in Seq(Device)
    BY DEF Write, TypeOK
  <2>2. Len(pushes) + 1 \in DOMAIN pushes' /\ pushes'[Len(pushes) + 1] = k
    BY <2>1
  <2> QED
    BY <2>2 DEF Pushed
<1>4. \A d \in Device : told[d] \in Nat
  BY DEF TypeOK
<1> QED
  BY <1>1, <1>2, <1>3, <1>4 DEF AckersHaveIt

(* What the coroutines, the clients and the removals do in between keeps   *)
(* it so: acks are lost, never made up.                                    *)
LEMMA AckersHaveItStep ==
  ASSUME TypeOK, AckersHaveIt, [RNext]_rvars
  PROVE  AckersHaveIt'
<1>1. CASE RDispatch
  <2>1. CASE DispatchSend
    <3>1. UNCHANGED <<wire, handler>> /\ \E k \in Device : Write(k)
      BY <2>1 DEF DispatchSend
    <3> QED
      BY <3>1, WriteIsRecorded
  <2>2. CASE ~DispatchSend
    <3>1. UNCHANGED <<told, wire, handler, pushes>>
      BY <1>1, <2>2 DEF RDispatch, FlushRows, Dispatch, DispatchRaises, DispatchLoopEnds,
         DispatchCommit, ScheduleFallback, WakeRaises, clients
    <3> QED
      BY <3>1 DEF AckersHaveIt, Pushed
  <2> QED
    BY <2>1, <2>2
<1>2. CASE RFallback
  <2>1. CASE FallbackSend /\ Write(timer.nxt)
    <3>1. UNCHANGED <<wire, handler>> /\ timer.nxt \in Device
      BY <2>1 DEF FallbackSend, Write, Online
    <3> QED
      BY <2>1, <3>1, WriteIsRecorded
  <2>2. CASE ~(FallbackSend /\ Write(timer.nxt))
    <3>1. UNCHANGED <<told, wire, handler, pushes>>
      BY <1>2, <2>2 DEF RFallback, FallbackFindsNoRow, FallbackPicks, FallbackDeclines,
         FallbackFlush, FallbackSend, FallbackRaises, FallbackCommit, clients
    <3> QED
      BY <3>1 DEF AckersHaveIt, Pushed
  <2> QED
    BY <2>1, <2>2
<1>3. ASSUME UNCHANGED <<told, pushes>>,
             \A d \in Device : /\ wire[d] = <<>> /\ handler[d].pc = "idle"
                                    => wire'[d] = <<>> /\ handler'[d].pc = "idle"
      PROVE  AckersHaveIt'
  BY <1>3 DEF AckersHaveIt, Pushed
<1>4. ASSUME NEW d \in Device, RApplyAck(d) PROVE AckersHaveIt'
  <2>1. CASE AckFindsNoRow(d)
    <3>1. UNCHANGED <<told, pushes>> /\ wire' \in {wire, [wire EXCEPT ![d] = <<>>]}
          /\ handler' = [handler EXCEPT ![d] = NoAck]
      BY <2>1 DEF AckFindsNoRow
    <3> QED
      BY <3>1, <1>3 DEF NoAck, TypeOK
  <2>2. CASE AckRead(d)
    BY <2>2, <1>3 DEF AckRead, TypeOK
  <2>3. CASE AckFlush(d)
    BY <2>3, <1>3 DEF AckFlush, TypeOK, clients
  <2>4. CASE AckCommit(d)
    BY <2>4, <1>3 DEF AckCommit, NoAck, TypeOK, clients
  <2> QED
    BY <1>4, <2>1, <2>2, <2>3, <2>4 DEF RApplyAck
<1>5. ASSUME NEW d \in Device, Environment(d) PROVE AckersHaveIt'
  <2>1. CASE ClientAck(d)
    <3>1. UNCHANGED <<handler, pushes>> /\ told[d] > 0
          /\ \A e \in Device : e # d => told'[e] = told[e] /\ wire'[e] = wire[e]
      BY <2>1 DEF ClientAck, TypeOK
    <3>2. told'[d] > 0
      BY <2>1, AckAssumption DEF ClientAck, TypeOK
    <3> QED
      BY <3>1, <3>2 DEF AckersHaveIt, Pushed
  <2>2. CASE Connect(d) \/ HandlerExits(d)
    BY <2>2, <1>3 DEF Connect, HandlerExits, clients
  <2>3. CASE PeerGone(d)
    <3>1. ASSUME NEW k \in 0..Len(wire[d]), wire' = [wire EXCEPT ![d] = SubSeq(@, 1, k)]
          PROVE  \A e \in Device : wire[e] = <<>> => wire'[e] = <<>>
      <4>1. wire[d] \in Seq(AckStatuses)
        BY DEF TypeOK
      <4>2. wire[d] = <<>> => k = 0
        BY <4>1
      <4>3. SubSeq(wire[d], 1, 0) = <<>>
        BY <4>1
      <4> QED
        BY <3>1, <4>2, <4>3 DEF TypeOK
    <3>2. UNCHANGED <<told, pushes, handler>> /\ \A e \in Device : wire[e] = <<>> => wire'[e] = <<>>
      BY <2>3, <3>1 DEF PeerGone
    <3> QED
      BY <3>2, <1>3
  <2>4. CASE HandlerRaises(d)
    BY <2>4, <1>3 DEF HandlerRaises, NoAck, TypeOK
  <2> QED
    BY <1>5, <2>1, <2>2, <2>3, <2>4 DEF Environment
<1>6. CASE Restart
  BY <1>6, <1>3 DEF Restart, NoAck
<1>7. ASSUME NEW d \in Device, Remove(d) PROVE AckersHaveIt'
  BY <1>7, <1>3 DEF Remove, clients
<1>8. CASE UNCHANGED rvars
  BY <1>8, <1>3 DEF rvars, vars
<1> QED
  BY <1>1, <1>2, <1>4, <1>5, <1>6, <1>7, <1>8, RStepIsOneOf

(* Whatever is lost or removed, an ack the server holds is of a device     *)
(* that was pushed to.                                                     *)
THEOREM AckersWerePushedTo == RFairSpec => []AckersHaveIt
<1>1. RInit => AckersHaveIt
  BY DEF RInit, Init, NoAck, AckersHaveIt
<1>2. RInv /\ AckersHaveIt /\ [RNext]_rvars => AckersHaveIt'
  BY AckersHaveItStep DEF RInv
<1> QED
  BY <1>1, <1>2, RemovalInductive, PTL DEF RFairSpec

(* The mapping's initial state is the ledger's.                            *)
LEMMA InitLedger == RInit => Promised!Init
BY DEF RInit, Init, Promised!Init, Promised!Modes, Modes, escalation

(* The commit of dispatch: every planned device is there, since the        *)
(* foreign keys held when the rows were inserted.                          *)
LEMMA CommitsLedger ==
  ASSUME RIInv, flushed, DispatchCommit, UNCHANGED removed
  PROVE  Promised!Commit
<1> USE DEF RIInv
<1>0. TypeOK /\ targets \in Nat /\ 1..targets \subseteq Device
  BY NAssumption DEF RInv, TypeOK, Device
<1>1. nstatus = "none" /\ UNCHANGED <<mode, removed, escalation>>
  BY DEF DispatchCommit, CoreInv, PhaseInv, escalation, plan
<1>2. 1..targets \in SUBSET (Device \ removed)
  BY <1>0 DEF RInv, GoneInv, DispatchCommit
<1>3. /\ disp.sent \in SUBSET (1..targets)
      /\ mode \notin Multi => \A d, e \in disp.sent : d = e
  BY DEF CoreInv, PushInv
<1>4. row' = [d \in Device |-> IF d \in disp.sent THEN "sent"
                               ELSE IF d \in 1..targets THEN "routed" ELSE "none"]
  BY <1>3 DEF DispatchCommit, CommittedRow
<1>5. nstatus' = IF disp.sent = {} THEN "routed" ELSE "sent"
  BY DEF DispatchCommit, DispatchedStatus
<1> QED
  BY <1>1, <1>2, <1>3, <1>4, <1>5 DEF Promised!Commit, Promised!Multi, Multi

(* The timer's pick is the decision.                                       *)
LEMMA DecidesLedger ==
  ASSUME RIInv, FallbackPicks, UNCHANGED removed
  PROVE  Promised!Decide
<1> USE DEF RIInv
<1>1. timer.pc = "armed" /\ mode = "active_with_fallback" /\ escalation.stage = "none"
  BY DEF FallbackPicks, CoreInv, PhaseInv, escalation
<1>2. \A d \in Device : row[d] \notin AckedStatuses
  BY DEF FallbackPicks, NobodyAcknowledged, Acknowledged, CoreInv, PhaseInv, AckedStatuses
<1>3. PICK s, k \in Device : /\ FirstSent(s) /\ NextCandidate(s, k)
                             /\ timer' = [pc |-> "picked", sent |-> s, nxt |-> k]
  BY DEF FallbackPicks
<1>4. s < k /\ row[s] = "sent" /\ row[k] = "routed"
  <2>1. s \in Nat /\ k \in (s+1)..targets /\ targets \in Nat
    BY <1>3, NAssumption DEF NextCandidate, Candidate, Device, RInv, TypeOK
  <2> QED
    BY <1>3, <2>1 DEF FirstSent, NextCandidate, Candidate
<1>5. escalation' = [stage |-> "open", from |-> s, to |-> k]
  BY <1>3 DEF escalation
<1> QED
  BY <1>1, <1>2, <1>4, <1>5
  DEF Promised!Decide, Promised!AckedStatuses, AckedStatuses, FallbackPicks, plan, db

(* The commit of both rows is the escalation. *)
LEMMA EscalatesLedger ==
  ASSUME RIInv, FallbackCommit, row[timer.nxt] # "none", UNCHANGED removed
  PROVE  Promised!Escalate
<1> USE DEF RIInv
<1>1. /\ timer.pc = "sent" /\ row[timer.sent] # "none"
      /\ timer' = [timer EXCEPT !.pc = "escalated"] /\ timer \in [pc : TimerStates, sent : Nat, nxt : Nat]
  BY DEF FallbackCommit, RInv, LockInv, TypeOK
<1>2. /\ escalation.stage = "open" /\ escalation.from = timer.sent /\ escalation.to = timer.nxt
      /\ escalation' = [escalation EXCEPT !.stage = "over"]
  BY <1>1 DEF escalation
<1> QED
  BY <1>1, <1>2 DEF Promised!Escalate, FallbackCommit, EscalatedRows, plan

(* A timer that stops, for whatever reason, gives up. *)
LEMMA GivesUpLedger ==
  ASSUME RIInv, UNCHANGED <<mode, row, nstatus, removed>>,
         timer.pc \in {"armed", "picked", "flushed", "sent"},
         timer'.pc \in {"declined", "failed", "lost"},
         timer'.sent = timer.sent, timer'.nxt = timer.nxt
  PROVE  Promised!GiveUp
BY DEF Promised!GiveUp, escalation

(* The commit of an ack. *)
LEMMA AcksLedger ==
  ASSUME RIInv, AckersHaveIt, NEW d \in Device, AckCommit(d), UNCHANGED removed
  PROVE  Promised!Ack(d)
<1> USE DEF RIInv
<1>1. row[d] # "none" /\ handler[d].status \in AckStatuses
  BY DEF AckCommit, RInv, LockInv
<1>2. row[d] = "routed" => d = escalation.to
  BY CoreLedger DEF AckCommit, AckersHaveIt, LedgerMatchesPushes, escalation
<1>3. /\ row' \in {row, [row EXCEPT ![d] = handler[d].status]}
      /\ nstatus' \in {nstatus} \cup ({handler[d].status} \ {"failed"})
  BY DEF AckCommit, AckedNotification
<1> QED
  BY <1>1, <1>2, <1>3
  DEF Promised!Ack, Promised!AckStatuses, Promised!AckedStatuses, AckStatuses, AckedStatuses,
      AckCommit, escalation, plan

(* Every step of the system is a step of the ledger or none of its.        *)
LEMMA StepLedger ==
  ASSUME RIInv, AckersHaveIt, [RNext]_rvars
  PROVE  [Promised!Next]_(Promised!ledger)
<1> USE DEF RIInv
<1>0. TypeOK
  BY DEF RInv
<1>1. ASSUME UNCHANGED <<mode, row, nstatus, removed, timer>>
      PROVE  UNCHANGED Promised!ledger
  BY <1>1 DEF Promised!ledger, escalation
<1>2. CASE RDispatch
  <2>1. CASE flushed /\ DispatchCommit /\ UNCHANGED removed
    BY <2>1, CommitsLedger DEF Promised!Next
  <2>2. CASE flushed /\ ScheduleFallback /\ UNCHANGED removed
    <3>1. timer.pc = "off" /\ timer' \in {timer, [timer EXCEPT !.pc = "armed"]}
      BY <2>2 DEF ScheduleFallback, CoreInv, PhaseInv
    <3>2. escalation' = escalation
      BY <1>0, <3>1 DEF escalation, TypeOK
    <3> QED
      BY <2>2, <3>2 DEF Promised!ledger, ScheduleFallback, plan, db
  <2>3. CASE FlushRows
    BY <1>1, <2>3 DEF FlushRows, plan, db
  <2>4. CASE (DispatchSend \/ DispatchRaises \/ DispatchLoopEnds \/ WakeRaises) /\ UNCHANGED removed
    BY <1>1, <2>4 DEF DispatchSend, DispatchRaises, DispatchLoopEnds, WakeRaises, plan, db
  <2> QED
    BY <1>2, <2>1, <2>2, <2>3, <2>4 DEF RDispatch, Dispatch
<1>3. CASE RFallback
  <2>0. UNCHANGED removed
    BY <1>3 DEF RFallback
  <2>1. CASE FallbackPicks
    BY <2>0, <2>1, DecidesLedger DEF Promised!Next
  <2>2. CASE FallbackCommit /\ row[timer.nxt] # "none"
    BY <2>0, <2>2, EscalatesLedger DEF Promised!Next
  <2>3. CASE FallbackDeclines \/ FallbackRaises \/ FallbackFindsNoRow
    <3>1. /\ UNCHANGED <<mode, row, nstatus>> /\ timer.pc \in {"armed", "picked", "flushed", "sent"}
          /\ timer'.pc \in {"declined", "failed"} /\ timer'.sent = timer.sent /\ timer'.nxt = timer.nxt
      BY <1>0, <2>3 DEF FallbackDeclines, FallbackRaises, FallbackFindsNoRow, plan, db, TypeOK
    <3> QED
      BY <2>0, <3>1, GivesUpLedger DEF Promised!Next
  <2>4. CASE FallbackFlush \/ FallbackSend
    <3>1. /\ UNCHANGED <<mode, row, nstatus>> /\ timer'.sent = timer.sent /\ timer'.nxt = timer.nxt
          /\ timer.pc \in {"picked", "flushed"} /\ timer'.pc \in {"flushed", "sent"}
      BY <1>0, <2>4 DEF FallbackFlush, FallbackSend, plan, db, TypeOK
    <3> QED
      BY <2>0, <3>1 DEF Promised!ledger, escalation
  <2> QED
    BY <1>3, <2>1, <2>2, <2>3, <2>4 DEF RFallback
<1>4. ASSUME NEW d \in Device, RApplyAck(d) PROVE [Promised!Next]_(Promised!ledger)
  <2>1. CASE AckCommit(d) /\ UNCHANGED removed
    BY <2>1, AcksLedger DEF Promised!Next
  <2>2. CASE (AckFindsNoRow(d) \/ AckRead(d) \/ AckFlush(d)) /\ UNCHANGED removed
    BY <1>1, <2>2 DEF AckFindsNoRow, AckRead, AckFlush, plan, db
  <2> QED
    BY <1>4, <2>1, <2>2 DEF RApplyAck
<1>5. ASSUME NEW d \in Device, Remove(d) PROVE [Promised!Next]_(Promised!ledger)
  <2>1. Promised!Remove(d)
    BY <1>5 DEF Remove, RowGone, Promised!Remove, escalation, plan, TypeOK, RInv
  <2> QED
    BY <2>1 DEF Promised!Next
<1>6. ASSUME NEW d \in Device, Environment(d), UNCHANGED removed PROVE UNCHANGED Promised!ledger
  BY <1>1, <1>6 DEF Environment, ClientAck, Connect, PeerGone, HandlerExits, HandlerRaises,
     plan, db
<1>7. CASE Restart /\ UNCHANGED removed
  <2>1. CASE timer.pc \in {"armed", "picked", "flushed", "sent"}
    <3>1. /\ UNCHANGED <<mode, row, nstatus>>
          /\ timer'.pc = "lost" /\ timer'.sent = timer.sent /\ timer'.nxt = timer.nxt
      BY <1>0, <1>7, <2>1 DEF Restart, plan, db, TypeOK
    <3> QED
      BY <1>7, <2>1, <3>1, GivesUpLedger DEF Promised!Next
  <2>2. CASE timer.pc \notin {"armed", "picked", "flushed", "sent"}
    BY <1>1, <1>7, <2>2 DEF Restart, plan, db
  <2> QED
    BY <2>1, <2>2
<1>8. CASE UNCHANGED rvars
  BY <1>1, <1>8 DEF rvars, vars
<1> QED
  BY <1>2, <1>3, <1>4, <1>5, <1>6, <1>7, <1>8, RStepIsOneOf

(* What readers of the rows and of the status see goes through the steps   *)
(* of the abstract specification, for every plan, ack order, number of     *)
(* faults and sequence of removals.                                        *)
THEOREM LedgerImplemented == RFairSpec => ImplementsLedger
<1>1. RIInv /\ AckersHaveIt /\ [RNext]_rvars => [Promised!Next]_(Promised!ledger)
  BY StepLedger
<1> QED
  BY <1>1, InitLedger, CoreDespiteRemovals, AckersWerePushedTo, PTL
  DEF RFairSpec, ImplementsLedger, Promised!Spec

-----------------------------------------------------------------------------
(* The timeout's decision *)

(* Of positions in the plan, some is the first. *)
LEMMA FirstOf ==
  ASSUME NEW S \in SUBSET Nat, S # {}
  PROVE  \E n \in S : \A m \in S : ~(m < n)
<1> DEFINE R == OpToRel(<, Nat)
<1>1. IsWellFoundedOn(R, Nat)
  BY NatLessThanWellFounded
<1>2. \A m, n \in Nat : m < n => <<m, n>> \in R
  BY DEF OpToRel
<1> HIDE DEF R
<1>3. PICK n \in S : \A m \in S : ~(<<m, n>> \in R)
  BY <1>1, WFMin
<1> QED
  BY <1>2, <1>3

(* With a row that is sent and a connected candidate after it, the two     *)
(* searches of run_fallback find something.                                *)
LEMMA SearchesFind ==
  ASSUME TypeOK, PhaseInv, NEW s \in Device, NEW k \in Device,
         s < k, row[s] = "sent", row[k] = "routed", Online(k)
  PROVE  \E t, n \in Device : FirstSent(t) /\ NextCandidate(t, n)
<1>0. targets \in Nat /\ Device \subseteq Nat /\ s \in 1..targets /\ k \in 1..targets
      /\ 1..targets \subseteq Device
  BY NAssumption DEF TypeOK, PhaseInv, Device
<1> DEFINE Sents == {t \in 1..targets : row[t] = "sent"}
<1>1. PICK t \in Sents : \A j \in Sents : ~(j < t)
  <2>1. Sents \in SUBSET Nat /\ s \in Sents
    BY <1>0
  <2> QED
    BY <2>1, FirstOf
<1>2. FirstSent(t)
  <2>1. \A j \in 1..(t-1) : j \in 1..targets /\ j < t
    BY <1>0
  <2> QED
    BY <1>1, <2>1 DEF FirstSent
<1>3. t < k /\ t \in Nat /\ t \in Device
  BY <1>0, <1>1
<1> DEFINE Candidates == {n \in 1..targets : Candidate(t, n)}
<1>4. PICK n \in Candidates : \A j \in Candidates : ~(j < n)
  <2>1. Candidate(t, k)
    BY <1>0, <1>3 DEF Candidate
  <2>2. Candidates \in SUBSET Nat /\ k \in Candidates
    BY <1>0, <2>1
  <2> QED
    BY <2>2, FirstOf
<1>5. NextCandidate(t, n)
  <2>1. \A j \in (t+1)..(n-1) : j \in 1..targets /\ j < n
    BY <1>0, <1>3
  <2> QED
    BY <1>4, <2>1 DEF NextCandidate
<1> QED
  BY <1>0, <1>2, <1>3, <1>4, <1>5

(* The timer never lets go of a silent device while a later one could be   *)
(* pushed to, for any number of targets and whoever is removed.            *)
THEOREM DeclinesHaveReasons == RFairSpec => DeclinesForAReason
<1>1. RIInv /\ [RNext]_rvars
        => [timer.pc = "armed" /\ timer'.pc = "declined" =>
              \/ \E d \in Device : Acknowledged(d)
              \/ \A s, k \in Device :
                   s < k /\ row[s] = "sent" /\ row[k] = "routed" => ~Online(k)]_rvars
  <2> SUFFICES ASSUME RIInv, [RNext]_rvars, timer.pc = "armed", timer'.pc = "declined",
                      NEW s \in Device, NEW k \in Device,
                      s < k, row[s] = "sent", row[k] = "routed", Online(k)
               PROVE  \E d \in Device : Acknowledged(d)
    OBVIOUS
  <2>0. TypeOK /\ PhaseInv
    BY DEF RIInv, CoreInv
  <2>1. FallbackDeclines
    <3>1. RFallback
      BY <2>0, RStepIsOneOf DEF TypeOK, RDispatch, FlushRows, Dispatch, DispatchSend, DispatchRaises,
         DispatchLoopEnds, DispatchCommit, ScheduleFallback, WakeRaises, RApplyAck,
         AckFindsNoRow, AckRead, AckFlush, AckCommit, Remove, Restart, Environment, ClientAck,
         Connect, PeerGone, HandlerExits, HandlerRaises, rvars, vars
    <3> QED
      BY <3>1 DEF RFallback, FallbackFindsNoRow, FallbackPicks, FallbackFlush, FallbackSend,
         FallbackRaises, FallbackCommit
  <2>2. ~NobodyAcknowledged
    BY <2>0, <2>1, SearchesFind DEF FallbackDeclines
  <2>3. 1..targets \subseteq Device
    BY <2>0, NAssumption DEF TypeOK, Device
  <2> QED
    BY <2>2, <2>3 DEF NobodyAcknowledged
<1> QED
  BY <1>1, CoreDespiteRemovals, PTL DEF RFairSpec, DeclinesForAReason

-----------------------------------------------------------------------------
(* Connections *)

(* The connections that dispatch, the timer and the acks see, with faults  *)
(* and removals or without, go through the steps of Link.tla.              *)
LEMMA ConnsStep ==
  ASSUME Dispatch \/ Fallback \/ Restart
           \/ \E d \in Device : ApplyAck(d) \/ Environment(d)
  PROVE  [L!Next]_conns
<1>1. CASE Dispatch \/ Fallback
  BY <1>1 DEF Dispatch, DispatchSend, DispatchRaises, DispatchLoopEnds, DispatchCommit,
     ScheduleFallback, WakeRaises, Fallback, FallbackPicks, FallbackDeclines, FallbackFlush,
     FallbackSend, FallbackRaises, FallbackCommit, conns
<1>2. ASSUME NEW d \in Device, ApplyAck(d) PROVE UNCHANGED conns
  BY <1>2 DEF ApplyAck, AckRead, AckFlush, AckCommit, conns
<1>3. ASSUME NEW d \in Device, Environment(d) PROVE [L!Next]_conns
  BY <1>3 DEF Environment, ClientAck, Connect, PeerGone, HandlerExits, HandlerRaises, L!Next
<1>4. CASE Restart
  BY <1>4 DEF Restart, L!Next
<1> QED
  BY <1>1, <1>2, <1>3, <1>4

(* The registry and the sockets under dispatch, the timer and the acks go  *)
(* through the steps of Link.tla, whatever faults there are.               *)
THEOREM ConnsImplementLink == Spec => L!Spec
<1>1. Init => L!Init
  BY DEF Init
<1>2. [Next]_vars => [L!Next]_conns
  BY ConnsStep DEF Next, vars, conns
<1> QED
  BY <1>1, <1>2, PTL DEF Spec, L!Spec, conns, L!vars

(* So do those under removals: a removed device's socket is served on and  *)
(* leaves as any other, but its handler may end over a row that is gone.   *)
THEOREM ConnsImplementLinkDespiteRemovals == RFairSpec => L!Spec
<1>1. RInit => L!Init
  BY DEF RInit, Init
<1>2. [RNext]_rvars => [L!Next]_conns
  <2> SUFFICES ASSUME [RNext]_rvars PROVE [L!Next]_conns
    OBVIOUS
  <2>1. CASE RDispatch \/ RFallback
    BY <2>1, ConnsStep DEF RDispatch, FlushRows, RFallback, FallbackFindsNoRow, Fallback, conns
  <2>2. ASSUME NEW d \in Device, RApplyAck(d) PROVE [L!Next]_conns
    BY <2>2, ConnsStep DEF RApplyAck, AckFindsNoRow, ApplyAck, L!Next
  <2>3. ASSUME NEW d \in Device, Remove(d) PROVE [L!Next]_conns
    BY <2>3 DEF Remove, conns
  <2>4. CASE Restart \/ \E d \in Device : Environment(d)
    BY <2>4, ConnsStep
  <2>5. CASE UNCHANGED rvars
    BY <2>5 DEF rvars, vars, conns
  <2> QED
    BY <2>1, <2>2, <2>3, <2>4, <2>5, RStepIsOneOf
<1> QED
  BY <1>1, <1>2, PTL DEF RFairSpec, L!Spec, conns, L!vars

=============================================================================
