------------------------------ MODULE Delivery ------------------------------
(***************************************************************************)
(* One notification from the planned targets to its delivery rows          *)
(* (server/app/notifications/delivery.py, the tail of service.py's         *)
(* create_notification, and the connections and ack messages of            *)
(* websocket/gateway.py and client/lib/app_state.dart).                    *)
(*                                                                         *)
(* The server is one asyncio process: a step runs from one await to the    *)
(* next.  Three kinds of coroutine work on the notification: the request   *)
(* that dispatches it, the escalation timer, and one WebSocket handler per *)
(* device that applies acks.  Each has its own database session (READ      *)
(* COMMITTED): it sees committed rows when it selects, writes blindly the  *)
(* attributes it changed, and holds a row lock from its UPDATE to its      *)
(* commit.                                                                 *)
(*                                                                         *)
(* A device is named by its order_index in the plan, from 1: targets are   *)
(* distinct (MCDecisions!TargetsDistinct).                                   *)
(***************************************************************************)
EXTENDS Constants, Naturals, Sequences

CONSTANTS
  N,          \* most targets a plan may have
  AckOrder,   \* the acks a client may send for a notification, in its order
  MaxFaults   \* bound on lost connections and server restarts together

ASSUME NAssumption == N \in Nat
ASSUME AckAssumption == AckOrder \in Seq(AckStatuses)
ASSUME FaultsAssumption == MaxFaults \in Nat

Device == 1..N

VARIABLES
  \* the plan, fixed when dispatch is called
  mode, targets,
  \* connections and the registry
  entry, up, serving,   \* as in Link.tla
  \* clients and their acks
  told,     \* 0: not received; k+1: received, k is its last ack in AckOrder
  wire,     \* acks a device has sent and the server has not read
  \* server coroutines
  disp,     \* the request: pc, next loop index, deliveries marked sent
  timer,    \* the escalation timer: pc, the deliveries it picked
  handler,  \* per device: the ack being applied and what the select saw
  \* database (committed)
  row,      \* NotificationDelivery.status per device, "none" if no row
  nstatus,  \* Notification.status, "none" if the notification is not committed
  \* history and bound
  pushes,   \* devices the payload was written to, in order
  faults

conns == <<entry, up, serving>>
L == INSTANCE Link

clients == <<told, wire>>
db == <<row, nstatus>>
plan == <<mode, targets>>
vars == <<mode, targets, entry, up, serving, told, wire, disp, timer, handler,
          row, nstatus, pushes, faults>>

NoAck == [pc |-> "idle", status |-> "none", seen |-> "none", nseen |-> "none"]

(* Routing.tla: active_only and specific_device plans have one target at   *)
(* most, the other modes any number.                                       *)
Init ==
  /\ mode \in Modes
  /\ targets \in 0..(IF mode \in {"active_only", "specific_device"} /\ N > 1 THEN 1 ELSE N)
  /\ L!Init
  /\ told = [d \in Device |-> 0]
  /\ wire = [d \in Device |-> <<>>]
  /\ disp = [pc |-> "sending", i |-> 1, sent |-> {}]
  /\ timer = [pc |-> "off", sent |-> 0, nxt |-> 0]
  /\ handler = [d \in Device |-> NoAck]
  /\ row = [d \in Device |-> "none"]
  /\ nstatus = "none"
  /\ pushes = <<>>
  /\ faults = 0

-----------------------------------------------------------------------------
(* ConnectionManager.is_online *)
Online(d) == d \in Device /\ entry[d] # "none"

(* ConnectionManager.send to a registered device.  With the peer there the *)
(* client receives the payload; with the peer gone and not yet noticed the *)
(* bytes are lost, or the write raises (SendRaises).                       *)
Receive(d) == told' = IF entry[d] = "live" /\ told[d] = 0 THEN [told EXCEPT ![d] = 1] ELSE told

Write(d) ==
  /\ Online(d)
  /\ Receive(d)
  /\ pushes' = Append(pushes, d)

SendRaises(d) == entry[d] = "dead"

-----------------------------------------------------------------------------
(* dispatch *)

(* The delivery the loop sends to next: the first online one from disp.i.  *)
NextOnline(k) ==
  /\ k \in disp.i..targets
  /\ Online(k)
  /\ \A j \in disp.i..(k-1) : ~Online(j)

NoneOnline == \A k \in disp.i..targets : ~Online(k)

(* _mark_sent, then break unless the mode is multi. *)
AfterSend(k) ==
  [pc |-> IF mode \in Multi THEN "sending" ELSE "sent",
   i |-> k + 1, sent |-> disp.sent \cup {k}]

DispatchSend ==
  /\ disp.pc = "sending"
  /\ \E k \in Device :
       /\ NextOnline(k)
       /\ Write(k)
       /\ disp' = AfterSend(k)
  /\ UNCHANGED <<plan, conns, wire, timer, handler, db, faults>>

(* The send raises: the request fails and its session rolls back, rows and *)
(* notification included.                                                  *)
DispatchRaises ==
  /\ disp.pc = "sending"
  /\ \E k \in Device : NextOnline(k) /\ SendRaises(k)
  /\ disp' = [disp EXCEPT !.pc = "rolledback"]
  /\ UNCHANGED <<plan, conns, clients, timer, handler, db, pushes, faults>>

DispatchLoopEnds ==
  /\ disp.pc = "sending"
  /\ NoneOnline
  /\ disp' = [disp EXCEPT !.pc = "sent"]
  /\ UNCHANGED <<plan, conns, clients, timer, handler, db, pushes, faults>>

CommittedRowUnmarked(k) == IF k \notin 1..targets THEN "none" ELSE "routed"

CommittedRowOffByOne(k) ==
  IF k \notin 1..(targets - 1) THEN "none" ELSE IF k \in disp.sent THEN "sent" ELSE "routed"

(* The row dispatch commits for the k-th target. *)
CommittedRow(k) ==
  IF k \notin 1..targets THEN "none" ELSE IF k \in disp.sent THEN "sent" ELSE "routed"

(* STATUS_SENT if sent_any else STATUS_ROUTED *)
DispatchedStatus == IF disp.sent # {} THEN "sent" ELSE "routed"

DispatchCommit ==
  /\ disp.pc = "sent"
  /\ row' = [k \in Device |-> CommittedRow(k)]
  /\ nstatus' = DispatchedStatus
  /\ disp' = [disp EXCEPT !.pc = "waking"]
  /\ UNCHANGED <<plan, conns, clients, timer, handler, pushes, faults>>

(* send_push_wakes has returned; create_notification arms the timer. *)
ScheduleFallback ==
  /\ disp.pc = "waking"
  /\ disp' = [disp EXCEPT !.pc = "done"]
  /\ timer' = IF NeedsFallback(mode, targets) THEN [timer EXCEPT !.pc = "armed"] ELSE timer
  /\ UNCHANGED <<plan, conns, clients, handler, db, pushes, faults>>

(* send_push_wakes raises what its except httpx.HTTPError does not catch:  *)
(* the notification is committed, the request fails, no timer is armed.    *)
WakeRaises ==
  /\ disp.pc = "waking"
  /\ disp' = [disp EXCEPT !.pc = "unscheduled"]
  /\ UNCHANGED <<plan, conns, clients, timer, handler, db, pushes, faults>>

-----------------------------------------------------------------------------
(* run_fallback *)

Acknowledged(d) == row[d] \in AckedStatuses

(* not any(d.status in acked for d in rows) *)
NobodyAcknowledged == \A d \in 1..targets : ~Acknowledged(d)

FirstPending(s) ==
  /\ s \in 1..targets
  /\ row[s] \in {"routed", "sent"}
  /\ \A j \in 1..(s-1) : row[j] \notin {"routed", "sent"}

(* The first delivery that is sent. *)
FirstSent(s) ==
  /\ s \in 1..targets
  /\ row[s] = "sent"
  /\ \A j \in 1..(s-1) : row[j] # "sent"

CandidateNotLast(s, k) ==
  k \in (s+1)..(targets - 1) /\ row[k] = "routed" /\ Online(k)

CandidateAnyOrder(s, k) == k \in 1..targets /\ k # s /\ row[k] = "routed" /\ Online(k)

Candidate(s, k) == k \in (s+1)..targets /\ row[k] = "routed" /\ Online(k)

NextCandidate(s, k) == Candidate(s, k) /\ \A j \in (s+1)..(k-1) : ~Candidate(s, j)

FallbackPicksCaptured ==
  /\ timer.pc = "armed"
  /\ \E s, k \in Device :
       /\ s \in disp.sent
       /\ NextCandidate(s, k)
       /\ timer' = [pc |-> "picked", sent |-> s, nxt |-> k]
  /\ UNCHANGED <<plan, conns, clients, disp, handler, db, pushes, faults>>

(* The timer fires: the rows are selected, and the decision is made before *)
(* the next await.                                                         *)
FallbackPicks ==
  /\ timer.pc = "armed"
  /\ NobodyAcknowledged
  /\ \E s, k \in Device :
       /\ FirstSent(s)
       /\ NextCandidate(s, k)
       /\ timer' = [pc |-> "picked", sent |-> s, nxt |-> k]
  /\ UNCHANGED <<plan, conns, clients, disp, handler, db, pushes, faults>>

FallbackDeclinesIfAcknowledged ==
  /\ timer.pc = "armed"
  /\ ~NobodyAcknowledged
  /\ timer' = [timer EXCEPT !.pc = "declined"]
  /\ UNCHANGED <<plan, conns, clients, disp, handler, db, pushes, faults>>

FallbackDeclines ==
  /\ timer.pc = "armed"
  /\ ~ (NobodyAcknowledged /\ \E s, k \in Device : FirstSent(s) /\ NextCandidate(s, k))
  /\ timer' = [timer EXCEPT !.pc = "declined"]
  /\ UNCHANGED <<plan, conns, clients, disp, handler, db, pushes, faults>>

RowFree(d) == handler[d].pc # "flushed"

(* session.get autoflushes the cancellation: the row is locked from here   *)
(* to the commit.                                                          *)
FallbackFlush ==
  /\ timer.pc = "picked"
  /\ RowFree(timer.sent)
  /\ timer' = [timer EXCEPT !.pc = "flushed"]
  /\ UNCHANGED <<plan, conns, clients, disp, handler, db, pushes, faults>>

(* manager.send, whose result is not looked at: to a device that left      *)
(* since the pick nothing is written.                                      *)
FallbackSend ==
  /\ timer.pc = "flushed"
  /\ \/ Write(timer.nxt)
     \/ ~Online(timer.nxt) /\ UNCHANGED <<told, pushes>>
  /\ timer' = [timer EXCEPT !.pc = "sent"]
  /\ UNCHANGED <<plan, conns, wire, disp, handler, db, faults>>

(* The send raises: _delayed_fallback logs it, the session rolls back.     *)
FallbackRaises ==
  /\ timer.pc = "flushed"
  /\ SendRaises(timer.nxt)
  /\ timer' = [timer EXCEPT !.pc = "failed"]
  /\ UNCHANGED <<plan, conns, clients, disp, handler, db, pushes, faults>>

EscalatedRowsCancelOnly == [row EXCEPT ![timer.sent] = "fallback_cancelled"]

EscalatedRowsKeepSent == [row EXCEPT ![timer.nxt] = "sent"]

(* Both UPDATEs are blind: they overwrite what an ack committed since the  *)
(* select.                                                                 *)
EscalatedRows == [row EXCEPT ![timer.sent] = "fallback_cancelled", ![timer.nxt] = "sent"]

FallbackCommit ==
  /\ timer.pc = "sent"
  /\ RowFree(timer.nxt)
  /\ row' = EscalatedRows
  /\ timer' = [timer EXCEPT !.pc = "escalated"]
  /\ UNCHANGED <<plan, conns, clients, disp, handler, nstatus, pushes, faults>>

-----------------------------------------------------------------------------
(* Clients and apply_ack *)

(* AppState._onNotification: "delivered" at once, then what the device     *)
(* manages of the rest.  A sink that is closed swallows the ack.           *)
ClientAck(d) ==
  /\ told[d] > 0
  /\ \E k \in told[d]..Len(AckOrder) :
       /\ told[d] = 1 => k = 1
       /\ told' = [told EXCEPT ![d] = k + 1]
       /\ wire' = IF d \in up THEN [wire EXCEPT ![d] = Append(@, AckOrder[k])] ELSE wire
  /\ UNCHANGED <<plan, conns, disp, timer, handler, db, pushes, faults>>

(* The handler reads an ack and selects its delivery row; with no          *)
(* committed row the ack is dropped.                                       *)
AckRead(d) ==
  /\ handler[d].pc = "idle"
  /\ wire[d] # <<>>
  /\ wire' = [wire EXCEPT ![d] = Tail(@)]
  /\ handler' = IF row[d] = "none" THEN handler
                ELSE [handler EXCEPT ![d] = [pc |-> "selected", status |-> Head(wire[d]),
                                             seen |-> row[d], nseen |-> "none"]]
  /\ UNCHANGED <<plan, conns, told, disp, timer, db, pushes, faults>>

TimerLocks(d) == timer.pc \in {"flushed", "sent"} /\ timer.sent = d

(* session.get(Notification) autoflushes the delivery's UPDATE, waiting    *)
(* for the row's lock, and reads the notification.                         *)
AckFlush(d) ==
  /\ handler[d].pc = "selected"
  /\ ~TimerLocks(d)
  /\ handler' = [handler EXCEPT ![d].pc = "flushed", ![d].nseen = nstatus]
  /\ UNCHANGED <<plan, conns, clients, disp, timer, db, pushes, faults>>

(* The notification's new status: an attribute set to the value that was   *)
(* loaded is not written.                                                  *)
AckedNotification(h) ==
  IF h.status = "failed" \/ h.status = h.nseen THEN nstatus ELSE h.status

AckCommit(d) ==
  /\ handler[d].pc = "flushed"
  /\ row' = IF handler[d].status = handler[d].seen THEN row
            ELSE [row EXCEPT ![d] = handler[d].status]
  /\ nstatus' = AckedNotification(handler[d])
  /\ handler' = [handler EXCEPT ![d] = NoAck]
  /\ UNCHANGED <<plan, conns, clients, disp, timer, pushes, faults>>

-----------------------------------------------------------------------------
(* Connections (websocket/gateway.py ws_endpoint), crashes *)

Connect(d) ==
  /\ L!Connect(d)
  /\ UNCHANGED <<plan, clients, disp, timer, handler, db, pushes, faults>>

(* A client goes away, before or after its socket is accepted: what the    *)
(* server has not received of the device's acks is lost.                   *)
PeerGone(d) ==
  /\ faults < MaxFaults
  /\ faults' = faults + 1
  /\ \/ L!PeerGone(d) /\ \E k \in 0..Len(wire[d]) : wire' = [wire EXCEPT ![d] = SubSeq(@, 1, k)]
     \/ L!ConnectGone(d) /\ UNCHANGED wire
  /\ UNCHANGED <<plan, told, disp, timer, handler, db, pushes>>

(* The handler whose client is gone has read what there was to read. *)
HandlerExits(d) ==
  /\ L!HandlerExits(d)
  /\ d \in up \/ serving[d] > 1 \/ (wire[d] = <<>> /\ handler[d].pc = "idle")
  /\ UNCHANGED <<plan, clients, disp, timer, handler, db, pushes, faults>>

(* A handler raises, in the middle of an ack it may be: its session rolls  *)
(* back and the rest of the socket is not read.                            *)
HandlerRaises(d) ==
  /\ faults < MaxFaults
  /\ faults' = faults + 1
  /\ \/ L!HandlerRaises(d) \/ L!HandlerExits(d)
     \/ L!SetupRaises(d) /\ (serving[d] > 1 \/ handler[d].pc = "idle")
  /\ IF d \in up' THEN UNCHANGED <<wire, handler>>
     ELSE /\ wire' = [wire EXCEPT ![d] = <<>>]
          /\ handler' = [handler EXCEPT ![d] = NoAck]
  /\ UNCHANGED <<plan, told, disp, timer, db, pushes>>

(* The process restarts: every coroutine, connection and timer is gone,    *)
(* open transactions roll back; a committed notification stays.            *)
Restart ==
  /\ faults < MaxFaults
  /\ faults' = faults + 1
  /\ L!Restart
  /\ wire' = [d \in Device |-> <<>>]
  /\ handler' = [d \in Device |-> NoAck]
  /\ disp' = IF disp.pc \in {"sending", "sent", "waking"}
             THEN [disp EXCEPT !.pc = IF @ = "waking" THEN "unscheduled" ELSE "killed"]
             ELSE disp
  /\ timer' = IF timer.pc \in {"armed", "picked", "flushed", "sent"}
              THEN [timer EXCEPT !.pc = "lost"] ELSE timer
  /\ UNCHANGED <<plan, told, db, pushes>>

-----------------------------------------------------------------------------
Dispatch ==
  DispatchSend \/ DispatchRaises \/ DispatchLoopEnds \/ DispatchCommit
    \/ ScheduleFallback \/ WakeRaises

Fallback ==
  FallbackPicks \/ FallbackDeclines \/ FallbackFlush \/ FallbackSend
    \/ FallbackRaises \/ FallbackCommit

ApplyAck(d) == AckRead(d) \/ AckFlush(d) \/ AckCommit(d)

Environment(d) ==
  ClientAck(d) \/ Connect(d) \/ PeerGone(d) \/ HandlerExits(d) \/ HandlerRaises(d)

Next ==
  \/ Dispatch
  \/ Fallback
  \/ Restart
  \/ \E d \in Device : ApplyAck(d) \/ Environment(d)

Spec == Init /\ [][Next]_vars

(* The event loop runs every ready coroutine, the timer's sleep ends, and  *)
(* a row's lock is granted to a waiter; clients and faults owe nothing.    *)
Fairness ==
  /\ WF_vars(Dispatch)
  /\ WF_vars(Fallback)
  /\ \A d \in Device : WF_vars(ApplyAck(d))

FairSpec == Spec /\ Fairness

-----------------------------------------------------------------------------
(* Invariants *)

DispatchStates ==
  {"sending", "sent", "waking", "done", "unscheduled", "rolledback", "killed"}
TimerStates ==
  {"off", "armed", "picked", "flushed", "sent", "escalated", "declined", "failed", "lost"}

HandlerType ==
  [pc : {"idle", "selected", "flushed"}, status : AckStatuses \cup {"none"},
   seen : RowStatuses, nseen : LifecycleStatuses]

(* The values the variables range over. *)
TypeOK ==
  /\ mode \in Modes /\ targets \in 0..N
  /\ entry \in [Device -> {"none", "live", "dead"}]
  /\ up \in SUBSET Device
  /\ serving \in [Device -> Nat]
  /\ told \in [Device -> Nat]
  /\ wire \in [Device -> Seq(AckStatuses)]
  /\ disp \in [pc : DispatchStates, i : Nat, sent : SUBSET Device]
  /\ timer \in [pc : TimerStates, sent : Nat, nxt : Nat]
  /\ handler \in [Device -> HandlerType]
  /\ row \in [Device -> RowStatuses]
  /\ nstatus \in LifecycleStatuses
  /\ pushes \in Seq(Device)
  /\ faults \in 0..MaxFaults

Pushed(k) == \E a \in DOMAIN pushes : pushes[a] = k

(* Whatever the connections do between the pushes, the devices get the     *)
(* payload in the order of the plan: nobody gets it twice, from dispatch   *)
(* and the timer together, and an escalation never goes back.              *)
PushesInPlanOrder ==
  \A a, b \in DOMAIN pushes : a < b => pushes[a] < pushes[b]

(* In the active modes the user is disturbed on one device, and on one     *)
(* more at the timeout, however often connections come and go.             *)
EscalatesOnce == mode \notin Multi => Len(pushes) <= 2

(* A device is cancelled only in favour of a later one whose row has left  *)
(* "routed": run_fallback's two updates are never seen apart, not even     *)
(* after a restart between its push and its commit.                        *)
CancelledWasReplaced ==
  \A k \in Device : row[k] = "fallback_cancelled" =>
    \E m \in Device : m > k /\ row[m] \notin {"none", "routed"}

(* In the active modes the server waits for one device at a time. *)
OneAwaitedDevice ==
  mode \notin Multi =>
    \A j, k \in Device : row[j] = "sent" /\ row[k] = "sent" => j = k

(* The ledger agrees with the wire: a row still "routed" is of a device    *)
(* that was not pushed to, but for the one an escalation pushed to and has *)
(* not committed (or never will, when the process stopped in between).     *)
LedgerMatchesPushes ==
  \A k \in Device : row[k] = "routed" /\ Pushed(k)
    => timer.nxt = k /\ timer.pc \in {"sent", "lost"}

(* A notification whose status says "routed" was never pushed to any       *)
(* device, then or later: its timer, if any, finds nothing to escalate.    *)
RoutedMeansSilent == nstatus = "routed" => pushes = <<>>

(* When a send fails dispatch in an active mode and the request answers    *)
(* with an error, nobody has seen the notification: a retry repeats        *)
(* nothing.  (In the multi modes devices served before keep a payload that *)
(* refers to a notification that does not exist.)                          *)
RolledBackReachedNobody ==
  disp.pc = "rolledback" /\ mode \notin Multi => pushes = <<>>

(* An ack is dropped for want of a row only before dispatch has committed: *)
(* afterwards every device that has the payload has its row.               *)
CommittedAcksFindTheirRow ==
  nstatus # "none" => \A d \in Device : told[d] > 0 => row[d] # "none"

(* The invariants by their subject.  The pushes: in plan order, and no more *)
(* than the plan and one escalation allow.                                 *)
PushesAreOrderly == PushesInPlanOrder /\ EscalatesOnce

(* The database: what the rows and the status say of who got the payload   *)
(* and who replaced whom is so, after any fault.                           *)
LedgerIsTrue ==
  /\ CancelledWasReplaced /\ LedgerMatchesPushes
  /\ RoutedMeansSilent /\ RolledBackReachedNobody

(* The acks: one device at a time is waited for, and an ack has its row.   *)
AcksAreAwaited == OneAwaitedDevice /\ CommittedAcksFindTheirRow

-----------------------------------------------------------------------------
(* Properties of behaviours *)

(* An acknowledgement committed before the timer fires is final: its       *)
(* device is never cancelled afterwards.                                   *)
AckBeforeTimeoutIsFinal ==
  \A d \in Device :
    [](timer.pc \in {"off", "armed"} /\ Acknowledged(d) => [](row[d] # "fallback_cancelled"))

(* The request always comes to an end, committed or not. *)
DispatchEnds == <>(disp.pc \in {"done", "unscheduled", "rolledback", "killed"})

(* A timer that was armed always comes to a decision, also when it has to  *)
(* wait for row locks held by acks that keep coming.                       *)
TimerEnds ==
  timer.pc = "armed" ~> timer.pc \in {"escalated", "declined", "failed", "lost"}

(* Every ack that reaches the server is read. *)
AcksAreRead == \A d \in Device : wire[d] # <<>> ~> wire[d] = <<>>

-----------------------------------------------------------------------------
(* What the comments say and the code does not do *)

(* delivery.py, run_fallback: "if the sent device has not acknowledged,    *)
(* cancel it and push to the next online candidate".                       *)
CancelOnlyUnacknowledged ==
  [][\A d \in Device : Acknowledged(d) => row'[d] # "fallback_cancelled"]_vars

(* delivery.py, run_fallback: "Returns True if a fallback push was made." *)
TrueMeansPushed == timer.pc = "escalated" => Pushed(timer.nxt)

(* delivery.py, apply_ack: "advance user-facing status". *)
StatusAdvances == [][LifecycleRank[nstatus] <= LifecycleRank[nstatus']]_vars

=============================================================================
