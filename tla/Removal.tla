------------------------------ MODULE Removal ------------------------------
(***************************************************************************)
(* Delivery, with devices that are removed meanwhile (api/devices.py       *)
(* delete_device).                                                         *)
(*                                                                         *)
(* The deletion takes the device's delivery rows with it; its socket stays *)
(* registered and served, since only a new connection is authenticated.    *)
(* Its coroutines go on with rows they have selected: an UPDATE that finds *)
(* its row gone raises.                                                    *)
(***************************************************************************)
EXTENDS Delivery

VARIABLES
  removed,   \* devices that were deleted
  admitted,  \* of those, the ones with a connection that is past authentication
  flushed    \* dispatch has inserted the delivery rows

rvars == <<vars, removed, admitted, flushed>>

RInit == Init /\ removed = {} /\ admitted = {} /\ flushed = FALSE

-----------------------------------------------------------------------------
NoForeignKeys == TRUE

(* Every device that was planned for is still there. *)
ForeignKeysHold == \A d \in 1..targets : d \notin removed

(* dispatch's flush, before its first send; without one of the devices the *)
(* request fails.                                                          *)
FlushRows ==
  /\ disp.pc = "sending" /\ ~flushed
  /\ IF ForeignKeysHold THEN flushed' = TRUE /\ UNCHANGED disp
     ELSE disp' = [disp EXCEPT !.pc = "rolledback"] /\ UNCHANGED flushed
  /\ UNCHANGED <<plan, conns, clients, timer, handler, db, pushes, faults, removed, admitted>>

(* The rows that dispatch has inserted, and those that a coroutine has     *)
(* updated, are locked up to the commit.                                   *)
Locked(d) ==
  \/ flushed /\ disp.pc \in {"sending", "sent"} /\ d \in 1..targets
  \/ TimerLocks(d) \/ ~RowFree(d)

RowsOfAllGone(d) == [k \in Device |-> "none"]

(* The delivery rows that refer to the device go by cascade. *)
RowGone(d) == [row EXCEPT ![d] = "none"]

(* delete_device; a socket of the device may be on its way in.             *)
Remove(d) ==
  /\ d \notin removed /\ ~Locked(d)
  /\ removed' = removed \cup {d}
  /\ \E under_way \in SUBSET {d} : admitted' = admitted \cup under_way
  /\ row' = RowGone(d)
  /\ UNCHANGED <<plan, conns, clients, disp, timer, handler, nstatus, pushes, faults, flushed>>

(* authenticate_device *)
RConnect(d) ==
  /\ d \in removed => d \in admitted
  /\ Connect(d)
  /\ admitted' = admitted \ {d}
  /\ UNCHANGED <<removed, flushed>>

(* The UPDATE of a row that is gone: the escalation ends ... *)
FallbackFindsNoRow ==
  /\ \/ timer.pc = "picked" /\ row[timer.sent] = "none"
     \/ timer.pc = "sent" /\ row[timer.nxt] = "none"
  /\ timer' = [timer EXCEPT !.pc = "failed"]
  /\ UNCHANGED <<plan, conns, clients, disp, handler, db, pushes, faults>>

(* ... and so does the handler of the ack, with its socket. *)
AckFindsNoRow(d) ==
  /\ handler[d].pc = "selected" /\ row[d] = "none"
  /\ L!HandlerRaises(d) \/ L!HandlerExits(d)
  /\ wire' = IF d \in up' THEN wire ELSE [wire EXCEPT ![d] = <<>>]
  /\ handler' = [handler EXCEPT ![d] = NoAck]
  /\ UNCHANGED <<plan, told, disp, timer, db, pushes, faults>>

RDispatch ==
  \/ FlushRows
  \/ flushed /\ Dispatch /\ UNCHANGED <<removed, admitted, flushed>>

RFallback ==
  /\ \/ FallbackFindsNoRow
     \/ FallbackPicks \/ FallbackDeclines \/ FallbackSend \/ FallbackRaises
     \/ FallbackFlush /\ row[timer.sent] # "none"
     \/ FallbackCommit /\ row[timer.nxt] # "none"
  /\ UNCHANGED <<removed, admitted, flushed>>

RApplyAck(d) ==
  /\ \/ AckFindsNoRow(d) \/ AckRead(d) \/ AckCommit(d)
     \/ AckFlush(d) /\ row[d] # "none"
  /\ UNCHANGED <<removed, admitted, flushed>>

RNext ==
  \/ RDispatch \/ RFallback
  \/ Restart /\ admitted' = {} /\ UNCHANGED <<removed, flushed>>
  \/ \E d \in Device :
       \/ RApplyAck(d) \/ Remove(d) \/ RConnect(d)
       \/ /\ ClientAck(d) \/ PeerGone(d) \/ HandlerExits(d) \/ HandlerRaises(d)
          /\ UNCHANGED <<removed, admitted, flushed>>

(* As for Delivery; nobody has to remove anything. *)
RFairSpec ==
  /\ RInit /\ [][RNext]_rvars
  /\ WF_rvars(RDispatch) /\ WF_rvars(RFallback)
  /\ \A d \in Device : WF_rvars(RApplyAck(d))

-----------------------------------------------------------------------------
(* Invariants *)

(* Pushes keep the order of the plan whoever is removed between them, and  *)
(* what the rows that are left say is so.  A cancelled device was replaced *)
(* by a later one, which may be gone itself; a device with a "routed" row  *)
(* was not pushed to, but by an escalation that stopped; one device is     *)
(* waited for; and only a removed device has the payload and no row.       *)
WhatRemainsIsTrue ==
  /\ PushesAreOrderly
  /\ \A k \in Device : row[k] = "fallback_cancelled" =>
       \E m \in Device : m > k /\ (row[m] = "none" => m \in removed) /\ row[m] # "routed"
  /\ LedgerMatchesPushes /\ RoutedMeansSilent /\ OneAwaitedDevice
  /\ nstatus # "none" => \A d \in Device : told[d] > 0 => row[d] # "none" \/ d \in removed

-----------------------------------------------------------------------------
(* Properties of behaviours *)

escalation ==
  [stage |-> IF timer.pc \in {"off", "armed"} THEN "none"
             ELSE IF timer.pc \in {"picked", "flushed", "sent"} THEN "open" ELSE "over",
   from |-> timer.sent, to |-> timer.nxt]

Promised == INSTANCE Ledger

(* Whatever connections, locks, faults and removals do between the steps   *)
(* of dispatch, the timer and the acks, readers of the rows and the status *)
(* see the steps of the abstract specification only.                       *)
ImplementsLedger == Promised!Spec

(* From its removal on a device has no delivery row, whoever still works   *)
(* with the one it had, and dispatch does not push to it, although it may  *)
(* be connected and planned for; only an escalation that had picked it     *)
(* does.                                                                   *)
RemovedIsLeftAlone ==
  [][\A d \in removed :
       /\ row'[d] = "none"
       /\ pushes' = Append(pushes, d) => timer.pc = "flushed" /\ timer.nxt = d]_rvars

(* Without faults and removals, a timer armed while a later target is      *)
(* online leads to a second push, or to a row that is acknowledged or      *)
(* failed: a device that reports a failure is no longer waited for, and    *)
(* nothing replaces it.                                                    *)
SilenceEscalatesToThoseLeft ==
  (timer.pc = "armed" /\ \E s, k \in 1..targets :
      s < k /\ row[s] = "sent" /\ row[k] = "routed" /\ Online(k))
    ~> \/ Len(pushes) = 2 \/ faults > 0 \/ removed # {}
       \/ \E d \in Device : Acknowledged(d) \/ row[d] = "failed"

(* The half of it that no fairness is needed for: a timeout declines only  *)
(* when somebody has acknowledged, or no device that is connected comes    *)
(* after one that is waited for.                                           *)
DeclinesForAReason ==
  [][timer.pc = "armed" /\ timer'.pc = "declined" =>
       \/ \E d \in Device : Acknowledged(d)
       \/ \A s, k \in Device :
            s < k /\ row[s] = "sent" /\ row[k] = "routed" => ~Online(k)]_rvars

-----------------------------------------------------------------------------
(* What the comments say and the code does not do *)

(* delivery.py, schedule_fallback: "Escalate delivery after `delay`        *)
(* seconds if unacknowledged".  The first device is removed before the     *)
(* timer fires: nothing is sent then, and the timer declines.              *)
RemovalEscalates ==
  (timer.pc = "armed" /\ 1 \in removed /\ row[2] = "routed" /\ Online(2))
    ~> faults > 0 \/ 2 \in removed \/ Len(pushes) = 2

=============================================================================
