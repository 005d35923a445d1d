------------------------------- MODULE Ledger -------------------------------
(***************************************************************************)
(* What the delivery rows and the status of one notification go through,   *)
(* for whoever reads them (api/notifications.py): the abstract             *)
(* specification of notifications/delivery.py.  There are no connections,  *)
(* pushes, sessions or locks in it, only the commits.  Removal.tla         *)
(* implements it.                                                          *)
(***************************************************************************)
EXTENDS Constants, Naturals

CONSTANT Device

VARIABLES
  mode,        \* the notification's routing mode
  row,         \* NotificationDelivery.status per device, "none" if no row
  nstatus,     \* Notification.status, "none" before the commit
  removed,     \* devices that were deleted
  escalation   \* the timer's decision: not made, to be committed or over; its devices

ledger == <<mode, row, nstatus, removed, escalation>>

Init ==
  /\ mode \in Modes
  /\ row = [d \in Device |-> "none"]
  /\ nstatus = "none"
  /\ removed = {}
  /\ escalation = [stage |-> "none", from |-> 0, to |-> 0]

(* One commit has the rows and the status: who was pushed to is sent, one  *)
(* device at most in the modes that disturb one.                           *)
Commit ==
  /\ nstatus = "none"
  /\ \E planned \in SUBSET (Device \ removed) : \E sent \in SUBSET planned :
       /\ mode \notin Multi => \A d, e \in sent : d = e
       /\ row' = [d \in Device |-> IF d \in sent THEN "sent"
                                   ELSE IF d \in planned THEN "routed" ELSE "none"]
       /\ nstatus' = IF sent = {} THEN "routed" ELSE "sent"
  /\ UNCHANGED <<mode, removed, escalation>>

(* An escalation is decided once, while nobody has acknowledged, from the  *)
(* device that is sent to a later one that is not.                         *)
Decide ==
  /\ mode = "active_with_fallback"
  /\ escalation.stage = "none"
  /\ \A d \in Device : row[d] \notin AckedStatuses
  /\ \E s, k \in Device :
       /\ s < k /\ row[s] = "sent" /\ row[k] = "routed"
       /\ escalation' = [stage |-> "open", from |-> s, to |-> k]
  /\ UNCHANGED <<mode, row, nstatus, removed>>

(* Both rows change in one commit, whatever acks have made of them since.  *)
Escalate ==
  /\ escalation.stage = "open"
  /\ row[escalation.from] # "none" /\ row[escalation.to] # "none"
  /\ row' = [row EXCEPT ![escalation.from] = "fallback_cancelled", ![escalation.to] = "sent"]
  /\ escalation' = [escalation EXCEPT !.stage = "over"]
  /\ UNCHANGED <<mode, nstatus, removed>>

(* Or it never happens: declined, failed, or lost in a restart.            *)
GiveUp ==
  /\ escalation.stage # "over"
  /\ escalation' = [escalation EXCEPT !.stage = "over"]
  /\ UNCHANGED <<mode, row, nstatus, removed>>

(* An ack is of a device that was sent the notification, be it by an       *)
(* escalation that has not been committed; "failed" is the device's alone. *)
Ack(d) ==
  /\ row[d] # "none"
  /\ row[d] = "routed" => d = escalation.to
  /\ \E a \in AckStatuses :
       /\ row' \in {row, [row EXCEPT ![d] = a]}
       /\ nstatus' \in {nstatus} \cup ({a} \ {"failed"})
  /\ UNCHANGED <<mode, removed, escalation>>

(* A removed device loses its row and gets no other.                       *)
Remove(d) ==
  /\ d \notin removed
  /\ removed' = removed \cup {d}
  /\ row' = [row EXCEPT ![d] = "none"]
  /\ UNCHANGED <<mode, nstatus, escalation>>

Next ==
  \/ Commit \/ Decide \/ Escalate \/ GiveUp
  \/ \E d \in Device : Ack(d) \/ Remove(d)

Spec == Init /\ [][Next]_ledger

=============================================================================
