------------------------------ MODULE Constants ------------------------------
(***************************************************************************)
(* The enumerations and defaults of server/app/notifications/constants.py  *)
(* that the other modules share.                                           *)
(***************************************************************************)
EXTENDS Naturals

(* Routing modes *)
Modes == {"active_only", "active_with_fallback", "all_devices", "specific_device"}

(* delivery.dispatch's multi: the modes that push to every online target. *)
Multi == {"all_devices", "specific_device"}

Priorities == {"low", "normal", "high", "critical"}

(* service.create_notification arms the escalation timer only for an       *)
(* active_with_fallback plan with a second target (the timer is enabled in *)
(* the settings).                                                          *)
NeedsFallback(mode, targets) == mode = "active_with_fallback" /\ targets > 1

(* The statuses a client may acknowledge with (gateway._ACK_STATUSES), and *)
(* those that mean the device got the notification (run_fallback's acked). *)
AckedStatuses == {"delivered", "displayed", "played", "opened"}
AckStatuses == AckedStatuses \cup {"failed"}

(* NotificationDelivery.status; "none" stands for no committed row. *)
RowStatuses == {"none", "routed", "sent", "fallback_cancelled"} \cup AckStatuses

(* Notification.status as far as the code assigns it, in lifecycle order;  *)
(* "none" stands for no committed notification.                            *)
LifecycleRank ==
  [none |-> 0, routed |-> 1, sent |-> 2, delivered |-> 3, displayed |-> 4,
   played |-> 5, opened |-> 6, responded |-> 7]
LifecycleStatuses == DOMAIN LifecycleRank

=============================================================================
