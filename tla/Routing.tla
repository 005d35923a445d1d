------------------------------ MODULE Routing ------------------------------
(***************************************************************************)
(* The routing engine (server/app/routing/engine.py): from the routing     *)
(* mode, the priority, the presence-ordered active devices and the user's  *)
(* device list, the ordered list of target devices.  A pure module: no     *)
(* variables.  Delivery.tla starts from a plan this module describes.      *)
(***************************************************************************)
EXTENDS Constants, Naturals, Sequences, SequencesExt

CONSTANTS
  NoDevice      \* routing.device_id absent from the request

DedupNone(seq) == seq

(* Each element once, at the place of its first occurrence. *)
Dedup(seq) ==
  FoldLeft(LAMBDA out, x : IF x \in ToSet(out) THEN out ELSE Append(out, x), <<>>, seq)

(* lst[:1] of Python. *)
FirstOnly(seq) == SubSeq(seq, 1, IF Len(seq) > 1 THEN 1 ELSE Len(seq))

(* active_with_fallback: the active devices, the primary only when the     *)
(* priority is low; every device of the user when none is known active.    *)
ActiveTargets(priority, ordered_active, all_devices) ==
  LET known == IF priority = "low" THEN FirstOnly(ordered_active) ELSE ordered_active
  IN  IF known = <<>> THEN Dedup(all_devices) ELSE known

(* all_devices: active devices first, then the rest. *)
FanOut(ordered_active, all_devices) == Dedup(ordered_active \o all_devices)

SpecificTarget(specific_device) ==
  IF specific_device = NoDevice THEN <<>> ELSE <<specific_device>>

(* RoutingPlan.targets *)
PlanRoutes(mode, priority, ordered_active, all_devices, specific_device) ==
  CASE mode = "specific_device" -> SpecificTarget(specific_device)
    [] mode = "all_devices" -> FanOut(ordered_active, all_devices)
    [] mode = "active_only" -> FirstOnly(ordered_active)
    [] OTHER -> ActiveTargets(priority, ordered_active, all_devices)

=============================================================================
