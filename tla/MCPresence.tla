----------------------------- MODULE MCPresence -----------------------------
(* Presence with four observations: a device in the hand, one that lies     *)
(* there unlocked, one that was just locked, and one that is dark.          *)
EXTENDS Presence

MCReports ==
  {[interaction |-> "recent", screen |-> "on", locked |-> "no", app |-> "other", motion |-> "handheld"],
   [interaction |-> "older", screen |-> "on", locked |-> "no", app |-> "other", motion |-> "other"],
   [interaction |-> "recent", screen |-> "on", locked |-> "yes", app |-> "other", motion |-> "handheld"],
   [interaction |-> "older", screen |-> "off", locked |-> "yes", app |-> "other", motion |-> "other"]}

=============================================================================
