----------------------------- MODULE MCDelivery -----------------------------
(***************************************************************************)
(* Ack orders for the runs of Delivery.tla.                                *)
(***************************************************************************)
EXTENDS Delivery

(* What AppState._onNotification sends for a text notification; for a      *)
(* voice one "played" follows.                                             *)
TextAcks == <<"delivered", "displayed">>

=============================================================================
