----------------------------- MODULE MCRemoval -----------------------------
(* Removal with a client that reports a failure, which the gateway accepts. *)
EXTENDS Removal

FailingAcks == <<"delivered", "failed">>

=============================================================================
