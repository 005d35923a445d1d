-------------------------------- MODULE Link --------------------------------
(***************************************************************************)
(* What the server's coroutines see of the devices' connections: the       *)
(* abstract specification of websocket/gateway.py ws_endpoint and of the   *)
(* registry in websocket/manager.py.  Connections.tla implements it step   *)
(* by step; Delivery.tla and Responses.tla take their connections from     *)
(* here.                                                                   *)
(***************************************************************************)
EXTENDS Naturals

CONSTANT Device

VARIABLES
  entry,    \* ConnectionManager._conns per device: "live", a socket whose client is
            \* there; "dead", a socket whose client is not; "none"
  up,       \* devices whose client has a socket that a handler serves
  serving   \* per device: handlers that have yet to remove the entry on their way out

vars == <<entry, up, serving>>

Init ==
  /\ up \in SUBSET Device
  /\ entry = [d \in Device |-> IF d \in up THEN "live" ELSE "none"]
  /\ serving = [d \in Device |-> IF d \in up THEN 1 ELSE 0]

(* The client's socket is accepted and takes the device's entry, whatever  *)
(* it held.                                                                *)
Connect(d) ==
  /\ d \notin up
  /\ up' = up \cup {d}
  /\ entry' = [entry EXCEPT ![d] = "live"]
  /\ serving' = [serving EXCEPT ![d] = @ + 1]

(* So does a socket that its client has given up by the time it is         *)
(* accepted, even when the client is back on another.                      *)
ConnectGone(d) ==
  /\ entry' = [entry EXCEPT ![d] = "dead"]
  /\ serving' = [serving EXCEPT ![d] = @ + 1]
  /\ UNCHANGED up

Severed(d) == [entry EXCEPT ![d] = IF @ = "live" THEN "dead" ELSE @]

(* The network or the client goes away; the server has not noticed yet.    *)
PeerGone(d) ==
  /\ d \in up
  /\ up' = up \ {d}
  /\ entry' = Severed(d)
  /\ UNCHANGED serving

(* Handlers of the device whose client is gone. *)
Orphans(d) == serving[d] - (IF d \in up THEN 1 ELSE 0)

(* Such a handler notices; its finally pops the device's entry, whoever's  *)
(* socket it holds.                                                        *)
HandlerExits(d) ==
  /\ Orphans(d) > 0
  /\ entry' = [entry EXCEPT ![d] = "none"]
  /\ serving' = [serving EXCEPT ![d] = @ - 1]
  /\ UNCHANGED up

(* The handler of the connected client raises: the finally pops the entry  *)
(* and the socket is closed.                                               *)
HandlerRaises(d) ==
  /\ d \in up /\ serving[d] > 0
  /\ up' = up \ {d}
  /\ entry' = [entry EXCEPT ![d] = "none"]
  /\ serving' = [serving EXCEPT ![d] = @ - 1]

(* A handler raises between the registration and the try: nobody pops.     *)
SetupRaises(d) ==
  /\ serving[d] > 0
  /\ serving' = [serving EXCEPT ![d] = @ - 1]
  /\ \/ d \in up /\ up' = up \ {d} /\ entry' = Severed(d)
     \/ Orphans(d) > 0 /\ UNCHANGED <<up, entry>>

Restart ==
  /\ entry' = [d \in Device |-> "none"]
  /\ up' = {}
  /\ serving' = [d \in Device |-> 0]

Next ==
  \/ \E d \in Device :
       \/ Connect(d) \/ ConnectGone(d) \/ PeerGone(d)
       \/ HandlerExits(d) \/ HandlerRaises(d) \/ SetupRaises(d)
  \/ Restart

Spec == Init /\ [][Next]_vars

=============================================================================
