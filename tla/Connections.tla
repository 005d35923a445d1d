----------------------------- MODULE Connections -----------------------------
(***************************************************************************)
(* The connections of one device (server/app/websocket/gateway.py          *)
(* ws_endpoint, websocket/manager.py, the mark_online and mark_offline of  *)
(* presence/manager.py, and the reconnecting client of                     *)
(* client/lib/websocket/ws_client.dart).                                   *)
(*                                                                         *)
(* The client opens sockets one after the other.  On the server each has a *)
(* handler, and the handlers of an old and of a new socket may overlap: a  *)
(* handler learns late that its peer is gone, and every await of its       *)
(* set-up and of its clean-up lets the others run.  The registry entry,    *)
(* the Redis key ws:device and the device's activity key are shared by all *)
(* of them.                                                                *)
(***************************************************************************)
EXTENDS Naturals, FiniteSets

CONSTANTS
  Sockets,    \* bound on the sockets the client opens
  MaxFaults   \* bound on failing Redis calls, failing handlers and server restarts

ASSUME SocketsAssumption == Sockets \in Nat
ASSUME FaultsAssumption == MaxFaults \in Nat

Socket == 1..Sockets

VARIABLES
  client,     \* the socket the client holds, 0 if none
  opened,     \* sockets opened so far
  pc,         \* per socket: where its handler is
  registered, \* the device's entry in ConnectionManager._conns, 0 if none
  wskey,      \* the Redis key ws:device:{device} exists
  activity,   \* the Redis key activity:{user}:{device}: "none", "baseline", "observed"
  faults

vars == <<client, opened, pc, registered, wskey, activity, faults>>

Init ==
  /\ client = 0 /\ opened = 0
  /\ pc = [s \in Socket |-> "none"]
  /\ registered = 0
  /\ wskey = FALSE
  /\ activity \in {"none", "observed"}
  /\ faults = 0

Goto(s, from, to) == pc[s] = from /\ pc' = [pc EXCEPT ![s] = to]

Fault == faults < MaxFaults /\ faults' = faults + 1

(* A handler that ends closes its socket. *)
Closed(s) == IF client = s THEN 0 ELSE client

-----------------------------------------------------------------------------
(* The client *)

(* WsClient._open, at the start and after the backoff of a lost socket. *)
Open ==
  /\ client = 0 /\ opened < Sockets
  /\ opened' = opened + 1
  /\ client' = opened + 1
  /\ pc' = [pc EXCEPT ![opened + 1] = "arriving"]
  /\ UNCHANGED <<registered, wskey, activity, faults>>

(* The socket closes or breaks on the client's side. *)
Drop ==
  /\ client # 0
  /\ client' = 0
  /\ UNCHANGED <<opened, pc, registered, wskey, activity, faults>>

(* POST /presence of the presence loop (record_observation). *)
Observe ==
  /\ activity' = "observed"
  /\ UNCHANGED <<client, opened, pc, registered, wskey, faults>>

-----------------------------------------------------------------------------
(* ws_endpoint: set-up *)

(* authenticate_device does not know the token. *)
Refuse(s) ==
  /\ Goto(s, "arriving", "ended")
  /\ client' = Closed(s)
  /\ UNCHANGED <<opened, registered, wskey, activity, faults>>

AcceptIfFree(s) ==
  /\ Goto(s, "arriving", "accepted")
  /\ registered' = IF registered = 0 THEN s ELSE registered
  /\ UNCHANGED <<client, opened, wskey, activity, faults>>

(* ConnectionManager.connect after ws.accept: the entry is overwritten. *)
Accept(s) ==
  /\ Goto(s, "arriving", "accepted")
  /\ registered' = s
  /\ UNCHANGED <<client, opened, wskey, activity, faults>>

SetKey(s) ==
  /\ Goto(s, "accepted", "keyed")
  /\ wskey' = TRUE
  /\ UNCHANGED <<client, opened, registered, activity, faults>>

(* mark_online reads the activity key ... *)
MarkOnlineLooks(s) ==
  /\ Goto(s, "keyed", IF activity = "none" THEN "absent" ELSE "present")
  /\ UNCHANGED <<client, opened, registered, wskey, activity, faults>>

(* ... and sets it if it was absent; otherwise it extends its life. *)
MarkOnlineWrites(s) ==
  /\ \/ Goto(s, "absent", "marked") /\ activity' = "baseline"
     \/ Goto(s, "present", "marked") /\ UNCHANGED activity
  /\ UNCHANGED <<client, opened, registered, wskey, faults>>

(* select_active has returned (Presence.tla): the loop begins.  From here  *)
(* refresh_online only extends the life of the activity key.               *)
EnterLoop(s) ==
  /\ Goto(s, "marked", "serving")
  /\ UNCHANGED <<client, opened, registered, wskey, activity, faults>>

InSetup(s) == pc[s] \in {"accepted", "keyed", "absent", "present", "marked"}

(* A Redis call of the set-up fails: outside the try, nothing cleans up. *)
SetupRaises(s) ==
  /\ InSetup(s)
  /\ Fault
  /\ pc' = [pc EXCEPT ![s] = "failed"]
  /\ client' = Closed(s)
  /\ UNCHANGED <<opened, registered, wskey, activity>>

-----------------------------------------------------------------------------
(* ws_endpoint: the end of the loop and the finally *)

PopNothing(s) == registered

(* _conns.pop(device_id, None): whoever's socket it is. *)
Pop(s) == 0

(* receive_json reports that the peer is gone. *)
Leave(s) ==
  /\ client # s
  /\ Goto(s, "serving", "popped")
  /\ registered' = Pop(s)
  /\ UNCHANGED <<client, opened, wskey, activity, faults>>

(* receive_json, refresh_online or handle_message raises. *)
HandlerRaises(s) ==
  /\ Fault
  /\ Goto(s, "serving", "popped")
  /\ registered' = Pop(s)
  /\ client' = Closed(s)
  /\ UNCHANGED <<opened, wskey, activity>>

DeleteKeyKeeps(s) ==
  /\ Goto(s, "popped", "unkeyed")
  /\ UNCHANGED <<client, opened, registered, wskey, activity, faults>>

DeleteKey(s) ==
  /\ Goto(s, "popped", "unkeyed")
  /\ wskey' = FALSE
  /\ UNCHANGED <<client, opened, registered, activity, faults>>

(* mark_offline, whoever is online. *)
MarkOffline(s) ==
  /\ Goto(s, "unkeyed", "ended")
  /\ activity' = "none"
  /\ UNCHANGED <<client, opened, registered, wskey, faults>>

(* A Redis call of the finally fails: the rest is skipped. *)
CleanupRaises(s) ==
  /\ pc[s] \in {"popped", "unkeyed"}
  /\ Fault
  /\ pc' = [pc EXCEPT ![s] = "failed"]
  /\ UNCHANGED <<client, opened, registered, wskey, activity>>

-----------------------------------------------------------------------------
(* Redis TTLs, in their own time: the activity key of a device that sends  *)
(* nothing for 120 s, the ws:device key 300 s after the connection.        *)
ActivityExpires ==
  /\ activity # "none"
  /\ activity' = "none"
  /\ UNCHANGED <<client, opened, pc, registered, wskey, faults>>

KeyExpires ==
  /\ wskey
  /\ wskey' = FALSE
  /\ UNCHANGED <<client, opened, pc, registered, activity, faults>>

(* The server's memory goes, Redis stays. *)
Restart ==
  /\ Fault
  /\ client' = 0
  /\ pc' = [s \in Socket |-> IF pc[s] \in {"none", "ended"} THEN pc[s] ELSE "failed"]
  /\ registered' = 0
  /\ UNCHANGED <<opened, wskey, activity>>

-----------------------------------------------------------------------------
Handle(s) ==
  \/ Refuse(s) \/ Accept(s) \/ SetKey(s)
  \/ MarkOnlineLooks(s) \/ MarkOnlineWrites(s) \/ EnterLoop(s)
  \/ Leave(s) \/ DeleteKey(s) \/ MarkOffline(s)

Fails(s) == SetupRaises(s) \/ HandlerRaises(s) \/ CleanupRaises(s)

Next ==
  \/ Open \/ Drop \/ Observe
  \/ \E s \in Socket : Handle(s) \/ Fails(s)
  \/ ActivityExpires \/ KeyExpires \/ Restart

Spec == Init /\ [][Next]_vars

(* The event loop runs every ready handler, and the server's ping timeout  *)
(* reports a peer that is gone; the client and Redis owe nothing.          *)
FairSpec == Spec /\ \A s \in Socket : WF_vars(Handle(s))

-----------------------------------------------------------------------------
(* Invariants *)

HandlerStates ==
  {"none", "arriving", "accepted", "keyed", "absent", "present", "marked", "serving",
   "popped", "unkeyed", "ended", "failed"}

(* The values the variables range over. *)
TypeOK ==
  /\ client \in 0..Sockets /\ opened \in 0..Sockets
  /\ pc \in [Socket -> HandlerStates]
  /\ registered \in 0..Sockets
  /\ wskey \in BOOLEAN
  /\ activity \in {"none", "baseline", "observed"}
  /\ faults \in 0..MaxFaults

(* Handlers that hold, or once held, the entry and have yet to pop it. *)
Serving(s) == InSetup(s) \/ pc[s] = "serving"

(* The registry never holds a socket whose handler has cleaned up: what is *)
(* registered is served, or its handler failed before the try.             *)
RegisteredIsServed == registered # 0 => Serving(registered) \/ pc[registered] = "failed"

(* However the handlers of successive sockets overlapped, when all of them *)
(* have run to their ends nothing is left behind, in memory or in Redis.   *)
NothingLeaks ==
  (\A s \in Socket : pc[s] \in {"none", "arriving", "ended"}) => registered = 0 /\ ~wskey

-----------------------------------------------------------------------------
(* Properties of behaviours *)

(* A device that stays away is in the end unregistered, so that pushes and *)
(* escalations pass it over, unless its last set-up failed half-way.       *)
GoneIsUnregistered ==
  <>[](client = 0) => <>[](registered = 0 \/ pc[registered] = "failed")

(* The connection that the rest of the server sees. *)
EntryState ==
  IF registered = 0 THEN "none" ELSE IF registered = client THEN "live" ELSE "dead"

L == INSTANCE Link WITH
       Device <- {"device"},
       entry <- [d \in {"device"} |-> EntryState],
       up <- IF client # 0 /\ Serving(client) THEN {"device"} ELSE {},
       serving <- [d \in {"device"} |-> Cardinality({s \in Socket : Serving(s)})]

(* Accepting, losing and cleaning up sockets, in any overlap, is what      *)
(* Link.tla says; setting up and cleaning up Redis is invisible to it.     *)
ImplementsLink == L!Spec

-----------------------------------------------------------------------------
(* What the comments say and the code does not do *)

(* gateway.py, ws_endpoint: "connected => online".  Once every older       *)
(* handler is done, a connected device is registered.                      *)
ConnectedIsOnline ==
  client # 0 /\ pc[client] = "serving"
    /\ (\A s \in Socket \ {client} : pc[s] \in {"none", "ended"})
  => registered = client

(* presence/manager.py, mark_online: "Doesn't clobber a real               *)
(* (higher-fidelity) observation."                                         *)
ObservationIsKept == [][activity = "observed" => activity' # "baseline"]_vars

(* websocket/manager.py: the ws:device key "mirrors online state".         *)
KeyMirrorsEntry ==
  (\A s \in Socket : pc[s] \in {"none", "serving", "ended"}) => (wskey <=> registered # 0)

=============================================================================
