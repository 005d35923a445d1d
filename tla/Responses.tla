------------------------------ MODULE Responses ------------------------------
(***************************************************************************)
(* Answers to one committed notification with actions                      *)
(* (server/app/notifications/responses.py and webhooks.py, the "response"  *)
(* message of websocket/gateway.py, api/notifications.py respond, and the  *)
(* client's AppState.respond and action_resolved handling).                *)
(*                                                                         *)
(* Each answer is a coroutine with its own database session.  It loads the *)
(* notification, checks the loaded copy, and commits; then it tells the    *)
(* other devices one by one, and the agent's webhooks last.  Connections   *)
(* are those of Link: they come and go at any time.                        *)
(***************************************************************************)
EXTENDS Naturals, Sequences, FiniteSets

CONSTANTS
  Device,      \* the user's devices
  Target,      \* those with a delivery row for the notification
  Request,     \* answers the devices may send, numbered as they are sent
  Action,      \* action ids the notification offers
  BadAction,   \* an action id it does not offer
  Webhook,     \* webhooks the notification's agent may be given
  Malformed,   \* those whose URL httpx cannot parse
  Nobody,      \* NULL
  MaxFaults    \* bound on lost connections, failing handlers and restarts together

ASSUME RequestAssumption == Request \subseteq Nat
ASSUME TargetAssumption == Target \subseteq Device
ASSUME BadActionAssumption == BadAction \notin Action
ASSUME NobodyAssumption == Nobody \notin Device \cup Action \cup {BadAction} \cup Request
ASSUME FaultsAssumption == MaxFaults \in Nat

VARIABLES
  entry, up, serving,   \* as in Link.tla
  req,        \* per request: its coroutine
  responses,  \* NotificationResponse rows, in commit order
  resolution, \* resolved_at set or not, responded_by_device_id, resolved_action_id
  ui,         \* devices whose client shows the notification as resolved
  agent,      \* the notification's agent: whether it exists, its webhook rows
  hooked,     \* history: the events posted, <<request, webhook>>
  deaf,       \* history: answers not yet committed when the agent was deleted
  here,       \* history: per answer, the devices to tell that have been registered
              \* with a live socket ever since it was committed
  faults

conns == <<entry, up, serving>>
L == INSTANCE Link

agentVars == <<agent, deaf>>
vars == <<conns, req, responses, resolution, ui, hooked, agentVars, here, faults>>

Unresolved == [resolved |-> FALSE, by |-> Nobody, action |-> Nobody]

Unsent ==
  [pc |-> "unsent", via |-> "ws", device |-> Nobody, action |-> Nobody, late |-> FALSE,
   left |-> {}, hooks |-> {}]

Init ==
  /\ L!Init
  /\ req = [r \in Request |-> Unsent]
  /\ responses = <<>>
  /\ resolution = Unresolved
  /\ ui = {}
  /\ agent = [exists |-> TRUE, webhooks |-> {}]
  /\ hooked = {} /\ deaf = {}
  /\ here = [r \in Request |-> {}]
  /\ faults = 0

Working == {"loaded", "telling", "posting"}

(* Answers of the device that its socket's handler ("ws"), or the handlers *)
(* of sockets that the client has left ("former"), have in their hands or  *)
(* have yet to read.                                                       *)
Pending(d, via, pcs) ==
  {r \in Request : req[r].via = via /\ req[r].device = d /\ req[r].pc \in pcs}

(* A socket's messages are handled one after the other. *)
SocketBusy(d) == Pending(d, "ws", Working \cup {"sent"}) # {}

(* An answer whose socket or process ends before it is committed is lost.  *)
Lost(R) == [r \in Request |-> IF r \in R THEN [req[r] EXCEPT !.pc = "lost"] ELSE req[r]]

-----------------------------------------------------------------------------
(* AppState.respond over the socket, which resolves the client's own view; *)
(* a socket that is gone swallows the answer.  late records whether an     *)
(* answer was already committed when this one was sent.                    *)
SendOverSocket(r, d, a) ==
  /\ req[r].pc = "unsent"
  /\ ~SocketBusy(d)
  /\ req' = [req EXCEPT ![r] =
               [pc |-> IF d \in up THEN "sent" ELSE "lost", via |-> "ws",
                device |-> d, action |-> a, late |-> responses # <<>>, left |-> {}, hooks |-> {}]]
  /\ ui' = ui \cup {d}
  /\ UNCHANGED <<conns, responses, resolution, hooked, agentVars, here, faults>>

(* POST /notifications/{id}/responses with the device's token. *)
SendOverRest(r, d, a) ==
  /\ req[r].pc = "unsent"
  /\ req' = [req EXCEPT ![r] =
               [pc |-> "sent", via |-> "rest", device |-> d, action |-> a,
                late |-> responses # <<>>, left |-> {}, hooks |-> {}]]
  /\ UNCHANGED <<conns, responses, resolution, ui, hooked, agentVars, here, faults>>

VerdictUnchecked(a) == IF a \notin Action THEN "unknown" ELSE "loaded"

(* submit_response's two refusals, in its order, on what was loaded. *)
Verdict(a) ==
  IF a \notin Action THEN "unknown" ELSE IF resolution.resolved THEN "conflict" ELSE "loaded"

(* session.get(Notification), then the checks without an await between. *)
Load(r) ==
  /\ req[r].pc = "sent"
  /\ req' = [req EXCEPT ![r].pc = Verdict(req[r].action)]
  /\ UNCHANGED <<conns, responses, resolution, ui, hooked, agentVars, here, faults>>

(* The resolution this answer writes; the write is blind. *)
ResolvedBy(r) == [resolved |-> TRUE, by |-> req[r].device, action |-> req[r].action]

AudienceOfSocket(r) == IF req[r].via = "ws" THEN Target \ {req[r].device} ELSE {}

(* set(rows) less the responder *)
Audience(r) == Target \ {req[r].device}

Commit(r) ==
  /\ req[r].pc = "loaded"
  /\ responses' = Append(responses, [request |-> r, device |-> req[r].device,
                                     action |-> req[r].action])
  /\ resolution' = ResolvedBy(r)
  /\ req' = [req EXCEPT ![r].pc = "telling", ![r].left = Audience(r)]
  /\ here' = [here EXCEPT ![r] = {d \in Target \ {req[r].device} : entry[d] = "live"}]
  /\ UNCHANGED <<conns, ui, hooked, agentVars, faults>>

TellWhenOnline(r) ==
  /\ req[r].pc = "telling"
  /\ \E e \in req[r].left :
       /\ entry[e] # "none"
       /\ ui' = IF entry[e] = "live" THEN ui \cup {e} ELSE ui
       /\ req' = [req EXCEPT ![r].left = @ \ {e}]
  /\ UNCHANGED <<conns, responses, resolution, hooked, agentVars, here, faults>>

(* _broadcast_resolved: action_resolved to one more device, in any order;  *)
(* nobody looks at what send returns for a device that is not registered.  *)
Tell(r) ==
  /\ req[r].pc = "telling"
  /\ \E e \in req[r].left :
       /\ ui' = IF entry[e] = "live" THEN ui \cup {e} ELSE ui
       /\ req' = [req EXCEPT ![r].left = @ \ {e}]
  /\ UNCHANGED <<conns, responses, resolution, hooked, agentVars, here, faults>>

(* Who is still there once connections have changed. *)
StillHere == here' = [r \in Request |-> {d \in here[r] : entry'[d] = "live"}]

(* An exception leaves handle_response after the commit.  Over REST the    *)
(* answer is a 500; over a socket it ends the handler, and with it the     *)
(* connection if the client is still on that socket.                       *)
Abort(r) ==
  /\ req' = [req EXCEPT ![r].pc = "aborted", ![r].hooks = {}]
  /\ \/ req[r].via = "rest" /\ UNCHANGED conns
     \/ req[r].via = "ws" /\ L!HandlerRaises(req[r].device)
     \/ req[r].via = "former" /\ L!HandlerExits(req[r].device)
  /\ StillHere
  /\ UNCHANGED <<responses, resolution, ui, hooked, agentVars, faults>>

(* A send to a dead socket raises: the rest of the devices and the agent   *)
(* are not told.                                                           *)
TellRaises(r) ==
  /\ req[r].pc = "telling"
  /\ \E e \in req[r].left : entry[e] = "dead"
  /\ Abort(r)

AllToldTooEarly(r) ==
  /\ req[r].pc = "telling"
  /\ req' = [req EXCEPT ![r].pc = "posting", ![r].hooks = agent.webhooks]
  /\ UNCHANGED <<conns, responses, resolution, ui, hooked, agentVars, here, faults>>

(* _notify_agent selects the webhooks that the agent has by now. *)
AllTold(r) ==
  /\ req[r].pc = "telling"
  /\ req[r].left = {}
  /\ req' = [req EXCEPT ![r].pc = "posting", ![r].hooks = agent.webhooks]
  /\ UNCHANGED <<conns, responses, resolution, ui, hooked, agentVars, here, faults>>

(* send_event: one webhook after the other; a post that fails with an      *)
(* HTTPError is logged and not repeated.                                   *)
Post(r) ==
  /\ req[r].pc = "posting"
  /\ \E w \in req[r].hooks \ Malformed :
       /\ hooked' = hooked \cup {<<r, w>>} \/ hooked' = hooked
       /\ req' = [req EXCEPT ![r].hooks = @ \ {w}]
  /\ UNCHANGED <<conns, responses, resolution, ui, agentVars, here, faults>>

(* An InvalidURL is no HTTPError: neither send_event nor handle_response   *)
(* catches it, and the webhooks that are left are not posted to.           *)
PostRaises(r) ==
  /\ req[r].pc = "posting"
  /\ req[r].hooks \cap Malformed # {}
  /\ Abort(r)

AllPosted(r) ==
  /\ req[r].pc = "posting"
  /\ req[r].hooks = {}
  /\ req' = [req EXCEPT ![r].pc = "recorded"]
  /\ UNCHANGED <<conns, responses, resolution, ui, hooked, agentVars, here, faults>>

-----------------------------------------------------------------------------
(* Connections *)

(* A device connects, for the first time or again.  An app that was        *)
(* started anew has forgotten resolvedIds.                                 *)
Connect(d) ==
  /\ L!Connect(d)
  /\ ui' \in {ui, ui \ {d}}
  /\ StillHere
  /\ UNCHANGED <<req, responses, resolution, hooked, agentVars, faults>>

ConnFault == faults < MaxFaults /\ faults' = faults + 1 /\ StillHere

(* The client goes away from its socket, whose handler goes on. *)
PeerGone(d) ==
  /\ L!PeerGone(d)
  /\ ConnFault
  /\ req' = [r \in Request |-> IF r \in Pending(d, "ws", Working \cup {"sent"})
                               THEN [req[r] EXCEPT !.via = "former"] ELSE req[r]]
  /\ UNCHANGED <<responses, resolution, ui, hooked, agentVars>>

ConnectGone(d) ==
  /\ L!ConnectGone(d)
  /\ ConnFault
  /\ UNCHANGED <<req, responses, resolution, ui, hooked, agentVars>>

(* What a client has sent before it went may never be read. *)
Lose(r) ==
  /\ req[r].pc = "sent" /\ req[r].via = "former"
  /\ req' = Lost({r})
  /\ UNCHANGED <<conns, responses, resolution, ui, hooked, agentVars, here, faults>>

(* There is a handler of a former socket with no answer in its hands. *)
IdleOrphan(d) ==
  L!Orphans(d) > Cardinality(Pending(d, "former", Working \cup {"sent"}))

HandlerExits(d) ==
  /\ L!HandlerExits(d)
  /\ IdleOrphan(d)
  /\ StillHere
  /\ UNCHANGED <<req, responses, resolution, ui, hooked, agentVars, faults>>

(* A handler fails over something else than an answer: in its set-up, or   *)
(* over another message.                                                   *)
HandlerFails(d) ==
  /\ L!HandlerRaises(d) \/ L!SetupRaises(d)
  /\ ConnFault
  /\ \/ up' = up /\ IdleOrphan(d) /\ UNCHANGED req
     \/ up' # up /\ Pending(d, "ws", Working) = {} /\ req' = Lost(Pending(d, "ws", {"sent"}))
  /\ UNCHANGED <<responses, resolution, ui, hooked, agentVars>>

(* The server process restarts: every coroutine ends where it is. *)
Restart ==
  /\ L!Restart
  /\ ConnFault
  /\ req' = [r \in Request |->
       IF req[r].pc \in {"telling", "posting"}
       THEN [req[r] EXCEPT !.pc = "aborted", !.hooks = {}]
       ELSE Lost({q \in Request : req[q].pc \in {"sent", "loaded"}})[r]]
  /\ UNCHANGED <<responses, resolution, ui, hooked, agentVars>>

-----------------------------------------------------------------------------
(* The agent *)

Committed == {"telling", "posting", "recorded", "aborted"}

(* create_webhook; once the agent is gone its foreign key refuses the row. *)
CreateWebhook(w) ==
  /\ agent.exists
  /\ agent' = [agent EXCEPT !.webhooks = @ \cup {w}]
  /\ UNCHANGED <<conns, req, responses, resolution, ui, hooked, deaf, here, faults>>

DeleteAgentKeepsHooks ==
  /\ agent.exists
  /\ agent' = [agent EXCEPT !.exists = FALSE]
  /\ deaf' = {r \in Request : req[r].pc \notin Committed}
  /\ UNCHANGED <<conns, req, responses, resolution, ui, hooked, here, faults>>

(* delete_agent: its webhooks cascade, the notification stays, without an  *)
(* agent.                                                                  *)
DeleteAgent ==
  /\ agent.exists
  /\ agent' = [exists |-> FALSE, webhooks |-> {}]
  /\ deaf' = {r \in Request : req[r].pc \notin Committed}
  /\ UNCHANGED <<conns, req, responses, resolution, ui, hooked, here, faults>>

Serve(r) ==
  \/ Load(r) \/ Commit(r) \/ Tell(r) \/ TellRaises(r) \/ AllTold(r)
  \/ Post(r) \/ PostRaises(r) \/ AllPosted(r)

Send(r) ==
  /\ \A q \in Request : q < r => req[q].pc # "unsent"
  /\ \E d \in Device, a \in Action \cup {BadAction} :
       SendOverSocket(r, d, a) \/ SendOverRest(r, d, a)

Connections ==
  \/ \E d \in Device :
       Connect(d) \/ PeerGone(d) \/ ConnectGone(d) \/ HandlerExits(d) \/ HandlerFails(d)
  \/ Restart

Next ==
  \/ \E r \in Request : Send(r) \/ Serve(r) \/ Lose(r)
  \/ Connections
  \/ DeleteAgent \/ \E w \in Webhook : CreateWebhook(w)

Spec == Init /\ [][Next]_vars

(* The event loop runs every ready coroutine; clients owe nothing. *)
FairSpec == Spec /\ \A r \in Request : WF_vars(Serve(r))

-----------------------------------------------------------------------------
(* Invariants *)

ReqStates ==
  {"unsent", "sent", "lost", "unknown", "conflict", "loaded", "telling", "posting",
   "recorded", "aborted"}

ReqType ==
  [pc : ReqStates, via : {"ws", "former", "rest"}, device : Device \cup {Nobody},
   action : Action \cup {BadAction, Nobody}, late : BOOLEAN,
   left : SUBSET Target, hooks : SUBSET Webhook]

(* The values the variables range over. *)
TypeOK ==
  /\ entry \in [Device -> {"live", "dead", "none"}]
  /\ up \in SUBSET Device
  /\ serving \in [Device -> Nat]
  /\ req \in [Request -> ReqType]
  /\ responses \in Seq([request : Request, device : Device, action : Action])
  /\ resolution \in [resolved : BOOLEAN, by : Device \cup {Nobody},
                     action : Action \cup {Nobody}]
  /\ ui \in SUBSET Device
  /\ agent \in [exists : BOOLEAN, webhooks : SUBSET Webhook]
  /\ hooked \in SUBSET (Request \X Webhook)
  /\ deaf \in SUBSET Request
  /\ here \in [Request -> SUBSET Device]
  /\ faults \in 0..MaxFaults

Recorded(r) == \E i \in DOMAIN responses : responses[i].request = r

(* An answer sent after another was committed is never recorded, whatever  *)
(* its route: first-response-wins holds for answers that do not overlap.   *)
LateAnswersLose == \A r \in Request : req[r].late => ~Recorded(r)

(* The notification's resolution is one of the recorded responses, device  *)
(* and action together, also when two answers wrote it one over the other. *)
ResolutionIsRecorded ==
  /\ resolution.resolved <=> responses # <<>>
  /\ resolution.resolved =>
       \E i \in DOMAIN responses :
         responses[i].device = resolution.by /\ responses[i].action = resolution.action

(* Both: what the table and the notification say of the answers agrees     *)
(* with the order in which people gave them, as far as they did not        *)
(* overlap.                                                                *)
AnswersAreInOrder == LateAnswersLose /\ ResolutionIsRecorded

(* The agent hears only of answers that are in the database, of each only  *)
(* when no device is left to tell and every other target that has been     *)
(* connected since the commit shows it, and of none that was committed     *)
(* after the agent was deleted.                                            *)
AgentHearsOfRecorded ==
  \A r \in Request : (\E w \in Webhook : <<r, w>> \in hooked) =>
    /\ Recorded(r) /\ req[r].left = {} /\ r \notin deaf
    /\ here[r] \subseteq ui

(* Of the targets that have been registered with a live socket ever since  *)
(* an answer was committed, all show the resolution but those that its     *)
(* broadcast has yet to reach, or did not reach before an exception or a   *)
(* restart ended it, however connections come and go and answers overlap.  *)
TargetsLearn == \A r \in Request : here[r] \ req[r].left \subseteq ui

-----------------------------------------------------------------------------
(* Properties of behaviours *)

(* Every answer that is sent is settled: refused, told to everyone and     *)
(* posted, or ended by an exception or a restart; it is lost only if its   *)
(* connection or the server goes.                                          *)
AnswersSettle ==
  \A r \in Request :
    req[r].pc = "sent" ~>
      \/ req[r].pc \in {"unknown", "conflict", "recorded", "aborted"}
      \/ req[r].pc = "lost" /\ faults > 0

(* responses.py, submit_response: "Record the response, enforcing          *)
(* first-response-wins"; architecture.md: "first-response-wins across      *)
(* devices".                                                               *)
FirstResponseWins == Len(responses) <= 1

(* responses.py, _broadcast_resolved: "Tell the user's other devices to    *)
(* disable the buttons".                                                   *)
OthersAreTold ==
  \A r \in Request : req[r].pc = "recorded" =>
    \A d \in Audience(r) : entry[d] = "live" => d \in ui

(* webhooks.py, send_event: "Best-effort POST to each webhook. Never       *)
(* raises (won't fail the request)."                                       *)
WebhooksNeverFail ==
  [][\A r \in Request : req[r].pc = "posting" => req'[r].pc # "aborted"]_vars

=============================================================================
