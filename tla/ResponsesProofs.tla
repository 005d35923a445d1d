--------------------------- MODULE ResponsesProofs ---------------------------
(***************************************************************************)
(* Proofs about Responses.tla, for any devices, answers and webhooks.      *)
(***************************************************************************)
EXTENDS Responses, TLAPS

Posted(r) == \E w \in Webhook : <<r, w>> \in hooked

(* An answer is in the table exactly when its coroutine has passed its     *)
(* commit, and nothing is posted before everyone was told.                 *)
ProgressInv(r) ==
  /\ Recorded(r) <=> req[r].pc \in Committed
  /\ req[r].pc = "loaded" => req[r].action \in Action
  /\ req[r].pc \notin {"unsent", "lost"} => req[r].device \in Device
  /\ Posted(r) => req[r].pc \in {"posting", "recorded", "aborted"}
  /\ req[r].pc \in {"posting", "recorded"} \/ Posted(r) => req[r].left = {}

(* An answer that was not committed when the agent was deleted has no      *)
(* webhook to post to.                                                     *)
DeafInv(r) ==
  /\ req[r].pc \notin {"posting", "recorded"} => req[r].hooks = {}
  /\ r \in deaf => req[r].hooks = {} /\ ~Posted(r)

(* A late answer finds the notification resolved when it is loaded. *)
LateInv(r) ==
  req[r].late => responses # <<>> /\ req[r].pc \notin Committed \cup {"loaded"}

RequestInv(r) == ProgressInv(r) /\ DeafInv(r) /\ LateInv(r)

(* A deleted agent has no webhooks. *)
AgentInv ==
  /\ ~agent.exists => agent.webhooks = {}
  /\ deaf # {} => ~agent.exists

IInv ==
  /\ TypeOK
  /\ \A r \in Request : RequestInv(r)
  /\ AgentInv
  /\ ResolutionIsRecorded

(* The invariant holds before any answer is sent.                          *)
LEMMA InitIInv == Init => IInv
<1> SUFFICES ASSUME Init PROVE IInv
  OBVIOUS
<1>1. TypeOK
  <2>1. up \in SUBSET Device /\ entry \in [Device -> {"live", "dead", "none"}]
          /\ serving \in [Device -> Nat]
    BY DEF Init, L!Init
  <2> QED
    BY <2>1, FaultsAssumption DEF Init, TypeOK, ReqType, Unsent, Unresolved, ReqStates
<1>2. (\A r \in Request : RequestInv(r)) /\ AgentInv /\ ResolutionIsRecorded
  BY DEF Init, RequestInv, ProgressInv, DeafInv, LateInv, AgentInv, ResolutionIsRecorded,
         Recorded, Posted, Committed, Unsent, Unresolved
<1> QED
  BY <1>1, <1>2 DEF IInv

-----------------------------------------------------------------------------
(* Connections *)

ConnType ==
  /\ entry \in [Device -> {"live", "dead", "none"}]
  /\ up \in SUBSET Device
  /\ serving \in [Device -> Nat]

(* A live entry is of a client that is there.                              *)
LiveIsUp == \A d \in Device : entry[d] = "live" => d \in up

(* No step of Link leaves a live entry without its client.                 *)
LEMMA ConnStep ==
  ASSUME ConnType, LiveIsUp, L!Next \/ UNCHANGED conns
  PROVE  ConnType' /\ LiveIsUp'
<1> USE DEF ConnType, LiveIsUp
<1>1. CASE UNCHANGED conns
  BY <1>1 DEF conns
<1>2. ASSUME NEW d \in Device, L!Connect(d) \/ L!ConnectGone(d) \/ L!PeerGone(d)
      PROVE  ConnType' /\ LiveIsUp'
  BY <1>2 DEF L!Connect, L!ConnectGone, L!PeerGone, L!Severed
<1>3. ASSUME NEW d \in Device, L!HandlerExits(d) PROVE ConnType' /\ LiveIsUp'
  <2>1. serving[d] - 1 \in Nat
    BY <1>3 DEF L!HandlerExits, L!Orphans
  <2> QED
    BY <1>3, <2>1 DEF L!HandlerExits
<1>4. ASSUME NEW d \in Device, L!HandlerRaises(d) PROVE ConnType' /\ LiveIsUp'
  BY <1>4 DEF L!HandlerRaises
<1>5. ASSUME NEW d \in Device, L!SetupRaises(d) PROVE ConnType' /\ LiveIsUp'
  BY <1>5 DEF L!SetupRaises, L!Severed
<1>6. CASE L!Restart
  BY <1>6 DEF L!Restart
<1> QED
  BY <1>1, <1>2, <1>3, <1>4, <1>5, <1>6 DEF L!Next

(* An answer that is aborted ends the connection's handler as Link does.   *)
LEMMA AbortIsLink ==
  ASSUME NEW r \in Request, IInv, Abort(r), req[r].pc \notin {"unsent", "lost"}
  PROVE  L!Next \/ UNCHANGED conns
<1>1. req[r].device \in Device
  BY DEF IInv, RequestInv, ProgressInv
<1> QED
  BY <1>1 DEF Abort, L!Next

(* Connections change as Link lets them, or not at all.                    *)
LEMMA StepIsLink ==
  ASSUME IInv, [Next]_vars
  PROVE  L!Next \/ UNCHANGED conns
<1>1. ASSUME NEW r \in Request, Serve(r) PROVE L!Next \/ UNCHANGED conns
  <2>1. CASE TellRaises(r) \/ PostRaises(r)
    BY <2>1, AbortIsLink DEF TellRaises, PostRaises
  <2> QED
    BY <1>1, <2>1 DEF Serve, Load, Commit, Tell, AllTold, Post, AllPosted
<1>2. ASSUME NEW r \in Request, Send(r) \/ Lose(r) PROVE UNCHANGED conns
  BY <1>2 DEF Send, SendOverSocket, SendOverRest, Lose
<1>3. CASE Connections
  BY <1>3 DEF Connections, Connect, PeerGone, ConnectGone, HandlerExits, HandlerFails, Restart,
              L!Next
<1>4. CASE DeleteAgent \/ \E w \in Webhook : CreateWebhook(w)
  BY <1>4 DEF DeleteAgent, CreateWebhook
<1>5. CASE UNCHANGED vars
  BY <1>5 DEF vars
<1> QED
  BY <1>1, <1>2, <1>3, <1>4, <1>5 DEF Next

-----------------------------------------------------------------------------
(* The database and the coroutines *)

(* A step that does not write the database keeps the invariant if every    *)
(* request it moves fits its new place.                                    *)
LEMMA RequestsStep ==
  ASSUME IInv, UNCHANGED <<responses, resolution, agent, deaf>>,
         \A s \in Request :
           \/ req'[s] = req[s] /\ (Posted(s)' => Posted(s))
           \/ RequestInv(s)'
  PROVE  (\A s \in Request : RequestInv(s)') /\ AgentInv' /\ ResolutionIsRecorded'
<1>1. \A s \in Request : Recorded(s)' <=> Recorded(s)
  BY DEF Recorded
<1>2. AgentInv' /\ ResolutionIsRecorded'
  BY DEF IInv, AgentInv, ResolutionIsRecorded
<1>3. ASSUME NEW s \in Request, req'[s] = req[s], Posted(s)' => Posted(s)
      PROVE  RequestInv(s)'
  BY <1>1, <1>3 DEF IInv, RequestInv, ProgressInv, DeafInv, LateInv
<1> QED
  BY <1>2, <1>3

(* The pc of a request that stays on its side of the commit. *)
LEMMA PcStep ==
  ASSUME NEW r \in Request, IInv, NEW p \in ReqStates, NEW l \in SUBSET Target,
         NEW h \in SUBSET Webhook,
         req' = [req EXCEPT ![r].pc = p, ![r].left = l, ![r].hooks = h],
         UNCHANGED <<responses, resolution, agent, deaf>>,
         \A s \in Request : Posted(s)' => Posted(s) \/ s = r,
         req[r].pc # "unsent" /\ req[r].pc # "lost",
         req[r].pc \in Committed <=> p \in Committed,
         p = "loaded" => req[r].action \in Action /\ ~resolution.resolved,
         p \in {"posting", "recorded"} \/ Posted(r)' => l = {},
         Posted(r)' => p \in {"posting", "recorded", "aborted"},
         p \notin {"posting", "recorded"} => h = {},
         r \in deaf => h = {} /\ ~Posted(r)'
  PROVE  /\ req' \in [Request -> ReqType]
         /\ (\A s \in Request : RequestInv(s)') /\ AgentInv' /\ ResolutionIsRecorded'
<1> DEFINE q == [req[r] EXCEPT !.pc = p, !.left = l, !.hooks = h]
<1>1. req \in [Request -> ReqType]
  BY DEF IInv, TypeOK
<1>2. /\ q \in ReqType /\ q.pc = p /\ q.left = l /\ q.action = req[r].action
      /\ q.device = req[r].device /\ q.late = req[r].late /\ q.hooks = h
  BY <1>1 DEF ReqType
<1>3. \A s \in Request : req'[s] = IF s = r THEN q ELSE req[s]
  BY <1>1
<1>4. req' \in [Request -> ReqType]
  BY <1>1, <1>2
<1>5. q.late => responses # <<>> /\ q.pc \notin Committed \cup {"loaded"}
  BY <1>2 DEF IInv, RequestInv, LateInv, ResolutionIsRecorded
<1>6. (Recorded(r)' <=> p \in Committed) /\ req[r].device \in Device
  BY DEF IInv, RequestInv, ProgressInv, Recorded
<1>7. RequestInv(r)'
  <2> HIDE DEF q
  <2> QED
    BY <1>2, <1>3, <1>5, <1>6 DEF RequestInv, ProgressInv, DeafInv, LateInv
<1> QED
  BY <1>3, <1>4, <1>7, RequestsStep

(* Types of what a step leaves alone. *)
LEMMA TypeStep ==
  ASSUME TypeOK, ConnType', req' \in [Request -> ReqType], ui' \in SUBSET Device,
         hooked' \in SUBSET (Request \X Webhook), here' \in [Request -> SUBSET Device],
         faults' \in 0..MaxFaults,
         UNCHANGED <<responses, resolution, agent, deaf>>
  PROVE  TypeOK'
BY DEF TypeOK, ConnType

(* An answer that is sent is not recorded, and is late exactly when the    *)
(* notification is resolved.                                               *)
LEMMA SendIInv ==
  ASSUME NEW r \in Request, IInv, Send(r)
  PROVE  IInv'
<1>1. PICK d \in Device, a \in Action \cup {BadAction} :
        SendOverSocket(r, d, a) \/ SendOverRest(r, d, a)
  BY DEF Send
<1>2. PICK p \in {"sent", "lost"}, v \in {"ws", "rest"} :
        req' = [req EXCEPT ![r] =
                 [pc |-> p, via |-> v, device |-> d, action |-> a,
                  late |-> responses # <<>>, left |-> {}, hooks |-> {}]]
  BY <1>1 DEF SendOverSocket, SendOverRest
<1>3. /\ req[r].pc = "unsent"
      /\ ui' \in SUBSET Device
      /\ UNCHANGED <<conns, responses, resolution, hooked, here, faults, agent, deaf>>
  BY <1>1 DEF SendOverSocket, SendOverRest, IInv, TypeOK, agentVars
<1> DEFINE q == [pc |-> p, via |-> v, device |-> d, action |-> a,
                 late |-> responses # <<>>, left |-> {}, hooks |-> {}]
<1>4. q \in ReqType
  BY DEF ReqType, ReqStates
<1>5. req \in [Request -> ReqType]
  BY DEF IInv, TypeOK
<1>6. req' \in [Request -> ReqType] /\ \A s \in Request : req'[s] = IF s = r THEN q ELSE req[s]
  BY <1>2, <1>4, <1>5
<1>7. TypeOK'
  BY <1>3, <1>6, TypeStep DEF IInv, TypeOK, ConnType, conns
<1>8. /\ ~Recorded(r)' /\ q.pc \notin Committed /\ q.pc \notin {"loaded", "posting", "recorded"}
      /\ ~Posted(r)' /\ \A s \in Request : Posted(s)' <=> Posted(s)
      /\ q.device \in Device /\ (q.late => responses # <<>>) /\ q.hooks = {}
  BY <1>3 DEF IInv, RequestInv, ProgressInv, Committed, Recorded, Posted
<1>9. RequestInv(r)'
  <2> HIDE DEF q
  <2> QED
    BY <1>3, <1>6, <1>8 DEF RequestInv, ProgressInv, DeafInv, LateInv
<1> QED
  BY <1>3, <1>6, <1>7, <1>8, <1>9, RequestsStep DEF IInv

(* The commit of submit_response records the answer and resolves the       *)
(* notification with it, whatever another session did since the load.      *)
LEMMA CommitIInv ==
  ASSUME NEW r \in Request, IInv, Commit(r)
  PROVE  IInv'
<1> USE DEF IInv
<1> DEFINE new == [request |-> r, device |-> req[r].device, action |-> req[r].action]
<1>1. /\ req[r].pc = "loaded" /\ req[r].action \in Action /\ req[r].device \in Device
      /\ ~req[r].late /\ req[r].hooks = {} /\ ~Posted(r)
  BY DEF Commit, RequestInv, ProgressInv, LateInv, DeafInv
<1>2. new \in [request : Request, device : Device, action : Action]
  BY <1>1
<1>3. /\ responses' = Append(responses, new)
      /\ resolution' = [resolved |-> TRUE, by |-> req[r].device, action |-> req[r].action]
      /\ req' = [req EXCEPT ![r].pc = "telling", ![r].left = Audience(r)]
      /\ here' = [here EXCEPT ![r] = {d \in Target \ {req[r].device} : entry[d] = "live"}]
      /\ UNCHANGED <<entry, up, serving, ui, hooked, faults>> /\ agent' = agent /\ deaf' = deaf
  BY DEF Commit, ResolvedBy, agentVars, conns
<1>4. /\ responses \in Seq([request : Request, device : Device, action : Action])
      /\ req \in [Request -> ReqType]
  BY DEF TypeOK
<1>5. /\ \A s \in Request : s # r => req'[s] = req[s]
      /\ req'[r] = [req[r] EXCEPT !.pc = "telling", !.left = Audience(r)]
  BY <1>3, <1>4
<1>6. req'[r] \in ReqType /\ req'[r].pc = "telling" /\ req'[r].late = req[r].late
        /\ req'[r].device = req[r].device /\ req'[r].hooks = {}
  <2>1. Audience(r) \in SUBSET Target /\ req[r] \in ReqType
    BY <1>4 DEF Audience
  <2> QED
    BY <1>1, <1>5, <2>1 DEF ReqType, ReqStates
<1>7. TypeOK'
  <2>1. responses' \in Seq([request : Request, device : Device, action : Action])
    BY <1>2, <1>3, <1>4
  <2>2. req' \in [Request -> ReqType]
    BY <1>3, <1>4, <1>5, <1>6
  <2>3. here' \in [Request -> SUBSET Device]
    BY <1>3, TargetAssumption DEF TypeOK
  <2>4. resolution' \in [resolved : BOOLEAN, by : Device \cup {Nobody},
                         action : Action \cup {Nobody}]
    BY <1>1, <1>3
  <2> QED
    BY <1>3, <2>1, <2>2, <2>3, <2>4 DEF TypeOK
<1>8. /\ responses' # <<>>
      /\ \E i \in DOMAIN responses' : responses'[i] = new
      /\ \A s \in Request : Recorded(s)' <=> Recorded(s) \/ s = r
  <2>1. /\ DOMAIN responses' = 1..(Len(responses) + 1) /\ DOMAIN responses = 1..Len(responses)
        /\ Len(responses) \in Nat
        /\ responses'[Len(responses) + 1] = new
        /\ \A i \in 1..Len(responses) : responses'[i] = responses[i]
    BY <1>2, <1>3, <1>4
  <2>2. \E i \in DOMAIN responses' : responses'[i] = new
    BY <2>1
  <2>3. ASSUME NEW s \in Request PROVE Recorded(s)' <=> Recorded(s) \/ s = r
    <3>1. new.request = r
      OBVIOUS
    <3> QED
      BY <2>1, <2>2, <3>1 DEF Recorded
  <2> QED
    BY <2>1, <2>2, <2>3
<1>9. ResolutionIsRecorded'
  <2>1. new.device = resolution'.by /\ new.action = resolution'.action /\ resolution'.resolved
    BY <1>3
  <2> QED
    BY <1>8, <2>1 DEF ResolutionIsRecorded
<1>10. ASSUME NEW s \in Request PROVE RequestInv(s)'
  <2>1. (Posted(s)' <=> Posted(s)) /\ (s \in deaf' <=> s \in deaf) /\ RequestInv(s)
    BY <1>3 DEF Posted
  <2>2. CASE s = r
    BY <1>1, <1>6, <1>8, <2>1, <2>2 DEF RequestInv, ProgressInv, DeafInv, LateInv, Committed
  <2>3. CASE s # r
    BY <1>5, <1>8, <2>1, <2>3 DEF RequestInv, ProgressInv, DeafInv, LateInv
  <2> QED
    BY <2>2, <2>3
<1>11. AgentInv'
  BY <1>3 DEF AgentInv
<1> QED
  BY <1>7, <1>9, <1>10, <1>11

(* An exception after the commit leaves the answer in the table and        *)
(* whatever was posted before.                                             *)
LEMMA AbortIInv ==
  ASSUME NEW r \in Request, IInv, Abort(r), req[r].pc \in {"telling", "posting"}, LiveIsUp
  PROVE  IInv'
<1>1. /\ req \in [Request -> ReqType] /\ req[r] \in ReqType /\ TypeOK /\ ConnType
      /\ req[r].left \in SUBSET Target /\ RequestInv(r) /\ here \in [Request -> SUBSET Device]
  BY DEF IInv, TypeOK, ConnType, ReqType
<1>2. /\ req' = [req EXCEPT ![r].pc = "aborted", ![r].left = req[r].left, ![r].hooks = {}]
      /\ UNCHANGED <<responses, resolution, ui, hooked, agent, deaf, faults>>
      /\ here' \in [Request -> SUBSET Device]
  BY <1>1 DEF Abort, agentVars, StillHere, ReqType
<1>3. ConnType'
  BY <1>1, AbortIsLink, ConnStep
<1>4. /\ \A s \in Request : Posted(s)' <=> Posted(s)
      /\ Posted(r) => req[r].left = {}
      /\ r \in deaf => ~Posted(r)
      /\ "aborted" \in ReqStates /\ "aborted" \in Committed /\ req[r].pc \in Committed
  BY <1>1, <1>2 DEF Posted, RequestInv, ProgressInv, DeafInv, ReqStates, Committed
<1>5. /\ req' \in [Request -> ReqType]
      /\ (\A s \in Request : RequestInv(s)') /\ AgentInv' /\ ResolutionIsRecorded'
  <2> DEFINE p == "aborted"
             h == {}
  <2>1. /\ req' = [req EXCEPT ![r].pc = p, ![r].left = req[r].left, ![r].hooks = h]
        /\ p \in ReqStates /\ p \in Committed /\ p = "aborted" /\ h = {} /\ h \in SUBSET Webhook
        /\ p \notin {"posting", "recorded", "loaded"}
    BY <1>2, <1>4
  <2>2. UNCHANGED <<responses, resolution, agent, deaf>> /\ req[r].left \in SUBSET Target
    BY <1>1, <1>2
  <2> HIDE DEF p, h
  <2>3. /\ \A s \in Request : Posted(s)' => Posted(s) \/ s = r
        /\ req[r].pc # "unsent" /\ req[r].pc # "lost"
        /\ req[r].pc \in Committed <=> p \in Committed
        /\ p = "loaded" => req[r].action \in Action /\ ~resolution.resolved
        /\ p \in {"posting", "recorded"} \/ Posted(r)' => req[r].left = {}
        /\ Posted(r)' => p \in {"posting", "recorded", "aborted"}
        /\ p \notin {"posting", "recorded"} => h = {}
        /\ r \in deaf => h = {} /\ ~Posted(r)'
    BY <1>4, <2>1
  <2> QED
    BY <2>1, <2>2, <2>3, PcStep
<1>6. TypeOK'
  BY <1>1, <1>2, <1>3, <1>5, TypeStep DEF TypeOK
<1> QED
  BY <1>5, <1>6 DEF IInv

(* Every step of the coroutine that serves an answer keeps the invariant.  *)
LEMMA ServeIInv ==
  ASSUME NEW r \in Request, IInv, Serve(r), LiveIsUp
  PROVE  IInv'
<1>0. /\ TypeOK /\ ConnType /\ RequestInv(r)
      /\ req \in [Request -> ReqType] /\ req[r] \in ReqType
      /\ req[r].left \in SUBSET Target /\ req[r].hooks \in SUBSET Webhook
      /\ ui \in SUBSET Device /\ hooked \in SUBSET (Request \X Webhook)
      /\ agent' = agent /\ deaf' = deaf
  <2>1. agent' = agent /\ deaf' = deaf
    BY DEF Serve, Load, Commit, Tell, TellRaises, AllTold, Post, PostRaises, AllPosted, Abort,
           agentVars
  <2> QED
    BY <2>1 DEF IInv, TypeOK, ConnType, ReqType
<1>1. /\ req[r].pc \in {"posting", "recorded"} => req[r].left = {}
      /\ Posted(r) => req[r].pc \in {"posting", "recorded", "aborted"} /\ req[r].left = {}
      /\ req[r].pc \notin {"posting", "recorded"} => req[r].hooks = {}
      /\ r \in deaf => req[r].hooks = {} /\ ~Posted(r)
      /\ hooked' = hooked => \A s \in Request : Posted(s)' <=> Posted(s)
  BY <1>0 DEF RequestInv, ProgressInv, DeafInv, Posted
<1>2. CASE TellRaises(r) \/ PostRaises(r)
  BY <1>2, AbortIInv DEF TellRaises, PostRaises
<1>3. CASE Commit(r)
  BY <1>3, CommitIInv
<1> DEFINE Then == /\ req' \in [Request -> ReqType]
                   /\ (\A s \in Request : RequestInv(s)') /\ AgentInv' /\ ResolutionIsRecorded'
<1>4. CASE Load(r)
  <2>1. PICK p \in {"unknown", "conflict", "loaded"} :
          /\ p = Verdict(req[r].action)
          /\ req' = [req EXCEPT ![r].pc = p, ![r].left = req[r].left, ![r].hooks = req[r].hooks]
    BY <1>0, <1>4 DEF Load, Verdict, ReqType
  <2>2. p = "loaded" => req[r].action \in Action /\ ~resolution.resolved
    BY <2>1 DEF Verdict
  <2>3. req[r].pc = "sent"
        /\ UNCHANGED <<conns, responses, resolution, ui, hooked, here, faults>>
    BY <1>4 DEF Load
  <2>4. /\ p \in ReqStates /\ p \notin Committed /\ p \notin {"posting", "recorded"}
        /\ req[r].pc \notin Committed /\ req[r].pc \notin {"unsent", "lost"}
        /\ ~Posted(r)' /\ req[r].hooks = {}
    BY <1>1, <2>1, <2>3 DEF ReqStates, Committed
  <2>5. Then
    BY <1>0, <1>1, <2>1, <2>2, <2>3, <2>4, PcStep
  <2>6. TypeOK'
    BY <1>0, <2>3, <2>5, TypeStep DEF TypeOK, ConnType, conns
  <2> QED
    BY <2>5, <2>6 DEF IInv
<1>5. CASE Tell(r)
  <2>0. PICK e \in req[r].left :
          /\ ui' \in {ui, ui \cup {e}}
          /\ req' = [req EXCEPT ![r].left = @ \ {e}]
    BY <1>5 DEF Tell
  <2>1. req[r].pc = "telling"
        /\ UNCHANGED <<conns, responses, resolution, hooked, here, faults>>
    BY <1>5 DEF Tell
  <2> DEFINE l == req[r].left \ {e}
  <2>2. req' = [req EXCEPT ![r].pc = "telling", ![r].left = l, ![r].hooks = req[r].hooks]
    <3>1. req[r] = [req[r] EXCEPT !.pc = "telling", !.hooks = req[r].hooks]
      BY <1>0, <2>1 DEF ReqType
    <3> QED
      BY <1>0, <2>0, <3>1 DEF ReqType
  <2>3. ui' \in SUBSET Device
    BY <1>0, <2>0, TargetAssumption
  <2>4. /\ req[r].hooks = {} /\ ~Posted(r)'
        /\ "telling" \in ReqStates /\ "telling" \in Committed /\ req[r].pc \in Committed
        /\ l \in SUBSET Target
    BY <1>0, <1>1, <2>1 DEF ReqStates, Committed
  <2>5. Then
    <3> HIDE DEF l
    <3> QED
      BY <1>0, <1>1, <2>1, <2>2, <2>4, PcStep
  <2>6. TypeOK'
    BY <1>0, <2>1, <2>3, <2>5, TypeStep DEF TypeOK, ConnType, conns
  <2> QED
    BY <2>5, <2>6 DEF IInv
<1>6. CASE AllTold(r)
  <2>1. req' = [req EXCEPT ![r].pc = "posting", ![r].left = req[r].left,
                          ![r].hooks = agent.webhooks]
    BY <1>0, <1>6 DEF AllTold, ReqType
  <2>2. /\ req[r].pc = "telling" /\ req[r].left = {}
        /\ UNCHANGED <<conns, responses, resolution, ui, hooked, here, faults>>
    BY <1>6 DEF AllTold
  <2>3. agent.webhooks \in SUBSET Webhook /\ (r \in deaf => agent.webhooks = {})
    BY DEF IInv, TypeOK, AgentInv
  <2>4. "posting" \in ReqStates /\ "posting" \in Committed /\ req[r].pc \in Committed
    BY <2>2 DEF ReqStates, Committed
  <2>5. Then
    BY <1>0, <1>1, <2>1, <2>2, <2>3, <2>4, PcStep
  <2>6. TypeOK'
    BY <1>0, <2>2, <2>5, TypeStep DEF TypeOK, ConnType, conns
  <2> QED
    BY <2>5, <2>6 DEF IInv
<1>7. CASE Post(r)
  <2>0. PICK w \in req[r].hooks :
          /\ hooked' = hooked \cup {<<r, w>>} \/ hooked' = hooked
          /\ req' = [req EXCEPT ![r].hooks = @ \ {w}]
    BY <1>7 DEF Post
  <2>1. req[r].pc = "posting"
        /\ UNCHANGED <<conns, responses, resolution, ui, here, faults>>
    BY <1>7 DEF Post
  <2> DEFINE h == req[r].hooks \ {w}
  <2>2. h \in SUBSET Webhook /\ req[r].left = {} /\ r \notin deaf
    BY <1>0, <1>1, <2>0, <2>1
  <2>3. req' = [req EXCEPT ![r].pc = "posting", ![r].left = req[r].left, ![r].hooks = h]
    <3>1. req[r] = [req[r] EXCEPT !.pc = "posting", !.left = req[r].left]
      BY <1>0, <2>1 DEF ReqType
    <3>2. [req[r] EXCEPT !.hooks = h]
            = [req[r] EXCEPT !.pc = "posting", !.left = req[r].left, !.hooks = h]
      BY <1>0, <3>1 DEF ReqType
    <3> QED
      BY <1>0, <2>0, <3>2
  <2>4. /\ hooked' \in SUBSET (Request \X Webhook)
        /\ \A s \in Request : Posted(s)' => Posted(s) \/ s = r
    BY <1>0, <2>0 DEF Posted
  <2>5. "posting" \in ReqStates /\ "posting" \in Committed /\ req[r].pc \in Committed
    BY <2>1 DEF ReqStates, Committed
  <2>6. Then
    <3> HIDE DEF h
    <3> QED
      BY <1>0, <2>1, <2>2, <2>3, <2>4, <2>5, PcStep
  <2>7. TypeOK'
    BY <1>0, <2>1, <2>4, <2>6, TypeStep DEF TypeOK, ConnType, conns
  <2> QED
    BY <2>6, <2>7 DEF IInv
<1>8. CASE AllPosted(r)
  <2>1. req' = [req EXCEPT ![r].pc = "recorded", ![r].left = req[r].left,
                          ![r].hooks = req[r].hooks]
    BY <1>0, <1>8 DEF AllPosted, ReqType
  <2>2. /\ req[r].pc = "posting" /\ req[r].left = {}
        /\ UNCHANGED <<conns, responses, resolution, ui, hooked, here, faults>>
    BY <1>0, <1>1, <1>8 DEF AllPosted
  <2>3. "recorded" \in ReqStates /\ "recorded" \in Committed /\ req[r].pc \in Committed
    BY <2>2 DEF ReqStates, Committed
  <2>4. Then
    BY <1>0, <1>1, <2>1, <2>2, <2>3, PcStep
  <2>5. TypeOK'
    BY <1>0, <2>2, <2>4, TypeStep DEF TypeOK, ConnType, conns
  <2> QED
    BY <2>4, <2>5 DEF IInv
<1> QED
  BY <1>2, <1>3, <1>4, <1>5, <1>6, <1>7, <1>8 DEF Serve

(* A request that is moved to another socket, lost or aborted together     *)
(* with what it was served by.                                             *)
LEMMA MovedFits ==
  ASSUME NEW s \in Request, IInv, UNCHANGED <<responses, hooked, deaf>>,
         \/ req'[s] = req[s]
         \/ req'[s] = [req[s] EXCEPT !.via = "former"]
         \/ req[s].pc \in {"sent", "loaded"} /\ req'[s] = [req[s] EXCEPT !.pc = "lost"]
         \/ /\ req[s].pc \in {"telling", "posting"}
            /\ req'[s] = [req[s] EXCEPT !.pc = "aborted", !.hooks = {}]
  PROVE  RequestInv(s)' /\ req'[s] \in ReqType
<1>1. req[s] \in ReqType /\ RequestInv(s)
  BY DEF IInv, TypeOK
<1>2. (Recorded(s)' <=> Recorded(s)) /\ (Posted(s)' <=> Posted(s)) /\ (s \in deaf' <=> s \in deaf)
  BY DEF Recorded, Posted
<1>3. CASE req'[s] = req[s]
  BY <1>1, <1>2, <1>3 DEF RequestInv, ProgressInv, DeafInv, LateInv
<1>4. CASE req'[s] = [req[s] EXCEPT !.via = "former"]
  <2>1. /\ req'[s] \in ReqType /\ req'[s].pc = req[s].pc /\ req'[s].device = req[s].device
        /\ req'[s].action = req[s].action /\ req'[s].late = req[s].late
        /\ req'[s].left = req[s].left /\ req'[s].hooks = req[s].hooks
    BY <1>1, <1>4 DEF ReqType
  <2> QED
    BY <1>1, <1>2, <2>1 DEF RequestInv, ProgressInv, DeafInv, LateInv
<1>5. CASE req[s].pc \in {"sent", "loaded"} /\ req'[s] = [req[s] EXCEPT !.pc = "lost"]
  <2>1. /\ req'[s] \in ReqType /\ req'[s].pc = "lost" /\ req'[s].late = req[s].late
        /\ req'[s].left = req[s].left /\ req'[s].hooks = req[s].hooks
    BY <1>1, <1>5 DEF ReqType, ReqStates
  <2> QED
    BY <1>1, <1>2, <1>5, <2>1 DEF RequestInv, ProgressInv, DeafInv, LateInv, Committed
<1>6. CASE req[s].pc \in {"telling", "posting"}
             /\ req'[s] = [req[s] EXCEPT !.pc = "aborted", !.hooks = {}]
  <2>1. /\ req'[s] \in ReqType /\ req'[s].pc = "aborted" /\ req'[s].late = req[s].late
        /\ req'[s].left = req[s].left /\ req'[s].hooks = {} /\ req'[s].device = req[s].device
    BY <1>1, <1>6 DEF ReqType, ReqStates
  <2> QED
    BY <1>1, <1>2, <1>6, <2>1 DEF RequestInv, ProgressInv, DeafInv, LateInv, Committed
<1> QED
  BY <1>3, <1>4, <1>5, <1>6

(* How connections' steps move the requests.                               *)
LEMMA ConnectionsMove ==
  ASSUME IInv, Connections \/ \E r \in Request : Lose(r)
  PROVE  /\ \A s \in Request :
              \/ req'[s] = req[s]
              \/ req'[s] = [req[s] EXCEPT !.via = "former"]
              \/ req[s].pc \in {"sent", "loaded"} /\ req'[s] = [req[s] EXCEPT !.pc = "lost"]
              \/ /\ req[s].pc \in {"telling", "posting"}
                 /\ req'[s] = [req[s] EXCEPT !.pc = "aborted", !.hooks = {}]
         /\ req' = [s \in Request |-> req'[s]]
         /\ UNCHANGED <<responses, resolution, hooked, agent, deaf>>
         /\ ui' \in SUBSET Device /\ here' \in [Request -> SUBSET Device]
         /\ faults' \in 0..MaxFaults
<1> DEFINE Moved(s) ==
      \/ req'[s] = req[s]
      \/ req'[s] = [req[s] EXCEPT !.via = "former"]
      \/ req[s].pc \in {"sent", "loaded"} /\ req'[s] = [req[s] EXCEPT !.pc = "lost"]
      \/ /\ req[s].pc \in {"telling", "posting"}
         /\ req'[s] = [req[s] EXCEPT !.pc = "aborted", !.hooks = {}]
<1>0. /\ req \in [Request -> ReqType] /\ ui \in SUBSET Device
      /\ here \in [Request -> SUBSET Device] /\ faults \in 0..MaxFaults
  BY DEF IInv, TypeOK
<1>1. /\ UNCHANGED <<responses, resolution, hooked, agent, deaf>>
      /\ ui' \in SUBSET Device
      /\ (StillHere \/ UNCHANGED here)
      /\ (ConnFault \/ UNCHANGED faults)
  BY <1>0 DEF Connections, Connect, PeerGone, ConnectGone, HandlerExits, HandlerFails, Restart,
              Lose, agentVars, ConnFault
<1>2. here' \in [Request -> SUBSET Device] /\ faults' \in 0..MaxFaults
  BY <1>0, <1>1, FaultsAssumption DEF StillHere, ConnFault
<1>3. ASSUME NEW d \in Device, Connect(d) \/ ConnectGone(d) \/ HandlerExits(d) \/ HandlerFails(d)
      PROVE  (\A s \in Request : Moved(s)) /\ req' = [s \in Request |-> req'[s]]
  BY <1>0, <1>3 DEF Connect, ConnectGone, HandlerExits, HandlerFails, Lost, Pending
<1>4. ASSUME NEW d \in Device, PeerGone(d)
      PROVE  (\A s \in Request : Moved(s)) /\ req' = [s \in Request |-> req'[s]]
  BY <1>0, <1>4 DEF PeerGone, Pending
<1>5. ASSUME NEW r \in Request, Lose(r)
      PROVE  (\A s \in Request : Moved(s)) /\ req' = [s \in Request |-> req'[s]]
  BY <1>0, <1>5 DEF Lose, Lost
<1>6. ASSUME Restart
      PROVE  (\A s \in Request : Moved(s)) /\ req' = [s \in Request |-> req'[s]]
  <2>1. /\ \A s \in Request :
             req'[s] = IF req[s].pc \in {"telling", "posting"}
                       THEN [req[s] EXCEPT !.pc = "aborted", !.hooks = {}]
                       ELSE IF req[s].pc \in {"sent", "loaded"}
                       THEN [req[s] EXCEPT !.pc = "lost"] ELSE req[s]
        /\ req' = [s \in Request |-> req'[s]]
    BY <1>6 DEF Restart, Lost
  <2> QED
    BY <2>1
<1> QED
  BY <1>1, <1>2, <1>3, <1>4, <1>5, <1>6 DEF Connections

(* Connections that come and go keep the invariant.                        *)
LEMMA ConnectionIInv ==
  ASSUME IInv, Connections \/ \E r \in Request : Lose(r), LiveIsUp
  PROVE  IInv'
<1>1. L!Next \/ UNCHANGED conns
  BY StepIsLink DEF Next
<1>2. ConnType' /\ TypeOK
  BY <1>1, ConnStep DEF IInv, TypeOK, ConnType
<1>3. /\ \A s \in Request : RequestInv(s)' /\ req'[s] \in ReqType
      /\ req' = [s \in Request |-> req'[s]]
      /\ UNCHANGED <<responses, resolution, hooked, agent, deaf>>
      /\ ui' \in SUBSET Device /\ here' \in [Request -> SUBSET Device]
      /\ faults' \in 0..MaxFaults
  BY ConnectionsMove, MovedFits
<1>4. req' \in [Request -> ReqType]
  BY <1>3
<1>5. TypeOK'
  BY <1>2, <1>3, <1>4, TypeStep DEF TypeOK
<1>6. (\A s \in Request : RequestInv(s)') /\ AgentInv' /\ ResolutionIsRecorded'
  BY <1>3, RequestsStep
<1> QED
  BY <1>5, <1>6 DEF IInv

(* A new webhook, or the deletion of the agent, which silences the answers *)
(* that are not committed yet: none of them has webhooks to post to.       *)
LEMMA AgentIInv ==
  ASSUME IInv, DeleteAgent \/ \E w \in Webhook : CreateWebhook(w)
  PROVE  IInv'
<1> USE DEF IInv
<1>1. UNCHANGED <<conns, req, responses, resolution, ui, hooked, here, faults>>
  BY DEF DeleteAgent, CreateWebhook
<1> DEFINE Then == /\ agent' \in [exists : BOOLEAN, webhooks : SUBSET Webhook]
                   /\ deaf' \in SUBSET Request
                   /\ AgentInv'
                   /\ deaf' = deaf \/ deaf' = {r \in Request : req[r].pc \notin Committed}
<1>2. Then
  <2>1. CASE DeleteAgent
    BY <2>1 DEF DeleteAgent, AgentInv
  <2>2. ASSUME NEW w \in Webhook, CreateWebhook(w) PROVE Then
    <3>1. /\ agent \in [exists : BOOLEAN, webhooks : SUBSET Webhook] /\ deaf \in SUBSET Request
          /\ agent.exists /\ deaf = {}
      BY <2>2 DEF CreateWebhook, TypeOK, AgentInv
    <3>2. agent' = [agent EXCEPT !.webhooks = agent.webhooks \cup {w}] /\ deaf' = deaf
      BY <2>2 DEF CreateWebhook
    <3> QED
      BY <3>1, <3>2 DEF AgentInv
  <2> QED
    BY <2>1, <2>2
<1>3. TypeOK' /\ ResolutionIsRecorded'
  BY <1>1, <1>2 DEF TypeOK, ResolutionIsRecorded, conns
<1>4. ASSUME NEW r \in Request PROVE RequestInv(r)'
  <2>1. /\ req' = req /\ responses' = responses
        /\ (Recorded(r)' <=> Recorded(r)) /\ (Posted(r)' <=> Posted(r)) /\ RequestInv(r)
    BY <1>1 DEF Recorded, Posted
  <2>2. r \in deaf' => req[r].hooks = {} /\ ~Posted(r)
    BY <1>2, <2>1 DEF RequestInv, DeafInv, ProgressInv, Committed
  <2> QED
    BY <2>1, <2>2 DEF RequestInv, ProgressInv, DeafInv, LateInv
<1> QED
  BY <1>2, <1>3, <1>4

(* The strengthened invariant of the answers, and what it needs to know of *)
(* connections, hold throughout.                                           *)
THEOREM Inductive == Spec => [](IInv /\ LiveIsUp)
<1>1. Init => IInv /\ LiveIsUp
  BY InitIInv DEF Init, L!Init, LiveIsUp
<1>2. IInv /\ LiveIsUp /\ [Next]_vars => IInv' /\ LiveIsUp'
  <2> SUFFICES ASSUME IInv, LiveIsUp, [Next]_vars PROVE IInv' /\ LiveIsUp'
    OBVIOUS
  <2>1. ASSUME UNCHANGED vars PROVE IInv'
    <3>1. UNCHANGED <<entry, up, serving, req, responses, resolution, ui, hooked, agent, deaf,
                      here, faults>>
      BY <2>1 DEF vars, conns, agentVars
    <3>2. TypeOK'
      BY <3>1 DEF IInv, TypeOK
    <3>3. \A s \in Request : Posted(s)' => Posted(s)
      BY <3>1 DEF Posted
    <3> QED
      BY <3>1, <3>2, <3>3, RequestsStep DEF IInv
  <2>2. IInv'
    BY <2>1, SendIInv, ServeIInv, ConnectionIInv, AgentIInv DEF Next
  <2>3. ConnType
    BY DEF IInv, TypeOK, ConnType
  <2> QED
    BY <2>2, <2>3, StepIsLink, ConnStep
<1> QED
  BY <1>1, <1>2, PTL DEF Spec

(* Every variable keeps to its type. *)
THEOREM TypeCorrect == Spec => []TypeOK
<1>1. IInv => TypeOK
  BY DEF IInv
<1> QED
  BY <1>1, Inductive, PTL

(* First-response-wins for answers that do not overlap the first commit. *)
THEOREM LateLose == Spec => []LateAnswersLose
<1>1. IInv => LateAnswersLose
  BY DEF IInv, RequestInv, LateInv, ProgressInv, LateAnswersLose, Committed
<1> QED
  BY <1>1, Inductive, PTL

(* The resolution is one of the recorded responses, whole. *)
THEOREM ResolutionRecorded == Spec => []ResolutionIsRecorded
<1>1. IInv => ResolutionIsRecorded
  BY DEF IInv
<1> QED
  BY <1>1, Inductive, PTL

(* Both: late answers lose, and the resolution is whole. *)
THEOREM InOrder == Spec => []AnswersAreInOrder
<1>1. LateAnswersLose /\ ResolutionIsRecorded => AnswersAreInOrder
  BY DEF AnswersAreInOrder
<1> QED
  BY <1>1, LateLose, ResolutionRecorded, PTL

-----------------------------------------------------------------------------
(* The broadcast *)

(* TargetsLearn, with what makes it inductive: whoever is there is so      *)
(* since a commit, by a live entry.                                        *)
ToldInv ==
  /\ TargetsLearn
  /\ \A r \in Request :
       /\ here[r] # {} => req[r].pc \in Committed
       /\ \A d \in here[r] : d \in Device /\ entry[d] = "live"

(* A step after which nobody is here who was not, no view is lost of a     *)
(* device that is, and no broadcast has got further.                       *)
LEMMA ToldStays ==
  ASSUME ToldInv,
         \A s \in Request :
           /\ \A d \in here'[s] : d \in here[s] /\ entry'[d] = "live" /\ (d \in ui => d \in ui')
           /\ req'[s].left = req[s].left
           /\ req[s].pc \in Committed => req'[s].pc \in Committed
  PROVE  ToldInv'
BY DEF ToldInv, TargetsLearn

(* Sending and serving answers.                                            *)
LEMMA AnswerToldInv ==
  ASSUME IInv, ToldInv, LiveIsUp, NEW q \in Request, Send(q) \/ Serve(q)
  PROVE  ToldInv'
<1>0. /\ req \in [Request -> ReqType] /\ here \in [Request -> SUBSET Device]
      /\ entry \in [Device -> {"live", "dead", "none"}] /\ Target \subseteq Device
  BY TargetAssumption DEF IInv, TypeOK
<1>1. CASE Send(q)
  <2>1. /\ UNCHANGED <<entry, here>> /\ ui \subseteq ui' /\ req[q].pc = "unsent"
        /\ \A s \in Request : s # q => req'[s] = req[s]
    BY <1>0, <1>1 DEF Send, SendOverSocket, SendOverRest, conns
  <2>2. here[q] = {}
    BY <2>1 DEF ToldInv, TargetsLearn, Committed
  <2> QED
    BY <2>1, <2>2 DEF ToldInv, TargetsLearn
<1>2. CASE Load(q)
  <2>1. /\ UNCHANGED <<entry, here, ui>> /\ req[q].pc = "sent"
        /\ \A s \in Request : s # q => req'[s] = req[s]
    BY <1>0, <1>2 DEF Load, conns
  <2>2. here[q] = {}
    BY <2>1 DEF ToldInv, TargetsLearn, Committed
  <2> QED
    BY <2>1, <2>2 DEF ToldInv, TargetsLearn
<1>3. CASE Commit(q)
  <2>1. /\ UNCHANGED <<entry, ui>>
        /\ \A s \in Request : s # q => req'[s] = req[s] /\ here'[s] = here[s]
        /\ here'[q] = {d \in Target \ {req[q].device} : entry[d] = "live"}
        /\ req'[q].pc = "telling" /\ req'[q].left = Target \ {req[q].device}
    BY <1>0, <1>3 DEF Commit, Audience, conns, ReqType
  <2> QED
    BY <1>0, <2>1 DEF ToldInv, TargetsLearn, Committed
<1>4. CASE Tell(q)
  <2>1. PICK e \in req[q].left :
          /\ ui' = IF entry[e] = "live" THEN ui \cup {e} ELSE ui
          /\ req' = [req EXCEPT ![q].left = @ \ {e}]
    BY <1>4 DEF Tell
  <2>2. /\ UNCHANGED <<entry, here>>
        /\ \A s \in Request : s # q => req'[s] = req[s]
        /\ req'[q].left = req[q].left \ {e} /\ req'[q].pc = req[q].pc
    BY <1>0, <1>4, <2>1 DEF Tell, conns, ReqType
  <2>3. here[q] \ req'[q].left \subseteq ui'
    BY <2>1, <2>2 DEF ToldInv, TargetsLearn
  <2> QED
    BY <2>1, <2>2, <2>3 DEF ToldInv, TargetsLearn
<1>5. CASE TellRaises(q) \/ PostRaises(q)
  <2>1. Abort(q) /\ req[q].pc \in Committed
    BY <1>5 DEF TellRaises, PostRaises, Committed
  <2>2. /\ ui' = ui /\ \A s \in Request : here'[s] = {d \in here[s] : entry'[d] = "live"}
        /\ \A s \in Request : req'[s].left = req[s].left
        /\ \A s \in Request : req[s].pc \in Committed => req'[s].pc \in Committed
    BY <1>0, <2>1 DEF Abort, StillHere, Committed, ReqType
  <2> QED
    BY <2>2, ToldStays
<1>6. CASE AllTold(q) \/ Post(q) \/ AllPosted(q)
  <2>1. /\ UNCHANGED <<entry, here, ui>>
        /\ \A s \in Request : req'[s].left = req[s].left
        /\ \A s \in Request : req[s].pc \in Committed => req'[s].pc \in Committed
    BY <1>0, <1>6 DEF AllTold, Post, AllPosted, conns, Committed, ReqType
  <2> QED
    BY <2>1, ToldStays DEF ToldInv, TargetsLearn
<1> QED
  BY <1>1, <1>2, <1>3, <1>4, <1>5, <1>6 DEF Serve

(* Connections: an app that has forgotten what it showed was not here, as  *)
(* it had no socket before it connected.                                   *)
LEMMA ConnectionToldInv ==
  ASSUME IInv, ToldInv, LiveIsUp, Connections \/ \E r \in Request : Lose(r)
  PROVE  ToldInv'
<1>0. /\ req \in [Request -> ReqType] /\ here \in [Request -> SUBSET Device]
  BY DEF IInv, TypeOK
<1>1. ASSUME NEW s \in Request
      PROVE  /\ req'[s].left = req[s].left
             /\ req[s].pc \in Committed => req'[s].pc \in Committed
  <2>1. /\ req[s] \in ReqType
        /\ \/ req'[s] = req[s]
           \/ req'[s] = [req[s] EXCEPT !.via = "former"]
           \/ req[s].pc \in {"sent", "loaded"} /\ req'[s] = [req[s] EXCEPT !.pc = "lost"]
           \/ req'[s] = [req[s] EXCEPT !.pc = "aborted", !.hooks = {}]
    BY <1>0, ConnectionsMove
  <2> QED
    BY <2>1 DEF ReqType, Committed
<1>2. ASSUME NEW s \in Request, NEW d \in here'[s]
      PROVE  d \in here[s] /\ entry'[d] = "live"
  <2>1. CASE \E r \in Request : Lose(r)
    BY <1>2, <2>1 DEF Lose, conns, ToldInv, TargetsLearn
  <2>2. CASE Connections
    <3>1. StillHere
      BY <2>2 DEF Connections, Connect, PeerGone, ConnectGone, HandlerExits, HandlerFails, Restart,
                  ConnFault
    <3> QED
      BY <1>2, <3>1 DEF StillHere
  <2> QED
    BY <2>1, <2>2
<1>3. ASSUME NEW s \in Request, NEW d \in here'[s], d \in ui
      PROVE  d \in ui'
  <2>1. d \in Device /\ d \in up
    BY <1>2, <1>3 DEF ToldInv, TargetsLearn, LiveIsUp
  <2>2. CASE \E e \in Device : Connect(e)
    BY <1>3, <2>1, <2>2 DEF Connect, L!Connect
  <2>3. CASE ~ \E e \in Device : Connect(e)
    BY <1>3, <2>3 DEF Connections, PeerGone, ConnectGone, HandlerExits, HandlerFails, Restart, Lose
  <2> QED
    BY <2>2, <2>3
<1> QED
  BY <1>1, <1>2, <1>3, ToldStays

(* Nobody that is there from a commit on is passed by its broadcast, by    *)
(* whatever answers overlap and connections come and go beside it.         *)
THEOREM ToldInductive == Spec => []ToldInv
<1>1. Init => ToldInv
  BY DEF Init, ToldInv, TargetsLearn
<1>2. IInv /\ LiveIsUp /\ ToldInv /\ [Next]_vars => ToldInv'
  <2> SUFFICES ASSUME IInv, LiveIsUp, ToldInv, [Next]_vars PROVE ToldInv'
    OBVIOUS
  <2>1. CASE DeleteAgent \/ \E w \in Webhook : CreateWebhook(w)
    BY <2>1 DEF DeleteAgent, CreateWebhook, ToldInv, TargetsLearn, conns
  <2>2. CASE UNCHANGED vars
    BY <2>2 DEF vars, conns, ToldInv, TargetsLearn
  <2> QED
    BY <2>1, <2>2, AnswerToldInv, ConnectionToldInv DEF Next
<1> QED
  BY <1>1, <1>2, Inductive, PTL DEF Spec

(* Of the targets that have been connected ever since an answer was        *)
(* committed, all show the resolution but those that its broadcast has yet *)
(* to reach or did not reach.                                              *)
THEOREM ToldHaveLearned == Spec => []TargetsLearn
<1>1. ToldInv => TargetsLearn
  BY DEF ToldInv
<1> QED
  BY <1>1, ToldInductive, PTL

(* Webhooks carry recorded answers only, after every device that has been  *)
(* connected since the commit shows the resolution, and none that was      *)
(* committed after the agent was deleted.                                  *)
THEOREM AgentHears == Spec => []AgentHearsOfRecorded
<1>1. IInv /\ ToldInv => AgentHearsOfRecorded
  BY DEF IInv, RequestInv, ProgressInv, DeafInv, ToldInv, TargetsLearn, Posted, AgentHearsOfRecorded, Committed
<1> QED
  BY <1>1, Inductive, ToldInductive, PTL

(* Responses does nothing to connections that Link does not, also where an *)
(* answer's exception ends the handler of its socket.                      *)
THEOREM ConnsImplementLink == Spec => L!Spec
<1>1. Init => L!Init
  BY DEF Init
<1>2. IInv /\ [Next]_vars => [L!Next]_(L!vars)
  BY StepIsLink DEF L!vars, conns
<1> QED
  BY <1>1, <1>2, Inductive, PTL DEF Spec, L!Spec

=============================================================================
