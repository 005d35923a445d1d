----------------------------- MODULE MCDecisions -----------------------------
(***************************************************************************)
(* The decisions the server computes without an await: the plan of a       *)
(* notification, the score of an observation, the order and the view of a  *)
(* user's devices, and what an agent is granted.                           *)
(*                                                                         *)
(* Planning: every input of plan_routes over a few devices, one state per  *)
(* request and one per plan, compared with reference definitions that are  *)
(* not computed the way the code computes them.  Scoring: every            *)
(* observation a device can report, and every way its user becomes more    *)
(* active in one respect.  Serving: entries that the devices may have in   *)
(* Redis and selections kept there, what an agent is shown of them and     *)
(* what is planned for them.  Granting: every set of scopes an agent may   *)
(* be created with, and what it then asks for.                             *)
(***************************************************************************)
EXTENDS Routing, Agents

CONSTANTS
  Devices,      \* device ids that presence or the device table may hold
  Scores,       \* activity scores of the devices to serve
  NoView        \* nothing was shown

ASSUME DevicesAssumption == IsFiniteSet(Devices)

VARIABLES request, plan, obs, kept, asked, viewed

dvars == <<request, plan, obs, kept, asked, viewed>>

Unplanned == [targets |-> <<>>, made |-> FALSE]

(* Presence hands over distinct ids (they are dictionary keys) and the     *)
(* device table distinct ids in any order (no ORDER BY); presence may      *)
(* still hold a device that was deleted from the table.                    *)
Requests ==
  [mode : Modes, priority : Priorities, active : SetToAllKPermutations(Devices),
   all : SetToAllKPermutations(Devices), device : Devices \cup {NoDevice}]

(* A request whose active devices are yet to be read. *)
Fresh(mode) ==
  [mode |-> mode, priority |-> "normal", active |-> <<>>, all |-> SetToSeq(Devices),
   device |-> IF mode = "specific_device" THEN CHOOSE d \in Devices : TRUE ELSE NoDevice]

(* What Redis holds: the devices' entries and the selection. *)
Keeping == [devices : UNION {[D -> [score : Scores, away : BOOLEAN]] : D \in SUBSET Devices},
            prev : Selected, read : {FALSE}]

Nothing == [devices |-> [d \in {} |-> Baseline], prev |-> None, read |-> TRUE]

(* From the least active value of a field to the most active one. *)
Scale ==
  [interaction |-> <<"older", "minute", "recent">>,
   screen |-> <<"off", "unknown", "on">>,
   locked |-> <<"yes", "unknown", "no">>,
   app |-> <<"other", "foreground">>,
   motion |-> <<"other", "moving", "handheld">>]

Liveliest == [f \in DOMAIN Scale |-> Scale[f][Len(Scale[f])]]

(* A request is to be planned, an observation to be scored, the devices in *)
(* Redis to be served, or an agent to be created.                          *)
DInit ==
  /\ plan = Unplanned /\ viewed = NoView
  /\ \/ /\ request \in {r \in Requests : r.mode # "specific_device" => r.device = NoDevice}
        /\ obs = Liveliest /\ kept = Nothing /\ asked = AllScopes
     \/ /\ obs \in Observation
        /\ request = Fresh("active_only") /\ kept = Nothing /\ asked = AllScopes
     \/ /\ kept \in Keeping
        /\ request \in {Fresh(m) : m \in Modes \ {"specific_device"}}
        /\ obs = Liveliest /\ asked = AllScopes
     \/ /\ asked \in SUBSET (AllScopes \cup {"unknown"}) \cup {Unasked}
        /\ request \in {Fresh(m) : m \in Modes}
        /\ obs = Liveliest /\ kept = Nothing

(* create_notification reads the devices in order ... *)
Look ==
  /\ ~kept.read
  /\ \E s \in Orders(kept.devices,
                     IF DOMAIN kept.devices = {} THEN 0
                     ELSE SnapshotPrimary(kept.devices, kept.prev)) :
       request' = [request EXCEPT !.active = s]
  /\ kept' = [kept EXCEPT !.read = TRUE]
  /\ UNCHANGED <<plan, obs, asked, viewed>>

(* ... and plans, if the agent may do that. *)
Plan ==
  /\ kept.read /\ ~plan.made
  /\ Grantable(asked) /\ MayCreate(GrantedScopes(asked), request.mode)
  /\ plan' = [targets |-> PlanRoutes(request.mode, request.priority, request.active,
                                     request.all, request.device),
              made |-> TRUE]
  /\ UNCHANGED <<request, obs, kept, asked, viewed>>

(* GET /agent/presence *)
Show ==
  /\ viewed = NoView
  /\ Grantable(asked) /\ HasScopes(GrantedScopes(asked), {"presence"})
  /\ viewed' = AgentView(kept.devices, kept.prev, Automatic)
  /\ UNCHANGED <<request, plan, obs, kept, asked>>

(* The user turns to the device: one field moves up. *)
Livelier ==
  /\ \E f \in DOMAIN Scale : \E i, j \in DOMAIN Scale[f] :
       /\ i < j
       /\ obs[f] = Scale[f][i]
       /\ obs' = [obs EXCEPT ![f] = Scale[f][j]]
  /\ UNCHANGED <<request, plan, kept, asked, viewed>>

DNext == Plan \/ Livelier \/ Look \/ Show
DSpec == DInit /\ [][DNext]_dvars

-----------------------------------------------------------------------------
(* Reference: where a device comes in the concatenated lists. *)
FirstIndex(seq, x) == CHOOSE i \in DOMAIN seq : seq[i] = x /\ \A j \in 1..(i-1) : seq[j] # x

(* Declaratively: out holds what seq holds, each once, in the order in     *)
(* which seq first mentions them.                                          *)
FirstOccurrences(out, seq) ==
  /\ ToSet(out) = ToSet(seq)
  /\ IsInjective(out)
  /\ \A i, j \in DOMAIN out : i < j => FirstIndex(seq, out[i]) < FirstIndex(seq, out[j])

(* No target comes twice: Delivery names a device by its order_index, and  *)
(* apply_ack's scalar_one_or_none needs one row per device.                *)
TargetsDistinct == IsInjective(plan.targets)

(* "best-effort fan-out so nothing is lost": a default-mode notification   *)
(* reaches the planner of a user with devices, active or not, and has a    *)
(* target.                                                                 *)
NothingLost ==
  plan.made /\ request.mode = "active_with_fallback" /\ request.all # <<>>
    => plan.targets # <<>>

(* all_devices leaves no device out, active or not, keeps the presence     *)
(* order among the active ones and puts them before the others.            *)
FanOutFollowsPresence ==
  plan.made /\ request.mode = "all_devices"
    => FirstOccurrences(plan.targets, request.active \o request.all)

(* A low-priority notification of a user with an active device is planned  *)
(* for one device only, so no timer is ever armed for it.                  *)
LowPriorityNeverEscalates ==
  plan.made /\ request.priority = "low" /\ request.active # <<>>
    => ~NeedsFallback(request.mode, Len(plan.targets))

(* The four together, of every plan. *)
PlansAreSound ==
  TargetsDistinct /\ NothingLost /\ FanOutFollowsPresence /\ LowPriorityNeverEscalates

(* However the primary was kept, and whatever scores higher by now, the    *)
(* device an agent is shown as the user's primary is the one its next      *)
(* notification goes to first, and has the score of the state shown; and   *)
(* what select_active has just written is what get_snapshot reads.         *)
ShownIsServed ==
  /\ viewed # NoView /\ plan.made /\ kept # Nothing =>
       /\ viewed.primary = IF request.active = <<>> THEN 0 ELSE plan.targets[1]
       /\ viewed.state = "active" => kept.devices[plan.targets[1]].score >= 50
       /\ viewed.state = "offline" /\ request.mode = "active_only" => plan.targets = <<>>
  /\ DOMAIN kept.devices # {} =>
       LET chosen == Chosen(kept.devices, kept.prev)
       IN  SnapshotPrimary(kept.devices, chosen) = chosen.primary

(* Only an agent that was created with the scope by name fans out to every *)
(* device, addresses one, or sees the user's presence.                     *)
AuthorityIsGranted ==
  LET granted(s) == asked # Unasked /\ s \in asked
  IN  /\ plan.made /\ request.mode = "all_devices" => granted("broadcast")
      /\ plan.made /\ request.mode = "specific_device" => granted("target_device")
      /\ viewed # NoView => granted("presence")

(* More activity never lowers the score, whatever the clamp cuts off, so   *)
(* that picking up a device can only bring it closer to being the primary. *)
LivelierScoresMore == [][Score(obs') >= Score(obs)]_obs

=============================================================================
