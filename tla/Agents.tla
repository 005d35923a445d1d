------------------------------- MODULE Agents -------------------------------
(***************************************************************************)
(* What an agent may do and see: the scopes it is created with             *)
(* (server/app/auth/scopes.py, api/agents.py create_agent), where they are *)
(* asked for (auth/deps.py require_scopes, notifications/service.py        *)
(* _check_scopes), and its view of the user's presence (api/presence.py).  *)
(* A pure module: no variables.                                            *)
(***************************************************************************)
EXTENDS Selection, FiniteSets, Sequences

CONSTANTS
  Unasked,   \* scopes absent from the request that creates the agent
  Automatic  \* manual_presence "auto", or no preferences row

AllScopes == {"send", "read", "broadcast", "target_device", "presence", "action"}

DefaultAll == AllScopes

(* "Broadcast / target_device are intentionally excluded" *)
DefaultScopes == {"send", "read", "action"}

(* create_agent refuses a request with a scope it does not know. *)
Grantable(asked) == asked # Unasked => asked \subseteq AllScopes

GrantedScopes(asked) == IF asked = Unasked THEN DefaultScopes ELSE asked

HasScopes(granted, required) == required \subseteq granted

(* _check_scopes *)
ModeScopes(mode) ==
  CASE mode = "all_devices" -> {"broadcast"}
    [] mode = "specific_device" -> {"target_device"}
    [] OTHER -> {}

(* POST /notifications; the second part comes from the mode alone. *)
MayCreate(granted, mode) ==
  HasScopes(granted, {"send"}) /\ HasScopes(granted, ModeScopes(mode))

-----------------------------------------------------------------------------
OrdersByScore(devices, primary) ==
  {s \in [1..Cardinality(DOMAIN devices) -> DOMAIN devices] :
    /\ \A i, j \in DOMAIN s : i < j => s[i] # s[j] /\ devices[s[i]].score >= devices[s[j]].score}

(* ordered_device_ids: the primary first, the others by their score, those *)
(* that are equal in the order in which Redis was scanned.                 *)
Orders(devices, primary) ==
  {s \in [1..Cardinality(DOMAIN devices) -> DOMAIN devices] :
    /\ \A i, j \in DOMAIN s : i < j => s[i] # s[j]
    /\ s # <<>> => s[1] = primary
    /\ \A i, j \in DOMAIN s : 1 < i /\ i < j => devices[s[i]].score >= devices[s[j]].score}

ActiveFrom == 50

(* agent_presence: a state, and the primary device, 0 if none is shown.    *)
AgentView(devices, prev, manual) ==
  IF DOMAIN devices = {}
  THEN [state |-> IF manual # Automatic THEN manual ELSE "offline", primary |-> 0]
  ELSE LET p == SnapshotPrimary(devices, prev)
       IN  [state |-> IF manual # Automatic THEN manual
                      ELSE IF devices[p].score >= ActiveFrom THEN "active" ELSE "away",
            primary |-> p]

=============================================================================
