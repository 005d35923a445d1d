------------------------------ MODULE Selection ------------------------------
(***************************************************************************)
(* How active a device is and which device is the primary one: the pure    *)
(* part of server/app/presence (scoring.py, and the choice that            *)
(* manager.py's select_active and get_snapshot make from what they read).  *)
(***************************************************************************)
EXTENDS Integers

CONSTANTS
  Device,     \* device ids; the numbers compare as the ids' strings do
  Threshold,  \* SWITCH_THRESHOLD
  Hold        \* MIN_HOLD_MS, in ticks

ASSUME DeviceAssumption == Device \subseteq Nat \ {0}
ASSUME ThresholdAssumption == Threshold \in Nat \ {0}
ASSUME HoldAssumption == Hold \in Nat \ {0}

-----------------------------------------------------------------------------
(* compute_activity_score.  last_interaction_ms only counts by its class.  *)

Observation ==
  [interaction : {"recent", "minute", "older", "none"},
   screen : {"on", "off", "unknown"},
   locked : {"no", "yes", "unknown"},
   app : {"foreground", "other"},
   motion : {"handheld", "moving", "other"}]

PointsLockedSwapped ==
  [interaction |-> [recent |-> 50, minute |-> 35, older |-> 0, none |-> 0],
   screen |-> [on |-> 10, off |-> -30, unknown |-> 0],
   locked |-> [no |-> 0, yes |-> -40, unknown |-> 15],
   app |-> [foreground |-> 20, other |-> 0],
   motion |-> [handheld |-> 20, moving |-> 10, other |-> 0]]

Points ==
  [interaction |-> [recent |-> 50, minute |-> 35, older |-> 0, none |-> 0],
   screen |-> [on |-> 10, off |-> -30, unknown |-> 0],
   locked |-> [no |-> 15, yes |-> -40, unknown |-> 0],
   app |-> [foreground |-> 20, other |-> 0],
   motion |-> [handheld |-> 20, moving |-> 10, other |-> 0]]

Clamp(n) == IF n < 0 THEN 0 ELSE IF n > 100 THEN 100 ELSE n

Score(o) ==
  Clamp(Points.interaction[o.interaction] + Points.screen[o.screen]
        + Points.locked[o.locked] + Points.app[o.app] + Points.motion[o.motion])

(* What record_observation keeps of an observation: the score, and whether *)
(* the device is locked or its screen off.                                 *)
Entry == [score : 0..100, away : BOOLEAN]

EntryOf(o) == [score |-> Score(o), away |-> o.locked = "yes" \/ o.screen = "off"]

(* _CONNECTED_BASELINE *)
Baseline == [score |-> 20, away |-> FALSE]

-----------------------------------------------------------------------------
(* The choice, from the devices' entries read (a function whose domain is  *)
(* the devices present) and the selection kept in Redis: the primary, 0 if *)
(* there is none, and how long ago it was chosen, up to Hold.              *)

Selected == [primary : Device \cup {0}, age : 0..Hold]

None == [primary |-> 0, age |-> 0]

Best(devices) ==
  CHOOSE d \in DOMAIN devices : \A e \in DOMAIN devices \ {d} :
    \/ devices[d].score > devices[e].score
    \/ devices[d].score = devices[e].score /\ d > e

Beaten(devices, p) == devices[Best(devices)].score >= devices[p].score + Threshold

KeepsIgnoringHold(devices, prev) ==
  /\ prev.primary \in DOMAIN devices
  /\ ~devices[prev.primary].away
  /\ ~Beaten(devices, prev.primary)

(* The current primary stays: it is present, neither locked nor dark, and  *)
(* not both held long enough and clearly beaten.                           *)
Keeps(devices, prev) ==
  /\ prev.primary \in DOMAIN devices
  /\ ~devices[prev.primary].away
  /\ prev.age < Hold \/ ~Beaten(devices, prev.primary)

ChosenRestarts(devices, prev) ==
  IF DOMAIN devices = {} THEN None
  ELSE IF Keeps(devices, prev) THEN [prev EXCEPT !.age = 0]
  ELSE [primary |-> Best(devices), age |-> 0]

(* select_active; what it writes to Redis. *)
Chosen(devices, prev) ==
  IF DOMAIN devices = {} THEN None
  ELSE IF Keeps(devices, prev) THEN prev
  ELSE [primary |-> Best(devices), age |-> 0]

(* get_snapshot's primary. *)
SnapshotPrimary(devices, prev) ==
  IF prev.primary \in DOMAIN devices THEN prev.primary ELSE Best(devices)

=============================================================================
