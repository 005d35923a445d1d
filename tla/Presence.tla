------------------------------ MODULE Presence ------------------------------
(***************************************************************************)
(* The presence of one user's devices (server/app/presence/manager.py).    *)
(*                                                                         *)
(* Every report, connection and disconnection writes the device's activity *)
(* key and then selects the active device anew: it scans and reads the     *)
(* activity keys one by one, reads the active key and writes it.  Each is  *)
(* an await on Redis, so calls of several devices overlap; with one Call   *)
(* they do not.                                                            *)
(***************************************************************************)
EXTENDS Selection, FiniteSets, Functions

CONSTANTS
  Call,    \* coroutines that may be in the presence manager at once
  Reports  \* observations that devices report

ASSUME ReportsAssumption == Reports \subseteq Observation

VARIABLES
  activity,  \* Redis: activity:{user}:{device}, for the devices present
  active,    \* Redis: active:{user}
  call,      \* per coroutine: pc, its device, the keys it has yet to read,
             \* what it read of the others, and what it is about to write
  alone      \* history: the call that began when no other was under way

pvars == <<activity, active, call, alone>>

(* The key of d is set to e. *)
Put(entries, d, e) == [x \in DOMAIN entries \cup {d} |-> IF x = d THEN e ELSE entries[x]]

Absent == [d \in {} |-> Baseline]

AtRest == [pc |-> "idle", device |-> 0, todo |-> {}, seen |-> Absent, next |-> None]

PInit ==
  /\ activity = Absent
  /\ active = None
  /\ call = [c \in Call |-> AtRest]
  /\ alone = {}

AllAtRest == \A c \in Call : call[c] = AtRest

(* Until the next one begins. *)
Begins(c) ==
  /\ call[c].pc = "idle"
  /\ alone' = IF AllAtRest THEN {c} ELSE {}

-----------------------------------------------------------------------------
(* What precedes the selection *)

(* POST /presence: record_observation. *)
Report(c, d, o) ==
  /\ Begins(c)
  /\ activity' = Put(activity, d, EntryOf(o))
  /\ call' = [call EXCEPT ![c].pc = "scan"]
  /\ UNCHANGED active

(* mark_online looks whether there is an observation ... *)
Online(c, d) ==
  /\ Begins(c)
  /\ call' = [call EXCEPT ![c].pc = IF d \in DOMAIN activity THEN "extend" ELSE "set",
                          ![c].device = d]
  /\ UNCHANGED <<activity, active>>

(* ... and sets the baseline if not. *)
SetBaseline(c) ==
  /\ call[c].pc \in {"extend", "set"}
  /\ activity' = IF call[c].pc = "set" THEN Put(activity, call[c].device, Baseline)
                 ELSE activity
  /\ call' = [call EXCEPT ![c].pc = "scan", ![c].device = 0]
  /\ UNCHANGED <<active, alone>>

(* mark_offline. *)
Offline(c, d) ==
  /\ Begins(c)
  /\ activity' = Restrict(activity, DOMAIN activity \ {d})
  /\ call' = [call EXCEPT ![c].pc = "scan"]
  /\ UNCHANGED active

-----------------------------------------------------------------------------
(* select_active *)

(* _gather: scan_iter ... *)
Scan(c) ==
  /\ call[c].pc = "scan"
  /\ call' = [call EXCEPT ![c].pc = "gather", ![c].todo = DOMAIN activity]
  /\ UNCHANGED <<activity, active, alone>>

(* ... and a get for each key, which may be gone by now. *)
Get(c) ==
  /\ call[c].pc = "gather"
  /\ \E d \in call[c].todo :
       call' = [call EXCEPT ![c].todo = @ \ {d},
                            ![c].seen = IF d \in DOMAIN activity
                                        THEN Put(@, d, activity[d]) ELSE @]
  /\ UNCHANGED <<activity, active, alone>>

(* now_ms, and the get of the active key: the choice is made. *)
Choose(c) ==
  /\ call[c].pc = "gather" /\ call[c].todo = {}
  /\ call' = [call EXCEPT ![c] = [AtRest EXCEPT !.pc = "write",
                                              !.next = Chosen(call[c].seen, active)]]
  /\ UNCHANGED <<activity, active, alone>>

(* set, or delete if no device was there. *)
Write(c) ==
  /\ call[c].pc = "write"
  /\ active' = call[c].next
  /\ call' = [call EXCEPT ![c] = AtRest]
  /\ UNCHANGED <<activity, alone>>

-----------------------------------------------------------------------------
(* Time passes: what was chosen, and what is about to be written, gets     *)
(* older, from its "since".                                                *)
Older(sel) == IF sel.primary # 0 /\ sel.age < Hold THEN [sel EXCEPT !.age = @ + 1] ELSE sel

Tick ==
  /\ active' = Older(active)
  /\ call' = [c \in Call |-> [call[c] EXCEPT !.next = Older(@)]]
  /\ UNCHANGED <<activity, alone>>

(* ACTIVITY_TTL: a device that neither reported nor pinged. *)
ActivityExpires(d) ==
  /\ d \in DOMAIN activity
  /\ activity' = Restrict(activity, DOMAIN activity \ {d})
  /\ UNCHANGED <<active, call, alone>>

(* ACTIVE_TTL, longer than MIN_HOLD_MS: nothing was selected for so long. *)
ActiveExpires ==
  /\ active.primary # 0 /\ active.age = Hold
  /\ active' = None
  /\ UNCHANGED <<activity, call, alone>>

(* A Redis call fails, or the process restarts: the rest does not happen. *)
Fails(c) ==
  /\ call[c].pc # "idle"
  /\ call' = [call EXCEPT ![c] = AtRest]
  /\ UNCHANGED <<activity, active, alone>>

Select(c) == SetBaseline(c) \/ Scan(c) \/ Get(c) \/ Choose(c) \/ Write(c)

Begin(c, d) == Online(c, d) \/ Offline(c, d) \/ \E o \in Reports : Report(c, d, o)

PNext ==
  \/ \E c \in Call : Select(c) \/ Fails(c) \/ \E d \in Device : Begin(c, d)
  \/ \E d \in Device : ActivityExpires(d)
  \/ Tick \/ ActiveExpires

PSpec == PInit /\ [][PNext]_pvars

(* The event loop runs every coroutine on, and time passes. *)
PFairSpec == PSpec /\ (\A c \in Call : WF_pvars(Select(c))) /\ WF_pvars(Tick)

-----------------------------------------------------------------------------
(* Invariants *)

(* What the keys of some devices hold. *)
Readings == UNION {[D -> Entry] : D \in {S \in SUBSET Device : IsFiniteSet(S)}}

(* The values the variables range over. *)
PTypeOK ==
  /\ activity \in Readings
  /\ active \in Selected
  /\ call \in [Call -> [pc : {"idle", "extend", "set", "scan", "gather", "write"},
                       device : Device \cup {0}, todo : SUBSET Device,
                       seen : Readings, next : Selected]]
  /\ alone \subseteq Call

-----------------------------------------------------------------------------
(* Properties of behaviours *)

(* A selection that no other call overlaps changes the primary only when   *)
(* it is gone, locked or dark, or after it was held long enough and the    *)
(* new one clearly beats it (or has just left, until the next selection),  *)
(* whatever expires in between.                                            *)
PrimaryHeld ==
  [][LET p == active.primary
         q == active'.primary
     IN  alone # {} /\ p # 0 /\ q \notin {0, p}
           => \/ p \notin DOMAIN activity \/ activity[p].away
              \/ /\ active.age = Hold
                 /\ q \in DOMAIN activity
                      => activity[q].score >= activity[p].score + Threshold]_pvars

ReportedScores == {EntryOf(o).score : o \in Reports} \cup {Baseline.score}

(* q is there to see, with the others at most at b and q clearly above.    *)
Ahead(q, b) ==
  /\ q \in DOMAIN activity /\ ~activity[q].away /\ activity[q].score >= b + Threshold
  /\ \A d \in DOMAIN activity \ {q} : activity[d].score <= b

(* However calls overlap, stale choices and the hold do not last: a device *)
(* that stays ahead while selections go on becomes and remains the primary *)
(* that get_snapshot hands to routing.                                     *)
AheadTakesOver ==
  \A q \in Device, b \in ReportedScores :
    <>[]Ahead(q, b) /\ []<><<\E c \in Call : Write(c)>>_pvars
      => <>[](q \in DOMAIN activity /\ SnapshotPrimary(activity, active) = q)

=============================================================================
