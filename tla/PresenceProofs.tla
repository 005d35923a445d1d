---------------------------- MODULE PresenceProofs ----------------------------
(***************************************************************************)
(* Proofs about the choice of a device: what selections write while calls  *)
(* of any number of devices overlap (Presence.tla), and what the server    *)
(* computes of the devices chosen, of any finite set of them and lists of  *)
(* any length (MCDecisions.tla).                                           *)
(***************************************************************************)
EXTENDS Presence, MCDecisions, WellFoundedInduction, FiniteSetTheorems, TLAPS

-----------------------------------------------------------------------------
(* Lemmas about the operators of Selection.tla. *)

(* select_active sorts by score, and then by id. *)
Ranks(devices, d, e) ==
  \/ devices[d].score > devices[e].score
  \/ devices[d].score = devices[e].score /\ d > e

(* Readings, by what they hold. *)
LEMMA ReadingsAre ==
  ASSUME NEW r
  PROVE  r \in Readings <=> /\ r = [d \in DOMAIN r |-> r[d]]
                            /\ DOMAIN r \subseteq Device /\ IsFiniteSet(DOMAIN r)
                            /\ \A d \in DOMAIN r : r[d] \in Entry
<1>1. ASSUME r \in Readings
      PROVE  /\ r = [d \in DOMAIN r |-> r[d]]
             /\ DOMAIN r \subseteq Device /\ IsFiniteSet(DOMAIN r)
             /\ \A d \in DOMAIN r : r[d] \in Entry
  <2>1. PICK D \in SUBSET Device : IsFiniteSet(D) /\ r \in [D -> Entry]
    BY <1>1 DEF Readings
  <2> QED
    BY <2>1
<1>2. ASSUME r = [d \in DOMAIN r |-> r[d]],
             DOMAIN r \subseteq Device, IsFiniteSet(DOMAIN r),
             \A d \in DOMAIN r : r[d] \in Entry
      PROVE  r \in Readings
  <2>1. r \in [DOMAIN r -> Entry]
    BY <1>2
  <2> QED
    BY <1>2, <2>1 DEF Readings
<1> QED
  BY <1>1, <1>2

(* A set of numbers has a least one: with it, what holds of 0 and, of k,   *)
(* if it holds of k - 1 holds of every number, as no number is the least   *)
(* that it does not hold of.                                               *)
LEMMA LeastOf ==
  ASSUME NEW S \in SUBSET Nat, S # {}
  PROVE  \E n \in S : \A m \in S : n <= m
<1> DEFINE R == OpToRel(<, Nat)
<1>1. IsWellFoundedOn(R, Nat)
  BY NatLessThanWellFounded
<1>2. \A m, n \in Nat : m < n => <<m, n>> \in R
  BY DEF OpToRel
<1> HIDE DEF R
<1>3. PICK n \in S : \A m \in S : ~(<<m, n>> \in R)
  BY <1>1, WFMin
<1>4. \A m \in S : ~(m < n)
  BY <1>2, <1>3
<1> QED
  BY <1>4

(* The devices that are present have a first one in that order: a smallest *)
(* set of devices without one would have one.                              *)
LEMMA BestIsThere ==
  ASSUME NEW r \in Readings, DOMAIN r # {}
  PROVE  /\ Best(r) \in DOMAIN r
         /\ \A e \in DOMAIN r \ {Best(r)} : Ranks(r, Best(r), e)
<1> DEFINE Top(T) == \E d \in T : \A e \in T \ {d} : Ranks(r, d, e)
           Without == {n \in Nat : \E T \in SUBSET DOMAIN r :
                          T # {} /\ IsFiniteSet(T) /\ Cardinality(T) = n /\ ~Top(T)}
<1>1. /\ DOMAIN r \subseteq Nat /\ IsFiniteSet(DOMAIN r)
      /\ \A d \in DOMAIN r : r[d].score \in Int
  BY ReadingsAre, DeviceAssumption DEF Entry
<1>2. Without = {}
  <2> SUFFICES ASSUME Without # {} PROVE FALSE
    OBVIOUS
  <2>1. PICK n \in Without : \A m \in Without : n <= m
    <3>1. Without \in SUBSET Nat
      OBVIOUS
    <3> HIDE DEF Without
    <3> QED
      BY <3>1, LeastOf
  <2>2. PICK T \in SUBSET DOMAIN r : T # {} /\ IsFiniteSet(T) /\ Cardinality(T) = n /\ ~Top(T)
    BY <2>1
  <2>3. PICK t \in T : TRUE
    BY <2>2
  <2>4. /\ IsFiniteSet(T \ {t}) /\ Cardinality(T \ {t}) = n - 1 /\ n \in Nat
    BY <2>2, <2>3, FS_RemoveElement, FS_CardinalityType
  <2>5. Cardinality(T \ {t}) \in Nat
    BY <2>4, FS_CardinalityType
  <2>6. T # {t}
    BY <2>2, <2>3
  <2>7. Top(T \ {t})
    <3>1. n - 1 \notin Without
      BY <2>1, <2>4
    <3>2. T \ {t} \in SUBSET DOMAIN r /\ T \ {t} # {}
      BY <2>2, <2>3, <2>6
    <3> QED
      BY <2>4, <2>5, <3>1, <3>2
  <2>8. PICK d \in T \ {t} : \A e \in (T \ {t}) \ {d} : Ranks(r, d, e)
    BY <2>7
  <2>9. d \in Nat /\ t \in Nat /\ r[d].score \in Int /\ r[t].score \in Int /\ d # t
    BY <1>1, <2>2, <2>3, <2>8
  <2>10. CASE Ranks(r, d, t)
    <3>1. \A e \in T \ {d} : Ranks(r, d, e)
      BY <2>8, <2>10
    <3> QED
      BY <2>2, <2>8, <3>1
  <2>11. CASE ~Ranks(r, d, t)
    <3>1. r[t].score > r[d].score \/ (r[t].score = r[d].score /\ t > d)
      BY <2>9, <2>11 DEF Ranks
    <3>2. ASSUME NEW e \in T \ {t} PROVE Ranks(r, t, e)
      <4>1. e \in Nat /\ r[e].score \in Int
        BY <1>1, <2>2
      <4>2. e = d \/ Ranks(r, d, e)
        BY <2>8
      <4> QED
        BY <2>9, <3>1, <4>1, <4>2 DEF Ranks
    <3> QED
      BY <2>2, <2>3, <3>2
  <2> QED
    BY <2>10, <2>11
<1>3. Top(DOMAIN r)
  <2>1. Cardinality(DOMAIN r) \in Nat
    BY <1>1, FS_CardinalityType
  <2>2. Cardinality(DOMAIN r) \notin Without
    BY <1>2
  <2> QED
    BY <1>1, <2>1, <2>2
<1> QED
  BY <1>3 DEF Best, Ranks

(* select_active's choice. *)
LEMMA ChosenIsSelected ==
  ASSUME NEW r \in Readings, NEW prev \in Selected
  PROVE  Chosen(r, prev) \in Selected
<1>1. None \in Selected
  BY HoldAssumption DEF None, Selected
<1>2. DOMAIN r # {} => Best(r) \in Device
  BY BestIsThere, ReadingsAre
<1>3. DOMAIN r # {} => [primary |-> Best(r), age |-> 0] \in Selected
  BY <1>2, HoldAssumption DEF Selected
<1> QED
  BY <1>1, <1>3 DEF Chosen

(* What a signal adds to the score. *)
LEMMA PointsAreNumbers ==
  ASSUME NEW o \in Observation
  PROVE  /\ Points.interaction[o.interaction] \in Int /\ Points.screen[o.screen] \in Int
         /\ Points.locked[o.locked] \in Int /\ Points.app[o.app] \in Int
         /\ Points.motion[o.motion] \in Int
<1>1. Points.interaction[o.interaction] \in Int
  BY DEF Observation, Points
<1>2. Points.screen[o.screen] \in Int
  BY DEF Observation, Points
<1>3. Points.locked[o.locked] \in Int
  BY DEF Observation, Points
<1>4. Points.app[o.app] \in Int
  BY DEF Observation, Points
<1>5. Points.motion[o.motion] \in Int
  BY DEF Observation, Points
<1> QED
  BY <1>1, <1>2, <1>3, <1>4, <1>5

(* What a device reports makes a proper entry. *)
LEMMA EntryOfIsEntry ==
  ASSUME NEW o \in Observation
  PROVE  EntryOf(o) \in Entry
<1>1. Score(o) \in 0..100
  <2> DEFINE sum == Points.interaction[o.interaction] + Points.screen[o.screen]
                    + Points.locked[o.locked] + Points.app[o.app] + Points.motion[o.motion]
  <2>1. sum \in Int
    BY PointsAreNumbers
  <2>2. Score(o) = Clamp(sum)
    BY DEF Score
  <2> HIDE DEF sum
  <2> QED
    BY <2>1, <2>2 DEF Clamp
<1>2. (o.locked = "yes" \/ o.screen = "off") \in BOOLEAN
  BY Zenon
<1> QED
  BY <1>1, <1>2 DEF EntryOf, Entry

(* A key is set ... *)
LEMMA PutReading ==
  ASSUME NEW r \in Readings, NEW d \in Device, NEW e \in Entry
  PROVE  Put(r, d, e) \in Readings
<1>1. DOMAIN r \cup {d} \in SUBSET Device /\ IsFiniteSet(DOMAIN r \cup {d})
  BY ReadingsAre, FS_AddElement
<1>2. Put(r, d, e) \in [DOMAIN r \cup {d} -> Entry]
  BY ReadingsAre DEF Put
<1> QED
  BY <1>1, <1>2 DEF Readings

(* ... or expires. *)
LEMMA RestrictReading ==
  ASSUME NEW r \in Readings, NEW D
  PROVE  Restrict(r, DOMAIN r \ D) \in Readings
<1>1. DOMAIN r \ D \in SUBSET Device /\ IsFiniteSet(DOMAIN r \ D)
  BY ReadingsAre, FS_Subset
<1>2. Restrict(r, DOMAIN r \ D) \in [DOMAIN r \ D -> Entry]
  BY ReadingsAre DEF Restrict
<1> QED
  BY <1>1, <1>2 DEF Readings

-----------------------------------------------------------------------------
(* The invariant.  What a coroutine holds between two awaits, and what a   *)
(* selection that nobody overlaps has read.                                *)
CallInv(c) ==
  /\ call[c].pc = "idle" => call[c] = AtRest
  /\ call[c].pc \in {"extend", "set"} => call[c].device \in Device
  /\ call[c].pc \in {"extend", "set", "scan"} => call[c].seen = Absent

(* What was read is as it is now, or gone. *)
UpToDate(r) == \A d \in DOMAIN r \cap DOMAIN activity : r[d] = activity[d]

(* What is there was read, or is to be read. *)
Complete(c) == DOMAIN activity \subseteq call[c].todo \cup DOMAIN call[c].seen

(* A selection may be written: what PrimaryHeld asks of it. *)
Due(sel) ==
  LET p == active.primary
      q == sel.primary
  IN  p # 0 /\ q \notin {0, p}
        => \/ p \notin DOMAIN activity \/ activity[p].away
           \/ /\ active.age = Hold
              /\ q \in DOMAIN activity
                   => activity[q].score >= activity[p].score + Threshold

(* A call that no other overlaps: what it has read, and what it may write. *)
AloneInv(c) ==
  /\ \A b \in Call \ {c} : call[b] = AtRest
  /\ call[c].pc = "gather" => Complete(c) /\ UpToDate(call[c].seen)
  /\ call[c].pc = "write" => Due(call[c].next)

PInv ==
  /\ PTypeOK
  /\ \A c \in Call : CallInv(c)
  /\ \A c \in alone : AloneInv(c)

-----------------------------------------------------------------------------
(* What one coroutine may hold. *)
CallType == [pc : {"idle", "extend", "set", "scan", "gather", "write"},
             device : Device \cup {0}, todo : SUBSET Device,
             seen : Readings, next : Selected]

(* The initial values. *)
LEMMA NothingIsReading == Absent \in Readings /\ None \in Selected /\ AtRest \in CallType
<1>1. Absent \in Readings
  <2>1. IsFiniteSet({})
    BY FS_EmptySet
  <2>2. Absent \in [{} -> Entry]
    BY DEF Absent
  <2> QED
    BY <2>1, <2>2 DEF Readings
<1>2. None \in Selected
  BY HoldAssumption DEF None, Selected
<1> QED
  BY <1>1, <1>2 DEF AtRest, CallType

(* Before the first call. *)
LEMMA InitPInv == PInit => PInv
<1> SUFFICES ASSUME PInit PROVE PInv
  OBVIOUS
<1>1. PTypeOK
  BY NothingIsReading DEF PInit, PTypeOK, CallType
<1>2. ASSUME NEW c \in Call PROVE CallInv(c)
  BY DEF PInit, CallInv, AtRest
<1> QED
  BY <1>1, <1>2 DEF PInv, PInit

(* What is chosen from a complete reading, that is as the keys are but for *)
(* what expired, is due.                                                   *)
LEMMA ChosenIsDue ==
  ASSUME NEW r \in Readings, active \in Selected,
         DOMAIN activity \subseteq DOMAIN r, UpToDate(r)
  PROVE  Due(Chosen(r, active))
<1> DEFINE p == active.primary
           q == Chosen(r, active).primary
<1> SUFFICES ASSUME p # 0, q \notin {0, p}, p \in DOMAIN activity, ~activity[p].away
             PROVE  /\ active.age = Hold
                    /\ q \in DOMAIN activity
                         => activity[q].score >= activity[p].score + Threshold
  BY DEF Due
<1>1. p \in DOMAIN r /\ r[p] = activity[p]
  BY DEF UpToDate
<1>2. DOMAIN r # {}
  BY <1>1
<1>3. ~Keeps(r, active)
  BY <1>2 DEF Chosen
<1>4. q = Best(r)
  BY <1>2, <1>3 DEF Chosen
<1>5. ~(active.age < Hold) /\ Beaten(r, p)
  BY <1>1, <1>3 DEF Keeps
<1>6. active.age = Hold
  BY <1>5, HoldAssumption DEF Selected
<1>7. r[q].score >= r[p].score + Threshold
  BY <1>4, <1>5 DEF Beaten
<1>8. q \in DOMAIN activity => r[q] = activity[q]
  BY DEF UpToDate
<1> QED
  BY <1>1, <1>6, <1>7, <1>8

(* One coroutine moves on. *)
LEMMA MovesPInv ==
  ASSUME PInv, NEW c \in Call, NEW x \in CallType,
         call[c].pc # "idle", call' = [call EXCEPT ![c] = x],
         activity' \in Readings, active' \in Selected, alone' = alone,
         CallInv(c)',
         c \in alone =>
           /\ (call[c].pc = "gather" => Complete(c) /\ UpToDate(call[c].seen))'
           /\ (call[c].pc = "write" => Due(call[c].next))'
  PROVE  PInv'
<1>1. call \in [Call -> CallType] /\ alone \subseteq Call
  BY DEF PInv, PTypeOK, CallType
<1>2. PTypeOK'
  BY <1>1 DEF PTypeOK, CallType
<1>3. \A b \in Call \ {c} : call'[b] = call[b]
  BY <1>1
<1>4. ASSUME NEW b \in Call PROVE CallInv(b)'
  BY <1>1, <1>3 DEF PInv, CallInv
<1>5. ASSUME NEW b \in alone PROVE AloneInv(b)'
  <2>1. b = c
    BY DEF PInv, AloneInv, AtRest
  <2>2. \A a \in Call \ {c} : call'[a] = AtRest
    BY <1>3, <2>1 DEF PInv, AloneInv
  <2> QED
    BY <2>1, <2>2 DEF AloneInv
<1> QED
  BY <1>2, <1>4, <1>5 DEF PInv

(* A call begins: it is alone if no other is under way. *)
LEMMA BeginPInv ==
  ASSUME PInv, NEW c \in Call, NEW d \in Device, Begin(c, d)
  PROVE  PInv'
<1>1. /\ call \in [Call -> CallType] /\ alone \subseteq Call /\ call[c] = AtRest
      /\ activity \in Readings /\ active \in Selected
  BY DEF PInv, PTypeOK, CallType, Begin, Begins, Online, Offline, Report, CallInv
<1>2. PICK x \in CallType :
         /\ call' = [call EXCEPT ![c] = x]
         /\ x.pc \in {"extend", "set", "scan"} /\ x.seen = Absent
         /\ x.pc \in {"extend", "set"} => x.device \in Device
  <2>1. CASE \E p \in {"extend", "set"} :
               call' = [call EXCEPT ![c] = [AtRest EXCEPT !.pc = p, !.device = d]]
    <3>1. PICK p \in {"extend", "set"} :
             call' = [call EXCEPT ![c] = [AtRest EXCEPT !.pc = p, !.device = d]]
      BY <2>1
    <3>2. [AtRest EXCEPT !.pc = p, !.device = d] \in CallType
      BY NothingIsReading DEF CallType
    <3> QED
      BY <3>1, <3>2 DEF AtRest
  <2>2. CASE call' = [call EXCEPT ![c] = [AtRest EXCEPT !.pc = "scan"]]
    <3>1. [AtRest EXCEPT !.pc = "scan"] \in CallType
      BY NothingIsReading DEF CallType
    <3> QED
      BY <2>2, <3>1 DEF AtRest
  <2>3. CASE Online(c, d)
    BY <1>1, <2>1, <2>3 DEF Online
  <2>4. CASE Offline(c, d) \/ \E o \in Reports : Report(c, d, o)
    BY <1>1, <2>2, <2>4 DEF Offline, Report
  <2> QED
    BY <2>3, <2>4 DEF Begin
<1>3. activity' \in Readings /\ active' = active
  <2>1. CASE Online(c, d)
    BY <1>1, <2>1 DEF Online
  <2>2. CASE Offline(c, d)
    BY <1>1, <2>2, RestrictReading DEF Offline
  <2>3. CASE \E o \in Reports : Report(c, d, o)
    <3>1. PICK o \in Reports : Report(c, d, o)
      BY <2>3
    <3>2. EntryOf(o) \in Entry
      BY EntryOfIsEntry, ReportsAssumption
    <3>3. activity' = Put(activity, d, EntryOf(o)) /\ active' = active
      BY <3>1 DEF Report
    <3> QED
      BY <1>1, <3>2, <3>3, PutReading
  <2> QED
    BY <2>1, <2>2, <2>3 DEF Begin
<1>4. alone' = IF AllAtRest THEN {c} ELSE {}
  BY DEF Begin, Begins, Online, Offline, Report
<1>5. PTypeOK'
  BY <1>1, <1>2, <1>3, <1>4 DEF PTypeOK, CallType
<1>6. call'[c] = x /\ \A b \in Call \ {c} : call'[b] = call[b]
  BY <1>1, <1>2
<1>7. ASSUME NEW b \in Call PROVE CallInv(b)'
  BY <1>2, <1>6 DEF PInv, CallInv
<1>8. ASSUME NEW b \in alone' PROVE AloneInv(b)'
  BY <1>2, <1>4, <1>6 DEF AllAtRest, AloneInv
<1> QED
  BY <1>5, <1>7, <1>8 DEF PInv

(* A call goes on to its selection, key by key, or fails. *)
LEMMA SelectPInv ==
  ASSUME PInv, NEW c \in Call, Select(c) \/ Fails(c)
  PROVE  PInv'
<1>1. /\ call \in [Call -> CallType] /\ call[c] \in CallType
      /\ activity \in Readings /\ active \in Selected /\ CallInv(c)
      /\ c \in alone => AloneInv(c)
  BY DEF PInv, PTypeOK, CallType
<1>2. CASE SetBaseline(c)
  <2> DEFINE x == [call[c] EXCEPT !.pc = "scan", !.device = 0]
  <2>1. x \in CallType /\ call' = [call EXCEPT ![c] = x] /\ call'[c] = x
    BY <1>1, <1>2 DEF SetBaseline, CallType
  <2>2. activity' \in Readings
    <3>1. Baseline \in Entry
      BY DEF Baseline, Entry
    <3> QED
      BY <1>1, <1>2, <3>1, PutReading DEF SetBaseline, CallInv
  <2>3. CallInv(c)' /\ call'[c].pc = "scan"
    BY <1>1, <1>2, <2>1 DEF SetBaseline, CallInv, CallType
  <2> QED
    BY <1>1, <1>2, <2>1, <2>2, <2>3, MovesPInv DEF SetBaseline
<1>3. CASE Scan(c)
  <2> DEFINE x == [call[c] EXCEPT !.pc = "gather", !.todo = DOMAIN activity]
  <2>1. x \in CallType /\ call' = [call EXCEPT ![c] = x] /\ call'[c] = x
    BY <1>1, <1>3, ReadingsAre DEF Scan, CallType
  <2>2. CallInv(c)' /\ Complete(c)' /\ UpToDate(call[c].seen)' /\ call'[c].pc = "gather"
    BY <1>1, <1>3, <2>1 DEF Scan, CallInv, CallType, Complete, UpToDate, Absent
  <2> QED
    BY <1>1, <1>3, <2>1, <2>2, MovesPInv DEF Scan
<1>4. CASE Get(c)
  <2>1. PICK d \in call[c].todo :
           call' = [call EXCEPT ![c].todo = @ \ {d},
                                ![c].seen = IF d \in DOMAIN activity
                                            THEN Put(@, d, activity[d]) ELSE @]
    BY <1>4 DEF Get
  <2> DEFINE s == IF d \in DOMAIN activity THEN Put(call[c].seen, d, activity[d])
                  ELSE call[c].seen
             x == [call[c] EXCEPT !.todo = @ \ {d}, !.seen = s]
  <2>2. s \in Readings
    BY <1>1, PutReading, ReadingsAre DEF CallType
  <2>3. x \in CallType /\ call' = [call EXCEPT ![c] = x] /\ call'[c] = x
    BY <1>1, <2>1, <2>2 DEF CallType
  <2>4. /\ call'[c].pc = "gather" /\ call'[c].todo = call[c].todo \ {d} /\ call'[c].seen = s
        /\ activity' = activity
    BY <1>1, <1>4, <2>3 DEF Get, CallType
  <2>5. CallInv(c)'
    BY <2>4 DEF CallInv
  <2>6. c \in alone => Complete(c)' /\ UpToDate(call[c].seen)'
    BY <1>1, <1>4, <2>4 DEF AloneInv, Get, Complete, UpToDate, Put
  <2> QED
    BY <1>1, <1>4, <2>3, <2>4, <2>5, <2>6, MovesPInv DEF Get
<1>5. CASE Choose(c)
  <2> DEFINE x == [AtRest EXCEPT !.pc = "write", !.next = Chosen(call[c].seen, active)]
  <2>1. x \in CallType /\ call' = [call EXCEPT ![c] = x] /\ call'[c] = x
    BY <1>1, <1>5, ChosenIsSelected, NothingIsReading DEF Choose, CallType
  <2>2. CallInv(c)' /\ call'[c].pc = "write"
    <3>1. x.pc = "write"
      BY DEF AtRest
    <3> HIDE DEF x
    <3> QED
      BY <2>1, <3>1 DEF CallInv
  <2>3. c \in alone => Due(call[c].next)'
    <3>1. c \in alone => Due(Chosen(call[c].seen, active))
      BY <1>1, <1>5, ChosenIsDue DEF Choose, AloneInv, Complete, CallType
    <3>2. call'[c].next = Chosen(call[c].seen, active)
      BY <2>1 DEF AtRest
    <3> QED
      BY <1>5, <3>1, <3>2 DEF Choose, Due
  <2> QED
    BY <1>1, <1>5, <2>1, <2>2, <2>3, MovesPInv DEF Choose
<1>6. CASE Write(c) \/ Fails(c)
  <2>1. /\ call[c].pc # "idle" /\ call' = [call EXCEPT ![c] = AtRest] /\ call'[c] = AtRest
        /\ activity' = activity /\ alone' = alone /\ active' \in Selected
    BY <1>1, <1>6 DEF Write, Fails, CallType
  <2>2. CallInv(c)' /\ call'[c].pc = "idle"
    BY <2>1 DEF CallInv, AtRest
  <2> QED
    BY <1>1, <2>1, <2>2, MovesPInv, NothingIsReading
<1> QED
  BY <1>2, <1>3, <1>4, <1>5, <1>6 DEF Select

(* Getting older changes neither the primary nor a hold that is over. *)
LEMMA OlderIsSelected ==
  ASSUME NEW sel \in Selected
  PROVE  /\ Older(sel) \in Selected /\ Older(sel).primary = sel.primary
         /\ sel.age = Hold => Older(sel).age = Hold
<1>1. CASE sel.primary # 0 /\ sel.age < Hold
  <2>1. sel.age + 1 \in 0..Hold
    BY <1>1, HoldAssumption DEF Selected
  <2> QED
    BY <1>1, <2>1 DEF Older, Selected
<1>2. CASE ~(sel.primary # 0 /\ sel.age < Hold)
  BY <1>2 DEF Older
<1> QED
  BY <1>1, <1>2

(* Time passes. *)
LEMMA TickPInv ==
  ASSUME PInv, Tick
  PROVE  PInv'
<1>1. /\ call \in [Call -> CallType] /\ active \in Selected /\ activity \in Readings
      /\ activity' = activity /\ alone' = alone /\ alone \subseteq Call
  BY DEF PInv, PTypeOK, CallType, Tick
<1>2. /\ active' \in Selected /\ active'.primary = active.primary
      /\ active.age = Hold => active'.age = Hold
  BY <1>1, OlderIsSelected DEF Tick
<1>3. ASSUME NEW c \in Call
      PROVE  /\ call'[c] \in CallType
             /\ call'[c].pc = call[c].pc /\ call'[c].device = call[c].device
             /\ call'[c].todo = call[c].todo /\ call'[c].seen = call[c].seen
             /\ call'[c].next.primary = call[c].next.primary
             /\ call[c] = AtRest => call'[c] = AtRest
  <2>1. call'[c] = [call[c] EXCEPT !.next = Older(call[c].next)] /\ call[c] \in CallType
    BY <1>1 DEF Tick
  <2>2. /\ Older(call[c].next) \in Selected
        /\ Older(call[c].next).primary = call[c].next.primary
    BY <2>1, OlderIsSelected DEF CallType
  <2>3. Older(None) = None
    BY DEF Older, None
  <2> QED
    BY <2>1, <2>2, <2>3 DEF CallType, AtRest
<1>4. call' \in [Call -> CallType]
  <2>1. call' = [c \in Call |-> call'[c]]
    BY DEF Tick
  <2> QED
    BY <1>3, <2>1
<1>5. PTypeOK'
  BY <1>1, <1>2, <1>4 DEF PTypeOK, CallType
<1>6. ASSUME NEW c \in Call PROVE CallInv(c)'
  BY <1>3 DEF PInv, CallInv
<1>7. ASSUME NEW c \in alone' PROVE AloneInv(c)'
  <2>1. c \in Call /\ AloneInv(c)
    BY <1>1 DEF PInv
  <2>2. \A b \in Call \ {c} : call'[b] = AtRest
    BY <1>3, <2>1 DEF AloneInv
  <2>3. call'[c].pc = "gather" => Complete(c)' /\ UpToDate(call[c].seen)'
    BY <1>1, <1>3, <2>1 DEF AloneInv, Complete, UpToDate
  <2>4. call'[c].pc = "write" => Due(call[c].next)'
    BY <1>1, <1>2, <1>3, <2>1 DEF AloneInv, Due
  <2> QED
    BY <2>2, <2>3, <2>4 DEF AloneInv
<1> QED
  BY <1>5, <1>6, <1>7 DEF PInv

(* Keys expire: what was read may be gone, and is still up to date. *)
LEMMA ExpirePInv ==
  ASSUME PInv, ActiveExpires \/ \E d \in Device : ActivityExpires(d)
  PROVE  PInv'
<1>1. /\ activity \in Readings /\ active \in Selected
      /\ call' = call /\ alone' = alone /\ alone \subseteq Call
  BY DEF PInv, PTypeOK, ActiveExpires, ActivityExpires
<1>2. /\ activity' \in Readings /\ active' \in Selected
      /\ DOMAIN activity' \subseteq DOMAIN activity
      /\ \A d \in DOMAIN activity' : activity'[d] = activity[d]
      /\ active' \in {active, None}
  <2>1. CASE ActiveExpires
    BY <1>1, <2>1, NothingIsReading DEF ActiveExpires
  <2>2. CASE \E d \in Device : ActivityExpires(d)
    <3>1. PICK d \in Device : ActivityExpires(d)
      BY <2>2
    <3>2. activity' = Restrict(activity, DOMAIN activity \ {d}) /\ active' = active
      BY <3>1 DEF ActivityExpires
    <3> QED
      BY <1>1, <3>2, RestrictReading DEF Restrict
  <2> QED
    BY <2>1, <2>2
<1>3. PTypeOK'
  BY <1>1, <1>2 DEF PInv, PTypeOK
<1>4. ASSUME NEW c \in Call PROVE CallInv(c)'
  BY <1>1 DEF PInv, CallInv
<1>5. ASSUME NEW c \in alone' PROVE AloneInv(c)'
  <2>1. AloneInv(c)
    BY <1>1 DEF PInv
  <2>2. Complete(c) => Complete(c)'
    BY <1>1, <1>2 DEF Complete
  <2>3. UpToDate(call[c].seen) => UpToDate(call[c].seen)'
    BY <1>1, <1>2 DEF UpToDate
  <2>4. Due(call[c].next) => Due(call[c].next)'
    BY <1>1, <1>2 DEF Due, None
  <2> QED
    BY <1>1, <2>1, <2>2, <2>3, <2>4 DEF AloneInv
<1> QED
  BY <1>3, <1>4, <1>5 DEF PInv

(* Every step. *)
LEMMA StepPInv == PInv /\ [PNext]_pvars => PInv'
<1> SUFFICES ASSUME PInv, [PNext]_pvars PROVE PInv'
  OBVIOUS
<1>1. CASE UNCHANGED pvars
  BY <1>1 DEF pvars, PInv, PTypeOK, CallInv, AloneInv, Complete, UpToDate, Due
<1> QED
  BY <1>1, BeginPInv, SelectPInv, TickPInv, ExpirePInv DEF PNext

-----------------------------------------------------------------------------
(* However calls of any number of devices overlap, fail and expire. *)
THEOREM PresenceInductive == PSpec => []PInv
BY InitPInv, StepPInv, PTL DEF PSpec

(* The variables keep to their values: what is selected is a device. *)
THEOREM PresenceTypeCorrect == PSpec => []PTypeOK
<1>1. PInv => PTypeOK
  BY DEF PInv
<1> QED
  BY <1>1, PresenceInductive, PTL

(* A selection that no other overlaps switches away from a device only for *)
(* a reason, whatever expires between its reading and its writing.         *)
THEOREM HoldIsRespected == PSpec => PrimaryHeld
<1> DEFINE Reason ==
      LET p == active.primary
          q == active'.primary
      IN  alone # {} /\ p # 0 /\ q \notin {0, p}
            => \/ p \notin DOMAIN activity \/ activity[p].away
               \/ /\ active.age = Hold
                  /\ q \in DOMAIN activity
                       => activity[q].score >= activity[p].score + Threshold
<1>1. ASSUME PInv, [PNext]_pvars PROVE [Reason]_pvars
  <2>1. ASSUME NEW c \in Call, Write(c) PROVE Reason
    <3>1. alone # {} => Due(call[c].next)
      BY <1>1, <2>1 DEF Write, PInv, AloneInv, AtRest
    <3> QED
      BY <2>1, <3>1 DEF Write, Due
  <2>2. ASSUME active'.primary \in {0, active.primary} PROVE Reason
    BY <2>2
  <2>3. ASSUME [PNext]_pvars, \A c \in Call : ~Write(c)
        PROVE  active'.primary \in {0, active.primary}
    <3>1. active \in Selected
      BY <1>1 DEF PInv, PTypeOK
    <3>2. CASE UNCHANGED active
      BY <3>2
    <3>3. CASE Tick
      BY <3>1, <3>3, OlderIsSelected DEF Tick
    <3>4. CASE ActiveExpires
      BY <3>4 DEF ActiveExpires, None
    <3> QED
      BY <2>3, <3>2, <3>3, <3>4 DEF PNext, pvars, Select, SetBaseline, Scan, Get, Choose, Fails,
         Begin, Online, Offline, Report, ActivityExpires
  <2> QED
    BY <1>1, <2>1, <2>2, <2>3
<1> QED
  BY <1>1, PresenceInductive, PTL DEF PSpec, PrimaryHeld

-----------------------------------------------------------------------------
(* Half of AheadTakesOver: what is won is kept. *)

(* A reading in which q is clearly above the others, that are at most b. *)
LeadsIn(r, q, b) ==
  /\ q \in DOMAIN r /\ ~r[q].away /\ r[q].score >= b + Threshold
  /\ \A d \in DOMAIN r \ {q} : r[d].score <= b

(* q is selected, or nothing is, and neither what a coroutine has read nor *)
(* what it is about to write takes that from q.                            *)
Settled(q, b) ==
  /\ active.primary \in {0, q}
  /\ \A c \in Call :
       /\ call[c].pc = "gather" =>
            /\ q \in call[c].todo \cup DOMAIN call[c].seen
            /\ q \in DOMAIN call[c].seen =>
                 ~call[c].seen[q].away /\ call[c].seen[q].score >= b + Threshold
            /\ \A d \in DOMAIN call[c].seen \ {q} : call[c].seen[d].score <= b
       /\ call[c].pc = "write" => call[c].next.primary = q

(* The one that leads is the best, and what is chosen if it is or nothing  *)
(* is selected.                                                            *)
LEMMA LeaderIsChosen ==
  ASSUME NEW r \in Readings, NEW q, NEW b \in Int, LeadsIn(r, q, b),
         NEW sel \in Selected, sel.primary \in {0, q}
  PROVE  Chosen(r, sel).primary = q /\ SnapshotPrimary(r, sel) = q
<1>1. /\ DOMAIN r \subseteq Device /\ q \in DOMAIN r
      /\ \A d \in DOMAIN r : r[d].score \in Int
  BY ReadingsAre DEF LeadsIn, Entry
<1>2. /\ Best(r) \in DOMAIN r
      /\ Best(r) # q => r[Best(r)].score > r[q].score \/ r[Best(r)].score = r[q].score
  BY <1>1, BestIsThere DEF Ranks
<1>3. ASSUME Best(r) # q PROVE FALSE
  <2>1. r[Best(r)].score <= b /\ r[q].score >= b + Threshold
    BY <1>2, <1>3 DEF LeadsIn
  <2>2. r[Best(r)].score \in Int /\ r[q].score \in Int /\ r[Best(r)].score >= r[q].score
    BY <1>1, <1>2, <1>3
  <2> QED
    BY <2>1, <2>2, ThresholdAssumption
<1>4. 0 \notin DOMAIN r
  BY <1>1, DeviceAssumption
<1> QED
  BY <1>1, <1>3, <1>4 DEF Chosen, Keeps, SnapshotPrimary

(* No step takes it from q while q stays ahead. *)
LEMMA StepSettled ==
  ASSUME NEW q \in Device, NEW b \in Int,
         PInv, Settled(q, b), Ahead(q, b), Ahead(q, b)', [PNext]_pvars
  PROVE  Settled(q, b)'
<1>1. /\ call \in [Call -> CallType] /\ active \in Selected /\ activity \in Readings
      /\ \A c \in Call : CallInv(c)
  BY DEF PInv, PTypeOK, CallType
<1> DEFINE Holds(x) ==
       /\ x.pc = "gather" =>
            /\ q \in x.todo \cup DOMAIN x.seen
            /\ q \in DOMAIN x.seen => ~x.seen[q].away /\ x.seen[q].score >= b + Threshold
            /\ \A d \in DOMAIN x.seen \ {q} : x.seen[d].score <= b
       /\ x.pc = "write" => x.next.primary = q
<1>2. active.primary \in {0, q} /\ \A c \in Call : Holds(call[c])
  BY DEF Settled
<1>3. ASSUME active'.primary \in {0, q}, \A c \in Call : Holds(call'[c]) PROVE Settled(q, b)'
  BY <1>3 DEF Settled
<1>4. ASSUME NEW c \in Call, NEW x, call' = [call EXCEPT ![c] = x], Holds(x)
      PROVE  \A a \in Call : Holds(call'[a])
  <2>1. \A a \in Call : call'[a] = IF a = c THEN x ELSE call[a]
    BY <1>1, <1>4
  <2> HIDE DEF Holds
  <2> QED
    BY <1>2, <1>4, <2>1
<1>5. ASSUME NEW c \in Call, NEW d \in Device, Begin(c, d) PROVE Settled(q, b)'
  <2>1. call'[c].pc \in {"extend", "set", "scan"} /\ \A a \in Call \ {c} : call'[a] = call[a]
    <3>1. call[c] \in CallType
      BY <1>1
    <3>2. CASE Online(c, d)
      BY <1>1, <3>1, <3>2 DEF Online, CallType
    <3>3. CASE Offline(c, d) \/ \E o \in Reports : Report(c, d, o)
      BY <1>1, <3>1, <3>3 DEF Offline, Report, CallType
    <3> QED
      BY <1>5, <3>2, <3>3 DEF Begin
  <2>2. active' = active
    BY <1>5 DEF Begin, Online, Offline, Report
  <2>3. Holds(call'[c])
    BY <2>1
  <2> HIDE DEF Holds
  <2>4. \A a \in Call : Holds(call'[a])
    BY <1>2, <2>1, <2>3
  <2> QED
    BY <1>2, <1>3, <2>2, <2>4
<1>6. ASSUME NEW c \in Call, SetBaseline(c) \/ Scan(c) PROVE Settled(q, b)'
  <2>1. CASE SetBaseline(c)
    <3>1. call' = [call EXCEPT ![c] = [call[c] EXCEPT !.pc = "scan", !.device = 0]]
          /\ active' = active
      BY <2>1 DEF SetBaseline
    <3>2. Holds([call[c] EXCEPT !.pc = "scan", !.device = 0])
      BY <1>1 DEF CallType
    <3> QED
      BY <1>2, <1>3, <1>4, <3>1, <3>2
  <2>2. CASE Scan(c)
    <3> DEFINE x == [call[c] EXCEPT !.pc = "gather", !.todo = DOMAIN activity]
    <3>1. call' = [call EXCEPT ![c] = x] /\ active' = active
      BY <2>2 DEF Scan
    <3>2. x.pc = "gather" /\ x.todo = DOMAIN activity /\ x.seen = Absent
      BY <1>1, <2>2 DEF Scan, CallType, CallInv
    <3>3. Holds(x)
      BY <3>2 DEF Ahead, Absent
    <3> QED
      BY <1>2, <1>3, <1>4, <3>1, <3>3
  <2> QED
    BY <1>6, <2>1, <2>2
<1>7. ASSUME NEW c \in Call, Get(c) PROVE Settled(q, b)'
  <2>1. PICK d \in call[c].todo :
           call' = [call EXCEPT ![c].todo = @ \ {d},
                                ![c].seen = IF d \in DOMAIN activity
                                            THEN Put(@, d, activity[d]) ELSE @]
    BY <1>7 DEF Get
  <2> DEFINE s == IF d \in DOMAIN activity THEN Put(call[c].seen, d, activity[d])
                  ELSE call[c].seen
             x == [call[c] EXCEPT !.todo = @ \ {d}, !.seen = s]
  <2>2. call' = [call EXCEPT ![c] = x] /\ active' = active /\ call[c].pc = "gather"
    BY <1>1, <1>7, <2>1 DEF Get, CallType
  <2>3. x.pc = "gather" /\ x.todo = call[c].todo \ {d} /\ x.seen = s
    BY <1>1, <2>2 DEF CallType
  <2>4. /\ DOMAIN s = IF d \in DOMAIN activity THEN DOMAIN call[c].seen \cup {d}
                      ELSE DOMAIN call[c].seen
        /\ \A e \in DOMAIN s : s[e] = IF e = d /\ d \in DOMAIN activity THEN activity[d]
                                      ELSE call[c].seen[e]
    BY DEF Put
  <2>5. Holds(x)
    BY <1>2, <2>2, <2>3, <2>4 DEF Ahead
  <2> QED
    BY <1>2, <1>3, <1>4, <2>2, <2>5
<1>8. ASSUME NEW c \in Call, Choose(c) PROVE Settled(q, b)'
  <2> DEFINE x == [AtRest EXCEPT !.pc = "write", !.next = Chosen(call[c].seen, active)]
  <2>1. call' = [call EXCEPT ![c] = x] /\ active' = active
    BY <1>8 DEF Choose
  <2>2. LeadsIn(call[c].seen, q, b) /\ call[c].seen \in Readings
    BY <1>1, <1>2, <1>8 DEF Choose, LeadsIn, CallType
  <2>3. x.pc = "write" /\ x.next.primary = q
    BY <1>1, <1>2, <2>2, LeaderIsChosen DEF AtRest
  <2>4. Holds(x)
    BY <2>3
  <2> QED
    BY <1>2, <1>3, <1>4, <2>1, <2>4
<1>9. ASSUME NEW c \in Call, Write(c) \/ Fails(c) PROVE Settled(q, b)'
  <2>1. call' = [call EXCEPT ![c] = AtRest] /\ active'.primary \in {0, q}
    BY <1>2, <1>9 DEF Write, Fails
  <2>2. Holds(AtRest)
    BY DEF AtRest
  <2> QED
    BY <1>3, <1>4, <2>1, <2>2
<1>10. CASE Tick
  <2>1. active'.primary = active.primary
    BY <1>1, <1>10, OlderIsSelected DEF Tick
  <2>2. ASSUME NEW c \in Call PROVE Holds(call'[c])
    <3>1. call'[c] = [call[c] EXCEPT !.next = Older(call[c].next)] /\ call[c] \in CallType
      BY <1>1, <1>10 DEF Tick
    <3>2. Older(call[c].next).primary = call[c].next.primary
      BY <3>1, OlderIsSelected DEF CallType
    <3> QED
      BY <1>2, <3>1, <3>2 DEF CallType
  <2> QED
    BY <1>2, <1>3, <2>1, <2>2
<1>11. CASE ActiveExpires \/ UNCHANGED pvars \/ \E d \in Device : ActivityExpires(d)
  <2>1. call' = call /\ active' \in {active, None}
    BY <1>11 DEF ActiveExpires, ActivityExpires, pvars
  <2> HIDE DEF Holds
  <2>2. \A c \in Call : Holds(call'[c])
    BY <1>2, <2>1
  <2>3. active'.primary \in {0, q}
    BY <1>2, <2>1 DEF None
  <2> QED
    BY <1>3, <2>2, <2>3
<1> QED
  BY <1>5, <1>6, <1>7, <1>8, <1>9, <1>10, <1>11 DEF PNext, Select

(* However calls overlap, fail and expire: a device that was selected      *)
(* while it was ahead, and that no selection under way takes it from, is   *)
(* the primary of every snapshot for as long as it stays ahead, and also   *)
(* when the selection has expired.                                         *)
THEOREM AheadRemains ==
  ASSUME NEW q \in Device, NEW b \in Int
  PROVE  PSpec => [](Settled(q, b) /\ []Ahead(q, b)
                       => [](SnapshotPrimary(activity, active) = q))
<1>1. PInv /\ Settled(q, b) /\ Ahead(q, b) /\ Ahead(q, b)' /\ [PNext]_pvars => Settled(q, b)'
  BY StepSettled
<1>2. PInv /\ Settled(q, b) /\ Ahead(q, b) => SnapshotPrimary(activity, active) = q
  BY LeaderIsChosen DEF PInv, PTypeOK, Settled, Ahead, LeadsIn
<1> QED
  BY <1>1, <1>2, PresenceInductive, PTL DEF PSpec

-----------------------------------------------------------------------------
(* Lemmas about the operators of Routing.tla. *)

(* _dedup's loop: what it has put out after the positions in s. *)
Step(seq, x, out) == IF seq[x] \in ToSet(out) THEN out ELSE Append(out, seq[x])
Unfolded(seq, it) ==
  it = [s \in SUBSET DOMAIN seq |->
          IF s = {} THEN <<>> ELSE Step(seq, Max(s), it[s \ {Max(s)}])]
Loop(seq) == CHOOSE it : Unfolded(seq, it)

(* The fold that Dedup is calls its function on the positions from the     *)
(* first to the last.                                                      *)
LEMMA DedupIsLoop == \A seq : Dedup(seq) = Loop(seq)[DOMAIN seq]
BY DEF Dedup, FoldLeft, MapThenFoldSet, Loop, Unfolded, Step

(* The last of some positions. *)
LEMMA MaxOfSome ==
  ASSUME NEW k \in Nat, NEW s \in SUBSET (1..k), s # {}
  PROVE  Max(s) \in s /\ \A x \in s : Max(s) >= x
<1> DEFINE Below == {k - x : x \in s}
<1>0. \A x \in s : x \in Nat /\ x <= k /\ k - x \in Nat
  OBVIOUS
<1>1. Below \in SUBSET Nat /\ Below # {}
  BY <1>0
<1>2. PICK n \in Below : \A m \in Below : n <= m
  <2> HIDE DEF Below
  <2> QED
    BY <1>1, LeastOf
<1>3. PICK x \in s : n = k - x
  BY <1>2
<1>4. ASSUME NEW y \in s PROVE x >= y
  <2>1. k - y \in Below
    OBVIOUS
  <2>2. k - x <= k - y
    BY <1>2, <1>3, <2>1
  <2> QED
    BY <1>0, <2>2
<1> QED
  BY <1>4 DEF Max

(* The loop is defined: on the positions up to k, from those up to k - 1. *)
LEMMA LoopUnfolds ==
  ASSUME NEW S, NEW seq \in Seq(S)
  PROVE  Unfolded(seq, Loop(seq))
<1> DEFINE UpTo(k, it) ==
             it = [s \in SUBSET (1..k) |->
                     IF s = {} THEN <<>> ELSE Step(seq, Max(s), it[s \ {Max(s)}])]
           Failing == {k \in Nat : ~\E it : UpTo(k, it)}
<1>1. Failing = {}
  <2> SUFFICES ASSUME Failing # {} PROVE FALSE
    OBVIOUS
  <2>1. PICK k \in Failing : \A m \in Failing : k <= m
    <3>1. Failing \in SUBSET Nat
      OBVIOUS
    <3> HIDE DEF Failing
    <3> QED
      BY <3>1, LeastOf
  <2>2. CASE k = 0
    <3> DEFINE it == [s \in SUBSET (1..0) |-> <<>>]
    <3>1. \A s \in SUBSET (1..0) : s = {}
      OBVIOUS
    <3>2. UpTo(0, it)
      BY <3>1
    <3> QED
      BY <2>1, <2>2, <3>2
  <2>3. CASE k # 0
    <3>0. k \in Nat /\ k - 1 \in Nat
      BY <2>1, <2>3
    <3>1. k - 1 \in Nat /\ k - 1 \notin Failing
      <4> HIDE DEF Failing
      <4> QED
        BY <2>1, <3>0
    <3>2. PICK g : UpTo(k - 1, g)
      BY <3>1
    <3> DEFINE h == [s \in SUBSET (1..k) |->
                       IF s = {} THEN <<>> ELSE Step(seq, Max(s), g[s \ {Max(s)}])]
    <3>3. \A s \in SUBSET (1..(k - 1)) : h[s] = g[s]
      <4>1. SUBSET (1..(k - 1)) \subseteq SUBSET (1..k)
        BY <3>1
      <4> QED
        BY <3>2, <4>1
    <3>4. ASSUME NEW s \in SUBSET (1..k), s # {}
          PROVE  s \ {Max(s)} \in SUBSET (1..(k - 1))
      <4>1. Max(s) \in s /\ \A x \in s : Max(s) >= x
        BY <3>0, <3>4, MaxOfSome
      <4>2. ASSUME NEW x \in s, x # Max(s) PROVE x \in 1..(k - 1)
        <5>1. x \in 1..k /\ Max(s) \in 1..k /\ Max(s) >= x
          BY <4>1
        <5> QED
          BY <3>0, <4>2, <5>1
      <4> QED
        BY <4>2
    <3>5. h = [s \in SUBSET (1..k) |->
                 IF s = {} THEN <<>> ELSE Step(seq, Max(s), h[s \ {Max(s)}])]
      <4> HIDE DEF h
      <4>1. \A s \in SUBSET (1..k) : s # {} => h[s \ {Max(s)}] = g[s \ {Max(s)}]
        BY <3>3, <3>4
      <4> QED
        BY <4>1 DEF h
    <3>6. UpTo(k, h)
      <4> HIDE DEF h
      <4> QED
        BY <3>5
    <3> QED
      BY <2>1, <3>6
  <2> QED
    BY <2>2, <2>3
<1>2. Len(seq) \in Nat /\ DOMAIN seq = 1..Len(seq)
  OBVIOUS
<1>3. \E it : UpTo(Len(seq), it)
  BY <1>1, <1>2
<1>4. \E it : Unfolded(seq, it)
  BY <1>2, <1>3 DEF Unfolded
<1> QED
  BY <1>4 DEF Loop

(* What the loop has put out after the first k positions. *)
Out(seq, k) == Loop(seq)[1..k]

(* One position after the other. *)
LEMMA OutSteps ==
  ASSUME NEW S, NEW seq \in Seq(S)
  PROVE  /\ Out(seq, 0) = <<>>
         /\ \A k \in 1..Len(seq) : Out(seq, k) = Step(seq, k, Out(seq, k - 1))
<1>1. Len(seq) \in Nat /\ DOMAIN seq = 1..Len(seq)
  OBVIOUS
<1>2. Loop(seq) = [s \in SUBSET (1..Len(seq)) |->
                     IF s = {} THEN <<>> ELSE Step(seq, Max(s), Loop(seq)[s \ {Max(s)}])]
  BY <1>1, LoopUnfolds, Zenon DEF Unfolded
<1>3. Out(seq, 0) = <<>>
  <2>1. 1..0 = {} /\ {} \in SUBSET (1..Len(seq))
    OBVIOUS
  <2>2. Loop(seq)[{}] = <<>>
    BY <1>2, <2>1
  <2> QED
    BY <2>1, <2>2 DEF Out
<1>4. ASSUME NEW k \in 1..Len(seq) PROVE Out(seq, k) = Step(seq, k, Out(seq, k - 1))
  <2>1. k \in Nat /\ 1..k \in SUBSET (1..k) /\ 1..k # {} /\ 1..k \in SUBSET (1..Len(seq))
        /\ (1..k) \ {k} = 1..(k - 1)
    <3>1. k \in Nat /\ k >= 1 /\ k <= Len(seq) /\ k \in 1..k
      BY <1>1
    <3>2. \A x : x \in (1..k) \ {k} <=> x \in 1..(k - 1)
      BY <3>1
    <3>3. \A x \in 1..k : x \in 1..Len(seq)
      BY <1>1, <3>1
    <3> QED
      BY <3>1, <3>2, <3>3
  <2>2. Max(1..k) = k
    <3>1. Max(1..k) \in 1..k /\ \A x \in 1..k : Max(1..k) >= x
      BY <2>1, MaxOfSome
    <3> QED
      BY <2>1, <3>1
  <2>3. Loop(seq)[1..k] = Step(seq, k, Loop(seq)[1..(k - 1)])
    BY <1>2, <2>1, <2>2
  <2> QED
    BY <2>3 DEF Out
<1> QED
  BY <1>3, <1>4

(* Where an element comes first. *)
LEMMA FirstIndexIs ==
  ASSUME NEW S, NEW seq \in Seq(S), NEW i \in DOMAIN seq
  PROVE  /\ FirstIndex(seq, seq[i]) \in 1..i /\ seq[FirstIndex(seq, seq[i])] = seq[i]
         /\ \A j \in 1..(FirstIndex(seq, seq[i]) - 1) : seq[j] # seq[i]
<1> DEFINE Places == {j \in DOMAIN seq : seq[j] = seq[i]}
           IsFirst(n) == seq[n] = seq[i] /\ \A j \in 1..(n - 1) : seq[j] # seq[i]
<1>1. Len(seq) \in Nat /\ DOMAIN seq = 1..Len(seq)
  OBVIOUS
<1>2. Places \in SUBSET Nat /\ Places # {}
  BY <1>1
<1>3. PICK n \in Places : \A m \in Places : n <= m
  <2> HIDE DEF Places
  <2> QED
    BY <1>2, LeastOf
<1>4. ASSUME NEW j \in 1..(n - 1) PROVE seq[j] # seq[i]
  <2>1. j \in DOMAIN seq /\ ~(n <= j)
    BY <1>1, <1>3
  <2> QED
    BY <1>3, <2>1
<1>5. \E m \in DOMAIN seq : IsFirst(m)
  BY <1>3, <1>4
<1>6. FirstIndex(seq, seq[i]) \in DOMAIN seq /\ IsFirst(FirstIndex(seq, seq[i]))
  BY <1>5 DEF FirstIndex
<1>7. ASSUME FirstIndex(seq, seq[i]) > i PROVE FALSE
  <2>1. i \in 1..(FirstIndex(seq, seq[i]) - 1)
    BY <1>1, <1>6, <1>7
  <2> QED
    BY <1>6, <2>1
<1> QED
  BY <1>1, <1>6, <1>7

(* The loop puts out each element once, in the order of first occurrences. *)
OutInv(seq, k, out) ==
  /\ \A x : x \in ToSet(out) <=> \E i \in 1..k : seq[i] = x
  /\ IsInjective(out)
  /\ \A i, j \in DOMAIN out : i < j => FirstIndex(seq, out[i]) < FirstIndex(seq, out[j])
  /\ k > 0 => out # <<>> /\ out[1] = seq[1]

(* One more position. *)
LEMMA StepOutInv ==
  ASSUME NEW S, NEW seq \in Seq(S), NEW k \in 1..Len(seq),
         NEW out \in Seq(S), OutInv(seq, k - 1, out)
  PROVE  Step(seq, k, out) \in Seq(S) /\ OutInv(seq, k, Step(seq, k, out))
<1>1. /\ Len(seq) \in Nat /\ DOMAIN seq = 1..Len(seq) /\ k \in Nat /\ seq[k] \in S
      /\ Len(out) \in Nat /\ DOMAIN out = 1..Len(out)
  OBVIOUS
<1>2. CASE seq[k] \in ToSet(out)
  <2>1. Step(seq, k, out) = out
    BY <1>2 DEF Step
  <2>2. PICK i \in 1..(k - 1) : seq[i] = seq[k]
    BY <1>2 DEF OutInv
  <2>3. k - 1 > 0
    BY <1>1, <2>2
  <2>4. \A x : x \in ToSet(out) <=> \E m \in 1..k : seq[m] = x
    <3>1. \A m \in 1..k : m \in 1..(k - 1) \/ m = k
      BY <1>1
    <3>2. \A m \in 1..(k - 1) : m \in 1..k
      BY <1>1
    <3> QED
      BY <2>2, <3>1, <3>2 DEF OutInv
  <2> QED
    BY <2>1, <2>3, <2>4 DEF OutInv
<1>3. CASE seq[k] \notin ToSet(out)
  <2> DEFINE new == Append(out, seq[k])
             n == Len(out) + 1
  <2>1. Step(seq, k, out) = new
    BY <1>3 DEF Step
  <2>2. /\ new \in Seq(S) /\ DOMAIN new = 1..n /\ n \in Nat /\ new[n] = seq[k]
        /\ \A i \in 1..n : i # n => i \in DOMAIN out /\ new[i] = out[i]
    BY <1>1
  <2> HIDE DEF new, n
  <2>3. \A i \in DOMAIN out : i \in 1..n /\ i # n /\ new[i] = out[i]
    BY <1>1, <2>2 DEF n
  <2>4. \A x : x \in ToSet(new) <=> x \in ToSet(out) \/ x = seq[k]
    <3>1. n \in 1..n
      BY <1>1 DEF n
    <3> QED
      BY <2>2, <2>3, <3>1 DEF ToSet
  <2>5. \A x : x \in ToSet(new) <=> \E m \in 1..k : seq[m] = x
    <3>1. \A m \in 1..k : m \in 1..(k - 1) \/ m = k
      BY <1>1
    <3>2. k \in 1..k /\ \A m \in 1..(k - 1) : m \in 1..k
      BY <1>1
    <3> QED
      BY <2>4, <3>1, <3>2 DEF OutInv
  <2>6. \A i \in DOMAIN out : out[i] \in ToSet(out)
    BY DEF ToSet
  <2>7. IsInjective(new)
    <3> SUFFICES ASSUME NEW a \in 1..n, NEW b \in 1..n, new[a] = new[b] PROVE a = b
      BY <2>2 DEF IsInjective
    <3>1. CASE a = n \/ b = n
      BY <1>3, <2>2, <2>6, <3>1
    <3>2. CASE a # n /\ b # n
      BY <2>2, <3>2 DEF OutInv, IsInjective
    <3> QED
      BY <3>1, <3>2
  <2>8. ASSUME NEW i \in 1..n, NEW j \in 1..n, i < j
        PROVE  FirstIndex(seq, new[i]) < FirstIndex(seq, new[j])
    <3>1. i # n
      BY <2>2, <2>8
    <3>2. CASE j # n
      BY <2>2, <2>8, <3>1, <3>2 DEF OutInv
    <3>3. CASE j = n
      <4>1. PICK m \in 1..(k - 1) : seq[m] = out[i]
        BY <2>2, <2>6, <3>1 DEF OutInv
      <4>2. m \in DOMAIN seq /\ new[i] = seq[m]
        BY <1>1, <2>2, <3>1, <4>1
      <4>3. FirstIndex(seq, new[i]) \in 1..m
        BY <4>2, FirstIndexIs
      <4>4. FirstIndex(seq, seq[k]) = k
        <5>1. FirstIndex(seq, seq[k]) \in 1..k /\ seq[FirstIndex(seq, seq[k])] = seq[k]
          BY <1>1, FirstIndexIs
        <5>2. \A l \in 1..(k - 1) : seq[l] # seq[k]
          BY <1>3 DEF OutInv
        <5> QED
          BY <1>1, <5>1, <5>2
      <4> QED
        BY <1>1, <2>2, <3>3, <4>1, <4>3, <4>4
    <3> QED
      BY <3>2, <3>3
  <2>9. new # <<>> /\ new[1] = seq[1]
    <3>1. new # <<>>
      BY <1>1 DEF new
    <3>2. CASE k = 1
      <4>1. Len(out) = 0
        <5>1. \A i \in DOMAIN out : FALSE
          BY <2>6, <3>2 DEF OutInv
        <5>2. ~(1 <= Len(out))
          BY <1>1, <5>1
        <5> QED
          BY <1>1, <5>2
      <4> QED
        BY <2>2, <3>1, <3>2, <4>1 DEF n
    <3>3. CASE k # 1
      <4>1. out # <<>> /\ out[1] = seq[1]
        BY <1>1, <3>3 DEF OutInv
      <4>2. 1 \in DOMAIN out
        BY <1>1, <4>1
      <4> QED
        BY <2>3, <3>1, <4>1, <4>2
    <3> QED
      BY <3>2, <3>3
  <2> QED
    BY <2>1, <2>2, <2>5, <2>7, <2>8, <2>9 DEF OutInv
<1> QED
  BY <1>2, <1>3

(* _dedup, of any list. *)
LEMMA DedupIsRight ==
  ASSUME NEW S, NEW seq \in Seq(S)
  PROVE  /\ Dedup(seq) \in Seq(S) /\ IsInjective(Dedup(seq))
         /\ FirstOccurrences(Dedup(seq), seq)
         /\ seq # <<>> => Dedup(seq) # <<>> /\ Dedup(seq)[1] = seq[1]
<1> DEFINE Right(k) == Out(seq, k) \in Seq(S) /\ OutInv(seq, k, Out(seq, k))
           Wrong == {k \in Nat : k <= Len(seq) /\ ~Right(k)}
<1>1. Len(seq) \in Nat /\ DOMAIN seq = 1..Len(seq)
  OBVIOUS
<1>2. Right(0)
  <2>1. Out(seq, 0) = <<>> /\ <<>> \in Seq(S) /\ 1..0 = {}
    BY OutSteps
  <2>2. DOMAIN <<>> = {}
    OBVIOUS
  <2>3. ToSet(<<>>) = {}
    BY <2>2 DEF ToSet
  <2>4. IsInjective(<<>>)
    BY <2>2 DEF IsInjective
  <2>5. OutInv(seq, 0, <<>>)
    BY <2>1, <2>2, <2>3, <2>4 DEF OutInv
  <2> QED
    BY <2>1, <2>5
<1>3. ASSUME NEW k \in 1..Len(seq), Right(k - 1) PROVE Right(k)
  <2>1. Out(seq, k) = Step(seq, k, Out(seq, k - 1))
    BY OutSteps
  <2> QED
    BY <1>3, <2>1, StepOutInv
<1> HIDE DEF Right
<1>4. Wrong = {}
  <2> SUFFICES ASSUME Wrong # {} PROVE FALSE
    OBVIOUS
  <2>1. PICK k \in Wrong : \A m \in Wrong : k <= m
    <3>1. Wrong \in SUBSET Nat
      OBVIOUS
    <3> HIDE DEF Wrong
    <3> QED
      BY <3>1, LeastOf
  <2>2. k \in 1..Len(seq) /\ k - 1 \in Nat /\ k - 1 <= Len(seq)
    BY <1>1, <1>2, <2>1
  <2>3. k - 1 \notin Wrong
    <3>1. ~(k <= k - 1)
      BY <2>2
    <3> HIDE DEF Wrong
    <3> QED
      BY <2>1, <3>1
  <2>4. Right(k - 1)
    BY <2>2, <2>3
  <2> QED
    BY <1>3, <2>1, <2>2, <2>4
<1>5. Right(Len(seq))
  BY <1>1, <1>4
<1>6. Dedup(seq) = Out(seq, Len(seq))
  BY <1>1, DedupIsLoop DEF Out
<1>7. ToSet(Dedup(seq)) = ToSet(seq)
  <2>1. \A x : x \in ToSet(seq) <=> \E i \in 1..Len(seq) : seq[i] = x
    BY <1>1 DEF ToSet
  <2> QED
    BY <1>5, <1>6, <2>1 DEF Right, OutInv
<1> QED
  BY <1>1, <1>5, <1>6, <1>7 DEF Right, OutInv, FirstOccurrences

-----------------------------------------------------------------------------
(* The invariant: what was planned and shown comes from what the request,  *)
(* the keys in Redis and the scopes are now.                               *)

(* A request of distinct devices. *)
RequestInv ==
  /\ request = [mode |-> request.mode, priority |-> request.priority,
                active |-> request.active, all |-> request.all, device |-> request.device]
  /\ request.active \in Seq(Devices) /\ IsInjective(request.active)
  /\ request.all \in Seq(Devices)

(* What is planned, plan_routes plans of the request. *)
PlanInv ==
  \/ plan = Unplanned
  \/ /\ plan.made /\ kept.read
     /\ Grantable(asked) /\ MayCreate(GrantedScopes(asked), request.mode)
     /\ plan.targets = PlanRoutes(request.mode, request.priority, request.active,
                                  request.all, request.device)

(* The active devices are as list_active_devices orders them. *)
InOrder ==
  request.active \in Orders(kept.devices,
                            IF DOMAIN kept.devices = {} THEN 0
                            ELSE SnapshotPrimary(kept.devices, kept.prev))

(* What was read from Redis. *)
KeptInv ==
  /\ kept = [devices |-> kept.devices, prev |-> kept.prev, read |-> kept.read]
  /\ DOMAIN kept.devices \subseteq Devices
  /\ kept # Nothing =>
       /\ request.mode \in Modes \ {"specific_device"} /\ request.priority = "normal"
       /\ kept.read => InOrder

(* What is shown is of the keys read. *)
ViewInv ==
  viewed # NoView =>
    /\ Grantable(asked) /\ HasScopes(GrantedScopes(asked), {"presence"})
    /\ viewed = AgentView(kept.devices, kept.prev, Automatic)

DInv == RequestInv /\ PlanInv /\ KeptInv /\ ViewInv /\ obs \in Observation

-----------------------------------------------------------------------------
(* The lists that a request may hold. *)
LEMMA PermutationsAre ==
  ASSUME NEW s \in SetToAllKPermutations(Devices)
  PROVE  s \in Seq(Devices) /\ IsInjective(s)
<1>1. PICK T \in SUBSET Devices : s \in SetToSeqs(T)
  BY DEF SetToAllKPermutations
<1>2. Cardinality(T) \in Nat
  BY DevicesAssumption, FS_Subset, FS_CardinalityType
<1>3. s \in [1..Cardinality(T) -> T] /\ \A i, j \in 1..Cardinality(T) : i # j => s[i] # s[j]
  BY <1>1 DEF SetToSeqs
<1> QED
  BY <1>2, <1>3 DEF IsInjective

(* An order of the devices present: all of them, once, the primary first. *)
LEMMA OrdersAre ==
  ASSUME NEW devices, DOMAIN devices \subseteq Devices, NEW p, NEW s \in Orders(devices, p)
  PROVE  /\ s \in Seq(Devices) /\ IsInjective(s)
         /\ DOMAIN devices = {} => s = <<>>
         /\ DOMAIN devices # {} => s # <<>> /\ s[1] = p
<1>1. IsFiniteSet(DOMAIN devices) /\ Cardinality(DOMAIN devices) \in Nat
  BY DevicesAssumption, FS_Subset, FS_CardinalityType
<1>2. /\ s \in [1..Cardinality(DOMAIN devices) -> DOMAIN devices]
      /\ \A i, j \in DOMAIN s : i < j => s[i] # s[j]
      /\ s # <<>> => s[1] = p
  BY DEF Orders
<1>3. s \in Seq(Devices) /\ Len(s) = Cardinality(DOMAIN devices)
  BY <1>1, <1>2
<1>4. IsInjective(s)
  BY <1>1, <1>2 DEF IsInjective
<1>5. Cardinality(DOMAIN devices) = 0 <=> DOMAIN devices = {}
  BY <1>1, FS_EmptySet
<1>6. s = <<>> <=> Len(s) = 0
  BY <1>3
<1> QED
  BY <1>2, <1>3, <1>4, <1>5, <1>6

(* The devices, listed. *)
LEMMA SetToSeqIsSeq == SetToSeq(Devices) \in Seq(Devices)
<1>1. /\ Cardinality(Devices) \in Nat
      /\ ExistsBijection(1..Cardinality(Devices), Devices)
  BY DevicesAssumption, FS_CardinalityType
<1>2. \E f \in [1..Cardinality(Devices) -> Devices] : IsInjective(f)
  BY <1>1 DEF ExistsBijection, Bijection, Injection, IsInjective
<1>3. SetToSeq(Devices) \in [1..Cardinality(Devices) -> Devices]
  BY <1>2 DEF SetToSeq
<1> QED
  BY <1>1, <1>3

(* Clamping keeps the order. *)
LEMMA ClampGrows ==
  ASSUME NEW m \in Int, NEW n \in Int, m <= n
  PROVE  Clamp(m) <= Clamp(n)
BY DEF Clamp

(* One field of an observation moves up. *)
LEMMA LivelierScores ==
  ASSUME obs \in Observation, Livelier
  PROVE  obs' \in Observation /\ Score(obs') >= Score(obs)
<1> DEFINE Sum(o) == Points.interaction[o.interaction] + Points.screen[o.screen]
                     + Points.locked[o.locked] + Points.app[o.app] + Points.motion[o.motion]
<1>1. PICK f \in DOMAIN Scale : \E i, j \in DOMAIN Scale[f] :
         i < j /\ obs[f] = Scale[f][i] /\ obs' = [obs EXCEPT ![f] = Scale[f][j]]
  BY DEF Livelier
<1>2. f \in {"interaction", "screen", "locked", "app", "motion"}
  BY DEF Scale
<1>3. PICK i, j \in DOMAIN Scale[f] :
         i < j /\ obs[f] = Scale[f][i] /\ obs' = [obs EXCEPT ![f] = Scale[f][j]]
  BY <1>1
<1>4. ASSUME f = "interaction" PROVE obs' \in Observation /\ Sum(obs') >= Sum(obs)
  <2>1. Scale[f] = <<"older", "minute", "recent">>
    BY <1>4 DEF Scale
  <2>2. i \in 1..3 /\ j \in 1..3
    BY <2>1
  <2>3. /\ obs' = [obs EXCEPT !.interaction = <<"older", "minute", "recent">>[j]]
        /\ obs.interaction = <<"older", "minute", "recent">>[i]
    BY <1>3, <1>4, <2>1
  <2>4. /\ obs' \in Observation /\ obs'.interaction = <<"older", "minute", "recent">>[j]
        /\ obs'.screen = obs.screen /\ obs'.locked = obs.locked
        /\ obs'.app = obs.app /\ obs'.motion = obs.motion
    BY <2>2, <2>3 DEF Observation
  <2>5. Points.interaction[obs'.interaction] >= Points.interaction[obs.interaction]
    BY <1>3, <2>2, <2>3, <2>4 DEF Points
  <2> QED
    BY <2>4, <2>5, PointsAreNumbers
<1>5. ASSUME f = "screen" PROVE obs' \in Observation /\ Sum(obs') >= Sum(obs)
  <2>1. Scale[f] = <<"off", "unknown", "on">>
    BY <1>5 DEF Scale
  <2>2. i \in 1..3 /\ j \in 1..3
    BY <2>1
  <2>3. /\ obs' = [obs EXCEPT !.screen = <<"off", "unknown", "on">>[j]]
        /\ obs.screen = <<"off", "unknown", "on">>[i]
    BY <1>3, <1>5, <2>1
  <2>4. /\ obs' \in Observation /\ obs'.screen = <<"off", "unknown", "on">>[j]
        /\ obs'.interaction = obs.interaction /\ obs'.locked = obs.locked
        /\ obs'.app = obs.app /\ obs'.motion = obs.motion
    BY <2>2, <2>3 DEF Observation
  <2>5. Points.screen[obs'.screen] >= Points.screen[obs.screen]
    BY <1>3, <2>2, <2>3, <2>4 DEF Points
  <2> QED
    BY <2>4, <2>5, PointsAreNumbers
<1>6. ASSUME f = "locked" PROVE obs' \in Observation /\ Sum(obs') >= Sum(obs)
  <2>1. Scale[f] = <<"yes", "unknown", "no">>
    BY <1>6 DEF Scale
  <2>2. i \in 1..3 /\ j \in 1..3
    BY <2>1
  <2>3. /\ obs' = [obs EXCEPT !.locked = <<"yes", "unknown", "no">>[j]]
        /\ obs.locked = <<"yes", "unknown", "no">>[i]
    BY <1>3, <1>6, <2>1
  <2>4. /\ obs' \in Observation /\ obs'.locked = <<"yes", "unknown", "no">>[j]
        /\ obs'.interaction = obs.interaction /\ obs'.screen = obs.screen
        /\ obs'.app = obs.app /\ obs'.motion = obs.motion
    BY <2>2, <2>3 DEF Observation
  <2>5. Points.locked[obs'.locked] >= Points.locked[obs.locked]
    BY <1>3, <2>2, <2>3, <2>4 DEF Points
  <2> QED
    BY <2>4, <2>5, PointsAreNumbers
<1>7. ASSUME f = "app" PROVE obs' \in Observation /\ Sum(obs') >= Sum(obs)
  <2>1. Scale[f] = <<"other", "foreground">>
    BY <1>7 DEF Scale
  <2>2. i \in 1..2 /\ j \in 1..2
    BY <2>1
  <2>3. /\ obs' = [obs EXCEPT !.app = <<"other", "foreground">>[j]]
        /\ obs.app = <<"other", "foreground">>[i]
    BY <1>3, <1>7, <2>1
  <2>4. /\ obs' \in Observation /\ obs'.app = <<"other", "foreground">>[j]
        /\ obs'.interaction = obs.interaction /\ obs'.screen = obs.screen
        /\ obs'.locked = obs.locked /\ obs'.motion = obs.motion
    BY <2>2, <2>3 DEF Observation
  <2>5. Points.app[obs'.app] >= Points.app[obs.app]
    BY <1>3, <2>2, <2>3, <2>4 DEF Points
  <2> QED
    BY <2>4, <2>5, PointsAreNumbers
<1>8. ASSUME f = "motion" PROVE obs' \in Observation /\ Sum(obs') >= Sum(obs)
  <2>1. Scale[f] = <<"other", "moving", "handheld">>
    BY <1>8 DEF Scale
  <2>2. i \in 1..3 /\ j \in 1..3
    BY <2>1
  <2>3. /\ obs' = [obs EXCEPT !.motion = <<"other", "moving", "handheld">>[j]]
        /\ obs.motion = <<"other", "moving", "handheld">>[i]
    BY <1>3, <1>8, <2>1
  <2>4. /\ obs' \in Observation /\ obs'.motion = <<"other", "moving", "handheld">>[j]
        /\ obs'.interaction = obs.interaction /\ obs'.screen = obs.screen
        /\ obs'.locked = obs.locked /\ obs'.app = obs.app
    BY <2>2, <2>3 DEF Observation
  <2>5. Points.motion[obs'.motion] >= Points.motion[obs.motion]
    BY <1>3, <2>2, <2>3, <2>4 DEF Points
  <2> QED
    BY <2>4, <2>5, PointsAreNumbers
<1>9. obs' \in Observation /\ Sum(obs') >= Sum(obs)
  BY <1>2, <1>4, <1>5, <1>6, <1>7, <1>8
<1>10. Sum(obs) \in Int /\ Sum(obs') \in Int
  BY <1>9, PointsAreNumbers
<1>11. Score(obs) = Clamp(Sum(obs)) /\ Score(obs') = Clamp(Sum(obs'))
  BY DEF Score
<1> HIDE DEF Sum
<1>12. Clamp(Sum(obs)) <= Clamp(Sum(obs')) /\ Clamp(Sum(obs)) \in Int /\ Clamp(Sum(obs')) \in Int
  BY <1>9, <1>10, ClampGrows DEF Clamp
<1> QED
  BY <1>9, <1>11, <1>12

(* Before anything is planned or shown. *)
LEMMA InitDInv == DInit => DInv
<1> SUFFICES ASSUME DInit PROVE DInv
  OBVIOUS
<1>1. PlanInv /\ ViewInv
  BY DEF DInit, PlanInv, ViewInv
<1>3. /\ <<>> \in Seq(Devices) /\ IsInjective(<<>>)
  <2>1. DOMAIN <<>> = {}
    OBVIOUS
  <2> QED
    BY <2>1 DEF IsInjective
<1>4. Nothing = [devices |-> Nothing.devices, prev |-> Nothing.prev, read |-> Nothing.read]
      /\ DOMAIN Nothing.devices = {}
  BY DEF Nothing
<1>5. Liveliest \in Observation
  <2>1. DOMAIN Scale = {"interaction", "screen", "locked", "app", "motion"}
    BY DEF Scale
  <2>2. /\ Scale["interaction"] = <<"older", "minute", "recent">>
        /\ Scale["screen"] = <<"off", "unknown", "on">>
        /\ Scale["locked"] = <<"yes", "unknown", "no">>
        /\ Scale["app"] = <<"other", "foreground">>
        /\ Scale["motion"] = <<"other", "moving", "handheld">>
    BY DEF Scale
  <2>3. /\ Scale["interaction"][Len(Scale["interaction"])] = "recent"
        /\ Scale["screen"][Len(Scale["screen"])] = "on"
        /\ Scale["locked"][Len(Scale["locked"])] = "no"
        /\ Scale["app"][Len(Scale["app"])] = "foreground"
        /\ Scale["motion"][Len(Scale["motion"])] = "handheld"
    BY <2>2
  <2>4. /\ Liveliest = [f \in {"interaction", "screen", "locked", "app", "motion"}
                         |-> Liveliest[f]]
        /\ Liveliest["interaction"] = "recent" /\ Liveliest["screen"] = "on"
        /\ Liveliest["locked"] = "no" /\ Liveliest["app"] = "foreground"
        /\ Liveliest["motion"] = "handheld"
    BY <2>1, <2>3 DEF Liveliest
  <2> QED
    BY <2>4 DEF Observation
<1>6. CASE request \in {r \in Requests : r.mode # "specific_device" => r.device = NoDevice}
           /\ obs = Liveliest /\ kept = Nothing /\ asked = AllScopes
  <2>1. request \in Requests
    BY <1>6
  <2>2. request.active \in Seq(Devices) /\ IsInjective(request.active)
        /\ request.all \in Seq(Devices)
    BY <2>1, PermutationsAre DEF Requests
  <2>3. RequestInv
    BY <2>1, <2>2 DEF Requests, RequestInv
  <2> QED
    BY <1>1, <1>4, <1>5, <1>6, <2>3 DEF DInv, KeptInv
<1>7. ASSUME NEW m \in Modes, request = Fresh(m) PROVE RequestInv /\ request.mode = m
                                                       /\ request.priority = "normal"
  BY <1>3, <1>7, SetToSeqIsSeq DEF RequestInv, Fresh
<1>8. CASE obs \in Observation /\ request = Fresh("active_only") /\ kept = Nothing
  BY <1>1, <1>4, <1>7, <1>8 DEF DInv, KeptInv, Modes
<1>9. CASE kept \in Keeping /\ request \in {Fresh(m) : m \in Modes \ {"specific_device"}}
           /\ obs = Liveliest
  <2>1. PICK m \in Modes \ {"specific_device"} : request = Fresh(m)
    BY <1>9
  <2>2. RequestInv /\ request.mode = m /\ request.priority = "normal"
    BY <1>7, <2>1
  <2>3. /\ kept = [devices |-> kept.devices, prev |-> kept.prev, read |-> kept.read]
        /\ DOMAIN kept.devices \subseteq Devices /\ kept.read = FALSE
    BY <1>9 DEF Keeping
  <2> QED
    BY <1>1, <1>5, <1>9, <2>2, <2>3 DEF DInv, KeptInv
<1>10. CASE request \in {Fresh(m) : m \in Modes} /\ obs = Liveliest /\ kept = Nothing
  BY <1>1, <1>4, <1>5, <1>7, <1>10 DEF DInv, KeptInv
<1> QED
  BY <1>6, <1>8, <1>9, <1>10 DEF DInit

(* Every step. *)
LEMMA StepDInv == DInv /\ [DNext]_dvars => DInv'
<1> SUFFICES ASSUME DInv, [DNext]_dvars PROVE DInv'
  OBVIOUS
<1>1. CASE Plan
  BY <1>1 DEF Plan, DInv, RequestInv, PlanInv, KeptInv, InOrder, ViewInv
<1>2. CASE Livelier
  <2>8. obs' \in Observation
    BY <1>2, LivelierScores DEF DInv
  <2> QED
    BY <1>2, <2>8 DEF Livelier, DInv, RequestInv, PlanInv, KeptInv, InOrder, ViewInv
<1>3. CASE Look
  <2> DEFINE p == IF DOMAIN kept.devices = {} THEN 0
                  ELSE SnapshotPrimary(kept.devices, kept.prev)
  <2>1. PICK s \in Orders(kept.devices, p) : request' = [request EXCEPT !.active = s]
    BY <1>3 DEF Look
  <2>2. /\ ~kept.read /\ kept' = [kept EXCEPT !.read = TRUE]
        /\ UNCHANGED <<plan, obs, asked, viewed>>
    BY <1>3 DEF Look
  <2>3. s \in Seq(Devices) /\ IsInjective(s)
    BY OrdersAre DEF DInv, KeptInv
  <2>4. /\ RequestInv' /\ request'.mode = request.mode /\ request'.priority = request.priority
        /\ request'.active = s
    BY <2>1, <2>3 DEF DInv, RequestInv
  <2>5. /\ kept' = [devices |-> kept.devices, prev |-> kept.prev, read |-> TRUE]
        /\ kept'.devices = kept.devices /\ kept'.prev = kept.prev
    BY <2>2 DEF DInv, KeptInv
  <2>6. kept # Nothing
    BY <2>2 DEF Nothing
  <2>7. KeptInv'
    BY <2>1, <2>4, <2>5, <2>6 DEF DInv, KeptInv, InOrder
  <2>8. PlanInv' /\ ViewInv'
    BY <2>2, <2>5 DEF DInv, PlanInv, ViewInv
  <2> QED
    BY <2>2, <2>4, <2>7, <2>8 DEF DInv
<1>4. CASE Show
  BY <1>4 DEF Show, DInv, RequestInv, PlanInv, KeptInv, InOrder, ViewInv
<1>5. CASE UNCHANGED dvars
  BY <1>5 DEF dvars, DInv, RequestInv, PlanInv, KeptInv, InOrder, ViewInv
<1> QED
  BY <1>1, <1>2, <1>3, <1>4, <1>5 DEF DNext

-----------------------------------------------------------------------------
(* A request, its plan and what is shown belong together, at any time. *)
THEOREM DecisionsInductive == DSpec => []DInv
BY InitDInv, StepDInv, PTL DEF DSpec

(* The first device of a list, if there is one. *)
LEMMA FirstOnlyIs ==
  ASSUME NEW S, NEW seq \in Seq(S)
  PROVE  /\ seq = <<>> => FirstOnly(seq) = <<>>
         /\ seq # <<>> => Len(FirstOnly(seq)) = 1 /\ FirstOnly(seq)[1] = seq[1]
         /\ FirstOnly(seq) \in Seq(S) /\ IsInjective(FirstOnly(seq))
<1>1. CASE seq = <<>>
  <2>1. FirstOnly(seq) = <<>>
    BY <1>1 DEF FirstOnly
  <2>2. DOMAIN <<>> = {} /\ <<>> \in Seq(S)
    OBVIOUS
  <2> QED
    BY <1>1, <2>1, <2>2 DEF IsInjective
<1>2. CASE seq # <<>>
  <2>1. Len(seq) \in Nat /\ Len(seq) >= 1 /\ seq[1] \in S
    BY <1>2
  <2>2. FirstOnly(seq) = SubSeq(seq, 1, 1)
    BY <2>1 DEF FirstOnly
  <2>3. FirstOnly(seq) = [i \in 1..1 |-> seq[i]]
    BY <2>1, <2>2
  <2>5. FirstOnly(seq) \in Seq(S) /\ Len(FirstOnly(seq)) = 1 /\ FirstOnly(seq)[1] = seq[1]
    BY <2>1, <2>3
  <2>6. DOMAIN FirstOnly(seq) = {1}
    BY <2>3
  <2> QED
    BY <1>2, <2>5, <2>6 DEF IsInjective
<1> QED
  BY <1>1, <1>2

(* What plan_routes plans for lists without repetition. *)
LEMMA PlanIsSound ==
  ASSUME NEW mode, NEW priority, NEW ranked \in Seq(Devices), IsInjective(ranked),
         NEW all \in Seq(Devices), NEW device,
         NEW targets, targets = PlanRoutes(mode, priority, ranked, all, device)
  PROVE  /\ IsInjective(targets)
         /\ mode = "active_with_fallback" /\ all # <<>> => targets # <<>>
         /\ mode = "all_devices" => FirstOccurrences(targets, ranked \o all)
         /\ priority = "low" /\ ranked # <<>> => ~NeedsFallback(mode, Len(targets))
         /\ mode # "specific_device" /\ ranked # <<>> => targets # <<>> /\ targets[1] = ranked[1]
         /\ mode = "active_only" /\ ranked = <<>> => targets = <<>>
<1>1. CASE mode = "specific_device"
  <2>1. targets = SpecificTarget(device)
    BY <1>1 DEF PlanRoutes
  <2>2. DOMAIN <<>> = {} /\ DOMAIN <<device>> = {1}
    OBVIOUS
  <2>3. IsInjective(targets)
    BY <2>1, <2>2 DEF SpecificTarget, IsInjective
  <2> QED
    BY <1>1, <2>3 DEF NeedsFallback
<1>2. CASE mode = "all_devices"
  <2> DEFINE both == ranked \o all
  <2>1. targets = Dedup(both)
    BY <1>2 DEF PlanRoutes, FanOut
  <2>2. both \in Seq(Devices)
    OBVIOUS
  <2>5. ranked # <<>> => both # <<>> /\ both[1] = ranked[1]
    OBVIOUS
  <2>6. both = ranked \o all
    OBVIOUS
  <2> HIDE DEF both
  <2>7. /\ Dedup(both) \in Seq(Devices) /\ IsInjective(Dedup(both))
        /\ FirstOccurrences(Dedup(both), both)
        /\ both # <<>> => Dedup(both) # <<>> /\ Dedup(both)[1] = both[1]
    BY <2>2, DedupIsRight
  <2>3. /\ IsInjective(targets) /\ FirstOccurrences(targets, ranked \o all)
        /\ both # <<>> => targets # <<>> /\ targets[1] = both[1]
    BY <2>1, <2>6, <2>7
  <2>4. ranked # <<>> => targets # <<>> /\ targets[1] = ranked[1]
    BY <2>5, <2>3
  <2> QED
    BY <1>2, <2>3, <2>4 DEF NeedsFallback
<1>3. CASE mode = "active_only"
  <2>1. targets = FirstOnly(ranked)
    BY <1>3 DEF PlanRoutes
  <2>2. ranked # <<>> => targets # <<>> /\ targets[1] = ranked[1]
    BY <2>1, FirstOnlyIs
  <2> QED
    BY <1>3, <2>1, <2>2, FirstOnlyIs DEF NeedsFallback
<1>4. CASE mode \notin {"specific_device", "all_devices", "active_only"}
  <2> DEFINE known == IF priority = "low" THEN FirstOnly(ranked) ELSE ranked
  <2>1. targets = IF known = <<>> THEN Dedup(all) ELSE known
    BY <1>4 DEF PlanRoutes, ActiveTargets
  <2>2. /\ IsInjective(known)
        /\ ranked # <<>> => known # <<>> /\ known[1] = ranked[1]
    BY FirstOnlyIs
  <2>3. IsInjective(targets) /\ (all # <<>> => targets # <<>>)
    BY <2>1, <2>2, DedupIsRight
  <2>4. ranked # <<>> => targets = known
    BY <2>1, <2>2
  <2>5. priority = "low" /\ ranked # <<>> => Len(targets) = 1
    BY <2>4, FirstOnlyIs
  <2>6. ranked # <<>> => targets # <<>> /\ targets[1] = ranked[1]
    BY <2>2, <2>4
  <2>7. Len(targets) = 1 => ~NeedsFallback(mode, Len(targets))
    BY DEF NeedsFallback
  <2> QED
    BY <1>4, <2>3, <2>5, <2>6, <2>7
<1> QED
  BY <1>1, <1>2, <1>3, <1>4

(* plan_routes, for any devices: no target twice, nothing lost, fan-outs   *)
(* in the order of presence, and no timer for a low priority.              *)
THEOREM PlansSound == DSpec => []PlansAreSound
<1>1. DInv => PlansAreSound
  <2> SUFFICES ASSUME DInv PROVE PlansAreSound
    OBVIOUS
  <2>1. CASE plan = Unplanned
    <3>1. ~plan.made /\ plan.targets = <<>>
      BY <2>1 DEF Unplanned
    <3>2. IsInjective(<<>>)
      <4>1. DOMAIN <<>> = {}
        OBVIOUS
      <4> QED
        BY <4>1 DEF IsInjective
    <3> QED
      BY <3>1, <3>2 DEF PlansAreSound, TargetsDistinct, NothingLost, FanOutFollowsPresence,
         LowPriorityNeverEscalates
  <2>2. CASE plan # Unplanned
    <3>1. plan.targets = PlanRoutes(request.mode, request.priority, request.active,
                                    request.all, request.device)
      BY <2>2 DEF DInv, PlanInv
    <3>2. /\ request.active \in Seq(Devices) /\ IsInjective(request.active)
          /\ request.all \in Seq(Devices)
      BY DEF DInv, RequestInv
    <3> QED
      BY <3>1, <3>2, PlanIsSound DEF PlansAreSound, TargetsDistinct, NothingLost,
         FanOutFollowsPresence, LowPriorityNeverEscalates
  <2> QED
    BY <2>1, <2>2
<1> QED
  BY <1>1, DecisionsInductive, PTL

(* What an agent is shown is where its next notification goes first, and   *)
(* the primary that select_active writes is the one get_snapshot reads.    *)
THEOREM ServesWhatIsShown == DSpec => []ShownIsServed
<1>1. DInv => ShownIsServed
  <2> SUFFICES ASSUME DInv PROVE ShownIsServed
    OBVIOUS
  <2>1. ASSUME viewed # NoView, plan.made, kept # Nothing
        PROVE  /\ viewed.primary = IF request.active = <<>> THEN 0 ELSE plan.targets[1]
               /\ viewed.state = "active" => kept.devices[plan.targets[1]].score >= 50
               /\ viewed.state = "offline" /\ request.mode = "active_only"
                    => plan.targets = <<>>
    <3> DEFINE p == SnapshotPrimary(kept.devices, kept.prev)
    <3>1. /\ kept.read
          /\ plan.targets = PlanRoutes(request.mode, request.priority, request.active,
                                       request.all, request.device)
      BY <2>1 DEF DInv, PlanInv, Unplanned
    <3>2. request.mode # "specific_device" /\ InOrder
      BY <2>1, <3>1 DEF DInv, KeptInv
    <3>3. /\ request.active \in Seq(Devices) /\ IsInjective(request.active)
          /\ request.all \in Seq(Devices)
      BY DEF DInv, RequestInv
    <3>4. /\ request.active # <<>> => plan.targets[1] = request.active[1]
          /\ request.mode = "active_only" /\ request.active = <<>> => plan.targets = <<>>
      BY <3>1, <3>2, <3>3, PlanIsSound
    <3>5. viewed = AgentView(kept.devices, kept.prev, Automatic)
      BY <2>1 DEF DInv, ViewInv
    <3>6. DOMAIN kept.devices \subseteq Devices
      BY DEF DInv, KeptInv
    <3>7. CASE DOMAIN kept.devices = {}
      <4>1. request.active = <<>>
        <5>1. request.active \in Orders(kept.devices, 0)
          BY <3>2, <3>7 DEF InOrder
        <5>2. DOMAIN kept.devices \subseteq Devices
          BY <3>6
        <5> DEFINE at == kept.devices
                   s == request.active
        <5>3. DOMAIN at \subseteq Devices /\ DOMAIN at = {} /\ s \in Orders(at, 0)
          BY <3>7, <5>1, <5>2
        <5> HIDE DEF at, s
        <5>4. s = <<>>
          BY <5>3, OrdersAre
        <5> QED
          BY <5>4 DEF s
      <4>2. viewed = [state |-> "offline", primary |-> 0]
        BY <3>5, <3>7 DEF AgentView
      <4> QED
        BY <3>4, <4>1, <4>2
    <3>8. CASE DOMAIN kept.devices # {}
      <4>1. request.active # <<>> /\ request.active[1] = p
        BY <3>2, <3>6, <3>8, OrdersAre DEF InOrder
      <4>2. viewed = [state |-> IF kept.devices[p].score >= ActiveFrom THEN "active" ELSE "away",
                      primary |-> p]
        BY <3>5, <3>8 DEF AgentView
      <4> QED
        BY <3>4, <4>1, <4>2 DEF ActiveFrom
    <3> QED
      BY <3>7, <3>8
  <2>2. ASSUME DOMAIN kept.devices # {}
        PROVE  SnapshotPrimary(kept.devices, Chosen(kept.devices, kept.prev))
                 = Chosen(kept.devices, kept.prev).primary
    BY <2>2 DEF Chosen, Keeps, SnapshotPrimary
  <2> QED
    BY <2>1, <2>2 DEF ShownIsServed
<1> QED
  BY <1>1, DecisionsInductive, PTL

(* No agent fans out, addresses a device or sees presence by default. *)
THEOREM AuthorityGranted == DSpec => []AuthorityIsGranted
<1>1. DInv => AuthorityIsGranted
  <2> SUFFICES ASSUME DInv PROVE AuthorityIsGranted
    OBVIOUS
  <2> DEFINE granted(s) == asked # Unasked /\ s \in asked
  <2>1. ASSUME NEW s \in {"broadcast", "target_device", "presence"},
               HasScopes(GrantedScopes(asked), {s})
        PROVE  granted(s)
    BY <2>1 DEF HasScopes, GrantedScopes, DefaultScopes
  <2>2. plan.made => HasScopes(GrantedScopes(asked), ModeScopes(request.mode))
    BY DEF DInv, PlanInv, Unplanned, MayCreate
  <2>3. plan.made /\ request.mode = "all_devices" => granted("broadcast")
    BY <2>1, <2>2 DEF ModeScopes
  <2>4. plan.made /\ request.mode = "specific_device" => granted("target_device")
    BY <2>1, <2>2 DEF ModeScopes
  <2>5. viewed # NoView => granted("presence")
    BY <2>1 DEF DInv, ViewInv
  <2> QED
    BY <2>3, <2>4, <2>5 DEF AuthorityIsGranted
<1> QED
  BY <1>1, DecisionsInductive, PTL

(* compute_activity_score grows with every signal of activity, whatever    *)
(* the others are and the clamp cuts off.                                  *)
THEOREM LivelierScored == DSpec => LivelierScoresMore
<1>1. DInv /\ [DNext]_dvars => [Score(obs') >= Score(obs)]_obs
  BY LivelierScores DEF DInv, DNext, Plan, Look, Show, dvars
<1> QED
  BY <1>1, DecisionsInductive, PTL DEF DSpec, LivelierScoresMore

=============================================================================
