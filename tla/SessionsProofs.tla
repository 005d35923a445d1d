----------------------------- MODULE SessionsProofs -----------------------------
(***************************************************************************)
(* Proofs about Sessions.tla, for both clients, any calls, tokens and      *)
(* faults.                                                                 *)
(***************************************************************************)
EXTENDS Sessions, SequenceTheorems, TLAPS

CallType ==
  [pc : {"idle", "requested", "refreshing", "rotating", "rejected",
         "rotated", "saving", "retried"},
   access : 0..MaxTokens, refresh : 0..MaxTokens, got : 0..MaxTokens]

(* Tokens are known once they are issued; one that is sent is one. *)
KnownInv ==
  /\ revoked \subseteq 1..issued /\ store.refresh <= issued
  /\ \A c \in Call :
       /\ call[c].refresh <= issued
       /\ call[c].pc \in {"refreshing", "rotating"} => call[c].refresh # 0

Fetching(c) == call[c].pc \in {"rotated", "saving"}

(* The refresh token that a call is about to store is good, and nobody     *)
(* else has it.                                                            *)
Fresh(c) ==
  Fetching(c) =>
    /\ call[c].got \in (1..issued) \ revoked /\ call[c].got # store.refresh
    /\ \A d \in Call :
         /\ call[d].refresh # call[c].got
         /\ d # c /\ Fetching(d) => call[d].got # call[c].got

(* What waits to write its refresh token waits once, and is a call of the  *)
(* app that is saving, or its log-out.                                     *)
SavingInv ==
  /\ client = "console" => saving = <<>> /\ store.access = store.refresh
  /\ \A i \in 1..Len(saving) : saving[i] # Out => call[saving[i]].pc = "saving"
  /\ \A i, j \in 1..Len(saving) : saving[i] = saving[j] /\ saving[i] # Out => i = j

(* The refresh token that x writes. *)
Writes(x) == IF x = Out THEN 0 ELSE call[x].got

(* The access token stored is the one whose refresh token is written last. *)
HalvesInv ==
  /\ saving = <<>> => store.access = store.refresh
  /\ saving # <<>> => store.access = Writes(saving[Len(saving)])

(* A dead token is stored only until its successor is. *)
SuccessorInv ==
  store.refresh \in revoked
    => \E c \in Call : Fetching(c) /\ call[c].refresh = store.refresh

IInv ==
  /\ TypeOK /\ KnownInv /\ SavingInv
  /\ \A c \in Call : Fresh(c)
  /\ faults = 0 => HalvesInv /\ SuccessorInv

-----------------------------------------------------------------------------
LEMMA InitIInv == Init => IInv
<1> SUFFICES ASSUME Init PROVE IInv
  OBVIOUS
<1>1. TypeOK
  <2>1. gone \in BOOLEAN
    BY Zenon DEF Init
  <2> QED
    BY <2>1, TokensAssumption, FaultsAssumption DEF Init, TypeOK, Unsent, Both
<1>2. KnownInv /\ SavingInv /\ HalvesInv /\ SuccessorInv
  BY DEF Init, KnownInv, SavingInv, HalvesInv, SuccessorInv, Unsent, Both
<1>3. \A c \in Call : Fresh(c)
  BY DEF Init, Fresh, Fetching, Unsent
<1> QED
  BY <1>1, <1>2, <1>3 DEF IInv

(* A step of a call that has nothing to store afterwards, and leaves the   *)
(* stored tokens alone.  A call that gives up a pair is a fault.           *)
LEMMA MoveStep ==
  ASSUME IInv, NEW c \in Call, NEW q \in CallType,
         call' = [call EXCEPT ![c] = q],
         UNCHANGED <<client, issued, revoked, lapsed, gone, expired, store, saving>>,
         call[c].pc # "saving", q.pc \notin {"rotated", "saving"},
         q.refresh \in {0, call[c].refresh, store.refresh},
         q.pc \in {"refreshing", "rotating"} => q.refresh # 0,
         faults' \in 0..MaxFaults, faults' = 0 => faults = 0 /\ ~Fetching(c)
  PROVE  IInv'
<1>1. /\ call'[c] = q /\ \A d \in Call \ {c} : call'[d] = call[d]
      /\ TypeOK'
  BY DEF IInv, TypeOK, CallType
<1>2. KnownInv'
  <2>1. issued \in Nat /\ store.refresh \in Nat
    BY TokensAssumption DEF IInv, TypeOK
  <2> QED
    BY <1>1, <2>1 DEF IInv, KnownInv
<1>3. ASSUME NEW d \in Call PROVE Fresh(d)'
  <2> SUFFICES ASSUME Fetching(d)' PROVE Fresh(d)'
    BY DEF Fresh
  <2>1. d # c /\ call'[d] = call[d] /\ Fetching(d)
    BY <1>1 DEF Fetching
  <2>2. Fresh(d) /\ call[d].got # 0
    BY <2>1 DEF IInv, Fresh
  <2> QED
    BY <1>1, <2>1, <2>2 DEF Fresh, Fetching
<1>4. \A i \in 1..Len(saving) : saving[i] # Out => saving[i] \in Call \ {c}
  BY DEF IInv, TypeOK, SavingInv
<1>5. SavingInv'
  BY <1>1, <1>4 DEF IInv, SavingInv
<1>6. ASSUME faults' = 0 PROVE HalvesInv' /\ SuccessorInv'
  <2>1. HalvesInv /\ SuccessorInv
    BY <1>6 DEF IInv
  <2>2. saving # <<>> => Len(saving) \in 1..Len(saving)
    BY DEF IInv, TypeOK
  <2>3. HalvesInv'
    BY <1>1, <1>4, <2>1, <2>2 DEF HalvesInv, Writes
  <2>4. SuccessorInv'
    BY <1>1, <1>6, <2>1 DEF SuccessorInv, Fetching
  <2> QED
    BY <2>3, <2>4
<1> QED
  BY <1>1, <1>2, <1>3, <1>5, <1>6 DEF IInv

LEMMA UnsentType ==
  Unsent \in CallType /\ Unsent.pc = "idle" /\ Unsent.refresh = 0 /\ Unsent.got = 0
BY TokensAssumption DEF Unsent, CallType

(* Requests, their answers, and refreshes up to the commit. *)
LEMMA QuietIInv ==
  ASSUME IInv, NEW c \in Call,
         \/ Request(c) \/ Answered(c) \/ Refresh(c) \/ Rotating(c) \/ Rejects(c) \/ Orphaned(c)
         \/ RetryAnswered(c) \/ RotateRaises(c) \/ Lost(c)
         \/ client = "app" /\ Refused(c)
  PROVE  IInv'
<1>1. /\ UNCHANGED <<client, issued, revoked, lapsed, gone, expired, store, saving>>
      /\ faults' \in 0..MaxFaults /\ (faults' = faults \/ faults' # 0)
  BY FaultsAssumption DEF Request, Answered, Refresh, Rotating, Rejects, RetryAnswered,
     Orphaned, RotateRaises, Lost, Refused, Fault, held, rows, IInv, TypeOK
<1>2. call[c] \in CallType /\ store.access \in 0..MaxTokens /\ store.refresh \in 0..MaxTokens
  BY DEF IInv, TypeOK, CallType
<1>3. CASE Request(c)
  <2> DEFINE q == [call[c] EXCEPT !.pc = "requested", !.access = store.access]
  <2>1. call' = [call EXCEPT ![c] = q] /\ call[c].pc = "idle" /\ faults' = faults
    BY <1>3 DEF Request
  <2>2. q \in CallType /\ q.pc = "requested" /\ q.refresh = call[c].refresh
    BY <1>2 DEF CallType
  <2> QED
    BY <1>1, <2>1, <2>2, MoveStep DEF Fetching
<1>4. CASE Refresh(c)
  <2> DEFINE q == [call[c] EXCEPT !.pc = "refreshing", !.refresh = store.refresh]
  <2>1. /\ call' = [call EXCEPT ![c] = q] /\ call[c].pc = "requested" /\ store.refresh # 0
        /\ faults' = faults
    BY <1>4 DEF Refresh
  <2>2. q \in CallType /\ q.pc = "refreshing" /\ q.refresh = store.refresh
    BY <1>2 DEF CallType
  <2> QED
    BY <1>1, <2>1, <2>2, MoveStep DEF Fetching
<1>5. CASE Rotating(c) \/ Rejects(c) \/ Orphaned(c) \/ RotateRaises(c)
  <2>1. PICK from \in {"refreshing", "rotating"}, to \in {"rotating", "rejected"} :
          Goto(c, from, to)
    BY <1>5 DEF Rotating, Rejects, Orphaned, RotateRaises
  <2> DEFINE q == [call[c] EXCEPT !.pc = to]
  <2>2. call' = [call EXCEPT ![c] = q] /\ call[c].pc \in {"refreshing", "rotating"}
    BY <2>1 DEF Goto
  <2>3. q \in CallType /\ q.pc = to /\ q.refresh = call[c].refresh
    BY <1>2 DEF CallType
  <2>4. call[c].refresh # 0
    BY <2>2 DEF IInv, KnownInv
  <2> QED
    BY <1>1, <2>2, <2>3, <2>4, MoveStep DEF Fetching
<1>6. CASE Answered(c) \/ RetryAnswered(c) \/ Lost(c) \/ (client = "app" /\ Refused(c))
  <2>1. /\ call' = [call EXCEPT ![c] = Unsent]
        /\ call[c].pc # "saving" /\ (faults' = 0 => faults = 0 /\ ~Fetching(c))
    BY <1>6, FaultsAssumption DEF Answered, RetryAnswered, Lost, Refused, End, Fault, Fetching,
       IInv, TypeOK
  <2>2. Unsent.pc = "idle" /\ Unsent.refresh = 0
    BY DEF Unsent
  <2> QED
    BY <1>1, <2>1, <2>2, UnsentType, MoveStep
<1> QED
  BY <1>3, <1>4, <1>5, <1>6

(* A log-in or the commit of a refresh: a new pair on its way, and what it *)
(* was asked with dead.                                                    *)
LEMMA IssueIInv ==
  ASSUME IInv, NEW c \in Call, Login(c) \/ Commit(c)
  PROVE  IInv'
<1> DEFINE n == issued + 1
<1>1. /\ issued \in Nat /\ n \in 1..MaxTokens /\ n \in 0..MaxTokens /\ issued' = n
      /\ UNCHANGED <<client, lapsed, gone, expired, store, saving, faults>>
  BY TokensAssumption DEF Login, Commit, held, rows, IInv, TypeOK
<1>2. PICK k \in 0..MaxTokens, q \in CallType :
        /\ call[c].pc \in {"idle", "rotating"}
        /\ k \in {0, call[c].refresh}
        /\ revoked' = revoked \cup ({k} \ {0})
        /\ call' = [call EXCEPT ![c] = q]
        /\ q.pc = "rotated" /\ q.refresh = k /\ q.got = n
  <2>1. call[c] \in CallType
    BY DEF IInv, TypeOK, CallType
  <2>2. CASE Login(c)
    <3> DEFINE q == [Unsent EXCEPT !.pc = "rotated", !.got = n]
    <3>1. q \in CallType /\ q.pc = "rotated" /\ q.refresh = 0 /\ q.got = n
      BY <1>1, UnsentType DEF CallType
    <3>2. /\ call[c].pc = "idle" /\ call' = [call EXCEPT ![c] = q] /\ revoked' = revoked
      BY <2>2 DEF Login, rows
    <3>3. revoked' = revoked \cup ({0} \ {0}) /\ 0 \in 0..MaxTokens
      BY <3>2, TokensAssumption
    <3> HIDE DEF q
    <3> QED
      BY <3>1, <3>2, <3>3
  <2>3. CASE Commit(c)
    <3> DEFINE q == [call[c] EXCEPT !.pc = "rotated", !.got = n]
    <3>1. /\ q \in CallType /\ q.pc = "rotated" /\ q.refresh = call[c].refresh /\ q.got = n
          /\ call[c].refresh \in 0..MaxTokens
      BY <1>1, <2>1 DEF CallType
    <3>2. /\ call[c].pc = "rotating" /\ call' = [call EXCEPT ![c] = q]
          /\ revoked' = revoked \cup {call[c].refresh}
      BY <2>3 DEF Commit
    <3>3. call[c].refresh # 0
      BY <3>2 DEF IInv, KnownInv
    <3> HIDE DEF q
    <3> QED
      BY <3>1, <3>2, <3>3
  <2> QED
    BY <2>2, <2>3
<1>4. /\ call'[c].pc = "rotated" /\ call'[c].refresh = k /\ call'[c].got = n
      /\ \A d \in Call \ {c} : call'[d] = call[d]
  BY <1>2 DEF IInv, TypeOK
<1>5. TypeOK'
  <2>1. revoked' \subseteq Token
    BY <1>2 DEF IInv, TypeOK, Token
  <2> QED
    BY <1>1, <1>2, <2>1 DEF IInv, TypeOK, CallType
<1>6. /\ k <= issued /\ store.refresh \in 0..issued /\ revoked \subseteq 1..issued
      /\ \A d \in Call : call[d].refresh \in 0..issued /\ (Fetching(d) => call[d].got \in 1..issued)
  BY <1>1, <1>2 DEF IInv, KnownInv, Fresh, TypeOK
<1>7. KnownInv'
  BY <1>1, <1>2, <1>4, <1>6 DEF IInv, KnownInv
<1>8. ASSUME NEW d \in Call PROVE Fresh(d)'
  <2> SUFFICES ASSUME Fetching(d)' PROVE Fresh(d)'
    BY DEF Fresh
  <2>1. CASE d = c
    <3>1. call'[d].got = n /\ n \notin revoked' /\ n # store'.refresh
      BY <1>1, <1>2, <1>4, <1>6, <2>1
    <3>2. ASSUME NEW e \in Call
          PROVE  /\ call'[e].refresh # n
                 /\ e # d /\ Fetching(e)' => call'[e].got # n
      BY <1>1, <1>2, <1>4, <1>6, <2>1 DEF Fetching
    <3> QED
      BY <1>1, <1>2, <3>1, <3>2 DEF Fresh
  <2>2. CASE d # c
    <3>1. Fetching(d) /\ Fresh(d) /\ call'[d] = call[d]
      BY <1>4, <2>2 DEF Fetching, IInv
    <3>2. call[d].got # k
      BY <1>1, <1>2, <1>6, <3>1 DEF Fresh
    <3> QED
      BY <1>1, <1>2, <1>4, <1>6, <3>1, <3>2 DEF Fresh, Fetching
  <2> QED
    BY <2>1, <2>2
<1>9. \A i \in 1..Len(saving) : saving[i] # Out => saving[i] \in Call \ {c}
  BY <1>1, <1>2 DEF IInv, TypeOK, SavingInv
<1>10. SavingInv'
  BY <1>1, <1>2, <1>4, <1>9 DEF IInv, SavingInv
<1>11. ASSUME faults' = 0 PROVE HalvesInv' /\ SuccessorInv'
  <2>1. HalvesInv /\ SuccessorInv
    BY <1>1, <1>2, <1>11 DEF IInv
  <2>2. saving # <<>> => Len(saving) \in 1..Len(saving)
    BY DEF IInv, TypeOK
  <2>3. HalvesInv'
    BY <1>1, <1>2, <1>4, <1>9, <2>1, <2>2 DEF HalvesInv, Writes
  <2>4. SuccessorInv'
    <3>1. CASE store.refresh = k
      BY <1>1, <1>2, <1>4, <3>1 DEF SuccessorInv, Fetching
    <3>2. CASE store.refresh # k
      BY <1>1, <1>2, <1>4, <2>1, <3>2 DEF SuccessorInv, Fetching
    <3> QED
      BY <3>1, <3>2
  <2> QED
    BY <2>3, <2>4
<1> QED
  BY <1>5, <1>7, <1>8, <1>10, <1>11 DEF IInv

(* A call that is over has nothing left to store. *)
Over(c) == \E p \in {"idle", "retried"} : call' = [call EXCEPT ![c] = [Unsent EXCEPT !.pc = p]]

LEMMA OverType ==
  ASSUME IInv, NEW c \in Call, Over(c)
  PROVE  /\ call' \in [Call -> CallType]
         /\ call'[c].pc \in {"idle", "retried"} /\ call'[c].refresh = 0
         /\ \A d \in Call \ {c} : call'[d] = call[d]
<1>1. PICK p \in {"idle", "retried"} : call' = [call EXCEPT ![c] = [Unsent EXCEPT !.pc = p]]
  BY DEF Over
<1>2. [Unsent EXCEPT !.pc = p] \in CallType /\ [Unsent EXCEPT !.pc = p].refresh = 0
      /\ [Unsent EXCEPT !.pc = p].pc = p
  BY UnsentType DEF CallType
<1>3. call \in [Call -> CallType]
  BY DEF IInv, TypeOK, CallType
<1> QED
  BY <1>1, <1>2, <1>3

(* The refresh token that is stored is the new one of a call that is done  *)
(* with it, or none: neither is revoked, and no other call has it.         *)
LEMMA RefreshWritten ==
  ASSUME IInv, UNCHANGED <<issued, revoked>>,
         \/ call' = call /\ store'.refresh = 0
         \/ \E c \in Call :
              /\ Over(c)
              /\ store'.refresh = 0 \/ (Fetching(c) /\ store'.refresh = call[c].got)
  PROVE  KnownInv' /\ (\A d \in Call : Fresh(d)') /\ SuccessorInv'
<1>1. issued \in Nat /\ revoked \subseteq 1..issued
  BY TokensAssumption DEF IInv, TypeOK, KnownInv
<1>2. ASSUME NEW d \in Call
      PROVE  call'[d] = call[d] \/ (call'[d].pc \in {"idle", "retried"} /\ call'[d].refresh = 0)
  BY OverType
<1>3. KnownInv'
  <2>1. store'.refresh <= issued
    BY <1>1 DEF IInv, Fresh
  <2>2. \A d \in Call : call'[d].refresh <= issued
    BY <1>1, <1>2 DEF IInv, KnownInv
  <2>3. \A d \in Call : call'[d].pc \in {"refreshing", "rotating"} => call'[d].refresh # 0
    BY <1>2 DEF IInv, KnownInv
  <2> QED
    BY <1>1, <2>1, <2>2, <2>3 DEF KnownInv
<1>4. ASSUME NEW d \in Call PROVE Fresh(d)'
  <2> SUFFICES ASSUME Fetching(d)' PROVE Fresh(d)'
    BY DEF Fresh
  <2>1. Fetching(d) /\ call'[d] = call[d] /\ Fresh(d) /\ call[d].got # 0
    BY <1>1, <1>2 DEF Fetching, IInv, Fresh
  <2>2. store'.refresh # call[d].got
    <3>1. CASE store'.refresh = 0
      BY <2>1, <3>1
    <3>2. CASE store'.refresh # 0
      <4>1. PICK c \in Call : Over(c) /\ Fetching(c) /\ store'.refresh = call[c].got
        BY <3>2
      <4>2. d # c
        BY <2>1, <4>1, OverType DEF Fetching
      <4> QED
        BY <2>1, <4>1, <4>2 DEF Fresh
    <3> QED
      BY <3>1, <3>2
  <2>3. ASSUME NEW e \in Call
        PROVE  /\ call'[e].refresh # call[d].got
               /\ e # d /\ Fetching(e)' => call'[e].got # call[d].got
    BY <1>2, <2>1 DEF Fresh, Fetching
  <2> QED
    BY <2>1, <2>2, <2>3 DEF Fresh
<1>5. store'.refresh \notin revoked
  BY <1>1 DEF IInv, Fresh
<1> QED
  BY <1>3, <1>4, <1>5 DEF SuccessorInv

(* The console writes a pair at once, or none. *)
LEMMA ConsoleIInv ==
  ASSUME IInv, client = "console",
         Logout \/ \E c \in Call : Refreshed(c) \/ Refused(c)
  PROVE  IInv'
<1>1. UNCHANGED <<client, issued, revoked, lapsed, gone, expired, saving, faults>> /\ saving = <<>>
  BY DEF Logout, Refreshed, Refused, rows, IInv, SavingInv
<1>2. PICK x \in 0..MaxTokens :
        /\ store' = Both(x)
        /\ \/ call' = call /\ x = 0
           \/ \E c \in Call : Over(c) /\ (x = 0 \/ (Fetching(c) /\ x = call[c].got))
  <2>1. CASE Logout
    BY <2>1, TokensAssumption DEF Logout
  <2>2. ASSUME NEW c \in Call, Refused(c)
        PROVE  store' = Both(0) /\ Over(c)
    <3>1. Unsent = [Unsent EXCEPT !.pc = "idle"]
      BY DEF Unsent
    <3> QED
      BY <2>2, <3>1 DEF Refused, End, Over
  <2>3. ASSUME NEW c \in Call, Refreshed(c)
        PROVE  store' = Both(call[c].got) /\ Over(c) /\ Fetching(c) /\ call[c].got \in 0..MaxTokens
    BY <2>3 DEF Refreshed, Fetching, IInv, TypeOK, Over
  <2> QED
    BY <2>1, <2>2, <2>3, TokensAssumption
<1>3. store'.refresh = x /\ store'.access = x /\ store' \in [access : 0..MaxTokens, refresh : 0..MaxTokens]
  BY <1>2 DEF Both
<1>4. KnownInv' /\ (\A d \in Call : Fresh(d)') /\ SuccessorInv'
  BY <1>1, <1>2, <1>3, RefreshWritten
<1>5. TypeOK'
  <2>1. call' \in [Call -> CallType]
    BY <1>2, OverType DEF IInv, TypeOK, CallType
  <2> QED
    BY <1>1, <1>3, <2>1 DEF IInv, TypeOK, CallType
<1>6. SavingInv' /\ HalvesInv'
  BY <1>1, <1>3 DEF SavingInv, HalvesInv
<1> QED
  BY <1>4, <1>5, <1>6 DEF IInv

LEMMA AppendSeq ==
  ASSUME NEW S, NEW s \in Seq(S), NEW x \in S
  PROVE  /\ Append(s, x) \in Seq(S) /\ Append(s, x) # <<>>
         /\ Len(s) \in Nat /\ Len(Append(s, x)) = Len(s) + 1
         /\ \A i \in 1..Len(s) : Append(s, x)[i] = s[i]
         /\ Append(s, x)[Len(s) + 1] = x
OBVIOUS

LEMMA TailSeq ==
  ASSUME NEW S, NEW s \in Seq(S), s # <<>>
  PROVE  /\ Tail(s) \in Seq(S) /\ Head(s) = s[1] /\ Head(s) \in S
         /\ Len(s) \in Nat \ {0} /\ Len(Tail(s)) = Len(s) - 1
         /\ \A i \in 1..Len(s) - 1 : Tail(s)[i] = s[i + 1]
         /\ Tail(s) = <<>> <=> Len(s) = 1
<1>1. Len(s) \in Nat \ {0}
  BY EmptySeq
<1>2. Head(s) = s[1] /\ s[1] \in S
  BY <1>1
<1>3. /\ Tail(s) \in Seq(S) /\ Len(Tail(s)) = Len(s) - 1
      /\ \A i \in 1..Len(Tail(s)) : Tail(s)[i] = s[i + 1]
  BY HeadTailProperties
<1>4. Tail(s) = <<>> <=> Len(Tail(s)) = 0
  BY <1>3, EmptySeq
<1> QED
  BY <1>1, <1>2, <1>3, <1>4

(* The app writes an access token, and its refresh token is to follow; so  *)
(* does a log-out.                                                         *)
LEMMA AppendIInv ==
  ASSUME IInv, client = "app",
         Logout \/ \E c \in Call : Refreshed(c)
  PROVE  IInv'
<1>1. UNCHANGED <<client, issued, revoked, lapsed, gone, expired, faults>>
  BY DEF Logout, Refreshed, rows
<1>2. PICK x \in Call \cup {Out} :
        /\ saving' = Append(saving, x)
        /\ store' = [store EXCEPT !.access = Writes(x)]
        /\ Writes(x) \in 0..MaxTokens
        /\ \/ x = Out /\ call' = call
           \/ x \in Call /\ call[x].pc = "rotated" /\ call' = [call EXCEPT ![x].pc = "saving"]
  <2>1. CASE Logout
    BY <2>1, TokensAssumption DEF Logout, Writes
  <2>2. ASSUME NEW c \in Call, Refreshed(c)
        PROVE  /\ saving' = Append(saving, c)
               /\ store' = [store EXCEPT !.access = Writes(c)]
               /\ Writes(c) \in 0..MaxTokens
               /\ call[c].pc = "rotated" /\ call' = [call EXCEPT ![c].pc = "saving"]
    BY <2>2, OutAssumption DEF Refreshed, Writes, IInv, TypeOK
  <2> QED
    BY <2>1, <2>2
<1>3. /\ saving \in Seq(Call \cup {Out})
      /\ store'.refresh = store.refresh /\ store'.access = Writes(x)
      /\ store' \in [access : 0..MaxTokens, refresh : 0..MaxTokens]
  BY <1>2 DEF IInv, TypeOK
<1>4. /\ call' \in [Call -> CallType]
      /\ \A d \in Call : /\ call'[d].got = call[d].got /\ call'[d].refresh = call[d].refresh
                         /\ call[d].pc # "rotated" => call'[d] = call[d]
                         /\ d # x => call'[d] = call[d]
      /\ x # Out => call'[x].pc = "saving" /\ call[x].pc = "rotated"
  <2>1. call \in [Call -> CallType]
    BY DEF IInv, TypeOK, CallType
  <2>2. CASE x = Out /\ call' = call
    BY <2>1, <2>2, OutAssumption
  <2>3. CASE x \in Call /\ call[x].pc = "rotated" /\ call' = [call EXCEPT ![x].pc = "saving"]
    <3> DEFINE q == [call[x] EXCEPT !.pc = "saving"]
    <3>1. q \in CallType /\ q.pc = "saving" /\ q.got = call[x].got /\ q.refresh = call[x].refresh
      BY <2>1, <2>3 DEF CallType
    <3>2. call' = [call EXCEPT ![x] = q]
      BY <2>3
    <3> HIDE DEF q
    <3> QED
      BY <2>1, <2>3, <3>1, <3>2, OutAssumption
  <2> QED
    BY <1>2, <2>2, <2>3
<1>5. \A d \in Call : Fetching(d)' <=> Fetching(d)
  BY <1>4, OutAssumption DEF Fetching
<1>6. TypeOK'
  BY <1>1, <1>2, <1>3, <1>4, AppendSeq DEF IInv, TypeOK, CallType
<1>7. KnownInv'
  <2>1. \A d \in Call : call'[d].pc \in {"refreshing", "rotating"} => call'[d] = call[d]
    BY <1>4, OutAssumption
  <2> QED
    BY <1>1, <1>3, <1>4, <2>1 DEF IInv, KnownInv
<1>8. ASSUME NEW d \in Call PROVE Fresh(d)'
  BY <1>1, <1>3, <1>4, <1>5 DEF IInv, Fresh
<1>9. \A i \in 1..Len(saving) : saving[i] # x \/ saving[i] = Out
  BY <1>4 DEF IInv, SavingInv
<1>10. /\ Len(saving) \in Nat /\ Len(saving') = Len(saving) + 1 /\ saving' # <<>>
       /\ \A i \in 1..Len(saving) : saving'[i] = saving[i]
       /\ saving'[Len(saving) + 1] = x
  BY <1>2, <1>3, AppendSeq
<1>11. SavingInv'
  <2>1. ASSUME NEW i \in 1..Len(saving'), saving'[i] # Out
        PROVE  call'[saving'[i]].pc = "saving"
    <3>1. CASE i = Len(saving) + 1
      BY <1>4, <1>10, <2>1, <3>1
    <3>2. CASE i # Len(saving) + 1
      <4>1. i \in 1..Len(saving) /\ saving'[i] = saving[i] /\ saving[i] \in Call
        BY <1>3, <1>10, <2>1, <3>2
      <4>2. call[saving[i]].pc = "saving"
        BY <2>1, <4>1 DEF IInv, SavingInv
      <4> QED
        BY <1>4, <4>1, <4>2
    <3> QED
      BY <3>1, <3>2
  <2>2. ASSUME NEW i \in 1..Len(saving'), NEW j \in 1..Len(saving'),
               saving'[i] = saving'[j], saving'[i] # Out
        PROVE  i = j
    <3>1. CASE i = Len(saving) + 1 \/ j = Len(saving) + 1
      BY <1>9, <1>10, <2>2, <3>1
    <3>2. CASE ~(i = Len(saving) + 1 \/ j = Len(saving) + 1)
      <4>1. i \in 1..Len(saving) /\ j \in 1..Len(saving)
        BY <1>10, <3>2
      <4> QED
        BY <1>10, <2>2, <4>1 DEF IInv, SavingInv
    <3> QED
      BY <3>1, <3>2
  <2> QED
    BY <1>1, <2>1, <2>2 DEF SavingInv
<1>12. HalvesInv'
  BY <1>3, <1>4, <1>10 DEF HalvesInv, Writes
<1>13. SuccessorInv => SuccessorInv'
  BY <1>1, <1>3, <1>4, <1>5 DEF SuccessorInv
<1> QED
  BY <1>1, <1>6, <1>7, <1>8, <1>11, <1>12, <1>13 DEF IInv

(* The first that waits writes its refresh token: the pair is whole when   *)
(* the last one has.                                                       *)
LEMMA SavedIInv ==
  ASSUME IInv, Saved
  PROVE  IInv'
<1> DEFINE x == Head(saving)
<1>1. /\ saving # <<>> /\ saving' = Tail(saving) /\ saving \in Seq(Call \cup {Out})
      /\ UNCHANGED <<client, issued, revoked, lapsed, gone, expired, faults>>
  BY DEF Saved, rows, IInv, TypeOK
<1>2. /\ x = saving[1] /\ x \in Call \cup {Out}
      /\ Len(saving) \in Nat \ {0} /\ Len(saving') = Len(saving) - 1
      /\ saving' \in Seq(Call \cup {Out})
      /\ \A i \in 1..Len(saving) - 1 : saving'[i] = saving[i + 1]
      /\ saving' = <<>> <=> Len(saving) = 1
  BY <1>1, TailSeq
<1>3. \A i \in 1..Len(saving) : i # 1 => saving[i] # x \/ saving[i] = Out
  BY <1>2 DEF IInv, SavingInv
<1>4. /\ store' = [store EXCEPT !.refresh = Writes(x)] /\ Writes(x) \in 0..MaxTokens
      /\ \/ x = Out /\ call' = call
         \/ x \in Call /\ Over(x) /\ call[x].pc = "saving"
  <2>1. CASE x = Out
    BY <2>1, TokensAssumption DEF Saved, Writes
  <2>2. CASE x # Out
    <3>1. x \in Call /\ call[x].pc = "saving"
      BY <1>2, <2>2 DEF IInv, SavingInv
    <3> QED
      BY <2>2, <3>1 DEF Saved, Writes, Over, IInv, TypeOK
  <2> QED
    BY <2>1, <2>2
<1>5. /\ store' \in [access : 0..MaxTokens, refresh : 0..MaxTokens]
      /\ store'.access = store.access /\ store'.refresh = Writes(x)
  BY <1>4 DEF IInv, TypeOK
<1>6. KnownInv' /\ (\A d \in Call : Fresh(d)') /\ SuccessorInv'
  <2>1. CASE x = Out
    BY <1>1, <1>4, <1>5, <2>1, OutAssumption, RefreshWritten DEF Writes
  <2>2. CASE x # Out
    <3>1. x \in Call /\ Over(x) /\ Fetching(x) /\ store'.refresh = call[x].got
      BY <1>4, <1>5, <2>2 DEF Writes, Fetching
    <3> HIDE DEF x
    <3> QED
      BY <1>1, <3>1, RefreshWritten
  <2> QED
    BY <2>1, <2>2
<1>7. /\ call' \in [Call -> CallType]
      /\ \A d \in Call : d # x => call'[d] = call[d]
  <2>1. CASE x = Out
    BY <1>4, <2>1, OutAssumption DEF IInv, TypeOK, CallType
  <2>2. CASE x # Out
    BY <1>4, <2>2, OverType
  <2> QED
    BY <2>1, <2>2
<1>8. TypeOK'
  BY <1>1, <1>2, <1>5, <1>7 DEF IInv, TypeOK, CallType
<1> HIDE DEF x
<1>9. \A i \in 1..Len(saving') : /\ i + 1 \in 1..Len(saving) /\ saving'[i] = saving[i + 1]
                                 /\ saving'[i] # x \/ saving'[i] = Out
  BY <1>2, <1>3
<1>10. SavingInv'
  <2>1. ASSUME NEW i \in 1..Len(saving'), saving'[i] # Out
        PROVE  call'[saving'[i]].pc = "saving"
    <3>1. saving'[i] \in Call /\ saving'[i] # x /\ call[saving'[i]].pc = "saving"
      BY <1>1, <1>9, <2>1 DEF IInv, SavingInv
    <3> QED
      BY <1>7, <3>1
  <2>2. ASSUME NEW i \in 1..Len(saving'), NEW j \in 1..Len(saving'),
               saving'[i] = saving'[j], saving'[i] # Out
        PROVE  i = j
    <3>1. i + 1 = j + 1
      BY <1>9, <2>2 DEF IInv, SavingInv
    <3> QED
      BY <1>2, <3>1
  <2>3. client # "console"
    BY <1>1 DEF IInv, SavingInv
  <2> QED
    BY <1>1, <2>1, <2>2, <2>3 DEF SavingInv
<1>11. HalvesInv => HalvesInv'
  <2> SUFFICES ASSUME HalvesInv PROVE HalvesInv'
    OBVIOUS
  <2>1. store.access = Writes(saving[Len(saving)])
    BY <1>1 DEF HalvesInv
  <2>2. CASE saving' = <<>>
    BY <1>2, <1>5, <2>1, <2>2 DEF HalvesInv
  <2>3. CASE saving' # <<>>
    <3>1. Len(saving') \in 1..Len(saving') /\ Len(saving') + 1 = Len(saving)
      BY <1>2, <2>3
    <3>2. /\ saving'[Len(saving')] = saving[Len(saving)]
          /\ saving[Len(saving)] # x \/ saving[Len(saving)] = Out
          /\ saving[Len(saving)] \in Call \cup {Out}
      BY <1>1, <1>9, <3>1
    <3>3. (IF saving'[Len(saving')] = Out THEN 0 ELSE call'[saving'[Len(saving')]].got) = store.access
      BY <1>7, <2>1, <3>2 DEF Writes
    <3> QED
      BY <1>5, <2>3, <3>3 DEF HalvesInv, Writes
  <2> QED
    BY <2>2, <2>3
<1> QED
  BY <1>1, <1>6, <1>8, <1>10, <1>11 DEF IInv

(* Time passes, the account goes, and a client that starts anew has        *)
(* nothing to store: that is a fault.                                      *)
LEMMA OthersIInv ==
  ASSUME IInv, Reload \/ DeleteUser \/ \E k \in Token : AccessExpires(k) \/ RefreshExpires(k)
  PROVE  IInv'
<1>1. CASE DeleteUser \/ \E k \in Token : AccessExpires(k) \/ RefreshExpires(k)
  <2>1. /\ expired' \subseteq Token /\ lapsed' \subseteq Token /\ gone' \in BOOLEAN
        /\ UNCHANGED <<client, issued, revoked, store, saving, call, faults>>
    BY <1>1 DEF DeleteUser, AccessExpires, RefreshExpires, rows, held, IInv, TypeOK
  <2> QED
    BY <2>1 DEF IInv, TypeOK, KnownInv, SavingInv, Fresh, Fetching, HalvesInv, Writes, SuccessorInv
<1>2. CASE Reload
  <2>1. /\ call' = [c \in Call |-> Unsent] /\ saving' = <<>>
        /\ faults' \in 0..MaxFaults /\ faults' # 0
        /\ UNCHANGED <<client, issued, revoked, lapsed, gone, expired, store>>
    BY <1>2, FaultsAssumption DEF Reload, Fault, rows, IInv, TypeOK
  <2>2. TypeOK'
    BY <2>1, UnsentType DEF IInv, TypeOK, CallType
  <2>3. KnownInv'
    BY <2>1, UnsentType, TokensAssumption DEF IInv, KnownInv, TypeOK
  <2>4. \A c \in Call : Fresh(c)'
    BY <2>1, UnsentType DEF Fresh, Fetching
  <2>5. SavingInv'
    BY <2>1 DEF IInv, SavingInv
  <2> QED
    BY <2>1, <2>2, <2>3, <2>4, <2>5 DEF IInv
<1> QED
  BY <1>1, <1>2

-----------------------------------------------------------------------------
LEMMA StepIInv == IInv /\ [Next]_vars => IInv'
<1> SUFFICES ASSUME IInv, [Next]_vars PROVE IInv'
  OBVIOUS
<1>1. client \in {"console", "app"}
  BY DEF IInv, TypeOK
<1>2. CASE Logout
  BY <1>1, <1>2, ConsoleIInv, AppendIInv
<1>3. ASSUME NEW c \in Call,
             Login(c) \/ Request(c) \/ Step(c) \/ RotateRaises(c) \/ Lost(c)
      PROVE  IInv'
  <2>1. CASE Refreshed(c)
    BY <1>1, <2>1, ConsoleIInv, AppendIInv
  <2>2. CASE Refused(c)
    BY <1>1, <2>2, ConsoleIInv, QuietIInv
  <2> QED
    BY <1>3, <2>1, <2>2, QuietIInv, IssueIInv DEF Step
<1>4. CASE UNCHANGED vars
  BY <1>4 DEF vars, held, rows, IInv, TypeOK, KnownInv, SavingInv, Fresh, Fetching, HalvesInv, Writes,
              SuccessorInv
<1> QED
  BY <1>2, <1>3, <1>4, SavedIInv, OthersIInv DEF Next

(* That a pair on its way is nobody else's, and who writes last, holds in  *)
(* every state, for both clients.                                          *)
THEOREM Inductive == Spec => []IInv
BY InitIInv, StepIInv, PTL DEF Spec

(* The types, for any calls, tokens and faults. *)
THEOREM TypeCorrect == Spec => []TypeOK
<1>1. IInv => TypeOK
  BY DEF IInv
<1> QED BY <1>1, Inductive, PTL

(* rotate_refresh, with api() of the console and _withAuth of the app: as  *)
(* long as nothing is lost, no overlap of any number of calls leaves a     *)
(* client with a refresh token that was used, or with halves of two pairs: *)
(* one that is not accepted has run out of its own time, or its account is *)
(* deleted, or its successor is about to be stored.                        *)
THEOREM StoredUsable == Spec => []StoredIsUsable
<1>1. IInv => StoredIsUsable
  BY DEF IInv, HalvesInv, SuccessorInv, Fetching, Acceptable, StoredIsUsable
<1> QED BY <1>1, Inductive, PTL

=============================================================================
