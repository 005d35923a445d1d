----------------------------- MODULE DeviceProofs -----------------------------
(***************************************************************************)
(* Proofs about a device: how it is paired with an account (Pairing.tla),  *)
(* for any users, pairings, codes and redemptions and any number of        *)
(* devices, and the app that runs on it (Client.tla), for any              *)
(* notifications, refreshes, wakes, log-ins and faults.                    *)
(***************************************************************************)
EXTENDS Pairing, Client, TLAPS

-----------------------------------------------------------------------------
(* Pairing. *)

RowType == [state : {"none", "open", "used", "expired", "gone"}, user : User, code : Code]

CallType ==
  [pc : {"idle", "sent", "redeeming"}, shown : Pairing \cup {NoPairing},
   code : Code \cup {NoCode}, row : Pairing \cup {NoPairing}]

Alive(p) == pairing[p].user \in users

(* What was shown stays in the table as long as its account exists, so     *)
(* that a select which finds one row has found it; and if it was used when *)
(* it was entered, it is still used and not selected.                      *)
RedemptionInv(c) ==
  call[c].pc # "idle" =>
    /\ call[c].shown \in Pairing
    /\ call[c].code \in {NoCode, pairing[call[c].shown].code}
    /\ call[c].pc = "redeeming" => call[c].row \in Pairing
    /\ Alive(call[c].shown) =>
         /\ call[c].shown \in Kept
         /\ call[c].pc = "redeeming" => call[c].row = call[c].shown
         /\ c \in late => call[c].pc = "sent" /\ pairing[call[c].shown].state = "used"

(* A device is of the account whose pairing was redeemed for it. *)
DevicesAreOwned == \A d \in devices : d.user \in users /\ d.user = pairing[d.row].user

PInv ==
  /\ TypeOK
  /\ \A c \in Call : RedemptionInv(c)
  /\ DevicesAreOwned /\ DeviceJoinsWhatWasShown

-----------------------------------------------------------------------------
LEMMA InitPInv == Init => PInv
BY DevicesAssumption DEF Init, PInv, TypeOK, RedemptionInv, Unsent, DevicesAreOwned,
   DeviceJoinsWhatWasShown

(* What a step may do to the pairings without a call noticing: users only  *)
(* go, and the rows of those that stay are kept, the used ones as used.    *)
PairingsOnlyAge ==
  /\ users' \subseteq users
  /\ \A p \in Pairing :
       /\ pairing'[p].user = pairing[p].user /\ pairing'[p].code = pairing[p].code
       /\ Alive(p)' /\ p \in Kept => p \in Kept'
       /\ Alive(p)' /\ pairing[p].state = "used" => pairing'[p].state = "used"

LEMMA Bystander ==
  ASSUME NEW c \in Call, RedemptionInv(c), PairingsOnlyAge,
         call'[c] = call[c], c \in late' => c \in late
  PROVE  RedemptionInv(c)'
<1> SUFFICES ASSUME call[c].pc # "idle"
             PROVE  /\ call[c].shown \in Pairing
                    /\ call[c].code \in {NoCode, pairing'[call[c].shown].code}
                    /\ call[c].pc = "redeeming" => call[c].row \in Pairing
                    /\ Alive(call[c].shown)' =>
                         /\ call[c].shown \in Kept'
                         /\ call[c].pc = "redeeming" => call[c].row = call[c].shown
                         /\ c \in late' =>
                              call[c].pc = "sent" /\ pairing'[call[c].shown].state = "used"
  BY DEF RedemptionInv, Alive
<1>1. call[c].shown \in Pairing
  BY DEF RedemptionInv
<1>2. Alive(call[c].shown)' => Alive(call[c].shown)
  BY <1>1 DEF PairingsOnlyAge, Alive
<1> QED
  BY <1>1, <1>2 DEF RedemptionInv, PairingsOnlyAge

(* Devices stay as they are, or go, with their users. *)
LEMMA DevicesStay ==
  ASSUME PInv, PairingsOnlyAge, devices' \subseteq devices,
         \A d \in devices' : d.user \in users'
  PROVE  DevicesAreOwned' /\ DeviceJoinsWhatWasShown'
<1>1. \A d \in devices : d.shown \in Pairing /\ d.row \in Pairing
  BY DEF PInv, TypeOK
<1> QED
  BY <1>1 DEF PInv, DevicesAreOwned, DeviceJoinsWhatWasShown, PairingsOnlyAge

(* The life of a pairing. *)
LEMMA PairingPInv ==
  ASSUME PInv, NEW p \in Pairing, CreatePairing(p) \/ Expires(p)
  PROVE  PInv'
<1>1. PICK st \in {"open", "expired"} :
        /\ pairing' = [pairing EXCEPT ![p] = [pairing[p] EXCEPT !.state = st]]
        /\ pairing[p].state \in {"none", "open"}
        /\ UNCHANGED <<users, devices, paired, call, late>>
  BY DEF CreatePairing, Expires
<1>2. pairing \in [Pairing -> RowType]
  BY DEF PInv, TypeOK, RowType
<1>3. TypeOK'
  BY <1>1, <1>2 DEF PInv, TypeOK, RowType
<1>4. PairingsOnlyAge
  BY <1>1, <1>2 DEF PairingsOnlyAge, Alive, Kept, RowType
<1>5. \A c \in Call : RedemptionInv(c)'
  BY <1>1, <1>4, Bystander DEF PInv
<1>6. DevicesAreOwned' /\ DeviceJoinsWhatWasShown'
  BY <1>1, <1>4, DevicesStay DEF PInv, DevicesAreOwned
<1> QED
  BY <1>3, <1>5, <1>6 DEF PInv

(* A step of one redemption that writes no row and pairs no device.        *)
LEMMA QuietStep ==
  ASSUME PInv, NEW c \in Call, NEW q \in CallType,
         call' = [call EXCEPT ![c] = q],
         late' \subseteq Call, \A d \in Call \ {c} : d \in late' => d \in late,
         UNCHANGED <<users, pairing, devices, paired>>,
         RedemptionInv(c)'
  PROVE  PInv'
<1>1. TypeOK'
  BY DEF PInv, TypeOK, CallType
<1>2. PairingsOnlyAge
  BY DEF PairingsOnlyAge, Alive, Kept
<1>3. ASSUME NEW d \in Call, d # c PROVE RedemptionInv(d)'
  <2>1. call'[d] = call[d]
    BY <1>3 DEF PInv, TypeOK
  <2> QED
    BY <1>2, <1>3, <2>1, Bystander DEF PInv
<1>4. DevicesAreOwned' /\ DeviceJoinsWhatWasShown'
  BY <1>2, DevicesStay DEF PInv, DevicesAreOwned
<1> QED
  BY <1>1, <1>3, <1>4 DEF PInv

(* What is entered is in the table. *)
LEMMA EnterPInv ==
  ASSUME PInv, NEW c \in Call, NEW p \in Pairing, NEW k \in Code \cup {NoCode}, Enter(c, p, k)
  PROVE  PInv'
<1> DEFINE q == [pc |-> "sent", shown |-> p, code |-> k, row |-> NoPairing]
<1>1. /\ p \in Kept /\ k \in {NoCode, pairing[p].code}
      /\ call' = [call EXCEPT ![c] = q]
      /\ late' = IF pairing[p].state = "used" THEN late \cup {c} ELSE late \ {c}
      /\ UNCHANGED <<users, pairing, devices, paired>>
  BY DEF Enter
<1>2. q \in CallType /\ call'[c] = q
  BY <1>1 DEF CallType, PInv, TypeOK
<1>3. RedemptionInv(c)'
  BY <1>1, <1>2 DEF RedemptionInv, Kept
<1>4. late' \subseteq Call /\ \A d \in Call \ {c} : d \in late' => d \in late
  BY <1>1 DEF PInv, TypeOK
<1> QED
  BY <1>1, <1>2, <1>3, <1>4, QuietStep

(* A select that finds one row has found what was shown, if its account    *)
(* exists; and a row that is redeemable was not used when it was entered.  *)
LEMMA SelectPInv ==
  ASSUME PInv, NEW c \in Call, Select(c)
  PROVE  PInv'
<1>1. PICK p \in Pairing :
        /\ call[c].pc = "sent" /\ Match(c, p) /\ Redeemable(p)
        /\ call' = [call EXCEPT ![c] = [call[c] EXCEPT !.pc = "redeeming", !.row = p]]
  BY DEF Select
<1> DEFINE q == [call[c] EXCEPT !.pc = "redeeming", !.row = p]
<1>2. UNCHANGED <<users, pairing, devices, paired, late>>
  BY DEF Select
<1>3. /\ q \in CallType /\ call'[c] = q
      /\ q.pc = "redeeming" /\ q.row = p /\ q.shown = call[c].shown /\ q.code = call[c].code
  <2>1. call[c] \in CallType
    BY DEF PInv, TypeOK, CallType
  <2> QED
    BY <1>1, <2>1 DEF CallType, PInv, TypeOK
<1>4. RedemptionInv(c) /\ call[c].shown \in Pairing
  BY <1>1 DEF PInv, RedemptionInv
<1>5. ASSUME Alive(call[c].shown)
      PROVE  p = call[c].shown /\ c \notin late
  <2>1. call[c].shown \in Kept /\ call[c].code \in {NoCode, pairing[call[c].shown].code}
    BY <1>1, <1>4, <1>5 DEF RedemptionInv
  <2>2. call[c].shown \in Found(c)
    BY <2>1 DEF Found
  <2>3. p = call[c].shown
    BY <1>1, <2>2 DEF Match
  <2> QED
    BY <1>1, <1>4, <1>5, <2>3 DEF Redeemable, RedemptionInv
<1> HIDE DEF q
<1>6. RedemptionInv(c)'
  BY <1>1, <1>2, <1>3, <1>4, <1>5 DEF RedemptionInv, Alive, Kept
<1>7. late' \subseteq Call /\ \A d \in Call \ {c} : d \in late' => d \in late
  BY <1>2 DEF PInv, TypeOK
<1> QED
  BY <1>1, <1>2, <1>3, <1>6, <1>7, QuietStep DEF q

(* A redemption that is refused leaves everything as it was. *)
LEMMA RefusePInv ==
  ASSUME PInv, NEW c \in Call, Refuse(c) \/ RedeemRaises(c)
  PROVE  PInv'
<1>1. call' = [call EXCEPT ![c] = Unsent] /\ UNCHANGED <<users, pairing, devices, paired, late>>
  BY DEF Refuse, RedeemRaises, End
<1>2. Unsent \in CallType
  BY DEF Unsent, CallType
<1>3. RedemptionInv(c)'
  BY <1>1 DEF RedemptionInv, Unsent, PInv, TypeOK
<1>4. late' \subseteq Call /\ \A d \in Call \ {c} : d \in late' => d \in late
  BY <1>1 DEF PInv, TypeOK
<1> QED
  BY <1>1, <1>2, <1>3, <1>4, QuietStep

(* The new device is of the account whose pairing was redeemed, and of the *)
(* one that showed it, if that one is still there.                         *)
LEMMA RedeemPInv ==
  ASSUME PInv, NEW c \in Call, Redeem(c)
  PROVE  PInv'
<1> DEFINE r == call[c].row
<1>1. /\ call[c].pc = "redeeming" /\ call' = [call EXCEPT ![c] = Unsent]
      /\ Alive(r) /\ paired < Devices
      /\ devices' = devices \cup {Paired(c)} /\ paired' = paired + 1
      /\ pairing' = [pairing EXCEPT ![r] = [pairing[r] EXCEPT !.state = "used"]]
      /\ UNCHANGED <<users, late>>
  BY DEF Redeem, End, Alive
<1>2. r \in Pairing /\ call[c].shown \in Pairing /\ RedemptionInv(c)
  BY <1>1 DEF PInv, RedemptionInv
<1>3. pairing \in [Pairing -> RowType] /\ paired \in Nat /\ Devices \in Nat
  BY DevicesAssumption DEF PInv, TypeOK, RowType
<1>4. pairing' \in [Pairing -> RowType]
  BY <1>1, <1>2, <1>3 DEF RowType
<1>5. Paired(c) \in [id : Nat, shown : Pairing, row : Pairing, user : User]
  BY <1>2, <1>3 DEF Paired, RowType
<1>6. TypeOK'
  <2>1. Unsent \in CallType
    BY DEF Unsent, CallType
  <2>2. paired' \in 0..Devices
    BY <1>1, <1>3
  <2> QED
    BY <1>1, <1>4, <1>5, <2>1, <2>2 DEF PInv, TypeOK, RowType, CallType
<1>7. PairingsOnlyAge
  BY <1>1, <1>2, <1>3 DEF PairingsOnlyAge, Alive, Kept, RowType
<1>8. ASSUME NEW d \in Call PROVE RedemptionInv(d)'
  <2>1. CASE d = c
    BY <1>1, <2>1 DEF RedemptionInv, Unsent, PInv, TypeOK
  <2>2. CASE d # c
    BY <1>1, <1>7, <2>2, Bystander DEF PInv, TypeOK
  <2> QED
    BY <2>1, <2>2
<1>9. /\ Paired(c).user \in users /\ Paired(c).user = pairing[r].user
      /\ Paired(c).row = r /\ Paired(c).shown = call[c].shown
      /\ Alive(call[c].shown) => r = call[c].shown
  BY <1>1, <1>2 DEF Paired, Alive, RedemptionInv
<1>10. \A q \in Pairing : pairing'[q].user = pairing[q].user
  BY <1>7 DEF PairingsOnlyAge
<1>11. DevicesAreOwned'
  <2>1. \A d \in devices : d.row \in Pairing
    BY DEF PInv, TypeOK
  <2> QED
    BY <1>1, <1>2, <1>9, <1>10, <2>1 DEF PInv, DevicesAreOwned
<1>12. DeviceJoinsWhatWasShown'
  <2>1. \A d \in devices : d.shown \in Pairing
    BY DEF PInv, TypeOK
  <2> QED
    BY <1>1, <1>2, <1>9, <1>10, <2>1 DEF PInv, DeviceJoinsWhatWasShown, Alive
<1> QED
  BY <1>6, <1>8, <1>11, <1>12 DEF PInv

(* Deletions take devices and pairings of an account together. *)
LEMMA DeletePInv ==
  ASSUME PInv, (\E d \in devices : DeleteDevice(d)) \/ (\E u \in User : DeleteUser(u))
  PROVE  PInv'
<1>1. pairing \in [Pairing -> RowType]
  BY DEF PInv, TypeOK, RowType
<1>2. CASE \E d \in devices : DeleteDevice(d)
  <2>1. devices' \subseteq devices /\ UNCHANGED <<users, pairing, paired, call, late>>
    BY <1>2 DEF DeleteDevice
  <2>2. PairingsOnlyAge
    BY <2>1 DEF PairingsOnlyAge, Alive, Kept
  <2>3. TypeOK'
    BY <2>1 DEF PInv, TypeOK
  <2>4. \A c \in Call : RedemptionInv(c)'
    BY <2>1, <2>2, Bystander DEF PInv
  <2>5. DevicesAreOwned' /\ DeviceJoinsWhatWasShown'
    BY <2>1, <2>2, DevicesStay DEF PInv, DevicesAreOwned
  <2> QED
    BY <2>3, <2>4, <2>5 DEF PInv
<1>3. ASSUME NEW u \in User, DeleteUser(u)
      PROVE  PInv'
  <2>1. /\ users' = users \ {u} /\ devices' = {d \in devices : d.user # u}
        /\ pairing' = [p \in Pairing |-> IF pairing[p].user = u /\ p \in Kept
                                         THEN [pairing[p] EXCEPT !.state = "gone"] ELSE pairing[p]]
        /\ UNCHANGED <<paired, call, late>>
    BY <1>3 DEF DeleteUser
  <2>2. ASSUME NEW p \in Pairing
        PROVE  /\ pairing'[p] \in RowType
               /\ pairing'[p].user = pairing[p].user /\ pairing'[p].code = pairing[p].code
               /\ pairing[p].user # u => pairing'[p] = pairing[p]
    BY <1>1, <2>1 DEF RowType
  <2>3. pairing' \in [Pairing -> RowType]
    BY <2>1, <2>2
  <2>4. TypeOK'
    BY <2>1, <2>3 DEF PInv, TypeOK, RowType
  <2>5. PairingsOnlyAge
    BY <2>1, <2>2 DEF PairingsOnlyAge, Alive, Kept
  <2>6. \A c \in Call : RedemptionInv(c)'
    BY <2>1, <2>5, Bystander DEF PInv
  <2>7. DevicesAreOwned' /\ DeviceJoinsWhatWasShown'
    BY <2>1, <2>5, DevicesStay DEF PInv, DevicesAreOwned
  <2> QED
    BY <2>4, <2>6, <2>7 DEF PInv
<1> QED
  BY <1>2, <1>3

-----------------------------------------------------------------------------
LEMMA StepPInv == PInv /\ [Next]_vars => PInv'
<1> SUFFICES ASSUME PInv, [Next]_vars PROVE PInv'
  OBVIOUS
<1>1. CASE UNCHANGED vars
  BY <1>1 DEF vars, PInv, TypeOK, RedemptionInv, Alive, Kept, DevicesAreOwned, DeviceJoinsWhatWasShown
<1> QED
  BY <1>1, PairingPInv, EnterPInv, SelectPInv, RefusePInv, RedeemPInv, DeletePInv DEF Next

(* What was shown stays in the table, and what it was used for before it   *)
(* was entered stays done, in every state.                                 *)
THEOREM PairingInductive == Spec => []PInv
BY InitPInv, StepPInv, PTL DEF Spec

(* The types, for any users, pairings and codes. *)
THEOREM PairingTypeCorrect == Spec => []TypeOK
<1>1. PInv => TypeOK
  BY DEF PInv
<1> QED BY <1>1, PairingInductive, PTL

(* redeem_pairing: however many codes collide, a device joins the account  *)
(* that showed the code, and what was used when it was entered pairs       *)
(* nothing.                                                                *)
THEOREM RedemptionsSound == Spec => []RedemptionsAreSound
<1>1. PInv => RedemptionsAreSound
  <2> SUFFICES ASSUME PInv PROVE LateRedemptionIsRefused
    BY DEF PInv, RedemptionsAreSound
  <2>1. late \subseteq Call
    BY DEF PInv, TypeOK
  <2> QED
    BY <2>1 DEF PInv, RedemptionInv, Alive, LateRedemptionIsRefused
<1> QED BY <1>1, PairingInductive, PTL

(* delete_user leaves no device behind, and no redemption that overlaps it *)
(* does: a device is of the account whose pairing was redeemed for it.     *)
THEOREM DevicesOwned == Spec => []DevicesAreOwned
<1>1. PInv => DevicesAreOwned
  BY DEF PInv
<1> QED BY <1>1, PairingInductive, PTL

-----------------------------------------------------------------------------
(* The app. *)

(* Every WsClient but the one that the app holds has been closed, and that *)
(* one has not: a late reconnect timer of the others opens nothing.        *)
HeldInv ==
  /\ ws \notin closed
  /\ \A c \in 1..made : c # ws => c \in closed
  /\ channel \subseteq {ws} \ {0}
  /\ ws # 0 => ws \in channel \cup timer

CInv == CTypeOK /\ HeldInv /\ ListedOnce

-----------------------------------------------------------------------------
LEMMA InitCInv == CInit => CInv
<1> SUFFICES ASSUME CInit PROVE CInv
  OBVIOUS
<1>1. tokens \in BOOLEAN
  BY Zenon DEF CInit
<1>2. /\ load \in [Load -> [pc : {"idle", "asked", "answered"}, notes : SUBSET Note]]
      /\ wake \in [Wake -> [pc : {"idle", "woken", "presenting"}, notes : SUBSET Note]]
  BY DEF CInit, Idle
<1>3. CTypeOK
  BY <1>1, <1>2, LoginsAssumption, FaultsAssumption DEF CInit, Empty, CTypeOK
<1>4. HeldInv /\ ListedOnce
  BY DEF CInit, Empty, HeldInv, ListedOnce
<1> QED
  BY <1>3, <1>4 DEF CInv

(* Connecting, losing the connection and logging out. *)
LEMMA SocketsCInv ==
  ASSUME CInv,
         SetUp \/ Disconnect \/ Forget \/ \E c \in Client : Drop(c) \/ Reconnect(c)
  PROVE  CInv'
<1>0. /\ made \in 0..Logins /\ ws \in {0, made} /\ channel \cup timer \cup closed \subseteq 1..made
      /\ events \subseteq Client \X Note
  BY DEF CInv, CTypeOK
<1>1. CASE SetUp
  <2>1. /\ ws = 0 /\ made < Logins /\ made' = made + 1 /\ ws' = made + 1
        /\ channel' = channel \cup {made + 1}
        /\ UNCHANGED <<server, events, timer, closed, list, shown, popping, load, wake, faults>>
    BY <1>1 DEF SetUp, view, calls
  <2>2. tokens' \in BOOLEAN
    BY <1>1, Zenon DEF SetUp
  <2>3. made + 1 \in 0..Logins /\ 1..made \subseteq 1..(made + 1) /\ made + 1 \in 1..(made + 1)
    BY <1>0, <2>1, LoginsAssumption
  <2>4. CTypeOK'
    BY <2>1, <2>2, <2>3 DEF CInv, CTypeOK
  <2>5. HeldInv'
    BY <1>0, <2>1, LoginsAssumption DEF CInv, HeldInv
  <2>6. ListedOnce'
    BY <2>1 DEF CInv, ListedOnce
  <2> QED
    BY <2>4, <2>5, <2>6 DEF CInv
<1>2. CASE Disconnect
  <2>1. /\ ws # 0 /\ ws' = 0 /\ closed' = closed \cup {ws} /\ channel' = channel \ {ws}
        /\ events' = {e \in events : e[1] # ws}
        /\ UNCHANGED <<server, tokens, made, timer, list, shown, popping, load, wake, faults>>
    BY <1>2 DEF Disconnect, view, calls
  <2>2. ws \in 1..made
    BY <1>0, <2>1, LoginsAssumption
  <2>3. CTypeOK'
    BY <1>0, <2>1, <2>2 DEF CInv, CTypeOK
  <2>4. HeldInv'
    BY <1>0, <2>1, LoginsAssumption DEF CInv, HeldInv
  <2>5. ListedOnce'
    BY <2>1 DEF CInv, ListedOnce
  <2> QED
    BY <2>3, <2>4, <2>5 DEF CInv
<1>3. CASE Forget
  <2>1. /\ list' = Empty
        /\ UNCHANGED <<server, events, ws, made, channel, timer, closed, shown, popping,
                       load, wake, faults>>
    BY <1>3 DEF Forget, sockets, calls
  <2>2. tokens' \in BOOLEAN
    BY <1>3, Zenon DEF Forget
  <2> QED
    BY <2>1, <2>2 DEF CInv, CTypeOK, HeldInv, ListedOnce, Empty
<1>4. ASSUME NEW c \in Client, Drop(c) PROVE CInv'
  <2>1. /\ channel' = channel \ {c} /\ c \in channel
        /\ timer' = IF c \in closed THEN timer ELSE timer \cup {c}
        /\ events' = {e \in events : e[1] # c} /\ faults' \in 0..MaxFaults
        /\ UNCHANGED <<server, tokens, ws, made, closed, list, shown, popping, load, wake>>
    BY <1>4, FaultsAssumption DEF Drop, Fault, CInv, CTypeOK, view, calls
  <2>2. CTypeOK'
    BY <1>0, <2>1 DEF CInv, CTypeOK
  <2>3. HeldInv' /\ ListedOnce'
    BY <2>1 DEF CInv, HeldInv, ListedOnce
  <2> QED
    BY <2>2, <2>3 DEF CInv
<1>5. ASSUME NEW c \in Client, Reconnect(c) PROVE CInv'
  <2>1. /\ c \in timer /\ timer' = timer \ {c}
        /\ channel' = IF MayOpen(c) THEN channel \cup {c} ELSE channel
        /\ UNCHANGED <<server, events, tokens, ws, made, closed, list, shown, popping,
                       load, wake, faults>>
    BY <1>5 DEF Reconnect, view, calls
  <2>2. CTypeOK'
    BY <1>0, <2>1 DEF CInv, CTypeOK
  <2>3. c \in 1..made /\ c # 0
    BY <1>0, <2>1, LoginsAssumption
  <2>4. MayOpen(c) <=> c = ws
    BY <2>3 DEF MayOpen, CInv, HeldInv
  <2>5. HeldInv' /\ ListedOnce'
    BY <2>1, <2>3, <2>4 DEF CInv, HeldInv, ListedOnce
  <2> QED
    BY <2>2, <2>5 DEF CInv
<1> QED
  BY <1>1, <1>2, <1>3, <1>4, <1>5

(* What the server lists is stored there. *)
LEMMA NewestStored == Newest \subseteq server.stored
BY DEF Newest, NewestOf

(* What inserting does. *)
LEMMA WithOnce ==
  ASSUME NEW n \in Note, list \in [Note -> Nat], ListedOnce
  PROVE  With(n) \in [Note -> Nat] /\ \A m \in Note : With(n)[m] <= 1
BY DEF With, ListedOnce

(* Storing and reading at the server. *)
LEMMA ServerCInv ==
  ASSUME CInv, NEW n \in Note, Create(n) \/ Read(n)
  PROVE  CInv'
<1>0. UNCHANGED <<tokens, ws, made, channel, timer, closed, list, shown, popping, load, faults>>
  BY DEF Create, Read, sockets, view, calls
<1>1. /\ server' \in [stored : SUBSET Note, read : SUBSET Note]
      /\ server'.read \subseteq server'.stored
  BY DEF Create, Read, CInv, CTypeOK
<1>2. events' \subseteq Client \X Note
  <2>1. channel \subseteq Client
    BY LoginsAssumption DEF CInv, CTypeOK, Client
  <2> QED
    BY <2>1 DEF Create, Read, CInv, CTypeOK
<1>3. wake' \in [Wake -> [pc : {"idle", "woken", "presenting"}, notes : SUBSET Note]]
  BY DEF Create, Read, calls, CInv, CTypeOK
<1> QED
  BY <1>0, <1>1, <1>2, <1>3 DEF CInv, CTypeOK, HeldInv, ListedOnce

(* The calls that fill the list. *)
LEMMA CallsCInv ==
  ASSUME CInv,
         \/ Present \/ CallFails \/ \E l \in Load : LoadAsk(l)
         \/ \E w \in Wake : Handle(w)
  PROVE  CInv'
<1>0. /\ list \in [Note -> Nat] /\ ListedOnce /\ events \subseteq Client \X Note
      /\ server \in [stored : SUBSET Note, read : SUBSET Note]
      /\ shown \subseteq Note /\ popping \subseteq Note
      /\ load \in [Load -> [pc : {"idle", "asked", "answered"}, notes : SUBSET Note]]
      /\ wake \in [Wake -> [pc : {"idle", "woken", "presenting"}, notes : SUBSET Note]]
  BY DEF CInv, CTypeOK
<1>a. ASSUME UNCHANGED <<server, tokens, ws, made, channel, timer, closed>>,
             events' \subseteq events, list' \in [Note -> Nat],
             \A n \in Note : list'[n] <= 1,
             shown' \subseteq Note, popping' \subseteq Note,
             load' \in [Load -> [pc : {"idle", "asked", "answered"}, notes : SUBSET Note]],
             wake' \in [Wake -> [pc : {"idle", "woken", "presenting"}, notes : SUBSET Note]],
             faults' \in 0..MaxFaults
      PROVE  CInv'
  BY <1>a DEF CInv, CTypeOK, HeldInv, ListedOnce
<1>b. faults \in 0..MaxFaults /\ \A n \in Note : list[n] <= 1
  BY DEF CInv, CTypeOK, ListedOnce
<1>1. ASSUME NEW c \in Client, NEW n \in Note, Receive(c, n) PROVE CInv'
  BY <1>0, <1>a, <1>b, <1>1, WithOnce DEF Receive, sockets, calls
<1>2. ASSUME NEW n \in Note, Popped(n) PROVE CInv'
  BY <1>0, <1>a, <1>b, <1>2 DEF Popped, sockets, calls
<1>3. ASSUME NEW l \in Load, LoadAsk(l) \/ LoadAnswer(l) PROVE CInv'
  <2>1. load' \in [Load -> [pc : {"idle", "asked", "answered"}, notes : SUBSET Note]]
    <3>1. Newest \in SUBSET Note
      BY <1>0, NewestStored
    <3> QED
      BY <1>0, <1>3, <3>1 DEF LoadAsk, LoadAnswer
  <2> QED
    BY <1>0, <1>a, <1>b, <1>3, <2>1 DEF LoadAsk, LoadAnswer, sockets, view
<1>4. ASSUME NEW l \in Load, LoadApply(l) PROVE CInv'
  <2>1. load' \in [Load -> [pc : {"idle", "asked", "answered"}, notes : SUBSET Note]]
    BY <1>0, <1>4 DEF LoadApply, Idle
  <2>2. list' \in [Note -> Nat] /\ \A n \in Note : list'[n] <= 1
    BY <1>4 DEF LoadApply, Replaced
  <2> QED
    BY <1>0, <1>a, <1>b, <1>4, <2>1, <2>2 DEF LoadApply, sockets
<1>5. ASSUME NEW w \in Wake, WakeFetch(w) \/ WakeDone(w) PROVE CInv'
  <2>1. wake' \in [Wake -> [pc : {"idle", "woken", "presenting"}, notes : SUBSET Note]]
    <3>1. Newest \ server.read \in SUBSET Note
      BY <1>0, NewestStored
    <3> QED
      BY <1>0, <1>5, <3>1 DEF WakeFetch, WakeDone, Idle
  <2> QED
    BY <1>0, <1>a, <1>b, <1>5, <2>1 DEF WakeFetch, WakeDone, sockets, view
<1>6. ASSUME NEW w \in Wake, WakePresent(w) PROVE CInv'
  <2>1. PICK n \in wake[w].notes :
          /\ list' = With(n) /\ shown' = WakeShows(n)
          /\ wake' = [wake EXCEPT ![w].notes = @ \ {n}]
    BY <1>6 DEF WakePresent
  <2>2. n \in Note
    BY <1>0, <2>1
  <2>3. wake' \in [Wake -> [pc : {"idle", "woken", "presenting"}, notes : SUBSET Note]]
    BY <1>0, <2>1
  <2> QED
    BY <1>0, <1>a, <1>b, <1>6, <2>1, <2>2, <2>3, WithOnce DEF WakePresent, WakeShows, sockets
<1>7. CASE CallFails
  <2>1. /\ load' \in [Load -> [pc : {"idle", "asked", "answered"}, notes : SUBSET Note]]
        /\ wake' \in [Wake -> [pc : {"idle", "woken", "presenting"}, notes : SUBSET Note]]
    BY <1>0, <1>7 DEF CallFails, Idle
  <2>2. faults' \in 0..MaxFaults
    BY <1>b, <1>7, FaultsAssumption DEF CallFails, Fault
  <2> QED
    BY <1>0, <1>a, <1>b, <1>7, <2>1, <2>2 DEF CallFails, sockets, view
<1> QED
  BY <1>1, <1>2, <1>3, <1>4, <1>5, <1>6, <1>7 DEF Present, Handle

LEMMA StepCInv == CInv /\ [CNext]_cvars => CInv'
<1>1. CInv /\ UNCHANGED cvars => CInv'
  BY DEF cvars, sockets, view, calls, CInv, CTypeOK, HeldInv, ListedOnce
<1> QED
  BY <1>1, SocketsCInv, ServerCInv, CallsCInv DEF CNext

-----------------------------------------------------------------------------
(* Whatever the app, the network and the server do, and in whatever order. *)
THEOREM ClientInductive == CSpec => []CInv
BY InitCInv, StepCInv, PTL DEF CSpec

(* The variables keep to their values. *)
THEOREM ClientTypeCorrect == CSpec => []CTypeOK
<1>1. CInv => CTypeOK
  BY DEF CInv
<1> QED
  BY <1>1, ClientInductive, PTL

(* A device never holds two connections, none after its log-out, and is    *)
(* never left without one or a timer that will open it, however many       *)
(* timers of earlier log-ins still run.                                    *)
THEOREM ConnectedOnce == CSpec => []OneConnection
<1>1. CInv => OneConnection
  BY DEF CInv, HeldInv, OneConnection
<1> QED
  BY <1>1, ClientInductive, PTL

(* Socket, wakes and refreshes list no notification twice. *)
THEOREM NotListedTwice == CSpec => []ListedOnce
<1>1. CInv => ListedOnce
  BY DEF CInv
<1> QED
  BY <1>1, ClientInductive, PTL

-----------------------------------------------------------------------------
(* What needs no fairness of WakesShow and RefreshesConverge. *)

(* A wake has yet to bring n: it will find it on the server's list, or has *)
(* found it there.                                                         *)
Brings(w, n) ==
  \/ wake[w].pc = "woken" /\ n \in Newest
  \/ wake[w].pc = "presenting" /\ n \in wake[w].notes

(* A wake lets go of a notification that is to be seen only by showing it, *)
(* be it on the list already, or because it was read, the user has logged  *)
(* out or the request failed, or newer ones pushed it off the server's     *)
(* list before the wake had asked; never because of what else is under     *)
(* way.                                                                    *)
THEOREM WakesLoseNothing ==
  CSpec => [][\A w \in Wake, n \in Note \ Silent :
                Brings(w, n) => \/ Brings(w, n)' \/ n \in shown'
                                \/ n \in server.read \/ ~tokens \/ faults' > faults
                                \/ wake[w].pc = "woken" /\ n \notin Newest']_cvars
<1> DEFINE NotLost ==
      \A w \in Wake, n \in Note \ Silent :
        Brings(w, n) => \/ Brings(w, n)' \/ n \in shown'
                        \/ n \in server.read \/ ~tokens \/ faults' > faults
                        \/ wake[w].pc = "woken" /\ n \notin Newest'
<1>1. ASSUME CInv, [CNext]_cvars PROVE [NotLost]_cvars
  <2> SUFFICES ASSUME CNext, NEW w \in Wake, NEW n \in Note \ Silent, Brings(w, n),
                      n \notin server.read, tokens
               PROVE  \/ Brings(w, n)' \/ n \in shown' \/ faults' > faults
                      \/ wake[w].pc = "woken" /\ n \notin Newest'
    BY <1>1
  <2>1. /\ wake \in [Wake -> [pc : {"idle", "woken", "presenting"}, notes : SUBSET Note]]
        /\ server \in [stored : SUBSET Note, read : SUBSET Note] /\ faults \in Nat
    BY <1>1 DEF CInv, CTypeOK
  <2>2. (\A m \in Note : ~Create(m)) => server'.stored = server.stored
    BY <2>1 DEF CNext, Read, SetUp, Disconnect, Forget, CallFails, Drop, Reconnect,
       Present, Receive, Popped, LoadAsk, LoadAnswer, LoadApply, Handle, WakeFetch, WakePresent,
       WakeDone
  <2>n. server'.stored = server.stored => Newest' = Newest
    BY DEF Newest
  <2>3. ASSUME wake'[w] = wake[w], Newest' = Newest PROVE Brings(w, n)'
    BY <2>3 DEF Brings
  <2>4. ASSUME NEW m \in Note, Create(m)
        PROVE  Brings(w, n)' \/ (wake[w].pc = "woken" /\ n \notin Newest')
    <3>1. wake'[w] = wake[w] \/ (wake[w].pc = "idle" /\ wake'[w].pc = "woken")
      BY <2>1, <2>4 DEF Create
    <3> QED
      BY <3>1 DEF Brings
  <2>5. ASSUME NEW v \in Wake, WakeFetch(v) PROVE Brings(w, n)'
    <3>1. /\ wake[v].pc = "woken"
          /\ wake' = [wake EXCEPT ![v] = [pc |-> "presenting", notes |-> Newest \ server.read]]
      BY <2>5 DEF WakeFetch
    <3>2. server'.stored = server.stored
      BY <2>5 DEF WakeFetch
    <3> QED
      BY <2>1, <2>n, <3>1, <3>2 DEF Brings
  <2>6. ASSUME NEW v \in Wake, WakePresent(v) PROVE Brings(w, n)' \/ n \in shown'
    <3>1. server'.stored = server.stored
      BY <2>6 DEF WakePresent
    <3> QED
      BY <2>1, <2>n, <2>6, <3>1 DEF WakePresent, WakeShows, Brings
  <2>7. ASSUME NEW v \in Wake, WakeDone(v) PROVE Brings(w, n)'
    <3>1. server'.stored = server.stored
      BY <2>7 DEF WakeDone
    <3> QED
      BY <2>1, <2>n, <2>7, <3>1 DEF WakeDone, Brings
  <2>8. CASE CallFails
    BY <2>1, <2>8 DEF CallFails, Fault
  <2>9. CASE \E m \in Note : Create(m)
    BY <2>4, <2>9
  <2>10. CASE ~\E m \in Note : Create(m)
    <3>1. Newest' = Newest
      BY <2>2, <2>n, <2>10
    <3> QED
      BY <2>3, <2>5, <2>6, <2>7, <2>8, <2>10, <3>1
         DEF CNext, Read, SetUp, Disconnect, Forget, Drop, Reconnect, Present, Receive, Popped,
             LoadAsk, LoadAnswer, LoadApply, Handle, calls
  <2> QED
    BY <2>9, <2>10
<1> QED
  BY <1>1, ClientInductive, PTL DEF CSpec

(* These are listed, and no answer on its way lacks any of them. *)
Converged(notes) ==
  /\ \A n \in notes : list[n] = 1
  /\ \A l \in Load : load[l].pc = "answered" => notes \subseteq load[l].notes

(* Whatever is delivered, fetched and refreshed, and in whatever order: an *)
(* app's list that has all of the server's, with no older answer on its    *)
(* way, keeps all of it until something new is stored or the user logs     *)
(* out.                                                                    *)
THEOREM ListRemainsComplete ==
  ASSUME NEW notes \in SUBSET Note
  PROVE  CSpec => [](Converged(NewestOf(notes)) /\ [](server.stored = notes /\ tokens)
                       => [](\A n \in Newest : list[n] = 1))
<1> DEFINE listed == NewestOf(notes)
<1>0. listed \subseteq Note
  BY DEF NewestOf
<1> HIDE DEF listed
<1>1. ASSUME CInv, Converged(listed), Newest = listed, tokens', [CNext]_cvars
      PROVE  Converged(listed)'
  <2>1. list \in [Note -> Nat]
        /\ load \in [Load -> [pc : {"idle", "asked", "answered"}, notes : SUBSET Note]]
    BY <1>1 DEF CInv, CTypeOK
  <2>2. ASSUME list' = list, load' = load PROVE Converged(listed)'
    BY <1>1, <2>2 DEF Converged
  <2>3. ASSUME NEW n \in Note, list' = With(n), load' = load PROVE Converged(listed)'
    BY <1>1, <2>1, <2>3 DEF Converged, With
  <2>4. ASSUME NEW l \in Load, LoadAsk(l) \/ LoadAnswer(l) PROVE Converged(listed)'
    <3>1. list' = list
      BY <2>4 DEF LoadAsk, LoadAnswer, view
    <3>2. \A k \in Load : load'[k] = load[k] \/ load'[k].pc = "asked" \/ load'[k].notes = listed
      <4>1. CASE LoadAsk(l)
        BY <2>1, <4>1 DEF LoadAsk
      <4>2. CASE LoadAnswer(l)
        BY <1>1, <2>1, <4>2 DEF LoadAnswer
      <4> QED
        BY <2>4, <4>1, <4>2
    <3> QED
      BY <1>1, <3>1, <3>2 DEF Converged
  <2>5. ASSUME NEW l \in Load, LoadApply(l) PROVE Converged(listed)'
    BY <1>1, <2>1, <2>5 DEF LoadApply, Replaced, Idle, Converged
  <2>6. ASSUME NEW w \in Wake, Handle(w) PROVE Converged(listed)'
    <3>1. CASE WakePresent(w)
      <4>1. wake[w].notes \subseteq Note
        BY <1>1 DEF CInv, CTypeOK
      <4> QED
        BY <2>3, <3>1, <4>1 DEF WakePresent
    <3> QED
      BY <2>2, <2>6, <3>1 DEF Handle, WakeFetch, WakeDone, view
  <2>7. CASE CallFails
    BY <1>1, <2>1, <2>7 DEF CallFails, Idle, view, Converged
  <2>8. CASE Forget
    BY <1>1, <2>8 DEF Forget
  <2>9. ASSUME NEW n \in Note, \E c \in Client : Receive(c, n) PROVE Converged(listed)'
    BY <2>3, <2>9 DEF Receive, calls
  <2> QED
    BY <1>1, <2>2, <2>4, <2>5, <2>6, <2>7, <2>8, <2>9
       DEF CNext, Create, Read, SetUp, Disconnect, Drop, Reconnect, Present, Popped, calls, view,
           cvars
<1>2. Converged(listed) /\ Newest = listed => \A n \in Newest : list[n] = 1
  BY DEF Converged
<1>3. CInv /\ Converged(listed) /\ Newest = listed /\ tokens' /\ [CNext]_cvars
        => Converged(listed)'
  BY <1>1
<1>4. server.stored = notes => Newest = listed
  BY DEF Newest, listed
<1>5. Converged(NewestOf(notes)) => Converged(listed)
  BY DEF listed
<1> QED
  BY <1>2, <1>3, <1>4, <1>5, ClientInductive, PTL DEF CSpec

=============================================================================
