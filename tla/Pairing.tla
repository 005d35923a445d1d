------------------------------ MODULE Pairing ------------------------------
(***************************************************************************)
(* Pairing devices (server/app/api/devices.py create_pairing,              *)
(* redeem_pairing and delete_device; api/admin.py delete_user).            *)
(*                                                                         *)
(* The console shows a pairing's token (as a QR code) and an 8-digit code, *)
(* drawn at random and not unique; a device sends one of them.  Pairings   *)
(* are kept, used and expired ones too, as long as their user.             *)
(***************************************************************************)
EXTENDS FiniteSets, Naturals

CONSTANTS
  User, Pairing, Code,
  Call,     \* redemptions under way at once
  NoCode,   \* a redemption by token
  NoPairing,
  Devices   \* bound on the devices ever paired

ASSUME CodeAssumption == NoCode \notin Code
ASSUME PairingAssumption == NoPairing \notin Pairing
ASSUME DevicesAssumption == Devices \in Nat

VARIABLES
  users,    \* users that exist
  pairing,  \* the pairing_tokens rows: per pairing its state, user and code
  devices,  \* the device rows: pairing shown to the person, pairing redeemed, user
  paired,   \* devices ever paired
  call,     \* per redemption: pc, the pairing shown, the code sent, the row selected
  late      \* history: redemptions sent after their pairing was used

vars == <<users, pairing, devices, paired, call, late>>

Unsent == [pc |-> "idle", shown |-> NoPairing, code |-> NoCode, row |-> NoPairing]

Kept == {p \in Pairing : pairing[p].state \in {"open", "used", "expired"}}

Init ==
  /\ users = User
  /\ pairing \in [Pairing -> [state : {"none"}, user : User, code : Code]]
  /\ devices = {}
  /\ paired = 0
  /\ call = [c \in Call |-> Unsent]
  /\ late = {}

End(c, from) == call[c].pc = from /\ call' = [call EXCEPT ![c] = Unsent]

-----------------------------------------------------------------------------
(* create_pairing: any code may come up, one that is in use too. *)
CreatePairing(p) ==
  /\ pairing[p].state = "none" /\ pairing[p].user \in users
  /\ pairing' = [pairing EXCEPT ![p].state = "open"]
  /\ UNCHANGED <<users, devices, paired, call, late>>

(* pairing_token_ttl_minutes *)
Expires(p) ==
  /\ pairing[p].state = "open"
  /\ pairing' = [pairing EXCEPT ![p].state = "expired"]
  /\ UNCHANGED <<users, devices, paired, call, late>>

(* A person enters what the console shows of p, or has shown. *)
Enter(c, p, k) ==
  /\ p \in Kept
  /\ k \in {NoCode, pairing[p].code}
  /\ call[c].pc = "idle"
  /\ call' = [call EXCEPT ![c] = [pc |-> "sent", shown |-> p, code |-> k, row |-> NoPairing]]
  /\ late' = IF pairing[p].state = "used" THEN late \cup {c} ELSE late \ {c}
  /\ UNCHANGED <<users, pairing, devices, paired>>

(* The rows the select finds: token hashes are unique, codes are not. *)
Found(c) ==
  {p \in Kept : IF call[c].code = NoCode THEN p = call[c].shown
                ELSE pairing[p].code = call[c].code}

MatchNewest(c, p) ==
  /\ p \in Found(c)
  /\ pairing[p].state = "open" \/ Found(c) = {p}

(* scalar_one_or_none: several rows are an error. *)
Match(c, p) == Found(c) = {p}

RedeemableUnused(p) == pairing[p].state \in {"open", "used"}

Redeemable(p) == pairing[p].state = "open"

(* The row is unused and has not expired. *)
Select(c) ==
  /\ call[c].pc = "sent"
  /\ \E p \in Pairing :
       /\ Match(c, p) /\ Redeemable(p)
       /\ call' = [call EXCEPT ![c].pc = "redeeming", ![c].row = p]
  /\ UNCHANGED <<users, pairing, devices, paired, late>>

(* invalid_pairing_token, or a 500 when the select finds several rows. *)
Refuse(c) ==
  /\ End(c, "sent")
  /\ ~\E p \in Pairing : Match(c, p) /\ Redeemable(p)
  /\ UNCHANGED <<users, pairing, devices, paired, late>>

Paired(c) == [id |-> paired, shown |-> call[c].shown, row |-> call[c].row,
              user |-> pairing[call[c].row].user]

(* The device and its credential are inserted and the row becomes used,    *)
(* blindly, with one commit.                                               *)
Redeem(c) ==
  /\ End(c, "redeeming")
  /\ pairing[call[c].row].user \in users /\ paired < Devices
  /\ devices' = devices \cup {Paired(c)}
  /\ paired' = paired + 1
  /\ pairing' = [pairing EXCEPT ![call[c].row].state = "used"]
  /\ UNCHANGED <<users, late>>

(* The user is gone: the device's foreign key refuses it. *)
RedeemRaises(c) ==
  /\ End(c, "redeeming")
  /\ pairing[call[c].row].user \notin users
  /\ UNCHANGED <<users, pairing, devices, paired, late>>

-----------------------------------------------------------------------------
(* delete_device: the pairing keeps its state. *)
DeleteDevice(d) ==
  /\ d \in devices
  /\ devices' = devices \ {d}
  /\ UNCHANGED <<users, pairing, paired, call, late>>

(* delete_user: devices and pairings cascade. *)
DeleteUser(u) ==
  /\ u \in users
  /\ users' = users \ {u}
  /\ devices' = {d \in devices : d.user # u}
  /\ pairing' = [p \in Pairing |-> IF pairing[p].user = u /\ p \in Kept
                                   THEN [pairing[p] EXCEPT !.state = "gone"] ELSE pairing[p]]
  /\ UNCHANGED <<paired, call, late>>

Next ==
  \/ \E p \in Pairing : CreatePairing(p) \/ Expires(p)
  \/ \E c \in Call :
       \/ Select(c) \/ Refuse(c) \/ Redeem(c) \/ RedeemRaises(c)
       \/ \E p \in Pairing, k \in Code \cup {NoCode} : Enter(c, p, k)
  \/ \E d \in devices : DeleteDevice(d)
  \/ \E u \in User : DeleteUser(u)

Spec == Init /\ [][Next]_vars

-----------------------------------------------------------------------------
(* Invariants *)

(* The values the variables range over. *)
TypeOK ==
  /\ users \subseteq User
  /\ pairing \in [Pairing -> [state : {"none", "open", "used", "expired", "gone"},
                              user : User, code : Code]]
  /\ devices \subseteq [id : Nat, shown : Pairing, row : Pairing, user : User]
  /\ paired \in 0..Devices
  /\ call \in [Call -> [pc : {"idle", "sent", "redeeming"}, shown : Pairing \cup {NoPairing},
                        code : Code \cup {NoCode}, row : Pairing \cup {NoPairing}]]
  /\ late \subseteq Call

(* However codes collide, a device joins the account whose console showed  *)
(* the code that was entered, as long as that account exists.              *)
DeviceJoinsWhatWasShown ==
  \A d \in devices : pairing[d.shown].user \in users => d.row = d.shown

(* A pairing that was used when it was entered pairs nothing, however long *)
(* ago, and also when its device has been deleted since, as long as its    *)
(* account exists.                                                         *)
LateRedemptionIsRefused ==
  \A c \in late :
    call[c].pc = "redeeming" => pairing[call[c].shown].user \notin users

(* Both: what a redemption yields is what the person was shown, once it is *)
(* used for good.                                                          *)
RedemptionsAreSound == DeviceJoinsWhatWasShown /\ LateRedemptionIsRefused

-----------------------------------------------------------------------------
(* What the documents say and the code does not do *)

(* docs/architecture.md: "one-time token (5 min, single use)".             *)
SingleUse == \A d, e \in devices : d.row = e.row => d = e

=============================================================================
