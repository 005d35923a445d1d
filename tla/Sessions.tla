------------------------------ MODULE Sessions ------------------------------
(***************************************************************************)
(* A login and its rotating refresh tokens: server/app/auth/service.py and *)
(* the two clients that hold them.  The calls of the web console (api() of *)
(* web/app.js) share the tokens in localStorage, those of the app          *)
(* (_withAuth of client/lib/app_state.dart) the ones in its settings.  The *)
(* app writes a pair in two steps, and keeps it when a refresh is refused. *)
(*                                                                         *)
(* Tokens are numbered as they are issued, an access token with the        *)
(* refresh token it came with.                                             *)
(***************************************************************************)
EXTENDS Naturals, Sequences

CONSTANTS
  Call,       \* API calls and log-ins the client may have under way
  Out,        \* a log-out of the app
  MaxTokens,  \* bound on the tokens issued
  MaxFaults   \* bound on failed requests, lost responses and reloads

ASSUME OutAssumption == Out \notin Call
ASSUME TokensAssumption == MaxTokens \in Nat \ {0}
ASSUME FaultsAssumption == MaxFaults \in Nat

Token == 1..MaxTokens

VARIABLES
  client,   \* "console" or "app"
  issued,   \* tokens issued so far
  revoked,  \* refresh tokens whose row says revoked
  lapsed,   \* refresh tokens past their row's expires_at
  gone,     \* the account is deleted, and its rows with it
  expired,  \* access tokens past their time
  store,    \* the tokens the client holds, 0 if none
  saving,   \* what has written the access token, and is to write the refresh token
  call,     \* per call: pc, the access token and the refresh token it sent, what it got
  faults

held == <<store, saving>>
rows == <<revoked, lapsed, gone>>
vars == <<client, issued, rows, expired, held, call, faults>>

Unsent == [pc |-> "idle", access |-> 0, refresh |-> 0, got |-> 0]

Both(k) == [access |-> k, refresh |-> k]

Init ==
  /\ issued = 0 /\ revoked = {} /\ lapsed = {} /\ gone = FALSE /\ expired = {}
  /\ client \in {"console", "app"}
  /\ store = Both(0) /\ saving = <<>>
  /\ call = [c \in Call |-> Unsent]
  /\ faults = 0

Fault == faults < MaxFaults /\ faults' = faults + 1

Goto(c, from, to) == call[c].pc = from /\ call' = [call EXCEPT ![c].pc = to]

End(c, from) == call[c].pc = from /\ call' = [call EXCEPT ![c] = Unsent]

-----------------------------------------------------------------------------
(* authenticate_user and issue_tokens; the form is shown by an app without *)
(* tokens, by a console also when a boot has failed.                       *)
Login(c) ==
  /\ call[c].pc = "idle" /\ issued < MaxTokens /\ ~gone
  /\ client = "app" => 0 \in {store.access, store.refresh}
  /\ issued' = issued + 1
  /\ call' = [call EXCEPT ![c] = [Unsent EXCEPT !.pc = "rotated", !.got = issued + 1]]
  /\ UNCHANGED <<client, rows, expired, held, faults>>

(* renderShell, Log out, or the start of the app's settings.clear; nothing *)
(* tells the server.                                                       *)
Logout ==
  /\ store.access # 0
  /\ IF client = "console" THEN store' = Both(0) /\ UNCHANGED saving
     ELSE store' = [store EXCEPT !.access = 0] /\ saving' = Append(saving, Out)
  /\ UNCHANGED <<client, issued, rows, expired, call, faults>>

(* ACCESS_TOKEN_TTL_MINUTES *)
AccessExpires(k) ==
  /\ k \in (1..issued) \ expired
  /\ expired' = expired \cup {k}
  /\ UNCHANGED <<client, issued, rows, held, call, faults>>

(* REFRESH_TOKEN_TTL_DAYS, longer than the access token's minutes. *)
RefreshExpires(k) ==
  /\ k \in expired \ lapsed
  /\ lapsed' = lapsed \cup {k}
  /\ UNCHANGED <<client, issued, revoked, gone, expired, held, call, faults>>

(* api/admin.py delete_user *)
DeleteUser ==
  /\ ~gone /\ gone' = TRUE
  /\ UNCHANGED <<client, issued, revoked, lapsed, expired, held, call, faults>>

-----------------------------------------------------------------------------
(* api: the request, with what access token there is. *)
Request(c) ==
  /\ call[c].pc = "idle" /\ store.access # 0
  /\ call' = [call EXCEPT ![c].pc = "requested", ![c].access = store.access]
  /\ UNCHANGED <<client, issued, rows, expired, held, faults>>

(* get_current_user: the token's time, and its user. *)
Welcome(k) == k \notin expired /\ ~gone

(* The access token is accepted, or there is no refresh token any more. *)
Answered(c) ==
  /\ Welcome(call[c].access) \/ store.refresh = 0
  /\ End(c, "requested")
  /\ UNCHANGED <<client, issued, rows, expired, held, faults>>

(* 401: the refresh token stored by now is sent. *)
Refresh(c) ==
  /\ call[c].pc = "requested" /\ ~Welcome(call[c].access)
  /\ store.refresh # 0
  /\ call' = [call EXCEPT ![c].pc = "refreshing", ![c].refresh = store.refresh]
  /\ UNCHANGED <<client, issued, rows, expired, held, faults>>

(* rotate_refresh: there is a row, not revoked and not expired, and a user. *)
Acceptable(k) == ~gone /\ k \notin revoked \cup lapsed

(* The row is selected and checked, and revoked in this session only. *)
Rotating(c) ==
  /\ Acceptable(call[c].refresh)
  /\ Goto(c, "refreshing", "rotating")
  /\ UNCHANGED <<client, issued, rows, expired, held, faults>>

Rejects(c) ==
  /\ ~Acceptable(call[c].refresh)
  /\ Goto(c, "refreshing", "rejected")
  /\ UNCHANGED <<client, issued, rows, expired, held, faults>>

(* The old token is revoked, blindly, and a new pair issued. *)
Commit(c) ==
  /\ issued < MaxTokens /\ ~gone
  /\ issued' = issued + 1
  /\ revoked' = revoked \cup {call[c].refresh}
  /\ call[c].pc = "rotating"
  /\ call' = [call EXCEPT ![c].pc = "rotated", ![c].got = issued + 1]
  /\ UNCHANGED <<client, lapsed, gone, expired, held, faults>>

(* The account is deleted since: the user is not found, or the flush finds *)
(* neither the old row nor what the new one refers to.                     *)
Orphaned(c) ==
  /\ gone
  /\ Goto(c, "rotating", "rejected")
  /\ UNCHANGED <<client, issued, rows, expired, held, faults>>

(* The refresh fails on the server; the client sees a response that is not *)
(* ok, like a refusal.                                                     *)
RotateRaises(c) ==
  /\ Fault
  /\ Goto(c, "refreshing", "rejected") \/ Goto(c, "rotating", "rejected")
  /\ UNCHANGED <<client, issued, rows, expired, held>>

RefreshedInPart(c) ==
  /\ call[c].pc = "rotated"
  /\ store' = [access |-> call[c].got,
               refresh |-> IF call[c].refresh = 0 THEN call[c].got ELSE store.refresh]
  /\ call' = [call EXCEPT ![c] = [Unsent EXCEPT !.pc = "retried"]]
  /\ UNCHANGED <<client, issued, rows, expired, saving, faults>>

(* store.set, over whatever is there; or the first half of setTokens.      *)
Refreshed(c) ==
  /\ call[c].pc = "rotated"
  /\ IF client = "console"
     THEN /\ store' = Both(call[c].got)
          /\ call' = [call EXCEPT ![c] = [Unsent EXCEPT !.pc = "retried"]]
          /\ UNCHANGED saving
     ELSE /\ store' = [store EXCEPT !.access = call[c].got]
          /\ call' = [call EXCEPT ![c].pc = "saving"]
          /\ saving' = Append(saving, c)
  /\ UNCHANGED <<client, issued, rows, expired, faults>>

(* The app's second half: the settings' writes return in the order in      *)
(* which they were asked for.                                              *)
Saved ==
  /\ saving # <<>>
  /\ saving' = Tail(saving)
  /\ LET c == Head(saving) IN
       IF c = Out THEN store' = [store EXCEPT !.refresh = 0] /\ UNCHANGED call
       ELSE /\ store' = [store EXCEPT !.refresh = call[c].got]
            /\ call' = [call EXCEPT ![c] = [Unsent EXCEPT !.pc = "retried"]]
  /\ UNCHANGED <<client, issued, rows, expired, faults>>

(* The console clears the tokens, whoever's they are by now: "Session      *)
(* expired".  The app's call fails, and its tokens stay.                   *)
Refused(c) ==
  /\ End(c, "rejected")
  /\ store' = IF client = "console" THEN Both(0) ELSE store
  /\ UNCHANGED <<client, issued, rows, expired, saving, faults>>

(* The retry's answer is final. *)
RetryAnswered(c) ==
  /\ End(c, "retried")
  /\ UNCHANGED <<client, issued, rows, expired, held, faults>>

(* fetch throws: the response does not arrive, the tokens stay. *)
Lost(c) ==
  /\ Fault
  /\ \E pc \in {"requested", "rotated", "rejected", "retried"} : End(c, pc)
  /\ UNCHANGED <<client, issued, rows, expired, held>>

(* The page or the app starts anew, with the tokens it stored. *)
Reload ==
  /\ Fault
  /\ call' = [c \in Call |-> Unsent]
  /\ saving' = <<>>
  /\ UNCHANGED <<client, issued, rows, expired, store>>

-----------------------------------------------------------------------------
Step(c) ==
  \/ Answered(c) \/ Refresh(c) \/ Rotating(c) \/ Rejects(c) \/ Commit(c) \/ Orphaned(c)
  \/ Refreshed(c) \/ Refused(c) \/ RetryAnswered(c)

Next ==
  \/ Logout \/ Saved \/ Reload \/ DeleteUser
  \/ \E c \in Call : Login(c) \/ Request(c) \/ Step(c) \/ RotateRaises(c) \/ Lost(c)
  \/ \E k \in Token : AccessExpires(k) \/ RefreshExpires(k)

Spec == Init /\ [][Next]_vars

-----------------------------------------------------------------------------
(* Invariants *)

(* The values the variables range over. *)
TypeOK ==
  /\ issued \in 0..MaxTokens
  /\ revoked \subseteq Token /\ lapsed \subseteq Token /\ gone \in BOOLEAN
  /\ expired \subseteq Token
  /\ client \in {"console", "app"}
  /\ store \in [access : 0..MaxTokens, refresh : 0..MaxTokens]
  /\ saving \in Seq(Call \cup {Out})
  /\ call \in [Call -> [pc : {"idle", "requested", "refreshing", "rotating", "rejected",
                              "rotated", "saving", "retried"},
                        access : 0..MaxTokens, refresh : 0..MaxTokens, got : 0..MaxTokens]]
  /\ faults \in 0..MaxFaults

(* As long as no response is lost, rotate_refresh accepts the stored       *)
(* refresh token, but for three reasons: its own time has run out unused,  *)
(* the account is deleted, or a call that is about to store its successor  *)
(* has just used it.  However calls overlap, rotation never leaves the     *)
(* client with a dead token.  And once the app's writes are done it holds  *)
(* a pair that was issued together, or none, although log-ins, refreshes   *)
(* and log-outs write the two halves between one another.                  *)
StoredIsUsable ==
  faults = 0 =>
    /\ store.refresh # 0 =>
         \/ Acceptable(store.refresh)
         \/ store.refresh \notin revoked /\ (gone \/ store.refresh \in lapsed)
         \/ \E c \in Call : call[c].pc \in {"rotated", "saving"} /\ call[c].refresh = store.refresh
    /\ saving = <<>> => store.access = store.refresh

-----------------------------------------------------------------------------
(* What the comments say and the code does not do *)

(* service.py, rotate_refresh: "single-use refresh tokens". *)
SingleUse ==
  \A c, e \in Call :
    c # e /\ call[c].pc = "rotated" /\ call[e].pc = "rotated" /\ call[c].refresh # 0
      => call[c].refresh # call[e].refresh

(* web/app.js, api: "Session expired".  The client gives up its tokens     *)
(* only if they are dead, or its user logs out.                            *)
ClearedIsDead ==
  [][store.refresh # 0 /\ store'.refresh = 0
       => Logout \/ Saved \/ ~Acceptable(store.refresh)]_vars

=============================================================================
