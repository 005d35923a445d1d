------------------------------- MODULE Client -------------------------------
(***************************************************************************)
(* The app of one device (client/lib/app_state.dart with ws_client.dart    *)
(* and push/): its list of notifications, fed by its socket, by REST       *)
(* refreshes and by push wakes, and its connection across log-outs.        *)
(*                                                                         *)
(* Dart runs one piece of code at a time; the pieces interleave at every   *)
(* await and timer.  The server is what the app needs of it: it stores a   *)
(* notification and then sends it over the device's socket or wakes the    *)
(* device.  What the app acknowledges and answers is in Delivery.tla and   *)
(* Responses.tla.                                                          *)
(***************************************************************************)
EXTENDS Naturals, FiniteSets

CONSTANTS
  Note,      \* notifications for the device, numbered by their created_at
  Silent,    \* those with presentation "silent"
  Limit,     \* how many GET /notifications returns at most
  Load,      \* refreshes that may be under way
  Wake,      \* wakes that may be under way
  Logins,    \* bound on the times the app is set up
  MaxFaults  \* bound on dropped sockets and failed requests

ASSUME NoteAssumption == Note \subseteq Nat
ASSUME SilentAssumption == Silent \subseteq Note
ASSUME LimitAssumption == Limit \in Nat \ {0}
ASSUME LoginsAssumption == Logins \in Nat
ASSUME FaultsAssumption == MaxFaults \in Nat

Client == 1..Logins   \* the WsClients, one per log-in

VARIABLES
  server,   \* the notifications stored there, and those of them that are read
  events,   \* <<WsClient, notification>> on the wire
  tokens,   \* settings holds the tokens of user and device
  ws,       \* AppState._ws, 0 if null
  made,     \* WsClients made so far
  channel,  \* WsClients with a channel
  timer,    \* WsClients whose reconnect timer runs
  closed,   \* WsClients that were closed
  list,     \* AppState.notifications: how often each one is in it
  shown,    \* popped up by the notifier at some time
  popping,  \* socket deliveries whose notifier.show is awaited
  load,     \* per refresh: pc and answer
  wake,     \* per wake: pc and what is left to present
  faults

sockets == <<ws, made, channel, timer, closed>>
calls == <<load, wake>>
view == <<list, shown, popping>>
cvars == <<server, events, tokens, sockets, view, calls, faults>>

Idle == [pc |-> "idle", notes |-> {}]

Empty == [n \in Note |-> 0]

CInit ==
  /\ server = [stored |-> {}, read |-> {}]
  /\ events = {} /\ tokens = FALSE
  /\ ws = 0 /\ made = 0 /\ channel = {} /\ timer = {} /\ closed = {}
  /\ list = Empty /\ shown = {} /\ popping = {}
  /\ load = [l \in Load |-> Idle]
  /\ wake = [w \in Wake |-> Idle]
  /\ faults = 0

Fault == faults < MaxFaults /\ faults' = faults + 1

-----------------------------------------------------------------------------
(* The server *)

(* list_notifications: the newest, up to the limit. *)
NewestOf(stored) == {n \in stored : Cardinality({m \in stored : m > n}) < Limit}

Newest == NewestOf(server.stored)

(* Dispatched to the device over its socket, or, for an Android device     *)
(* with an endpoint, by a wake (send_push_wakes), which may get lost.      *)
(* Overlapping creations commit in any order, whatever their created_at.   *)
Create(n) ==
  /\ n \notin server.stored
  /\ server' = [server EXCEPT !.stored = @ \cup {n}]
  /\ \/ channel # {} /\ events' = events \cup (channel \X {n}) /\ UNCHANGED wake
     \/ channel = {} /\ UNCHANGED <<events, wake>>
     \/ /\ channel = {}
        /\ \E w \in Wake :
             wake[w].pc = "idle" /\ wake' = [wake EXCEPT ![w].pc = "woken"]
        /\ UNCHANGED events
  /\ UNCHANGED <<tokens, sockets, view, load, faults>>

(* The user reads it in the console. *)
Read(n) ==
  /\ n \in server.stored \ server.read
  /\ server' = [server EXCEPT !.read = @ \cup {n}]
  /\ UNCHANGED <<events, tokens, sockets, view, calls, faults>>

-----------------------------------------------------------------------------
(* Connection and session *)

(* login, pair and its connect; or main, when the tokens were kept. *)
SetUp ==
  /\ ~tokens /\ ws = 0 /\ made < Logins
  /\ tokens' = TRUE
  /\ made' = made + 1
  /\ ws' = made + 1
  /\ channel' = channel \cup {made + 1}
  /\ UNCHANGED <<server, events, timer, closed, view, calls, faults>>

DropForgotten(c) ==
  /\ c \in channel
  /\ Fault
  /\ channel' = channel \ {c}
  /\ UNCHANGED <<server, events, tokens, ws, made, timer, closed, view, calls>>

(* The channel is done or fails: _scheduleReconnect. *)
Drop(c) ==
  /\ c \in channel
  /\ Fault
  /\ channel' = channel \ {c}
  /\ timer' = IF c \in closed THEN timer ELSE timer \cup {c}
  /\ events' = {e \in events : e[1] # c}
  /\ UNCHANGED <<server, tokens, ws, made, closed, view, calls>>

MayOpenAlways(c) == TRUE

(* What the timer's callback checks. *)
MayOpen(c) == c \notin closed

Reconnect(c) ==
  /\ c \in timer
  /\ timer' = timer \ {c}
  /\ channel' = IF MayOpen(c) THEN channel \cup {c} ELSE channel
  /\ UNCHANGED <<server, events, tokens, ws, made, closed, view, calls, faults>>

(* logout: disconnect cancels the subscriptions and closes the WsClient ... *)
Disconnect ==
  /\ tokens /\ ws # 0
  /\ closed' = closed \cup {ws}
  /\ channel' = channel \ {ws}
  /\ events' = {e \in events : e[1] # ws}
  /\ ws' = 0
  /\ UNCHANGED <<server, tokens, made, timer, view, calls, faults>>

(* ... and the settings and the list are cleared. *)
Forget ==
  /\ tokens /\ ws = 0
  /\ tokens' = FALSE
  /\ list' = Empty
  /\ UNCHANGED <<server, events, sockets, shown, popping, calls, faults>>

-----------------------------------------------------------------------------
(* What fills the list *)

WithAgain(n) == [list EXCEPT ![n] = @ + 1]

(* insert, unless a notification with the id is there. *)
With(n) == IF list[n] > 0 THEN list ELSE [list EXCEPT ![n] = 1]

(* _onNotification, to its first await ... *)
Receive(c, n) ==
  /\ <<c, n>> \in events
  /\ events' = events \ {<<c, n>>}
  /\ list' = With(n)
  /\ popping' = IF n \in Silent THEN popping ELSE popping \cup {n}
  /\ UNCHANGED <<server, tokens, sockets, shown, calls, faults>>

(* ... and notifier.show. *)
Popped(n) ==
  /\ n \in popping
  /\ popping' = popping \ {n}
  /\ shown' = shown \cup {n}
  /\ UNCHANGED <<server, events, tokens, sockets, list, calls, faults>>

(* loadNotifications: asked, answered by the server, applied. *)
LoadAsk(l) ==
  /\ tokens /\ load[l].pc = "idle"
  /\ load' = [load EXCEPT ![l].pc = "asked"]
  /\ UNCHANGED <<server, events, tokens, sockets, view, wake, faults>>

LoadAnswer(l) ==
  /\ load[l].pc = "asked"
  /\ load' = [load EXCEPT ![l] = [pc |-> "answered", notes |-> Newest]]
  /\ UNCHANGED <<server, events, tokens, sockets, view, wake, faults>>

ReplacedIfEmpty(notes) ==
  IF list = Empty THEN [n \in Note |-> IF n \in notes THEN 1 ELSE 0] ELSE list

(* clear and addAll. *)
Replaced(notes) == [n \in Note |-> IF n \in notes THEN 1 ELSE 0]

LoadApply(l) ==
  /\ load[l].pc = "answered"
  /\ list' = Replaced(load[l].notes)
  /\ load' = [load EXCEPT ![l] = Idle]
  /\ UNCHANGED <<server, events, tokens, sockets, shown, popping, wake, faults>>

(* handleWake without tokens throws; otherwise fetchPending takes what is  *)
(* unread of the same newest notifications.                                *)
WakeFetch(w) ==
  /\ wake[w].pc = "woken"
  /\ wake' = [wake EXCEPT ![w] =
                IF tokens THEN [pc |-> "presenting", notes |-> Newest \ server.read]
                ELSE Idle]
  /\ UNCHANGED <<server, events, tokens, sockets, view, load, faults>>

WakeShowsNew(n) == IF n \in Silent \/ list[n] > 0 THEN shown ELSE shown \cup {n}

(* Popped up whether or not the list had it. *)
WakeShows(n) == IF n \in Silent THEN shown ELSE shown \cup {n}

(* One turn of the loop, to its await. *)
WakePresent(w) ==
  /\ \E n \in wake[w].notes :
       /\ list' = With(n)
       /\ shown' = WakeShows(n)
       /\ wake' = [wake EXCEPT ![w].notes = @ \ {n}]
  /\ UNCHANGED <<server, events, tokens, sockets, popping, load, faults>>

WakeDone(w) ==
  /\ wake[w].pc = "presenting" /\ wake[w].notes = {}
  /\ wake' = [wake EXCEPT ![w] = Idle]
  /\ UNCHANGED <<server, events, tokens, sockets, view, load, faults>>

(* A request fails, or the refresh of the access token does. *)
CallFails ==
  /\ Fault
  /\ \/ \E l \in Load : load[l].pc = "asked" /\ load' = [load EXCEPT ![l] = Idle]
                        /\ UNCHANGED wake
     \/ \E w \in Wake : wake[w].pc = "woken" /\ wake' = [wake EXCEPT ![w] = Idle]
                        /\ UNCHANGED load
  /\ UNCHANGED <<server, events, tokens, sockets, view>>

-----------------------------------------------------------------------------
Present ==
  \/ \E n \in Note : Popped(n) \/ \E c \in Client : Receive(c, n)
  \/ \E l \in Load : LoadAnswer(l) \/ LoadApply(l)

Handle(w) == WakeFetch(w) \/ WakePresent(w) \/ WakeDone(w)

CNext ==
  \/ \E n \in Note : Create(n) \/ Read(n)
  \/ SetUp \/ Disconnect \/ Forget \/ CallFails
  \/ \E c \in Client : Drop(c) \/ Reconnect(c)
  \/ Present
  \/ \E l \in Load : LoadAsk(l)
  \/ \E w \in Wake : Handle(w)

(* Timers fire, requests are answered and awaits return; users and the     *)
(* network owe nothing.                                                    *)
CSpec ==
  /\ CInit /\ [][CNext]_cvars
  /\ WF_cvars(Present) /\ WF_cvars(Forget)
  /\ \A c \in Client : WF_cvars(Reconnect(c))
  /\ \A w \in Wake : WF_cvars(Handle(w))

-----------------------------------------------------------------------------
(* Invariants *)

(* The values the variables range over. *)
CTypeOK ==
  /\ server \in [stored : SUBSET Note, read : SUBSET Note] /\ server.read \subseteq server.stored
  /\ events \subseteq Client \X Note
  /\ tokens \in BOOLEAN
  /\ ws \in {0, made} /\ made \in 0..Logins
  /\ channel \cup timer \cup closed \subseteq 1..made
  /\ list \in [Note -> Nat]
  /\ shown \cup popping \subseteq Note
  /\ load \in [Load -> [pc : {"idle", "asked", "answered"}, notes : SUBSET Note]]
  /\ wake \in [Wake -> [pc : {"idle", "woken", "presenting"}, notes : SUBSET Note]]
  /\ faults \in 0..MaxFaults

(* Whatever the socket, the wakes and the refreshes bring in, in whatever  *)
(* order, no notification is listed twice.                                 *)
ListedOnce == \A n \in Note : list[n] <= 1

(* A device never holds two connections, and none after its log-out: a     *)
(* reconnect timer that was running at the log-out opens nothing, also     *)
(* when the app was set up again in between.  (Each connection of a device *)
(* replaces the other one's entry at the server.)  Nor is it stranded: up  *)
(* to its log-out it has its connection or a timer that will open one.     *)
OneConnection ==
  /\ channel \subseteq {ws} \ {0}
  /\ ws # 0 => ws \in channel \cup timer

-----------------------------------------------------------------------------
(* Properties of behaviours *)

(* ws_client.dart: "so the client keeps receiving without an app restart". *)
StaysConnected == <>[](ws # 0) => <>[](channel # {})

(* On a wake the app shows what is unread of the notifications that the    *)
(* server's list holds, whatever refreshes and socket deliveries have put  *)
(* on its own list meanwhile.  One that newer ones have pushed off the     *)
(* server's list is only shown if the wake had asked before.               *)
WakesShow ==
  \A w \in Wake, n \in Note \ Silent :
    (wake[w].pc = "woken" /\ n \in Newest)
      ~> (n \in shown \/ n \in server.read \/ n \notin Newest \/ ~tokens \/ faults > 0)

(* Refreshes converge: however old answers, wakes and deliveries overlap,  *)
(* while the app goes on refreshing, its list ends up with all that the    *)
(* server's list holds.                                                    *)
RefreshesConverge ==
  \A l \in Load :
    []<><<LoadApply(l)>>_cvars /\ <>[]tokens => <>[](\A n \in Newest : list[n] = 1)

-----------------------------------------------------------------------------
(* What the documents say and the code does not do *)

(* docs/deployment.md: on a wake the app "fetches the unread notifications *)
(* from the server and shows them".                                        *)
WakesShowUnread ==
  \A w \in Wake, n \in Note \ Silent :
    (wake[w].pc = "woken" /\ n \in server.stored)
      ~> (n \in shown \/ n \in server.read \/ ~tokens \/ faults > 0)

=============================================================================
