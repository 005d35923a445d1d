# A formal model of MaoMaoNotify

MaoMaoNotify delivers notifications that agents create to the devices of a
user.  A FastAPI server (`src/server/app`) keeps the state in Postgres and
Redis; devices hold a WebSocket to it (Flutter client in `src/client`), users
administer it from a web console (`src/web`).  This directory holds TLA+ models
of the parts where order, concurrency and failure decide whether the system is
right, the TLC runs that check them on small instances, and TLAPS proofs, for
every instance, of the safety properties of all of them that have constants.

Contents: [how the server runs](#how-the-server-runs),
[inventory](#inventory), [modules](#modules), [runs](#runs),
[refuted formulas](#refuted-formulas), [fairness](#fairness),
[proofs](#proofs), [what is left out](#what-is-left-out), [plan](#plan).

## How the server runs

The server is one asyncio process.  A coroutine runs without interruption from
one `await` to the next, so an action of the models is what happens between two
awaits that matter.  Every HTTP request has its own SQLAlchemy session, a
WebSocket connection keeps one for its whole life and the escalation timer
opens its own.  The database is Postgres at READ COMMITTED: a select sees what
is committed, an UPDATE writes the attributes the session changed, whatever
they hold by now, and locks the row until the commit.  `session.get` flushes
pending changes first (autoflush), so it is there that a changed row is locked.
Redis commands are atomic one by one, and a get followed by a set is not.

The Flutter client and the console are single-threaded too; their pieces
interleave at awaits, timers and socket events.

## Inventory

| Component | State | Operations | What is hard about it | Module |
|---|---|---|---|---|
| Routing planner (`routing/engine.py`) | none, pure | `plan_routes` | nobody active, duplicates, priority low | `Routing` |
| Delivery (`notifications/delivery.py`) | delivery rows, notification status | `dispatch`, `send_push_wakes`, `run_fallback`, `schedule_fallback`, `apply_ack`, `mark_read` | push before commit, timer against acks, dead sockets, restart | `Delivery`, `Removal`, `Ledger` |
| Responses (`notifications/responses.py`, `webhooks.py`) | responses, resolution | `submit_response`, broadcast, webhooks | first-response-wins across sessions, a failing send in the middle | `Responses` |
| Notification service (`notifications/service.py`, `api/notifications.py`) | notifications, idempotency keys in Redis | create, list, get, read | idempotency is check-then-set around the whole creation | `Creation` |
| WebSocket gateway and registry (`websocket/`) | `_conns`, Redis `ws:device:*` | connect, messages, disconnect | a reconnect overlaps the old handler's clean-up | `Link`, `Connections` |
| Presence (`presence/`, `api/presence.py`) | Redis hashes with TTLs, the active device | mark online and offline, observe, `select_active` | read-modify-write over several keys, expiry, hysteresis | `Selection`, `Presence` |
| Pairing and devices (`api/devices.py`) | pairing codes, devices, push endpoints, preferences | create, redeem, update, delete | one-time codes redeemed twice, colliding codes, deletion under running coroutines | `Pairing`, `Settings`, `Removal` |
| Authentication (`auth/`) | users, agent tokens, refresh tokens | log-in, rotation, scopes | refresh tokens rotated by two calls at once | `Sessions`, `Agents` |
| Voice (`tts/`, `storage/`, `api/audio.py`) | audio rows, objects | synthesise, upload, attach | row, object and notification succeed or fail separately | `Voice` |
| Flutter client (`client/lib`) | list of notifications, socket, tokens | connect, ack, respond, wake, refresh, log out | reconnect timers, wakes against deliveries and refreshes | `Client` |
| Agents (`api/agents.py`, `auth/scopes.py`) | agents, tokens with scopes, webhooks | create, delete, register webhooks | authority granted by default; deletion while an answer is told | `Agents`, `Responses` |
| Preferences, settings, accounts (`api/preferences.py`, `core/runtime.py`, `api/admin.py`) | one row per user, device or key | get or create, update, delete | creation races, lost updates | `Settings` |
| Schema (`models/`, `server/alembic`) | fifteen tables, six revisions | upgrade, downgrade, cascades | tests run on a schema made another way | `Schema` |
| Console views, native shells, TTS engines, sensors | | | not protocol logic | not modelled |

Interactions: an agent's `POST /notifications` runs service, presence, voice,
routing and delivery in one coroutine; delivery writes to sockets through the
registry; a device's acks and answers come back through the gateway, each in
the handler of its socket; the timer runs beside them.  They share the registry
(memory), the rows (Postgres) and presence (Redis).

`PROJECT.json` lists the hazards of this code line by line, with the properties
that watch each of them, and maps every definition to the lines it models.

## Modules

Every module names its bounds: `MaxFaults` counts lost connections, failing
calls and restarts together, other `Max...` constants and the sizes of the sets
bound the rest.  Most modules begin with `Init`, have one action per step
between two awaits, group them into one disjunct per coroutine, and end with
their properties.  Variables marked *history* are written only to state
properties.  Some modules prefix the standard names, so that one module of
proofs can extend several: `PSpec` is Presence's specification, `DSpec`
MCDecisions', `CSpec` Client's, `RSpec` Removal's, `VoicedSpec` Voice's, and
likewise `PTypeOK`, `dvars` and the others.

### Constants, Routing: planning

`Constants` has the values of `notifications/constants.py`.  `Routing.PlanRoutes`
is `plan_routes`; `MCDecisions` enumerates its inputs, together with those of
`Selection` and `Agents`.  Presence hands over
distinct ids in any order, the table distinct ids in any order, and presence
may hold a device that the table no longer has.

### Delivery: one notification from plan to rows

A device is named by its `order_index` in the plan (plans have no duplicates:
`MCDecisions!TargetsDistinct`).  `disp` is the request's coroutine: it sends
(`DispatchSend`, one step per `manager.send`), commits, wakes, arms the timer.
`timer` is `run_fallback`: it selects and picks in one step, flushes the
cancellation (here the row is locked), sends, commits.  `handler[d]` is a
WebSocket handler applying one ack: select, flush under the row's lock, commit;
its UPDATE is blind.  `wire[d]` are acks under way, `told[d]` how far a client
is with its acks.  Connections come from `Link`.  A dead socket either swallows
a payload or makes the send raise.  `Restart` ends all coroutines, rolls open
transactions back and loses the timer, as `schedule_fallback` keeps it in
memory only.

### Removal: Delivery, with devices that are removed

`Removal` extends Delivery by `delete_device`.  The delivery row goes by
cascade, at any moment at which no transaction holds it (`Locked`); the socket
stays registered, since a connection is authenticated only once.  dispatch's
flush (`FlushRows`) is a step of its own here: the foreign key refuses the rows
of a plan that names a removed device.  The timer and the ack handlers may find
the row gone that they have selected, which raises (`FallbackFindsNoRow`,
`AckFindsNoRow`).  All other steps are Delivery's.

### Ledger: what readers of the rows see

The abstract specification of the three coroutines of `delivery.py`: rows,
status and escalation change at commits only (`Commit`, `Decide`, `Escalate`,
`GiveUp`, `Ack`, `Remove`), with no connections, pushes, locks or sessions.  It
says what `GET /notifications/{id}` may show one after the other: rows appear at
once, one sent row at most where one device is to be disturbed; one escalation,
decided while nobody has acknowledged, from a sent device to a later routed one,
both rows in one commit; acks of devices that were sent to, or of the one that
is being escalated to; nothing for a removed device again.
`Removal!ImplementsLedger` maps `Removal` to it: `escalation` is the timer's
stage with the devices it has picked, all else is the variable of that name.

### Link and Connections: the registry

`Link` is what other coroutines see of connections: an entry per device that is
live, dead or absent, and how many handlers will still remove it on their way
out.  `Connections` is the real thing for one device: successive sockets, each
with a handler at one of the awaits of `ws_endpoint`, the registry entry, the
`ws:device` key and the activity key.  `ImplementsLink` maps one to the other:
sockets that have passed `Accept` and not `Pop` are the `serving` handlers.

### Responses

One notification with actions.  A request is an answer, over a socket or over
REST: loaded, judged on the loaded copy (`Verdict`), committed, then its
devices are told one by one and the agent's webhooks posted one by one.  A
socket handles one message at a time (`SocketBusy`).

Connections are those of `Link`, and come and go at any time: a device may
connect before, during or after a broadcast (`Connect`), go away while its
handler still works on its answer (`PeerGone`; the answer is then one of a
`"former"` socket), and be unregistered by the handler of an old socket
(`HandlerExits`).  An exception after the commit ends the coroutine, and with a
socket's answer also its handler (`Abort`): a send to a dead socket may raise
(`TellRaises`), and so does a post to a URL that httpx cannot parse
(`PostRaises`; `Malformed` are the webhooks that have one, as nobody checks it
when they are registered).  Other posts succeed or fail with an `HTTPError`,
which is logged, and the next webhook follows; nothing is retried.

`agent` is the agent with its webhooks: they may be registered, and the agent
deleted, at any time; `_notify_agent` reads them after the broadcast
(`AllTold`).  `deaf` (history) holds the answers that were not committed when
the agent was deleted, and `here` (history), per answer, the devices that have been
registered with a live socket ever since its commit: only of those is the
broadcast certain to be heard.

### Selection and Presence

`Selection` has the pure part: the score of an observation, with its clamp, and
the choice of `select_active` with threshold and hold.  `Presence` has the
awaits around it: a call writes its device's key, scans, reads the keys one by
one, chooses and writes; keys expire, time passes (`Tick`, ages up to `Hold`),
any call may fail.  A `Call` is a coroutine slot, so two of them overlap in
every way.

### Agents

What `create_agent` grants (`GrantedScopes`: the default set if nothing is
asked for), what a routing mode asks for (`ModeScopes`), and what
`ordered_device_ids` and `GET /agent/presence` make of the entries in Redis:
`Orders` is the set of orders the sort can produce, as it is stable and Redis
scans in no order.  No variables; `MCDecisions` evaluates it.

### Creation and Voice

`Creation` is `create_notification` around dispatch, for several requests that
may share keys: validation (`Refuse`), key lookup, fetching the original,
creation, commit, everything after the commit, key stored, answer.  `Patient`
says whether an agent waits for an answer before it sends a key again.
`DeleteUser` cascades to agents and notifications.  `Voice` extends it and runs
the voice block inside `creating`: synthesis with an engine that may fail, the
put and the signing of the object, or the check of an uploaded asset, its owner
and its object.  A request's `voice` is stored as the agent wrote it, and may bring an
`audio_url` of the agent's own (`AgentUrl`): it stays with `client_tts` and when an
engine fails, and is replaced by what the server signs.  `Voice!VoicedNext` fits each of `Creation`'s steps to that
block.

### Sessions

Calls that share stored tokens, meet expired access tokens, refresh
(`rotate_refresh`: select, revoke, issue, commit) and retry once; of the web
console (`api()` of `web/app.js`) or of the app (`_withAuth`).  The console
stores a pair at once and clears it when a refresh is refused; the app writes
the two halves one after the other (`Refreshed`, `Saved`; a log-out's `clear`
likewise) and keeps them.  `saving` is the order in which the settings plugin
answers, which is that of the calls.  Tokens are numbered in the order of issue.
A refresh token is acceptable if it has a row that is not revoked (`revoked`) and
whose `expires_at` has not passed (`lapsed`), of an account that is not deleted
(`gone`); an access token is welcome until it expires or its account is deleted.

### Pairing

Two users create pairings; the 8-digit code may come up twice, as it is random
and rows are kept.  A redemption gives the token (which identifies one pairing)
or the code (which may match several: `scalar_one_or_none` raises), is judged
on the row it selected and commits later.  Devices and users are deleted at any
time, with the foreign keys' cascades.

### Settings

One row that overlapping requests get, create, update and lose, of one of five
kinds: a user's preferences, a device's, a runtime setting, an account, a
device.  They differ in what a request may ask (`Bodies`), whether a failed
insert is caught (`Recovers`), and what is read back (`AfterInsert`).  A commit
writes the fields whose value differs from the loaded one (`Changed`), as
SQLAlchemy does.  `held` (history) collects, per request, the fields that had
the requested value at some moment since its load.

### Schema

A table is its key, the columns that must and that may be given, its unique
columns and its foreign keys.  `Models` is what `server/app/models` declares,
`Upgrades` and `Downgrades` what the six revisions do, `Migrated` one
transaction of them as `env.py` runs it.  `rows` says which tables hold rows:
a column that may not be null cannot be added to those, and a deletion follows
the foreign keys of the schema *at that revision*.

### Client

The app of one device: `AppState.notifications`, the WsClient of the current
log-in with its reconnect timer, refreshes and wakes under way.  The server is
reduced to what it stores and sends, and its list to the newest `Limit`
notifications (50 in the code), which is what refreshes and wakes are answered
with: `Note` are numbers, in the order of `created_at`.

## Runs

All bounds are in the `.cfg` of the run.  Where the modelled system ends (one
notification, a bounded number of requests, calls, tokens or faults) the run
says `CHECK_DEADLOCK FALSE`.  `connections` and `presence` are checked for
deadlock: a device can always report again.

| Run | Module | What it shows | Bounds, and why they are enough |
|---|---|---|---|
| `decisions` | MCDecisions | Plans are sound (`PlansAreSound`: no target twice; a default-mode notification of a user with devices has a target; a fan-out leaves nobody out and follows presence; low priority arms no timer while some device is active), compared with declarative definitions; the primary an agent is shown is the device its next notification goes to first, and "offline" means that nobody active is served (`ShownIsServed`); an agent created without scopes, or refused some, never reaches a mode that asks for them (`AuthorityIsGranted`); more activity never scores less (`LivelierScoresMore`), clamp included. | Three devices: every order, every overlap of presence and table, every choice of entries with two scores and "away". All observations, all sets of scopes. 148 710 states. |
| `delivery` | MCDelivery | Dispatch, timer and acks of three devices in every interleaving, one fault. `PushesAreOrderly`: pushes follow the plan, reach nobody twice, and escalate once at most. `LedgerIsTrue`: a routed row was not pushed, a cancelled one was replaced, a routed or rolled back notification was shown to nobody. `AcksAreAwaited`: acks find their rows, one row is awaited at most. | Three targets: the one served, one skipped while offline, one escalated to. Proved for every number. 773 000 states. |
| `removal` | MCRemoval | Under fair scheduling and with removals at any moment: an acknowledgement committed before the timer fires is final (`AckBeforeTimeoutIsFinal`), readers of the rows see the steps of the abstract ledger only, whatever connections, locks, faults and removals do between them (`ImplementsLedger`), an armed timer comes to a decision (`TimerEnds`) although acks hold row locks, pushes keep their order and the rows that are left tell the truth (`WhatRemainsIsTrue`: a cancelled device was replaced, by one that may be gone; a routed row was not pushed; only a removed device has the payload and no row), as long as there is no fault and no removal, an unanswered push is followed by one to a later target that stays connected (`SilenceEscalatesToThoseLeft`), and a removed device has no row again and is pushed to only by an escalation that had picked it (`RemovedIsLeftAlone`). | Two devices, either or both removed; clients that may report failure; one fault. 266 000 states. |
| `responses` | Responses | A late answer loses and the resolution is one recorded response (`AnswersAreInOrder`); webhooks carry recorded answers only, once no device is left to tell and every other target that has been connected since the commit shows the resolution, of an agent that still existed when they were committed (`AgentHearsOfRecorded`); of the targets that have been connected since the commit the broadcast passes over none (`TargetsLearn`); under fair scheduling every answer settles: refused, told and posted, or ended by an exception or a restart, and lost only by a fault (`AnswersSettle`). | Two answers overlap in every way, and are sent in the order of their numbers; two devices that are both targets and connect and reconnect freely; two webhooks, one malformed; one good and one unknown action (which action wins does not matter to the properties); one fault; the agent may go. The three invariants are proved for every number of devices, answers and webhooks. 1.85 million states. |
| `connections` | Connections | What is registered is served (`RegisteredIsServed`), nothing stays behind a failure (`NothingLeaks`), the handlers implement `Link` (`ImplementsLink`), a device that stays away is unregistered in the end (`GoneIsUnregistered`). | Three sockets: an old, a new and one in between; two failures. |
| `presence` | MCPresence | A selection nobody overlaps switches only when the primary is gone, away, or held and beaten (`PrimaryHeld`); a device that stays ahead becomes and stays primary however calls overlap (`AheadTakesOver`). | Two devices, two calls, a hold of two ticks; four observations on both sides of the threshold and of "away". |
| `creation` | MCVoice | A key that was answered creates nothing more while it lives (`SettledKeysCreateNothing`), answers and keys name stored notifications of their own key (`NamesAreStored`), nothing is created for a deleted user (`NothingForTheDeleted`), audio that the server attached can be downloaded and is the user's own, and an agent's own URL never stands in its place (`PlayableAndOwn`), a failing engine costs no notification and leaves something to play or to speak (`VoiceIsHeard`). | Three requests and two keys: a repeat, an overlap and an unrelated one; an own and a foreign upload, and a URL of the agent's; one fault. Requests and keys are symmetric, and all properties are invariants. 6.1 million states. |
| `sessions` | MCSessions | `StoredIsUsable`: unless a response was lost, the stored refresh token is accepted, or its own time is over, or the account is deleted, or its successor is about to be stored; and the halves of a stored pair were issued together. | Console and app; three calls or log-ins (symmetric), three tokens (one of a log-in, its successor, and another's), each of which may expire; one fault. 6.4 million states. |
| `pairing` | Pairing | `RedemptionsAreSound`: a device joins the account whose screen showed what was entered, and a redemption that begins after the pairing was used is refused. | Two users, two pairings, two codes that may collide, two redemptions at once. 180 000 states. |
| `client` | Client | No notification twice in the list (`ListedOnce`), never two connections, and between set-up and log-out never none without a timer that opens one (`OneConnection`), the connection comes back (`StaysConnected`), wakes show what is unread in the server's list (`WakesShow`), repeated refreshes leave a list with all of it (`RefreshesConverge`). | Two notifications, one of them silent, stored in either order, of which the server lists the newest one; two log-ins, so that a timer of the first survives into the second; two refreshes that overlap, two wakes, one fault. 331 000 states. |
| `settings` | Settings | What a request was told it set was in the row meanwhile (`AnsweredTookEffect`); a request for a user's preferences fails only if the user is deleted under it, and one of the other kinds also when it loses the race to create the row (`FailuresAreDue`); a field changes only to what a request asks for it (`FieldsAreIndependent`). | Two requests, any number of times; two fields, one validated; two values; each kind of row. 306 000 states. |
| `schema` | Schema | After any upgrades and downgrades the head is what the models declare (`HeadIsModels`), every migration goes through whatever rows there are (`MigrationsGoThrough`; both are `MigrationsAreSound`), users, agents and devices can be deleted, and of a user nothing stays (`DeletionIsComplete`). | Exact: all revisions, every set of filled tables that the foreign keys allow. 22 000 states. |

The types of the variables (`TypeOK`, `PTypeOK`, `CTypeOK`, `VoicedTypeOK`) are
theorems of every module that has them, so that no run repeats them
(MCDecisions' are part of its invariant).

## Refuted formulas

These formulas state what a comment or document says and TLC refutes them; they
stay in the modules because they delimit what does hold.  Each can be checked
again with the `.cfg` named.  The first two lose answers and notifications and
deserve a change of the code; the others are narrower.

| Formula | Says | What happens | Re-run |
|---|---|---|---|
| `Responses!FirstResponseWins` | `responses.py:30`: "Record the response, enforcing first-response-wins" | `resolved_at` is checked on a copy loaded before another answer's commit: both are recorded, both fire webhooks, the later one overwrites the resolution | `tlc -config ResponsesFirst.cfg Responses` |
| `Connections!ConnectedIsOnline` | `gateway.py:81`: "connected ⟹ online" | `disconnect` pops the entry whatever socket it holds: the handler of a device's old socket unregisters the new one, which stays connected and gets nothing | `tlc -config ConnectionsOnline.cfg Connections` |
| `Responses!OthersAreTold` | `responses.py:57`: "Tell the user's other devices to disable the buttons" | a device connects after the broadcast has passed it (`send` returned False): it is connected, shows the buttons and is never told | `ResponsesFirst.cfg`, with this invariant |
| `Responses!WebhooksNeverFail` | `webhooks.py:40`: "Never raises (won't fail the request)" | a URL that cannot be parsed raises `InvalidURL`, which is no `HTTPError`: the request fails after its commit, later webhooks are not posted to | `ResponsesFirst.cfg`, with this property |
| `Removal!RemovalEscalates` | `delivery.py`, `schedule_fallback`: "Escalate delivery after `delay` seconds if unacknowledged" | the device that was sent to is removed before the timer fires: the timer finds nothing sent and declines | `tlc -config RemovalEscalates.cfg MCRemoval` |
| `Delivery!CancelOnlyUnacknowledged` | `delivery.py:8`: "if the sent device has not acknowledged, cancel it" | an ack committed between the timer's select and its commit is overwritten | `tlc -config MCDeliveryCancel.cfg MCDelivery` |
| `Delivery!TrueMeansPushed` | `delivery.py:149`: "Returns True if a fallback push was made." | the candidate leaves before the send, whose result is ignored | `MCDeliveryPushed.cfg` |
| `Delivery!StatusAdvances` | `delivery.py:231`: "advance user-facing status" | one device's "delivered" replaces another's "displayed" | `MCDeliveryStatus.cfg` |
| `Connections!KeyMirrorsEntry` | `websocket/manager.py:4`: the key "mirrors online state" | its TTL of 300 s is never extended | `tlc -config ConnectionsMirror.cfg Connections` |
| `Connections!ObservationIsKept` | `presence/manager.py:28`: "Doesn't clobber a real (higher-fidelity) observation." | an observation recorded between `mark_online`'s get and set is overwritten | `ConnectionsKept.cfg` |
| `Presence!PrimaryHeld` without its conjunct `alone # {}` | `presence/manager.py:1`: "active-device selection with hysteresis" | a selection that gathered earlier writes its choice over a later one's, within the hold | drop the conjunct |
| `Creation!OnePerKey`, requests overlapping | `service.py:78`: "same agent + key returns the original notification" | the second request looks the key up before the first has stored it | `tlc -config CreationOverlap.cfg Creation` |
| `Creation!OnePerKey`, patient agents | `SKILL.md:53`: "retries won't double-ping" | the request fails after dispatch's commit and before the key is stored | `CreationRetry.cfg` |
| `Sessions!SingleUse` | `auth/service.py:57`: "single-use refresh tokens" | two refreshes select the row before either commits | `tlc -config SessionsOnce.cfg Sessions` |
| `Sessions!ClearedIsDead` | `app.js:56`: "Session expired" | the refused one of two refreshes clears the pair the other has stored | `SessionsCleared.cfg` |
| `Pairing!SingleUse` | `architecture.md:29`: "one-time token (5 min, single use)" | two redemptions select the row before either commits | `tlc -config PairingOnce.cfg Pairing` |
| `Client!WakesShowUnread` | `deployment.md:76`: "the app wakes and fetches the unread notifications from the server and shows them" | an unread notification that newer ones have pushed off the server's list is not fetched | `tlc -config ClientWakes.cfg Client` |

Most of them share one shape: a row, key or entry is read, awaited upon, and written
or relied on without a condition.

## Fairness

- Removal (as Delivery's `Fairness`), Responses, Connections, Presence: weak fairness on each server
  coroutine.  The event loop runs whatever is ready; `asyncio.sleep` ends; a row
  lock is granted when its holder commits, and no holder waits for another lock;
  uvicorn's ping timeout reports a peer that is gone.
- Presence: weak fairness on `Tick`, as time passes.
- Client: weak fairness on reconnect timers, on answers being delivered and
  applied, on `notifier.show`, on a wake's handler, and on the second half of a
  log-out.
- No fairness for users, agents, clients' acks, connects, expiries and faults:
  none of them has to happen; nor do removals, deletions and registrations.

Liveness under a fault is stated with the fault as an exception (`faults > 0`)
only where the code gives up: a restart loses the timer, a failed fetch loses a
wake.  Settings, Schema, Sessions, Pairing and Creation have safety properties
only, and no fairness.

## Proofs

TLAPS proves, for all values of the constants under the assumptions the modules
name (sizes are natural numbers, null values are not members of the sets they
are outside of, `Target \subseteq Device`, requests and notifications are numbers, the server's
list has a positive limit, `AckOrder \in Seq(AckStatuses)`, the
devices of MCDecisions are finitely many, Presence's have positive numbers,
threshold and hold are positive): every invariant and every action property
that the runs check, but Schema's; the refinement of the abstract specifications
`Link` and `Ledger`; and the safety half of liveness properties, what their
progress rests on and no fairness is needed for.

Each module of proofs has an inductive invariant (`IInv`, or a name with the
model's prefix), one lemma per group of actions, and theorems that draw the
properties from it.  The properties themselves are seldom inductive; what has
to be added is the interesting part.

**DeliveryProofs** (any number of targets, any ack order, any number of faults).
That pushes follow the plan needs what each coroutine has pushed and will push.
`IInv` is `CoreInv`, which holds whatever rows are deleted, and `RowsStay`, that a
committed target has its row and an ack is applied to a row there is.  `CoreInv` adds

- `PhaseInv`: notification, rows and timer appear in the request's order; there
  is a timer only after dispatch is done, in `active_with_fallback`;
- `PushInv`: every push is dispatch's, before its loop index, or the timer's one;
- `TimerInv`: the timer picked a device dispatch served and a later target;
- `RowInv`: which rows are sent, routed or cancelled, given what the two
  coroutines that write them have done;
- `AckInv`: an ack is applied after the commit, with a status that clients may
  send.

From it follow `TypeCorrect`, `PlanOrder`, `OneEscalation`, `Replacement`,
`OneAwaited`, `LedgerAgrees`, `RoutedSilent`, `AcksFindRows` and
`RolledBackSilent` (a dispatch that fails in an active mode has reached nobody),
and from these the three invariants of the run: `PushesOrderly`, `LedgerTrue`,
`AcksAwaited`.  `EarlyAckIsFinal` proves `AckBeforeTimeoutIsFinal`: a device with
a committed ack before the timer fires is settled, and stays so
(`SettledIsStable`): acks only replace acks, and the timer cancels only a row it
finds sent.

Its second part is about `Removal`, where rows vanish and `RowsStay` does not
hold.  `RInv` says who is safe from that: there is no row and no handler at work
before dispatch has committed (`Unstarted`); no row of a removed device, and no
removed device in a plan whose rows are flushed (`GoneInv`); and whoever has
updated a row, and so locks it, still finds it (`LockInv`).  `RemovalInductive`
proves it.  `RIInv` is `RInv`, `CoreInv` and `RowsAccounted` (a committed target has
its row or is removed).  `CoreDespiteRemovals` proves it with the lemmas of the
first half: a step of Delivery keeps `CoreInv` in either module, once `LockInv`
says that the row an ack is written to is there.  The new steps needed one
strengthening, which the failed proof showed: a timer that has pushed and then
finds its row gone ends as "failed", so that `PushInv` allows for a push by a
failed timer and `RowInv` says that its row is not "routed".
`WhatRemainsTrue` draws `WhatRemainsIsTrue` from it; `RemovedLeftAlone` is the action property
`RemovedIsLeftAlone`, and `EarlyAckIsFinalDespiteRemovals` proves
`AckBeforeTimeoutIsFinal` again, of the behaviours with removals: being settled is
replaced by `Spared`, which also holds of a row that is gone.

The third part is the refinement of `Ledger`.  `LedgerImplemented` has one lemma
per group of steps of Removal, which says which step of the ledger it is, or
that it is none: `CommitsLedger`, `DecidesLedger`, `EscalatesLedger`,
`GivesUpLedger`, `AcksLedger`.  That acks fit needs `AckersHaveIt`
(`AckersWerePushedTo`): an ack on the wire or in a handler is of a device that has
the payload, and whoever has it was pushed to, by dispatch or by the timer, so
that by `RowInv` its row is not routed, or is the one that is being escalated to.
`DeclinesHaveReasons` proves `DeclinesForAReason`, the safety half of
`SilenceEscalatesToThoseLeft`: the two searches of `run_fallback` find a device if
there is one (`SearchesFind`), so that a timeout declines only when somebody has
acknowledged or nobody connected comes after one that is waited for.
`ConnsImplementLink` and `ConnsImplementLinkDespiteRemovals` say that Delivery does
nothing to connections that `Link` does not; they hold nearly by construction, as
Delivery takes them from there.

The theorems `PlanOrder` to `RolledBackSilent`, and likewise `LateLose`,
`ResolutionRecorded`, `AnswersStored` and `KeysStored` below, are parts of
those about the runs' invariants.

**ResponsesProofs**: `RequestInv` says of each answer how its pc fits the table and
what was posted (`ProgressInv`), that a late answer finds the resolution when it
is loaded (`LateInv`), and that an answer that is not committed when the agent
goes finds no webhook when it gets there (`DeafInv`).  Theorems `TypeCorrect`,
`LateLose`, `ResolutionRecorded`, `InOrder` (both together), `ToldHaveLearned`,
`AgentHears`, `ConnsImplementLink`.  The lemmas about steps of connections use of
them only what `Link` says, and `LiveIsUp`: an entry is live only of a device
whose client is there.  `ToldHaveLearned` proves `TargetsLearn`: of the devices that
have been connected since the commit (`here`), those that the broadcast has passed
show the resolution, however connections come and go and broadcasts of several
answers overlap (`ToldInv` adds that they still have their live entry).  With it
`AgentHears` covers the order of devices and agent.  Neither says anything of a
device that connects later: that one may never learn (`OthersAreTold`).

**CreationProofs**: `ProgressInv` ties the pcs to database and key; `SettledInv`
says that a key, once answered, stays in Redis until it expires, and that a
request sent after the answer is on its way to the original.  Theorems
`TypeCorrect`, `SettledCreateNothing`, `AnswersStored`, `KeysStored`,
`NamesStored` (both together), `DeletedHaveNothing`.  `VoicedCreates` proves that
`VoicedSpec` implies `Spec`: whatever the voice block does between the steps of a
creation, these theorems hold of it too.  On top of `IInv`, `BlockInv` says what
the stage of a request in the block tells of its audio (what is to be signed
was put, what is to be looked at is the user's own, what was put is signed), `AudioInv`
that an audio the server has attached is in the store and the user's, whatever
URL the agent wrote itself, and `LastsInv` that without faults a `server_tts` request
is not refused.  Theorems `StoredIsPlayable`, `StoredIsHeard`.

**SettingsProofs**: a request past its load has every field that it asks for
either in `held` or still different from its loaded row, so that the commit will
write it (`Seen`); one that finds no row lost it to a deletion, which `bereft`
remembers, or lost the race to insert it (`Due`).  Theorems `AnswersTookEffect`,
`FailuresDue`, `FieldsIndependent` and `NothingInvalidStored`.

**SessionsProofs**: what a call is about to store is issued, not revoked, and in
no other call's hands (`Fresh`); the app's queue of saves holds each call once
(`SavingInv`), and the last one in it writes the half that belongs to the stored
access token (`HalvesInv`); a revoked token is stored only while its successor is
on the way (`SuccessorInv`).  The last two need a run without faults, which is
what `StoredIsUsable` is about.  Theorem `StoredUsable`: what else can make a stored
token useless is its expiry and the deletion of its account, which no rotation
can prevent.

**ConnectionsProofs**: `EntryInv` and `KeyInv` say that an entry and a key have a
handler that will remove them, or one that failed.  Theorems `RegisteredServed`,
`NothingIsLeaked`, and `Refinement`, which maps the initial state and each step of
the handlers to one of `Link`, or to none (`ImplementsLink`): the handlers at
work are counted there, so that its lemmas are about cardinalities.

**DeviceProofs** is about two models.  Of `Pairing`: what was shown stays in the
table as long as its account exists, so that a select that finds just one row
has found it, even if codes collide; what was used when it was entered stays
used (`RedemptionInv`).  Theorems `RedemptionsSound` and `DevicesOwned` (no device
is left of a deleted account, although redemptions overlap the deletion).  Of
`Client`: every WsClient but the current one is closed, so that a late reconnect
timer opens nothing, and the current one has a channel or a timer (`HeldInv`), so
that it is never stranded.  Theorems `ConnectedOnce` and `NotListedTwice`; and two
safety halves: `WakesLoseNothing` (a wake lets go of an unread notification of the
server's list only by showing it, by a log-out or a failed request, or because
newer ones have pushed it off that list) for `WakesShow`, and
`ListRemainsComplete` for `RefreshesConverge`: a list that has all of the server's,
while no answer that lacks something is on its way (`Converged`), keeps it until
something new is stored, for any limit.

**PresenceProofs** is about `Presence` and `MCDecisions`.  Of `Presence`: a
selection that no other call overlaps has read, of every key, what is in it, or
the key has expired since (`UpToDate`), and has yet to read those it has not read
(`Complete`); what it is about to write is therefore a switch with a reason
(`Due`), and remains one while keys expire and time passes.  `HoldIsRespected` is
the action property `PrimaryHeld`, for any devices, threshold and hold.
`AheadRemains` is the safety half of `AheadTakesOver`: once a device is selected
while it is ahead, and no coroutine has read or is about to write anything that
takes that from it (`Settled`), it is the primary of every snapshot for as long as
it stays ahead, however selections overlap and also when the selection expires.
That `Settled` is inductive rests on `LeaderIsChosen`.  Of
`MCDecisions`: `PlansSound`, `ServesWhatIsShown`, `AuthorityGranted`, and
`LivelierScored` for the action property `LivelierScoresMore`.  They rest on
lemmas about what the code computes of data of any size: `BestIsThere` (among the
entries of any finite set of devices there is a best one, and `Best` is it) and
`DedupIsRight` (`_dedup` of any list puts out each element once, in the order of
its first occurrences).  Both need induction, and the library's induction theorems
are out of reach as they take an operator.  `LeastOf` replaces them: a non-empty
set of numbers has a least element, which follows from `WFMin` and
`NatLessThanWellFounded`, so the set of the sizes at which the claim fails
is empty, as no number can be its least.  `LoopUnfolds` shows in this way that the
fold in `Dedup` is defined at all.

Model-checked only:

- liveness (`TimerEnds`, `SilenceEscalatesToThoseLeft`, `AnswersSettle`,
  `GoneIsUnregistered`, `AheadTakesOver`, `StaysConnected`, `WakesShow`,
  `RefreshesConverge`): it needs fairness and ENABLED, which the prover does not
  handle.  Of most of them the safety half is proved (`DeclinesHaveReasons`,
  `NothingIsLeaked`, `AheadRemains`, `ConnectedOnce`, `WakesLoseNothing`,
  `ListRemainsComplete`).  What remains is that the steps which fairness asks for
  are enabled and are enough;
- Schema (`MigrationsAreSound`, `DeletionIsComplete`): it has no constants, and the
  `schema` run visits all of its states, so that a proof would add nothing.

## What is left out

- Within modelled parts: payloads, wording and validation details (one
  refusal); a notification's `expires_at`, which nothing reads;
  an `agent_audio` that names a synthesised asset; signing for
  `GET /audio/{id}`, which changes nothing; the types, lengths, defaults and
  plain indexes of columns; lists and other reads of single tables.
- What `DeletionIsComplete` counts are rows with foreign keys: columns that hold a
  device's id without one (`pairing_tokens`, `notification_responses`,
  `responded_by_device_id`) and stored objects remain.
- A socket that is half open and never reported is up in `Client`: `StaysConnected`
  is about sockets whose loss the app learns of.
- Across modules: Delivery takes plans of any size, and connections from `Link`,
  rather than being composed with Presence; a device that presence still lists
  after its deletion enters `Removal` as one that was removed before the flush.
- Password hashing, JWTs and the random tokens are taken for what they promise:
  they name a user, an agent or a device, and nobody else's.
- The app's presence timer, whose reports are `Presence`'s observations.
- Sensors, TTS engines, native shells, console views and logging are input or
  output: the models take what they deliver as nondeterministic.

## Plan

All modules of the plan are written, checked and, but for the list above,
proved.  What would come next:

1. A measure for each coroutine, of what it still has to do, that every step of
   it lowers: the other half of `TimerEnds` and `AnswersSettle`, short of
   fairness itself.
2. Composition of Delivery with Presence and Creation, for properties from an
   agent's request to the device that shows it.
