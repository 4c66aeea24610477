# Quiz Helper in TLA+

A verification project for the server (Rust / Axum) and the browser client of
this repository: TLA+ modules of its protocols, TLC configurations that check
them on small instances, and TLAPS proofs of what matters most. Paths below are
relative to the root of the repository, the one that holds `Cargo.toml`.

## The system

One process serves REST requests, WebSockets and a static page. State lives in
three places:

| Component | State | Operations | Talks to |
|---|---|---|---|
| Tables (`migrations/`, `src/db.rs`) | `sessions`, `participants`, `rounds`, `answers` | one SQL statement each; only `create_session` uses a transaction | everything |
| Hub (`src/state.rs`) | map session → runtime (an `Arc<Mutex<..>>`): connections, `current_round` with its winner slot, `host_last_seen` | `runtime_for`, `drop_runtime`, critical sections of the others | sockets, requests, cleanup |
| Sockets (`src/ws/handler.rs`) | per connection a handshake task, a sender and a reader task, an mpsc channel | handshake, `handle_answer`, deregistration, the broadcasts | hub, tables, browsers |
| Host requests (`src/api/routes.rs`) | none of their own | `start_round`, `stop_round`, `set_answers`, `set_joins`, `regenerate_code`, `kick`, `close_session` | hub, tables |
| Player requests | none | `create_session`, `join_session` | tables, hub |
| Cleanup loop (`src/cleanup.rs`) | its position in a tick | every 15 s: end expired and closed sessions, then those whose host is gone | hub, tables |
| Browser (`static/app.js`) | `state` (round, winner, settings, socket), `sessionStorage` | message router, buzzer, host buttons, leave, boot | REST, WebSocket |

What is hard about it: every `await` is a point where another task runs, the
mutex of a runtime is released between reading, writing to the database and
broadcasting, there are no transactions around multi-statement operations, a
runtime may be dropped while tasks still hold it, requests can be abandoned by
their HTTP client and the process may restart with all runtimes lost. The
hazards, each at its line and with the properties that cover it, are listed in
`PROJECT.json`.

What makes each component correct:

* winner slot - the best answer by (`elapsed_ms`, `server_received`, id) wins
  whatever the arrival order; nobody wins without an answer on record; a stop is
  final; the winner in the table is the one announced;
* browsers - after the last message is delivered they show what the hub holds;
* connections - the registry holds exactly the live connections of participants
  who are not kicked;
* session end - closed before deleted, deleted in the end, not while the host is
  there, and everybody is told;
* settings - the screens show the row; who joins had a code that admitted him;
* player lists - whoever changes the list tells everybody, after the change;
* a tab - page, socket, saved credentials and round belong to one session, and
  credentials the server refuses are given up.

## Modules

| Module | Models | Notes |
|---|---|---|
| `AnswerOrder` | `answer_is_better`, the critical section that ends `handle_answer` (`Settle`) | pure operators |
| `AnswerSlot` | what the hub promises about its winner slot | abstract specification |
| `Rounds` | `handle_answer`, `start_round`, `stop_round`, `set_answers`, `rounds`/`answers` tables, faults, restart | core state machine |
| `Buzzer` | `Rounds` composed with the channels and the browsers | `EXTENDS Rounds` |
| `Settings` | `create_session`, `regenerate_code`, `set_joins`, `set_answers`, `join_session`, `session_state` and Welcome's settings | codes of other sessions compete for the unique index |
| `Client` | one tab of `static/app.js`: forms, `connect`, socket events, `leaveAndReset`, `sessionStorage`, `boot` | the server is nondeterministic |
| `Connections` | handshake, registry, socket tasks, `runtime_for`, `kick` | runtimes are objects |
| `Roster` | joins, `broadcast_participants` after every change, Welcome's list | `EXTENDS Connections` |
| `SessionLife` | open → closed → gone, in the end | abstract specification |
| `Lifecycle` | cleanup tick, `close_session`, runtime lookups by other requests, time, failures, restart, on top of `Connections` | `EXTENDS Connections` |
| `AnswerOrderProofs`, `RoundsProofs`, `BuzzerProofs`, `ConnectionsProofs`, `LifecycleProofs`, `RosterProofs`, `SettingsProofs`, `ClientProofs` | the inductive invariants and the theorems | each `EXTENDS` the module it is about |
| `MC...` | instances for TLC | |

`PROJECT.json` maps the definitions that translate code to the lines they stand for.

### How the models correspond to the code

* **A step** is what a task does between two points where another task can run:
  one SQL statement or one critical section under a runtime's mutex. `pc`, `hpc`,
  `kpc`, `tpc`, `cpc`, `vpc` say where a socket task, a host request, a kick, the
  cleanup tick, a `close_session` request and a passing request are.
* **Messages that replace their predecessor** (settings, player lists) on a FIFO
  connection are represented by the last one put into its channel (`shown`).
* **Tables** are functions or sets of rows with the columns the protocols read.
  `ON CONFLICT DO UPDATE` is split into `AnswerInsert` and `AnswerUpdate`; the
  candidate takes the row's timestamp and keeps its own time, as in the code.
* **Slots** (`Option<AnswerEntry>`) are sets of at most one record.
* **Time and UUIDs** are only compared, so they are integers. The database clock
  may tie or step back (`Times`). In `Lifecycle` only ages matter, cut off where
  comparisons no longer see a difference.
* **Runtimes** are names. A task keeps the one it looked up, even after it left
  the map; a name whose object nobody holds can be given to a new object (any
  fixed choice among the free names will do).
* **A socket name** stands for the successive connections of one tab.
* **A WebSocket object** of `Client` lives on after `state.ws` has let go of it,
  until its close event; only then is its name free again.
* **Channel, WebSocket and the browser's event queue** are one FIFO per browser.
* **Faults** (`Faults`, `MaxFailures`, `MaxRestarts`): a statement fails and has
  no effect (`AnswerLost`), or is committed and its reply lost
  (`AnswerUnreported`); the HTTP client goes away and the handler is dropped at
  its next await (`HostAbandon`, `Abandon`, `CloseAbandon`, `KickAbandon`,
  `ReportFails`); the process restarts, the tables stay and all else is lost.
* **History variables** state a property or its exceptions and no step reads
  them but to update a history variable: `lost` (`Rounds`: rows whose statement
  was reported as failed), `told` (`Buzzer`: browsers connected without a break
  since the last `allow_answer`), `admits`, `solo`, `muddled`, `behind`
  (`Settings`), `late` (`Roster`), `hasty`, `dropped` (`Client`).
* Definitions headed "faulty variant" are mistakes the code could contain; no
  next-state relation uses them. They show that each property can fail: with the
  right definition replaced by the variant, TLC finds the property violated.

## Runs

Passing runs:

| Run | Question | Bounds |
|---|---|---|
| `rounds_races` | do concurrent answers, starts and stops keep the slot, the table and the stops right, and does the hub implement `AnswerSlot`? | 2 players, 2 host requests at a time, 2 rounds, one time (ties are decided by the id) |
| `rounds_tabs` | can repeated answers of a player with two tabs leave a winner without a row, even when statements fail, clients go away and the process restarts? Is the invariant of the proofs an invariant? | 3 sockets, 2 players, 1 request, 1 round, times {-1, 1, 2}, clock {1, 2} |
| `buzzer_serial` | do table, hub and browsers agree once everything is delivered, also when pages reload, and is an answer that arrives in time ever lost? (fairness) | 1 player and the host, 1 request at a time, 2 rounds |
| `settings` | do the screens show the row, and does a join need a code that was good while it asked, whatever collides, overlaps, fails or ends? | 1 player, 2 requests at a time, 3 codes, 2 draws per request |
| `client` | do page, socket, saved credentials and round of a tab stay together through leaves, reloads, late replies and late close events? Are refused credentials given up? (fairness) | 2 sessions' credentials, 3 sockets, 2 forms pending, 2 reloads |
| `conn_one_tab` | is everybody with an open connection in the registry, and nobody else? Do the player lists on the screens follow joins, kicks, connects and disconnects, and when not? | host and player with a tab each, 1 kick at a time, 2 runtimes |
| `lifecycle_grace` | does the cleanup loop respect the grace period, in both directions? | the host's socket, grace 3, tick 2, lifetime 8 units |
| `lifecycle_end` | is the end of a session orderly, does it come, is everybody told, and are its runtimes removed? (fairness) | a player's socket, 1 failing statement, 1 restart, grace 1, tick 1, lifetime 3 units |

Two rounds are enough for everything that goes wrong between an old and a new
round, two concurrent requests for every race of two handlers, two players for
every race of two answers; the third socket of `rounds_tabs` adds two answers of
one player. In `settings` one code is the session's, one another session's and
one free; two draws reach both a retry and the bound (the code has five). The
three sockets of `client` are an old one that is still closing, its successor and
one more opened by a second reply; the two reloads bracket a stay. Two concurrent
kicks are covered by the proofs about `Connections`. The grace period of
`lifecycle_grace` is longer than a tick so that sampling matters, and the lifetimes
are longer than the grace periods so that both rules of the cleanup loop fire. Runtimes: the map's and one for each task
that may hold a dropped one (the socket, the tick and the request of
`lifecycle_end` hold at most two that have been dropped while the third looks
one up). `Connections` never drops a runtime, so two names are one more than it
needs; the second lets a faulty lookup show. Every safety property of the
passing runs is also proved for all values of the constants (see Proofs), so the
bounds matter for the liveness properties and the findings only.

Runs that find what the code does against what it says (details in
`PROJECT.json`, "findings"):

| Run | What happens |
|---|---|
| `rounds_stale_stop` | a better answer settles while `stop_round` writes: it is announced, the displaced one is persisted |
| `buzzer_reordered` | `answer_winner` messages overtake each other; all screens show the displaced winner |
| `conn_reload` | the old socket of a reloaded page deregisters the new one, which then gets no broadcasts |
| `lifecycle_restart` | after a restart a session is ended before its host can come back |

### Noted while modelling

The models also show the following, for which no run is kept. Each is a few
steps long in the module named:

* `Rounds`: two `start_round` requests at once both stop the open rounds and both
  insert theirs (`src/db.rs:201`); the table keeps two open rounds until the next
  start. The winner slot is overwritten by better answers
  (`src/ws/handler.rs:375`), as the repository's README says and the comment at
  `src/state.rs:36` ("we store it once") does not.
* `Settings`: of two overlapping host requests the one that fetched the row first
  may broadcast last (`src/ws/handler.rs:230`); a Welcome carries the row read
  before the connection was registered and may undo a newer `session_state`
  (`src/ws/handler.rs:91`); both stay on the screens until the next message. A
  player who passed the checks is added after the code was replaced, joins were
  disabled or the session was closed (`src/api/routes.rs:88`).
* `Roster`: the same for two overlapping `broadcast_participants`
  (`src/ws/handler.rs:208`), which an ordinary pair of joins is enough for; after
  a failed one the screens stay as they were. So they do when a join or a kick is
  abandoned by its HTTP client between its change and its report. A kick that is
  abandoned once `kicked_at` is set (`src/api/routes.rs:230`) also leaves its
  victim connected and untold.
* `Client`: who leaves a session and joins another before the old socket's close
  event loses the new one: the event sets `state.ws` to null, clears the saved
  session and shows "disconnected" while the new socket stays open
  (`static/app.js:151`). Who does not wait meets two more: a form submitted twice
  leaves two open sockets, and the reply to the host's close request resets a
  session he has created in the meantime. An unexpected disconnect leaves
  `currentRound`, so the next session of that tab starts with the old round (`static/app.js:153`).
* `Buzzer`: a page that is reloaded during a round is not told of it: the player
  cannot answer and the host cannot stop the round with the button. With two host
  requests in flight an old `stop_answer` disarms the buzzers of a new round, the client not comparing `round_id`
  (`static/app.js:215`). An answer does not name its round and is credited to the
  one that is live when it arrives (`src/ws/handler.rs:311`).
* `Connections`: a handshake that has passed the `kicked_at` check registers
  after the kick (`src/ws/handler.rs:66`). The server never closes a kicked
  connection: its task keeps a sender of its own channel (`src/api/routes.rs:244`).
* `Lifecycle`: the grace period may be short by up to a tick
  (`src/cleanup.rs:57`), which `GraceRespected` allows for; a host who connects
  between the tick's look and the end loses the session (`src/cleanup.rs:78`); a
  session that has no runtime is outside the grace rule (`src/cleanup.rs:44`),
  which `AbsentHostEndsSession` allows for; a client that registers after the
  broadcast stays on a deleted session and is never told, nor is one whose
  runtime `end_session` drops although it failed to close the row
  (`src/cleanup.rs:91`); `EndIsTold` allows for these two.

### Fairness

`Buzzer` and `Lifecycle` assume weak fairness of the server's tasks (tokio runs
what can run, the mutexes are fair and held for a bounded time), of delivery on a
connection that stays open, and of time. `Client` assumes that `boot` gets past
the configuration (its failure is caught), that a socket that connects opens or
closes, and that a refused handshake ends in a close event
(`close_with_error`); not that forms are answered or connections last. Nothing is assumed of people: no press,
click, connection, departure or request is fair. In `Lifecycle` the number of
failing statements and of restarts is bounded, which is the assumption that
failures stop; `close_session` is fair as long as its client does not go away,
which is one of the failures. `Connections`, `Roster`, `Settings` and `Rounds`
state no fairness: only safety is claimed of them alone.

## Proofs

`AnswerOrderProofs`: `answer_is_better` is a strict total order over all
integers, a set of answers has at most one best one, and `Settle` keeps the best.

`RoundsProofs`, for arbitrary constants that satisfy `ConstantsAssumption`
(players, timestamps and times are integers, `NoRound` is not a round, every
socket has an owner), with faults and restarts:

* `TypeCorrect` and `InvHolds`: `TypeOK` and the inductive invariant `IInv`;
* `WinnerIsBestHolds`, `WinnerOnRecordHolds`, `PersistedWinnerAnsweredHolds`,
  `StopIsFinalHolds`: the safety invariants, each a conjunct of `IInv`;
* `StoppedRoundsFrozenHolds`: the action property;
* `RoundsImplementSlot`: every step of `Rounds` is a step of `AnswerSlot` or
  leaves the slot unchanged.

The safety invariants are not inductive. What has to be added: rows of `answers`
are unique per key (the upsert replaces, it does not duplicate); a task past the
upsert has a row at least as good as its candidate; a request past `StopPersist`
has a stopped round; and `ArmedOnce`: a round that is about to be installed is
known only to the request that inserted it. Without the last, `StartArm`, which
empties the slot, could drop answers that had been recorded for that round.
`WinnerIsBest` is about the rows that are not in `lost`: the code drops an answer
whose statement was committed but reported as failed.

`ConnectionsProofs`, for arbitrary constants that satisfy
`ConnectionsAssumption`:

* `ConnTypeCorrect` and `RegistryLiveHolds`, whatever the tabs, reloads and kicks,
  complete or abandoned;
* `OpenIsHeldHolds`, under the assumption `OneTab` that no two sockets belong to
  the same participant. `conn_reload` shows that the assumption is needed.

`RegistryLive` needs to know that all who hold a runtime hold the same one
(`OneRuntime`, since nothing in that module drops it); `OpenIsHeld` needs that a
kick marks its victim before it removes the entry (`MarkedFirst`) and that a
registered entry is only removed by its own task or by such a kick
(`Registered`).

`BuzzerProofs`, for any numbers of players, rounds and queued messages:

* `BuzzerTypeCorrect`, and `BuzzerPlaysRounds`: every behaviour of `Buzzer` is one
  of `Rounds`, so everything `RoundsProofs` shows holds with the browsers too
  (`BuzzerKeepsSlot`). The types need `IInv`: a broadcast is well-formed because
  the request or task that sends it carries a round that exists.
* `HubMatchesTableHolds` and `RoundViewsAgreeHolds`, for a host who waits
  (`OneRequest`: at most one request slot; with two both are false).
  `HubFollowsTable` says at each step of the one request which row is open and what
  the hub holds. `BrowsersFollow` says what each browser will show once its queue
  is delivered, the round of the last message that is not an `answer_winner` or the
  one it shows (`Expects`): the hub's for those told of the round, except between
  the change of the hub and its broadcast, and none for the others.
* `HubMatchesTableAlone`: the same of `Rounds`, without faults and for any clicks.

`SettingsProofs`: `SettingsTypeCorrect`, `SettingsAreShown` (`SettingsShown`) and
`JoinsAreAllowed` (the action property `JoinWasAllowed`), for any requests, players
and codes. The invariant adds that a request or a player has in hand what the next
step uses, and that nothing but the creating request runs before there is a session
(`RequestsReady`, `PlayersReady`); that `admits` holds every code that would let a
player in while he is looked up, and his own once he is found (`AdmissionNoted`);
and that a request which has run alone is about to send what the row holds, so that
the screens show the row except between its write and its message
(`ScreensFollow`).

`ClientProofs`: `ClientTypeCorrect`, `PageStaysLive`, `SavedStaysUsed` and
`RoundStaysBehind`, for any sockets, forms and reloads. The invariant adds which
sockets a tab can have while it waits (`OneAtATime`), that a tab which is closing
has already forgotten its socket and credentials (`NothingLeftToForget`) and where
an armed round can come from (`ArmedOrDropped`).

`LifecycleProofs`, for all time limits:

* with any failures and restarts: `LifeTypeCorrect` (with it that a runtime which
  lists a host has `host_last_seen` set); `RegistryLiveThroughout`, here
  with runtimes that are dropped, made again and lost (a task's own runtime, not
  the map's, is what counts); `LifeIsSafe`, the safety half of the refinement of
  `SessionLife`: initial states map to initial states and every step closes before
  it deletes or leaves the row alone, because whoever is about to delete has closed
  the row (`ClosedFirst`);
* without faults (`NoFaults`): `AbsenceEndsSession`. The runtime of an open session
  is then never dropped (`OneWhileOpen`), and the invariant `AbsenceBounded` relates
  the host's absence, `host_last_seen`, the time to the next tick and the time the
  session has been looked at;
* without faults and with one tab per participant (`OneTab`): `GraceIsRespected`,
  from `SeenInTime`: `host_last_seen` is at most a tick older than the absence.
  With two host tabs it is false: the old one's deregistration takes the new one
  off the registry the tick looks at (what `conn_reload` shows); `lifecycle_restart`
  shows that restarts have to be excluded.

`RosterProofs`, on top of the invariant of `ConnectionsProofs`, which the steps of
`Roster` preserve (they are steps of `Connections`, leave its variables alone or, in
a join, look the runtime up once more): `RosterTypeCorrect` and `RosterIsShown`, for
any participants, tabs and concurrent kicks, which may be abandoned at any step.
The invariant adds that whoever is about to send a list has one (`ListInHand`);
`RosterShown` itself covers the kicks that have yet to mark their victim
(`AllReported`), so that one abandoned that early needs no exception;
`RosterRegistryLive`, and `RosterReachesAll` under `OneTab`.

The constants are restricted by the named assumptions of the modules alone: besides
what is said above, that `None` (no socket, no settings, no list) and the names of
different kinds are told apart, and that a bound which has to be positive is. Each
inductive invariant was checked by TLC on the instance of the component's run before it was proved; `IInv` still is
(`rounds_tabs`).

Only model-checked:

* liveness, since fairness and `ENABLED` are beyond the prover: `BuzzCounts`,
  `EndIsTold`, `RuntimeReclaimed`, `StaleCredentialsGo` and the fairness half of
  `ImplementsLife`;
* that the code violates what the four expected-violation runs say.

## Assumptions and what is not modelled

* A statement that is committed but reported as failed is modelled for
  `record_answer` (`AnswerUnreported`) and `kick_participant` (`KickMark`, then
  `KickAbandon`); other failing statements have no effect.
* `Buzzer`: a page that was reloaded connects only after its old reader task is
  done; a tab that joins again as somebody new is a new player.
* `Settings`: one player at a time is enough because players do not share state;
  the process does not restart (a restart drops all connections, after which
  nothing is shown). The session ends by a step that may come at any time.
  `expires_at` is left out of a join: `join_session` does not look at it.
* `Roster`: the session does not end and its runtime is not dropped.
* `Client`: names, the alert boxes (during which a tab runs nothing), rendering,
  the roll-back of a switch whose request failed (`static/app.js:399`) and
  messages that change only what is shown. The host's close button is pressed
  again only after its reply.
* One session only: sessions share the map and the cleanup tick, which handles
  them one after another; a slow tick for one delays another, and time does not
  pass during a tick of the model. A failing `list_expired_sessions` is modelled.
* One replica: the comment in the migration that replicas can share state does
  not hold for the hub.
* Configuration, boot, routing, static files, translations, container files: they
  read the environment once or keep no state.

## Plan

Written, in this order: `AnswerOrder`, `Rounds`, `RoundsProofs`, `Buzzer`,
`Connections`, `Lifecycle`, `ConnectionsProofs`, `Settings`, `Client`, `Roster`.
Then the
proofs: `SettingsProofs`, `ClientProofs`, `LifecycleProofs`, `RosterProofs`,
`BuzzerProofs`. Every safety property of the passing runs now has its theorem. What
is left:

1. `Settings` and `Roster`: the exceptions (`muddled`, `behind`, `late`) are history
   variables; prove that they end, as an action property: a request that runs alone
   clears them.
2. `Buzzer`: which part of `RoundViewsAgree` survives two requests at a time.
3. `Lifecycle`: how much of `GraceRespected` remains with failing statements alone.
