# Memora Dashboard: TLA+ models, checks and proofs

Memora is a dashboard for a moderation team: a Next.js server with a WebSocket hub,
PostgreSQL through Prisma, Redis for queues and a bus, a worker. Most of it reads and
writes administrative rows. The parts whose correctness hangs on the *order* of things
are the interactive ones: Memora Play (online party games), documents edited by several
people, and a few background services. This directory models those.

## 1. Inventory

Paths are under `src/src/core/` unless they start with `src/`.

| Component | State | Operations | Hard behaviour | What makes it correct |
|---|---|---|---|---|
| **Life of a game** `services/play/GameService.ts`, `PlayIdleService.ts`, `RewardService.ts`, `lib/play/timers.ts` | row `PlaySession` (status, seats, updatedAt), the engine's table; in memory: deadline, idle and away timers, last actions | launch, read, act, settle, deadline, idle, sweep, finish, abandon | any request may settle any game; timers live in memory only; a failed launch rewrites the status | a game ends once and is paid once; a timed move to come is always settled later; a silent game stops, a restart notwithstanding |
| **Tables and seats** `services/play/LobbyService.ts`, `PlaySeatService.ts`, `PlaySessionService.ts`, `PlayAdminService.ts` | rows `PlaySession`, `PlaySeat`, ban in `PlayProfile` | open, join, leave, kick, seat back, stand up, cancel, rematch, ban, remove | the seat commits before the other tables are closed; bans and seatings read each other's rows | seats bounded, a seated host, one table per player, a kicked player stays out, a banned one leaves |
| **Bomb Party engine** `services/play/bomb/BombTurnService.ts`, `lib/play/bomb/rules.ts` | rows `BombGame`, `BombPlayer` | open, submit a word, type, settle (walk away, blast, close) | players are read before the lock; typing takes no lock | the bomb stays with the living, leaves time to answer, the places tell the game, the table ends |
| **Shared documents** `lib/realtime/server/docs.ts`, `dispatch.ts`, `services/pages/PageDocService.ts`, `PageRealtimeService.ts` | rooms and loads in memory, `Page.yState` | follow, unfollow, open, edit, server edit, debounced write, free | a room freed after the writes asked *so far*; shared loads; openings given up | seats match follows, edits reach the database, one write at a time |
| **Room of a game, away timer** `services/play/live/PlayRoomService.ts`, `lib/realtime/server/hub.ts`, `dispatch.ts` | sockets per game, push under way, away timer | follow, leave, close, signal, push boards, stop | a topic given up while it opens; views of a push that failed outlive it; a spectator cancels the away timer | whoever is seated follows, the newest board reaches all, a deserted game stops |
| **Ludo engine** `services/play/ludo/`, `lib/play/ludo/` | rows `LudoGame`, `LudoPlayer` | roll, move, settle, close | players read before the lock; house rules that give another turn | no rival shares a square, the die always has somebody and a move, places in order |
| **Baccalauréat engine** `services/play/baccalaureat/`, `engines/play/BaccalaureatEngine.ts` | rounds, words, votes | write, stop, draw again, vote, count, next | no row is held: every call reads, decides, writes | each round counted and paid once, in the end |
| Golf engine `services/play/golf/` | one table | shots, holes | physics in floating point | turn order, scores |
| **Tournaments and totals** `services/play/TournamentService.ts`, `StatService.ts` | `PlayTournament`, `PlayGameStat` | chain, close, add up | two transactions per finished game; read-add-write totals | one next game, paid once, totals exact |
| Votes, invitations, chat `services/play/` | rows | vote, invite, post | little of their own | - |
| **Presence of a topic** `lib/realtime/server/presence.ts` | seats, departed members, pending broadcast | seat, unseat, report, sweep | several tabs of one member | lists shown match the seats |
| **Seat of a socket on a page** `services/pages/PageRealtimeService.ts` | access read, document seat, listener | follow, leave, move of the shares | access read before, used after an await | rights are the shares' |
| Hub: tickets, budgets; bus; browser's client `lib/realtime/` | sockets, frames | connect, ping, reconnect | wiring and pure I/O | - |
| Pages: tree, shares, revisions `services/pages/` | `Page`, shares, revisions | edit, share, restore | revisions restored into an open room | - |
| **Push** `services/push/` | BullMQ job, `PushDelivery` lines, devices | queue, send, write, retry, forget | crash between sending and writing; one throw fails a batch | every device once, and in the end |
| **Live: watch and status** `services/lives/LiveWatcher.ts`, `LiveService.ts` | watches, members refused, lease, timer of the end | lease, list, poll, signal, move | lease lost, signals lost, answers late | moves once, ends and starts noticed, one watcher |
| **Live: Mod View** `services/lives/PresenceService.ts`, `ModStintService.ts`, `FocusService.ts` | presences, stretches, focuses | beat, stop, sweep, end, focus | sweep and end race a beat | one open presence, stretches apart, silence closes |
| **EventSub session** `lib/platforms/twitch/session.ts` | sockets, watchdog, retry, ids seen | welcome, subscribe, reconnect, notify, stop | each timer may act on a socket another replaced | told once, quiet when stopped, hears again |
| **Calendar: annual slots** `services/calendar/AnnualSlotService.ts` | slots, roll-call, task, card | take, place, move, cancel, reshape, remove, answer; tick, drag | no lock: each query interleaves, or fails; others write the same rows | one holder per slot, one slot per moderator, card and task true |
| Calendar: events, meetings `services/calendar/` | rows, projections | edit | single requests | - |
| **Idempotent writes** `lib/http/idempotency.ts` | keys in Redis or the process | claim, run, settle, undo | Redis refuses, goes away; keys expire | a write runs once per key |
| HTTP: rate limits, wrappers `lib/http/` | budgets | count | one counter per window | - |
| Authentication, permissions; recruitment, academy, work, members, sanctions; assistant, tour, search; infrastructure, worker, status page; front end | rows, caches, screens | requests | little concurrency of their own, or pure I/O | not modelled |

How they interact: a request of Play calls `LobbyService` or `GameService`, which hold the
row of the game (`SELECT ... FOR UPDATE` through `lockSession`/`holdSession`) for one
transaction at a time and then, *outside* it, call the engine (which opens a transaction
of its own on the same row), arm timers, finish the game, tell the bus. `RewardService`
finishes a game and calls `TournamentService`. The room of a game re-reads boards on each
signal of the bus, and reading a board settles the game. A page followed by a socket goes
through `dispatch.follow`, the access check of `PageRealtimeService` and `docs.joinDoc`.

The hazards of this code, each at its line with the property that covers it (or why none
does yet), are in `PROJECT.json` under `hazards`.

## 2. Modules

| Module | Models |
|---|---|
| `GameLife` | abstract: the life of one game as its players are promised it |
| `PlayGame` | one game: row, engine seen from outside, timers and clock of the process, calls in flight |
| `PlayGameProofs` | type invariant, inductive invariant, refinement of `GameLife`, safety invariants, for all constants |
| `PlayTables` | the tables of one kind of game: seats, hosts, the one-table rule, bans |
| `PlayTablesProofs` | seats bounded, kicked players out, a seated host, one table, for all constants |
| `BombTable` | the Bomb Party engine, its rules and the steps of its table |
| `BombTableProofs` | the bomb's holder, its fuse, the draft and the places, for all constants |
| `SharedDoc` | a page edited by several sockets: room, load, writes, followers |
| `SharedDocProofs` | seats, and no edit lost, for all constants |
| `LudoTable` | the Ludo engine: board, rolls, moves, house rules, places, scores |
| `BaccalaureatTable` | the rounds of a Baccalauréat, every call split between what it reads and what it writes |
| `PlayRoom` | the room of a game: sockets, openings, pushes of boards, away timer |
| `PresenceRoom` | who stands in a topic: tabs, departures, the shared broadcast |
| `PageSeat` | one socket on a page: access, document seat, moves of the shares |
| `LiveWatch` | one live and the instances that watch it |
| `EventSubSession` | the inside of one of the sessions LiveWatch starts and stops |
| `LivePresence` | the Mod View of one live: presences, stretches, focuses |
| `PlayTournament` | the chain of games of a tournament, its payment, the totals |
| `PushDelivery` | the pushes of fresh notifications, their job and their lines |
| `IdempotentWrite` | one key, its calls, the stores |
| `AnnualSlots` | one series of annual slots, each query a step |
| `Rooms`, `Lives`, `Once` | side by side: `PlayRoom`, `PageSeat`, `PresenceRoom`; `LiveWatch`, `EventSubSession`, `LivePresence`; `PlayTournament`, `PushDelivery`, `IdempotentWrite`, `AnnualSlots` (section 3) |
| `RoomsProofs` | lists of a presence, seat of a page, boards and room of a game, for all constants |
| `LivesProofs` | notifications told once, a live moved once, stretches apart that end where a member left, for all constants |
| `OnceProofs` | keys, tournaments, pushes and slots, for all constants |
| `PlayGameMC`, `PlayTablesMC`, `BombTableMC`, `SharedDocMC`, `RoomsMC`, `LivesMC`, `OnceMC` | small instances for TLC |
| `PlayEngines`, `PlayEnginesMC` | the two engines side by side, and for TLC |
| `PlayEnginesProofs` | a Ludo board: one colour per square, the die, the places and scores, who goes back to the yard; rounds of a Baccalauréat counted in turn and paid once; for all constants |

`PlayGame`, `PlayTables` and the engines are views of one system. `PlayGame` leaves the
engine open (a settle or a move leaves a timed move to come, a table that waits for its
host, or a closed one; a settle finds something due or not, or its move already played):
`BombTable`, `LudoTable` and `BaccalaureatTable` are engines behind it, and their fairness
"somebody keeps asking for the overdue moves" is what `PlayGame!WakeUpPending` shows.
`PlayTables` keeps many tables and reduces each one's life to the steps that matter to
seats.

Definitions named `...NoClose`, `...Unlocked`, `...Blindly` and the like, commented
"Mutant of X", are broken variants of X, unused by the specifications: they document
which mistake each property rules out.

### 2.1 PlayGame

A request or timer callback is a *call*: `call[c].at` names what it does next, one step
per stretch between two awaits, and any other call may run between two steps. `rest` is
no call. `then` says what follows the engine's step (`note`: the launch's first action,
`play`: a move on the game as read, `check`: a move after the game was read again).

| Code | Model |
|---|---|
| `PlaySession.status`, seats with no `leftAt`, `updatedAt` | `status`, `seated`, `touched` (recent or past the idle limit) |
| the engine's rows | `table`: none, open (a timed move to come), waiting (for the host's next round), over |
| `writeResults` of a game | `paid` |
| `playTimers[id]`, `playTimers[idle:id]`, `lastActions[id]` | `deadline`, `idle`, `last` |
| `startSession` | `StartSession` (transaction), `OpenTable` or `OpenFails`, `RevertStart`, `ApplyDeadline`, `NoteAction` |
| `settleSession` | `LoadSession`, `SettleTable` or `SettleLost`, `ApplyDeadline` or `DropTimers`, `FinishSession` |
| `actInSession` | the same, then `CheckRunning`, `NoteAction`, `PlayMove` and its own `applyStep` |
| `abandonRunning` | `AbandonRunning` (memory), `StopRunning` (row); begun by `IdleFires`, `SweepIdleGames`, `AwayFires` |
| restart; a query that throws | `Crash`; `CallFails` |

Notes on faithfulness. The `touch` of `noteAction` is written in the background and at
most once a minute: both fall within "recent" and are part of the step. `CheckRunning` is
a step of its own only when `settleSession` loads the game again. The away timer may go
off at any time (`AwayFires`), which is more than the code does. A step without a deadline
(`deadline: null`) arms none: that of a settle on a table that waits, as a Baccalauréat
between a round counted and the host's `next` (`BaccalaureatEngine.ts:61`, `:78`), and that
of a settle which finds its move already played by another call since it began; such a
settle is *overtaken* (`GoAhead`). Nobody acts on a Baccalauréat between its launch and its
first round. The game belongs to no tournament. `faults`, `starts`, `acts` are bounds; `disturbed` and `reverted` are history.

### 2.2 PlayTables

A seating checks the player under the row lock (`JoinSession`, `SeatBack`,
`CreateSession`), commits (`CommitSeat`, `CommitCreate`), reads the player's other open
tables (`ReadOthers`), then leaves them one at a time (`LeaveNext`); a table already left
makes the code throw and the rest stay. `RematchSession` stands for a rematch and for the
next game of a tournament, which `advanceTournament` seats by the same `cloneTable` with no
ban check and no one-table rule, on nobody's request; who leaves between its read and its
write is in `PlayTournament`. A table being seated is locked (`Free`): every
other transaction on that row waits. A ban or an administrator's removal does the last
two steps. Transactions whose reads all lie under the lock are one action.

Over-approximations: any present player may take over a table (the code takes the longest
seated), the other tables are left in any order. History: `reverted` tables are those a
failed launch put back; `loose` players were seated by a rematch, a next game or a revert, or had a
call break off, cases in which the code does not close other tables.

### 2.3 BombTable

Seats are numbered in the order of the opening; time is counted down from now. A call is
first read (`LoadSettle`, `LoadMove`: the players present are kept in the call), then run
on the held row, where lives, turn and fuse are fresh but the players are those read
before. Words are reduced to: refused, missed (draft kept), counted (with or without a
life won back).

### 2.4 SharedDoc

Node runs one callback up to its next await and then drains the settled promises: each
action is one such run. `asked`/`done` count the writes in the chain `room.saving`;
`waits` holds, for each `await persist(...)`, the number of writes asked at that moment;
`Put` resumes those whose writes are over, and frees the room when one finds it empty
(`IsFreed`). A freed room keeps writing, hence a sequence of `rooms` and the index `open`.
An opening given up (`old`) goes on and stops what it opened. The document is the set of
edits it holds. A socket gives up one opening at a time, a second one waits for the first
to end. Two database answers that arrive in the same turn of the event loop are taken one
after the other. The process does not crash: between two writes nothing is promised.

### 2.5 LudoTable

A pawn stands on a step of its colour's way: `Yard`, the track, its lane, `Goal`; the
size of the board, the faces of the die and each house rule are constants. `lists` are
lists of players that calls read before they held the row, and may still play on (`late`
of them). `SettleBoard`, `RollDice` and `MovePawn` are the steps of `LudoTurnService`;
`PlayPlan` is the whole write of a move: pawns, place won, turn passed, board closed
when over. The clock of a turn may run out at any moment.

### 2.6 BaccalaureatTable

`Read...` actions are the checks a request or a timer makes; `Finish(c)` does what the
call decided on, whatever was written in between. `clock` is the phase the time gives
(`Tick`), `ReviewTime` the end of a review. Holding no row is what makes this engine
different from the others. `HostAtOnce` bounds the host's requests in flight, `MayClear`
says whether a sent word may be emptied.

### 2.7 PlayRoom, PresenceRoom, PageSeat

`openings` of a socket are the follows whose database reads are under way; `members` are
the seats in the room. `queued` is the signal that came during a push; `views` are the
boards being read, those of a failed push included; `stray` marks a reader whose last
board was one of those, sent late and out of date (history). The away timer (`away`, `task`) arms
when the room empties, reads the room when it fires, then stops the game. `PresenceRoom`
has one broadcast pending at most (`flush`). `PageSeat` keeps each access with the moment
it was read: `found` by the opening, `checks` by the moves of the shares.

### 2.8 LiveWatch, EventSubSession, LivePresence

`LiveWatch!Pass` is the tick of the watcher, cut at its awaits: lease, lives, watch, poll.
`moves` are status changes read and not yet written; `FromThere` is the condition of their
update. A pass lists the live while it runs, or is announced near its planned start (`out`
holds "window" otherwise), and within the cap of watched lives ("cap"). `refused` are the
members whose session stopped: the live goes to another one (`Holders`), and to nobody once
all are refused, until this instance's watch closes. `faults` bounds all that goes wrong, a
pass that finds no seat or no single channel included. `EventSubSession` numbers sockets;
only a welcome waits. `LivePresence` counts time in beats, up to `MaxTime`; a beat holds
its member's lock, the others write by identifier what they read.

### 2.9 PlayTournament, PushDelivery, IdempotentWrite, AnnualSlots

`PlayTournament` takes an engine as "a running game may end", and splits the end in the
transactions of `RewardService`: claim and totals, then next game or close. `PushDelivery`
has one promise per device and notification: sent, line written, device forgotten; a query
may fail at each (`QueryFails`), the process die at any. `cut` counts the runs these ended
and the devices removed. The queue (BullMQ) is modelled from its use. `IdempotentWrite`
numbers the commits of the write, so that two answers can be told apart. `AnnualSlots`
makes each query that writes a step, which may fail and end its request (`Fail`). Others
write the same rows: a task is ticked by hand (`SetTaskDone`), entries are removed
(`RemoveEntries`) or dragged (`MoveEntry`), a member is moved on the roll-call
(`MoveOnRollCall`). None of them brings the other rows in line: `apart` and `behind` are
the history of the moderators and of the card they left so.

## 3. Runs

Deadlock is not checked: games end, ids and bounded edits run out, and the system may
stop there.

| Run | Instance | Shows |
|---|---|---|
| `play_game` | 2 players, 2 calls, 2 faults, 2 launches, 1 move | the properties of `PlayGame` below |
| `play_tables` | 3 players, 2 tables of 2 seats, 2 calls, 1 ban, failures on | hosts, seats, one table, kicked players |
| `bomb_table` | 3 seats, 2 lives, 2 calls, 1 word | the properties of `BombTable` |
| `shared_doc` | 2 sockets, 3 edits, 2 rooms, 1 failure | the properties of `SharedDoc` |
| `engines` | Ludo: 2 colours, 2 pawns, 1 late call; Baccalauréat: 2 players, 2 rounds, 2 calls | boards, turns, rounds |
| `rooms` | 2 sockets on a game, 2 versions of the board, 1 fault, or 1 that follows twice; 1 on a page, 4 moves; 3 tabs, 7 moves | boards, rights, presences |
| `lives` | 1 instance, 2 members to carry the live, 2 flips, or 2 instances; 1 change of the list, 1 fault; 8 sockets of a session; 1 or 2 members | ends, moves, stretches |
| `once` | 2 players, 3 games; 2 devices, or 1 that may go, 1 crash and 1 failed query; 3 calls of a key; 3 slots and 4 requests, failures and hands in turn, or 2 slots and two requests at once | paid, sent, written, held once |
| `tables_one_table` | 2 players, 3 tables, 1 call | counterexample: rematch and the one-table rule |
| `tables_ban` | 2 players, 2 tables, 2 calls, 1 ban | counterexample: a seating checked before the ban |
| `bomb_final_places` | 3 seats, 1 life | counterexample: a closed table closed again |
| `doc_one_write` | 2 sockets, 3 edits, 2 rooms | counterexample: two rooms write at once |

**Side by side.** `engines`, `rooms`, `lives` and `once` each hold several modules, one run
per family of components. The first state picks one of them for good (`engine`, `kind`,
`part`): a behaviour is the life of that module alone, in one of its scopes, and the
others stay at rest. These runs show of each module what a run of its own would show; they
show nothing of an interplay between modules. `Rooms`, `Lives` and `Once` extend one
module and instance the others. Where a module needs two scopes (two instances with no
fault and one with a fault, say) its constants come from a record, its *scope*: one
parameterised instance, `Room(s)`, `Watch(s)`, `View(s)`, `Delivery(s)`, `Series(s)`,
serves both, in the runs as in the proofs, and the property stated may depend on the
scope. The scopes are constants, with their assumptions; `RoomsMC`, `LivesMC` and `OnceMC`
give them their values. A temporal property guarded by `part = ...` speaks of the
behaviours of that part only.

**play_game.** `LivesOnce` (the refinement of `GameLife`): whatever calls report the end
at once, the game is finished and paid once, and the blind rewrite of a failed launch
never brings back a paid game. `WakeUpPending`: a table with a timed
move to come has its deadline, or a call that arms it, settles it or stops the game, although a
settle that lost its move arms none. `IdleTimerKept`: the idle timer is armed once and re-arms itself, so it
must not be dropped without its clock. `OpenHoldsPlayers`: an open game holds somebody.
`SilentGameStops`, `SweepEndsGames`: a running game ends, by its timers while the process
lives, by the sweep in any case. Two calls give every race of two; a third call meets the
same variables, and the theorems cover any number. Two faults let a launch fail after a
crash; two launches let a reverted lobby start again.

**play_tables.** Two calls of one player seat them at two tables at once; two tables are
what the one-table rule needs; a third player makes a handover have a choice and the last
seat contended. `QuietOneTable` speaks of players with no call running. `SmallScope` stops
looking beyond two seatings on the laid tables: more brings no new race of two calls.

**bomb_table.** Three seats are the least for which a bomb passes by a dead neighbour; two
lives let a life be won back; one counting word and its stale variants; a departure may
fall between the read of a call and its run.

**shared_doc.** Two sockets share or miss each other's load; three edits let one be made
while one write is under way and another asked; two rooms let a freed one be replaced.
`EditsKept` and `EditStored` leave out runs where a write failed (the code only logs it)
or where a room was freed before its own writes (`early`): that second case is the finding
below.

A run of several modules states one conjunction per module, defined at the end of it:

| Run | Property | Parts beside the types |
|---|---|---|
| `engines` | `BoardSound` (`LudoTable`) | `OneOnTrack`: no two colours share an unsafe square; `DiceHasMove`: a die waiting for a choice has one; `TurnRaces`: the die is with a colour still racing; `PlacesInOrder`: the places given are 1, 2, ... |
| | `RoundsSound` (`BaccalaureatTable`) | `EndsCounted`: a game ends with all its rounds counted, for a host who asks one thing at a time; `BonusEarned`: the stopper was done, unless words are emptied later or worth nothing |
| | `RoundsPaidOnce` (action) | a round enters the scores once, whatever two calls counted it |
| `rooms` | `RoomSound` (`PlayRoom`) | `MemberFollows`: a seat is that of a socket which follows; `EmptyIsWatched`: an empty room of a running game has its timer; `NewestShown`: once the push is over, and did not fail itself, every reader holds the board of the last change, whatever failed before, but for one whose last view was a stray one |
| | `SeatSound` (`PageSeat`) | `SeatWhole`: a page's seat is complete or gone; `RightsTrue`: its rights are those of the shares once their moves were answered in order |
| | `ListsSound` (`PresenceRoom`) | `PresenceShown`: no broadcast pending, the lists shown are the seats; `GoneHasNoTab`: whoever is called gone has no tab there |
| `lives` | `WatchSound`, `WatchSettles` (`LiveWatch`) | `MovesOnce`: of the moves that read one status one is written. Temporal: `EndIsNoticed`, `StartIsNoticed`: signals lost, the polls end and start the live, as long as it is listed and a member is left to carry it; `OneWatches`: two instances do not both watch for ever |
| | `SessionSound`, `SessionHears` (`EventSubSession`) | `StoppedIsQuiet`; `ToldOnce` within the window of ids kept. Temporal, `HearsAgain`: a session neither stopped nor silent from the start hears its channel again |
| | `PresencesSound` (`LivePresence`) | `StretchesApart`, `OnePresence` |
| `once` | `TournamentSound` (`PlayTournament`) | `OneGamePerIndex`, `PaidOnce`, `GoesOn` (a running tournament has a game, or a call that moves it on), `TotalsExact` |
| | `DeliverySound`, `Reaches` (`PushDelivery`) | `SentOnce`: one copy, and one more at most per run cut by a crash or a throw and per device removed; `JournalTrue`. Temporal: what is queued reaches every device, unless it is read or the device goes first |
| | `WriteSound` (`IdempotentWrite`) | `WrittenOnce`, `SameAnswer` while Redis answers and keys last; `ClaimIsHeld`: a failure frees its key |
| | `SlotsSound` (`AnnualSlots`) | `AtMostOne`: one slot per moderator, for two requests that cross and place, move, cancel and remove; one request after another, failed or not: `TaskFollows`, `CardTrue` (task and card tell who holds what, but for what a hand or a failure left so until a request settles it), `AnswersTrue` (whoever is asked holds the slot) |

Why these bounds. *Ludo*: two pawns of two colours meet, take, bar and go home; one call
plays on a list read before. *Rounds*: two calls of two players give every crossing of two
requests, two rounds the passage from one to the next. *Rooms*: two versions let a change
come during a push, two follows let an opening cross another, seven moves let a member
leave by two tabs and come back. *Watch*: two changes of the stream are an end that comes
back; two members let one take over from the other; one fault is lost in each place in
turn. *Session*: eight sockets are those that two losses and two reconnections asked by
Twitch can open; three notifications cross a window of two ids. *Mod View*: four beats of
time pass the limit of silence. *Once*: a crash and an idle stop fall between any two
transactions of an end; a key meets its third call after a failure; a crash and a throw cut
two of the three runs of a job; three slots are those of a series taken, freed and
reshaped, four requests let a failure or a hand come between two of them and another settle
what it left.

Their modules define more than the runs repeat, for the time each takes. They hold too,
by a configuration of the module alone with bounds like those above and, where the
property is temporal, the module's fairness: `LudoTable!TurnMovesOn`;
`BaccalaureatTable!CountsInTheEnd`; `PlayRoom!BoardsReach`; `PageSeat!LosesSeat`;
`PresenceRoom!GoneFades`; `LivePresence!SilenceCloses`; and five action properties that are
also proved (section 4): `LudoTable!OnlyTakenGoBack`, `LudoTable!PlacesRank`,
`LivePresence!StopsWhereLeft`, `PushDelivery!SettledStays`, `AnnualSlots!NeverReplaced`.

### Fairness

- `PlayGame`: a call that awaits resumes (weak fairness of `Step`), clocks advance, timers
  fire. Timers need strong fairness only because a bounded set of calls stands for a
  process that can always take one more: with two calls both slots may be busy again and
  again. Nothing obliges a player to act or to read. `SweepEndsGames` carries its own
  assumption, that members keep opening the Play page, which is what calls the sweep.
- `BombTable`: calls end, time passes, and a settle keeps coming: the deadline is armed
  (`WakeUpPending`); strong where calls may stay busy.
- `SharedDoc`: database reads and writes end, timers fire. No socket has to do anything.
- `LiveWatch`: each instance keeps passing, awaits end, a dead holder's lease expires.
  `EventSubSession`: Twitch welcomes a socket and answers its subscriptions, timers fire.
- `PushDelivery`: a worker listens and push services answer.

`engines` and `rooms` state no fairness, nor does `lives` for the Mod View: their runs check
safety. The temporal properties listed as checked apart use the `Fairness` of their module:
a settle keeps coming (`LudoTable`, `BaccalaureatTable`), database reads end (`PlayRoom`,
`PageSeat`), broadcasts and sweeps fire (`PresenceRoom`), time passes and calls go on
(`LivePresence`).

### Findings

1. *One table per game* (`LobbyService.ts:295`): a rematch seats the players again without
   closing the table they opened since (`tables_one_table`).
2. *A banned player leaves the table* (`PlayAdminService.ts:350`): a seating that checked
   the ban before it was written and commits after the ban read the tables keeps the
   player seated (`tables_ban`).
3. *Final places written on the seats* (`BombTurnService.ts:104`): a settle that counts
   departed players plays on a closed table and writes other places (`bomb_final_places`).
   `FinishSession` of `PlayGame` claims a game once, so payment is not repeated, but the
   scores shown, or paid if the late close comes before the claim, may be the later ones.
4. *Write the document, one write at a time* (`docs.ts:80`): a save's continuation frees
   the room with another write in its chain; the next room writes beside it
   (`doc_one_write`), and the older write may come last.

### Where the code parts from its own words, without a run

These statements of comments in the source do not hold either. Each is a definition of its
module; a configuration of that module with the constants named finds the counterexample.
They are kept out of the runs above, whose instances stop short of the case.

| Definition | Constants | What happens |
|---|---|---|
| `LivePresence!ModeratingFollows` (`PresenceService.ts:155`) | 1 member, 2 calls, 3 beats | the stop of a closing beat is written after the next beat found the stretch open |
| `LivePresence!SweepsSilentOnly` (`PresenceService.ts:179`) | the same | a presence that beat after the sweep read it is closed in the past |
| `LivePresence!EndStopsStretches` (`ModStintService.ts:81`) | 1 member, 2 calls, 2 beats | a beat that read the live before its end leaves a stretch open |
| `LivePresence!OneFocus` (`FocusService.ts:180`) | 2 members, 1 beat, 2 focuses | two starts at once leave two focuses open |
| `LiveWatch!ShortCutSpared` (`LiveWatcher.ts:117`) | 1 instance, `MaxFlips = 3` | a late poll arms the end of a stream that is back |
| `EventSubSession!ToldAsIs` (`LiveWatcher.ts:87`) | 3 sockets | a refused subscription says disconnected, then connected |
| `EventSubSession!StopCloses` (`session.ts:103`) | 4 sockets, 2 losses | a retry replaces a working socket without closing it |
| `EventSubSession!SilenceHeals` (`session.ts:320`) | `EarlySilence = TRUE` | a socket that never speaks has no watchdog |
| `PlayTournament!TotalsExact` (`StatService.ts:59`) | `WithSingle = TRUE` | two games of one player end together and an addition is lost |
| `PlayTournament!NothingLeft` (`LobbyService.ts:229`) | 2 players, 2 games | leaving a finished game's table abandons the tournament |
| `PushDelivery!SentOnce` with 1 alone for bound (`DeliveryService.ts:210`: "once per device") | 1 crash; or `MaxThrows = 1`; or `MaxRemoved = 1` | a copy is sent, its line is not written or is lost, and the run after sends again |
| `PushDelivery!SettledStays` without `cut.throw = 0` (`DeliveryService.ts:23`) | `MaxThrows = 1`, 3 attempts | a push that throws leaves the others behind, which write over the lines of the run after |
| `IdempotentWrite!WrittenOnce` without its `Lasting` (`idempotency.ts:77`) | `MaxRefused = 1` | a settle Redis refuses frees the key of a committed write |
| `AnnualSlots!DoneHolds` (`AnnualSlotService.ts:378`) | 2 calls, take | two takes of one moderator free each other's slot |
| `AnnualSlots!TakenStays` (`AnnualSlotService.ts:797`) | 2 calls, take and remove | a slot taken since it was listed is deleted |
| `AnnualSlots!CardTrue` (`AnnualSlotService.ts:488`) | 2 calls, take | the request that read the slots first writes the card last |
| `AnnualSlots!AtMostOne` (`AnnualSlotService.ts:378`) | 2 calls, place and remove, 3 slots | freeing a slot that is gone throws, and the moderator keeps two |
| `PlayRoom!NewestShown` without `stray` (`PlayRoomService.ts:68`) | 1 fault | views of a failed push are sent after those of the next |
| `PlayRoom!FollowedIsMember` (`PlayRoomService.ts:142`) | 1 socket, `MaxFollow = 2` | the first opening of two takes the seat of the second |
| `PlayRoom!PlayersGoneWatched` (`PlayRoomService.ts:120`) | player and spectator | a spectator cancels the away timer |
| `PlayRoom!KeepsGame` (`PlayRoomService.ts:133`) | one player, two tabs | a player back after the room was read loses the game |
| `PageSeat!RightsOnOpening`, `HearersChecked` (`PageRealtimeService.ts:25`) | 1 move; or 1 fault | shares that move while a page opens are heard by nobody |
| `PageSeat!RightsOnMoves` (`PageRealtimeService.ts:45`) | 2 moves | an older answer sets the rights last |
| `LudoTable!OneOnSquare` (`rules.ts:111`) | `Quarter = 3`, `Lane = 1`, 2 pawns | two pawns of a colour share a square of their lane |
| `LudoTable!FinalScores` (`outcome.ts:78`) | `LateCalls = 1` | a roll that waited plays on the closed board |
| `BaccalaureatTable!EndsCounted` without `HostAtOnce <= 1` (`BaccalaureatEngine.ts:65`) | `HostAtOnce = 2` | two requests for the next round open one too many |
| `BaccalaureatTable!WordsFrozen` (`BaccalaureatRoundService.ts:174`) | kind write | a word is written after its round was closed |
| `BaccalaureatTable!LetterKept` (`BaccalaureatRoundService.ts:191`) | kind reroll | a letter is drawn again after the countdown |
| `BaccalaureatTable!VerdictOfSeated` (`BaccalaureatReviewService.ts:72`) | 3 players, vote and leave | the vote of a player gone outweighs those who stayed |

## 4. Proofs

Every theorem is `Spec => ...` for all values of the constants that satisfy the
assumptions of the module; the numbers of calls, sockets and players are not bounded, nor
is `Calls` or `Conns` assumed finite. The assumptions say only that the bounds are
numbers, that players form a finite set (a count of players is compared with
`MinPlayers`), that a game needs a player, that a table has a seat, and for the bomb that
lives and fuses are positive and their minima not above their maxima: `settings.ts` keeps
`maxLives` at `startLives` at least, and `readBounds` refuses a fuse whose minimum exceeds
its maximum; that fuses are positive is assumed of the configuration. A round of the
Baccalauréat has a letter to draw, its points are numbers, its players and categories
finitely many. The calls of a key, the players of a tournament, the browsers a push may
reach and the sockets of a game's room are finitely many, each socket of a topic has an
account, and `SeenAssumption` is explained below.

Two scopes are assumed to be what their names say, since a property stated of them is known
to fail beyond (section 3): `SlotsScope` takes its requests one at a time (those that cross
leave card and task behind), any number of them, any of which may fail at any query;
`RacesScope` lets them cross, over two slots and with no failure (a request that fails
between a slot given and the other freed leaves two). The other scopes are free: crashes,
failed queries, thrown sends, removed devices and repeated follows are theirs to any
number. What such an event costs is in the property itself, told by a history variable:
`cut` for a push, `stray` for a reader, `apart` and `behind` for a slot, `disturbed` for a
game, `lapsed`, `crossed` and `missed` elsewhere.

**`PlayGameProofs`.** `TypeCorrect`; `Implementation` (`LivesOnce`); `WakeUp`
(`WakeUpPending`); `IdleTimer` (`IdleTimerKept`); `Holds` (`OpenHoldsPlayers`). The
inductive invariant `Inv` adds to the types what the blind rewrite of a failed launch
needs: one call at a time launches (`LaunchAlone`) and no table is laid while it does
(`LaunchUnplayed`, `LobbyUnplayed`), so a status put back to LOBBY cannot be that of a paid
game; the calls past the engine found a table, those past its end one that is over
(`PlayedCalls`, `ClockPlayed`), and what is paid is ended (`PaidEnded`). Refinement maps
`status` and `paid` to `GameLife`; each step ends, pays, or stutters. `WakeUpPending` and
`IdleTimerKept` are then inductive on top of `Inv`. The former speaks of a table with a timed
move to come: a step that leaves one brings its deadline, and a settle overtaken, which
brings none, leaves the table to the call that overtook it, on its way to arm or to settle.

**`PlayTablesProofs`.** `TypeCorrect`; `LocksHold`; `WithinLimit` (`SeatsWithinLimit`);
`KickedOut` (`KickedStayOut`); `HostInSeat` (`HostSeated`); `OneTable` (`QuietOneTable`).
All rest on `Locks`: a row a seating has checked is as it checked it when it commits
(`SeatsHeld`, `CreatesNew`), two seatings never hold one row (`SeatsAlone`,
`CreatesAlone`), an unused id seats nobody (`NewEmpty`). `HostSeated` speaks of open
tables, but a rematch starts from a finished one: `Hosted` adds that a finished or running
table keeps somebody. `QuietOneTable` speaks of quiet players and is not inductive:
`CoveredSeats` says that two open tables of a player are always *covered* by a call of
theirs, one which has not read the other tables yet and will see one of the two, or one
which has one of them in its list to leave. A launch is the one other way to open a
table: `Launches` keeps it to tables still running or abandoned.

**`BombTableProofs`.** `TypeCorrect`; `Holder` (`HolderAlive`); `Draft`
(`DraftIsHolders`); `Fuse` (`FairFuse`); `Ranks` (`ScoresRank`). `Inv` adds that whoever
is out went out once and nobody else did (`OutOnce`, which makes the ranks of the dead
distinct), that a dead player is on turn only under the bomb that closed the table, the
fuse burnt (`HolderLives`, which a settle of a closed table needs), and the places of the
survivors (`SurvivorPlaces`). The rules are proved as lemmas (`NextTurnIn`, `FuseFair`,
`PlacesAre`). The players a call read may be any set of seats: the proofs never use that
they are up to date.

**`SharedDocProofs`.** `TypeCorrect`; `Dirty` (`DirtyHasReader`); `Seated`
(`SeatedInOpenRoom`); `Followed` (`FollowedIsSeated`); `Kept` (`EditsKept`). `Inv` has an
invariant of each room (`RoomOK`: writes are taken in turn, the last one carries the whole
document unless an edit came since), no load while a room is open (`LoadClosed`), one
opening of a socket given up at a time (`TwoOpenings`), and `OneWriter`: under the
reserves of `EditsKept`, only the open room has writes to come, it holds every edit, a
load has read every edit. Without that last part a new room could start from a database
an older one is about to change, which is the finding.

**`PlayEnginesProofs`.** *`LudoTable`*: `TypeCorrect`; `Alone` (`OneOnTrack`); `Playable`
(`DiceHasMove`); `Races` (`TurnRaces`); `Ordered` (`PlacesInOrder`); `Taking`
(`OnlyTakenGoBack`); `Ranking` (`PlacesRank`), for every board, die and set of house rules.
`Sound` gathers the invariants as `BoardSound`, the property of the run. `PlacesInOrder` and
`OneOnTrack` are what the others lean on: a move lands where `MayMove` lets it, takes every
rival there, and gives the next place to a colour all home. `Ranking` needs no more of the
weight of a place than to be positive (1000 in `outcome.ts:8`): a colour home has walked the
most there is to walk (`WalksFurther`), so a place cannot be outrun. It holds of the scores a
late call writes again too, which the finding about `FinalScores` allows.
*`BaccalaureatTable`*: `RoundsHold` (`RoundsSound`) and `PaidOnce`
(`RoundsPaidOnce`). `RoundsInTurn` says that rounds before the latest are counted, and that
the one call of the host opens a round only once the latest is counted too; `Paid`, that a
bonus stands in a counted round only. The first is stated under the reserve of
`EndsCounted`, the payment under none: however many calls count a round, one pays it. The
points of a player are a sum over a set, whose recursion is that of `MapThenSumSet`: a
smallest set on which it had no solution, or one that is no number, would be built from a
smaller (`SumsExist`, `SumNat`, from the well-founded order of the naturals).

**`RoomsProofs`.** *`PresenceRoom`*: `Shown` (`ListsSound`), which is inductive as it
stands: every step that changes who stands in a room asks for the broadcast. *`PageSeat`*:
`PageSeated` (`SeatSound`). That the seat is whole says nothing of the checks under way:
`SeatKept` and `SeatUpToDate` add what a listener that heard every move owes, an access no
older than the last move or a check that will read one. *`PlayRoom`*: `Pushed`
(`RoomSound`). `NewestShown` speaks of a room whose last push is over and did not fail.
`RoomBoards` says of any moment what a reader is owed (`RoomDue`): the board as it is, or a
view of it on its way, or a signal, a push that has not read the game, one queued behind
it, one that failed and that the next signal makes good; or the last board of the reader is
a stray one, read for a push that gave up or for a room that closed. A view read late could
undo a newer one: until a push is asked again, every board on its way to the room is of the
game as it is. `RoomSeats` has one room with readers at a time; `RoomNumbers` counts the
rooms opened against the openings over, since a new one takes the next number and must stay
within the model's.

**`LivesProofs`.** *`EventSubSession`*: `SessionHolds` (`SessionSound`). That nothing wakes
a stopped session up rests on `LinksOK`: a socket with no predecessor is the current one
while it is open, for a retry is only ever asked with the current socket closed or
replaced. Without it such a socket could outlive a stop and take `null` for its own
predecessor. `NotesOK` says that notifications are told in the order they are sent and
that the latest ones are those remembered; it assumes that Twitch delivers again no more
than is remembered (`SeenAssumption`). *`LiveWatch`*: `Watched` (`WatchSound`). `WatchHistory`
ties what was told to the status reached, `WatchMovesAllowed` keeps a move in flight to
what its read allowed: an update whose condition is `FromThere` cannot write it twice.
*`LivePresence`*: `Moderated` (`PresencesSound`). A stop reads the stretches it will
close and writes them later: `ViewStopsInOrder` says that whatever began since began after
the moment of the stop, so that closing a stretch in the past cannot cross the next one.
`StretchesEndWhereLeft` (the action of `StopsWhereLeft`): what a sweep, a beat or the end of
the live read is written some steps later, so the moment must be right from the read on.
`ViewHeard` follows it: rows never say later than the latest beat that counted, a stop on its
way is at most the tolerated silence after it, and whoever has a stretch has beaten. The end
of the live rests on the last: a member without a single presence would be stopped when the
live ended, not where they left.

**`OnceProofs`.** *`IdempotentWrite`*: `Written` (`WriteSound`). The properties speak of
undisturbed keys, so the invariant first says that what disturbs one is spent and never
comes back (`WriteLeftOK`), and that undisturbed calls look at one store (`OneStore`);
`KeyTells` is then the life of a key: free with nothing written, under way for the only
call that runs, its answer for good. `ClaimIsHeld` is inductive even when keys expire. An
answer is numbered below the count of calls: `Over` counts those that have run the write.
*`PlayTournament`*: `TournamentHolds` (`TournamentSound`). `TourChain` says that only the
last table of the chain may still be played, `TourOneMove` that one call at a time moves
the tournament on, the claim being taken once; `TourPaid` and `TourTotals` tie the payment
and the totals to those steps; `GoesOn` is inductive with them.
*`PushDelivery`*: `Delivered` (`DeliverySound`). `PushesOK` and `PushLinesOK` give every
promise its row and its device, and rows are never given again. `SentOnce` is a budget
(`PushBudget`): the copies a device showed and the promises that may show one more are no
more than one, and one for each run cut by a crash or a throw and for each removal; a device
still owed the notification has not spent the one. `SettledLinesStay` (the action of
`SettledStays`) holds until a run ends on a throw, whatever crashes and is removed: no two
promises are then about one device and notification, nor is any about a settled line
(`PushAlone`), so no late attempt reopens one. *`AnnualSlots`*: `SlotsSettle` (`SlotsSound`).
One request at a time, each step between two queries has an invariant of its own
(`SlotCallTrue`): what the request has read is still so, and what it has yet to write is all
that is missing for slots, tasks, answers and card to agree, those set apart or left behind
by a hand or a failure excepted. It must hold wherever the request may fail. For two requests
that cross over two slots, a claim that follows a read is written only on the slot free at
that moment: whoever holds two has a call that is about to free one of them (`SlotCovered`).
`HoldersNeverReplaced` (the action of `NeverReplaced`) follows in both scopes: a slot is only
ever given while nobody holds it.

### Model-checked only

Liveness (`SilentGameStops`, `SweepEndsGames`, `TableCloses`, `EditStored`, `WatchSettles`,
`SessionHears`, `Reaches`): the prover has no reasoning about fairness and `ENABLED`. The
properties of `AnnualSlots` left to one scope (`TaskFollows`, `CardTrue` and `AnswersTrue` to
requests in turn, `AtMostOne` to those that cross) do not hold beyond it. The properties of
the four finding runs are violated and have nothing to prove.

## 5. Not modelled, and why

Boards as drawn, chat, journals, colours, prompts: data no property here tells apart.
Carets of documents. Crashes inside `SharedDoc`: nothing is promised between two writes.
Golf: its shots are physics in floating point. Authentication and permissions: who may do
what is a precondition of each action here. Most of the repository's lines are screens
(`src/src/composites`, `components`, `hooks`), declarations and configuration
(`src/src/declarations`), and services that read and write administrative rows in one
request (recruitment, academy, work, members, sanctions, absences, calendar events):
nothing in them interleaves beyond a database transaction, and their code is mostly shape
and wording. The share of the lines mapped stays small for that reason.

## 6. Plan

1. *Done*: the modules of section 2, with the proofs of section 4: every safety property of a
   passing run is a theorem, and so is every action property checked apart.
2. *Proofs*: what the compositions and modules below would add.
3. *Composition*: `PlayTournament` over `PlayTables`, `LiveWatch` with its
   `EventSubSession`, `PageSeat` with `SharedDoc`.
4. *Recruitment steps*, *votes* and *the trash of pages*: small modules of claims.
