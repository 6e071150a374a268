------------------------------ MODULE PlayGame ------------------------------
(***************************************************************************)
(* One game of Memora Play from its lobby to its end: the row every        *)
(* request and every timer of the Node process changes, one transaction at *)
(* a time, and the timers and the last-action clock this process keeps in  *)
(* memory and loses when it dies.                                          *)
(*                                                                         *)
(* Requests and timer callbacks are calls: a call runs to its next await   *)
(* in one step, and any other call may run before it resumes, so what it   *)
(* read may be stale when it acts.  The rules of a game are external to    *)
(* this module: an engine opens a table, and each settle or act leaves it  *)
(* with a timed move to come, waiting for a player (a Baccalaureat round   *)
(* counted, until the host asks for the next), or closed.  A settle        *)
(* overtaken by another change may find nothing left to do.  BombTable     *)
(* models one engine, BaccalaureatTable the one that waits.                *)
(*                                                                         *)
(* The game belongs to no tournament, and nobody acts on a Baccalaureat    *)
(* game between its launch and its first round: its engine lets such an    *)
(* action through, the others refuse it.                                   *)
(***************************************************************************)
EXTENDS Naturals, FiniteSets

CONSTANTS
    Players,        \* accounts
    Calls,          \* requests and timer callbacks in flight at once
    MinPlayers,     \* players a game needs to start
    MaxFaults,      \* bound: crashes and failed calls
    MaxStarts,      \* bound: launches
    MaxActs         \* bound: player actions

ASSUME PlayersAssumption == IsFiniteSet(Players)
ASSUME MinPlayersAssumption == MinPlayers \in Nat \ {0}
ASSUME BoundsAssumption == MaxFaults \in Nat /\ MaxStarts \in Nat /\ MaxActs \in Nat

VARIABLES
    \* Rows of the database
    status,         \* status of the game
    seated,         \* players holding a seat
    table,          \* the engine's table: not yet there, in play with a timed
                    \* move to come, in play waiting for a player, closed
    paid,           \* times the results were written
    touched,        \* updatedAt: recent, or older than the idle limit
    \* Memory of the process
    deadline,       \* timer of the next timed move armed
    idle,           \* idle timer armed
    last,           \* last action: unknown, recent, older than the idle limit
    call,           \* calls in flight
    \* History and bounds
    disturbed,      \* the process died, or a call failed half-way
    reverted,       \* an opening failed
    faults, starts, acts

rowVars    == <<status, seated, table, paid, touched>>
memoryVars == <<deadline, idle, last>>
noteVars   == <<disturbed, reverted, faults, starts, acts>>
vars       == <<rowVars, memoryVars, call, noteVars>>

-----------------------------------------------------------------------------
Life == INSTANCE GameLife WITH status <- status, paid <- paid

Statuses == {"LOBBY", "RUNNING", "FINISHED", "ABANDONED"}
Open     == {"LOBBY", "RUNNING"}

\* Where a call stands: the name of what it does next.
Places == {"rest", "loading", "settling", "overtaken", "opening", "reverting",
           "arming", "noting", "checking", "playing", "closing", "claiming",
           "abandoning", "stopping"}

\* What follows the engine's step: nothing, the launch's own first action, a
\* move on the game as read, a move on the game read again.
Sequels == {"end", "note", "play", "check"}

AtRest == [at |-> "rest", then |-> "end"]

Go(c, at, then) == call' = [call EXCEPT ![c] = [at |-> at, then |-> then]]
Rest(c)         == call' = [call EXCEPT ![c] = AtRest]

\* The call changes the table and goes on: what the settles under way read of
\* it is out of date.
GoAhead(c, at, then) ==
    call' = [d \in Calls |->
               IF d = c THEN [at |-> at, then |-> then]
               ELSE IF call[d].at = "settling" THEN [call[d] EXCEPT !.at = "overtaken"]
               ELSE call[d]]

TypeOK ==
    /\ status \in Statuses
    /\ seated \subseteq Players
    /\ table \in {"none", "open", "waiting", "over"}
    /\ paid \in Nat
    /\ touched \in {"fresh", "old"}
    /\ deadline \in BOOLEAN
    /\ idle \in BOOLEAN
    /\ last \in {"none", "fresh", "old"}
    /\ call \in [Calls -> [at : Places, then : Sequels]]
    /\ disturbed \in BOOLEAN
    /\ reverted \in BOOLEAN
    /\ faults \in Nat
    /\ starts \in Nat
    /\ acts \in Nat

\* A lobby just opened, its creator seated.
Init ==
    /\ status = "LOBBY"
    /\ \E p \in Players : seated = {p}
    /\ table = "none"
    /\ paid = 0
    /\ touched = "fresh"
    /\ deadline = FALSE
    /\ idle = FALSE
    /\ last = "none"
    /\ call = [c \in Calls |-> AtRest]
    /\ disturbed = FALSE
    /\ reverted = FALSE
    /\ faults = 0
    /\ starts = 0
    /\ acts = 0

-----------------------------------------------------------------------------
(* The lobby: whole transactions on the locked row.                        *)

JoinSession(p) ==
    /\ status = "LOBBY"
    /\ p \notin seated
    /\ seated' = seated \union {p}
    /\ touched' = "fresh"
    /\ UNCHANGED <<status, table, paid, memoryVars, call, noteVars>>

\* Mutant of LeaveSession: the emptied table is not closed.
LeaveSessionNoClose(p) ==
    /\ p \in seated
    /\ seated' = seated \ {p}
    /\ touched' = "fresh"
    /\ UNCHANGED <<status, table, paid, memoryVars, call, noteVars>>

\* A player leaves, or the host removes them, whatever the status.  The last
\* one out abandons the game and drops its timers.
LeaveSession(p) ==
    /\ p \in seated
    /\ seated' = seated \ {p}
    /\ touched' = "fresh"
    /\ IF seated = {p}
         THEN /\ status' = "ABANDONED"
              /\ deadline' = FALSE
              /\ idle' = FALSE
         ELSE UNCHANGED <<status, deadline, idle>>
    /\ UNCHANGED <<table, paid, last, call, noteVars>>

CancelSession ==
    /\ status = "LOBBY"
    /\ status' = "ABANDONED"
    /\ touched' = "fresh"
    /\ UNCHANGED <<seated, table, paid, memoryVars, call, noteVars>>

\* Any reader of the Play page closes the lobbies nobody touched.
CloseIdleLobby ==
    /\ status = "LOBBY"
    /\ touched = "old"
    /\ status' = "ABANDONED"
    /\ touched' = "fresh"
    /\ UNCHANGED <<seated, table, paid, memoryVars, call, noteVars>>

-----------------------------------------------------------------------------
(* The launch.                                                             *)

StartSession(c) ==
    /\ call[c] = AtRest
    /\ starts < MaxStarts
    /\ status = "LOBBY"
    /\ Cardinality(seated) >= MinPlayers
    /\ status' = "RUNNING"
    /\ touched' = "fresh"
    /\ starts' = starts + 1
    /\ Go(c, "opening", "note")
    /\ UNCHANGED <<seated, table, paid, memoryVars, disturbed, reverted, faults, acts>>

\* The engine lays the table, one row per game.
OpenTable(c) ==
    /\ call[c].at = "opening"
    /\ table = "none"
    /\ table' = "open"
    /\ Go(c, "arming", "note")
    /\ UNCHANGED <<status, seated, paid, touched, memoryVars, noteVars>>

\* The engine throws: a word bank or a row it could not read or write.
OpenFails(c) ==
    /\ call[c].at = "opening"
    /\ faults < MaxFaults
    /\ faults' = faults + 1
    /\ Go(c, "reverting", "end")
    /\ UNCHANGED <<rowVars, memoryVars, disturbed, reverted, starts, acts>>

\* Mutant of RevertStart: a status the rest of the code does not know.
RevertStartUnknown(c) ==
    /\ call[c].at = "reverting"
    /\ status' = "OPEN"
    /\ touched' = "fresh"
    /\ reverted' = TRUE
    /\ Rest(c)
    /\ UNCHANGED <<seated, table, paid, memoryVars, disturbed, faults, starts, acts>>

\* Back to the lobby, whatever became of the game since.
RevertStart(c) ==
    /\ call[c].at = "reverting"
    /\ status' = "LOBBY"
    /\ touched' = "fresh"
    /\ reverted' = TRUE
    /\ Rest(c)
    /\ UNCHANGED <<seated, table, paid, memoryVars, disturbed, faults, starts, acts>>

-----------------------------------------------------------------------------
(* Reading, settling and playing a running game.                           *)

ReadSession(c) ==
    /\ call[c] = AtRest
    /\ Go(c, "loading", "end")
    /\ UNCHANGED <<rowVars, memoryVars, noteVars>>

\* An account that holds no seat is refused after the same settling: it reads.
ActInSession(c) ==
    /\ call[c] = AtRest
    /\ acts < MaxActs
    /\ seated # {}
    /\ acts' = acts + 1
    /\ Go(c, "loading", "play")
    /\ UNCHANGED <<rowVars, memoryVars, disturbed, reverted, faults, starts>>

\* The timer is gone before its work begins.
DeadlineFires(c) ==
    /\ call[c] = AtRest
    /\ deadline
    /\ deadline' = FALSE
    /\ Go(c, "loading", "end")
    /\ UNCHANGED <<rowVars, idle, last, noteVars>>

LoadSession(c) ==
    /\ call[c].at = "loading"
    /\ IF status = "RUNNING" THEN Go(c, "settling", call[c].then) ELSE Rest(c)
    /\ UNCHANGED <<rowVars, memoryVars, noteVars>>

\* A step that changed the table has the game read again before a move on it.
AfterChange(then) == IF then = "play" THEN "check" ELSE then

\* Where the engine's step leaves the call: done, about to read the game again,
\* or about to note the action.
Follow(then) ==
    CASE then = "end"   -> "rest"
      [] then = "check" -> "checking"
      [] OTHER          -> "noting"

Kept(then) == IF then = "check" THEN "play" ELSE then

\* Mutant of SettleTable: a settle that finds nothing overdue asks for no timer.
SettleTableNoDeadline(c) ==
    /\ call[c].at \in {"settling", "overtaken"}
    /\ \/ /\ table = "open"
          /\ table' = "open"
          /\ Go(c, Follow(call[c].then), Kept(call[c].then))
       \/ /\ table # "none"
          /\ table' = "over"
          /\ GoAhead(c, "closing", AfterChange(call[c].then))
    /\ UNCHANGED <<status, seated, paid, touched, memoryVars, noteVars>>

\* The engine plays what is overdue.  No table yet: it throws.  A timed move to
\* come: it is not due, or played and another one follows, or played and the
\* table waits for a player.  A table that waits: nothing.  The last move
\* closes the table, and a closed one is said so again.  Only a timed move to
\* come asks for a timer.
SettleTable(c) ==
    LET changed == AfterChange(call[c].then)
        NotDue   == table = "open" /\ UNCHANGED table /\ Go(c, "arming", call[c].then)
        Played   == table = "open" /\ UNCHANGED table /\ GoAhead(c, "arming", changed)
        LastDue  == /\ table = "open"
                    /\ table' = "waiting"
                    /\ GoAhead(c, Follow(changed), Kept(changed))
        Nothing  == /\ table = "waiting"
                    /\ UNCHANGED table
                    /\ Go(c, Follow(call[c].then), Kept(call[c].then))
        Closed   == table # "none" /\ table' = "over" /\ GoAhead(c, "closing", changed)
        NoTable  == table = "none" /\ UNCHANGED table /\ Rest(c)
    IN  /\ call[c].at \in {"settling", "overtaken"}
        /\ NotDue \/ Played \/ LastDue \/ Nothing \/ Closed \/ NoTable
        /\ UNCHANGED <<status, seated, paid, touched, memoryVars, noteVars>>

\* The move that was due is already played by the time this settle claims it:
\* it finds nothing changed and asks for no timer.
SettleLost(c) ==
    /\ call[c].at = "overtaken"
    /\ \E then \in {call[c].then, AfterChange(call[c].then)} :
          Go(c, Follow(then), Kept(then))
    /\ UNCHANGED <<rowVars, memoryVars, noteVars>>

\* The engine's deadline replaces the armed one.
ApplyDeadline(c) ==
    /\ call[c].at = "arming"
    /\ deadline' = TRUE
    /\ Go(c, Follow(call[c].then), Kept(call[c].then))
    /\ UNCHANGED <<rowVars, idle, last, noteVars>>

\* The move goes on only on a game still running, as read after the settling.
CheckRunning(c) ==
    /\ call[c].at = "checking"
    /\ IF status = "RUNNING" /\ seated # {}
         THEN Go(c, "noting", "play")
         ELSE Rest(c)
    /\ UNCHANGED <<rowVars, memoryVars, noteVars>>

\* Mutant of NoteAction: the timer is armed for the first game only.
NoteActionNoTimer(c) ==
    /\ call[c].at = "noting"
    /\ last' = "fresh"
    /\ touched' = "fresh"
    /\ IF call[c].then = "play" THEN Go(c, "playing", "end") ELSE Rest(c)
    /\ UNCHANGED <<status, seated, table, paid, deadline, idle, noteVars>>

\* The idle clock restarts, its timer armed on the first action known.
NoteAction(c) ==
    /\ call[c].at = "noting"
    /\ idle' = (idle \/ last = "none")
    /\ last' = "fresh"
    /\ touched' = "fresh"
    /\ IF call[c].then = "play" THEN Go(c, "playing", "end") ELSE Rest(c)
    /\ UNCHANGED <<status, seated, table, paid, deadline, noteVars>>

\* The engine plays the action, whatever the game's status.  It is refused, or
\* leaves the timed move as it was; it changes the timed move to come; it ends
\* the timed part, as the host's count does; it starts one again, as the host's
\* next round does; or it closes the table.  A table that is over is only known
\* to be so by a settle: an action may still be played on it.
PlayMove(c) ==
    LET NoTimedMove == UNCHANGED table /\ Rest(c)
        NewTimedMove == /\ table \in {"open", "over"}
                        /\ UNCHANGED table
                        /\ GoAhead(c, "arming", "end")
        Count == table = "open" /\ table' = "waiting" /\ GoAhead(c, "rest", "end")
        NextRound == table = "waiting" /\ table' = "open" /\ GoAhead(c, "arming", "end")
        Close == table # "none" /\ table' = "over" /\ GoAhead(c, "closing", "end")
    IN  /\ call[c].at = "playing"
        /\ NoTimedMove \/ NewTimedMove \/ Count \/ NextRound \/ Close
        /\ UNCHANGED <<status, seated, paid, touched, memoryVars, noteVars>>

-----------------------------------------------------------------------------
(* The end: finished and paid, or abandoned.                               *)

DropTimers(c) ==
    /\ call[c].at = "closing"
    /\ deadline' = FALSE
    /\ idle' = FALSE
    /\ Go(c, "claiming", call[c].then)
    /\ UNCHANGED <<rowVars, last, noteVars>>

\* Mutant of FinishSession: the claim forgets to ask for a running game.
FinishSessionUnclaimed(c) ==
    /\ call[c].at = "claiming"
    /\ status' = "FINISHED"
    /\ paid' = paid + 1
    /\ touched' = "fresh"
    /\ IF call[c].then = "check" THEN Go(c, "checking", "play") ELSE Rest(c)
    /\ UNCHANGED <<seated, table, memoryVars, noteVars>>

\* One transaction claims the end of a running game and pays its players.
FinishSession(c) ==
    /\ call[c].at = "claiming"
    /\ IF status = "RUNNING"
         THEN /\ status' = "FINISHED"
              /\ paid' = paid + 1
              /\ touched' = "fresh"
         ELSE UNCHANGED <<status, paid, touched>>
    /\ IF call[c].then = "check" THEN Go(c, "checking", "play") ELSE Rest(c)
    /\ UNCHANGED <<seated, table, memoryVars, noteVars>>

\* The idle timer before the limit re-arms itself and changes nothing; past
\* the limit it forgets the game's timers and clock at once.
IdleFires(c) ==
    /\ call[c] = AtRest
    /\ idle
    /\ last # "fresh"
    /\ deadline' = FALSE
    /\ idle' = FALSE
    /\ last' = "none"
    /\ Go(c, "stopping", "end")
    /\ UNCHANGED <<rowVars, noteVars>>

\* Mutant of SweepIdleGames: silence read from the memory of the process.
SweepIdleGamesInMemory(c) ==
    /\ call[c] = AtRest
    /\ status = "RUNNING"
    /\ last = "old"
    /\ Go(c, "abandoning", "end")
    /\ UNCHANGED <<rowVars, memoryVars, noteVars>>

\* A reader of the Play page finds a running game silent past the limit.
SweepIdleGames(c) ==
    /\ call[c] = AtRest
    /\ status = "RUNNING"
    /\ touched = "old"
    /\ Go(c, "abandoning", "end")
    /\ UNCHANGED <<rowVars, memoryVars, noteVars>>

\* The away timer of the game's room: whether anyone is still connected is
\* not modelled, it may go off on any running game.
AwayFires(c) ==
    /\ call[c] = AtRest
    /\ status = "RUNNING"
    /\ Go(c, "abandoning", "end")
    /\ UNCHANGED <<rowVars, memoryVars, noteVars>>

\* Mutant of AbandonRunning: the last action is not forgotten.
AbandonRunningKeepsClock(c) ==
    /\ call[c].at = "abandoning"
    /\ deadline' = FALSE
    /\ idle' = FALSE
    /\ Go(c, "stopping", "end")
    /\ UNCHANGED <<rowVars, last, noteVars>>

\* The timers and the clock are forgotten before the row is written.
AbandonRunning(c) ==
    /\ call[c].at = "abandoning"
    /\ deadline' = FALSE
    /\ idle' = FALSE
    /\ last' = "none"
    /\ Go(c, "stopping", "end")
    /\ UNCHANGED <<rowVars, noteVars>>

\* Only a running game stops.
StopRunning(c) ==
    /\ call[c].at = "stopping"
    /\ IF status = "RUNNING"
         THEN status' = "ABANDONED" /\ touched' = "fresh"
         ELSE UNCHANGED <<status, touched>>
    /\ Rest(c)
    /\ UNCHANGED <<seated, table, paid, memoryVars, noteVars>>

-----------------------------------------------------------------------------
(* Time, and what goes wrong.                                              *)

RowAges ==
    /\ touched = "fresh"
    /\ touched' = "old"
    /\ UNCHANGED <<status, seated, table, paid, memoryVars, call, noteVars>>

ActionAges ==
    /\ last = "fresh"
    /\ last' = "old"
    /\ UNCHANGED <<rowVars, deadline, idle, call, noteVars>>

\* A query of the call fails: the call ends there, nothing it awaited written.
CallFails(c) ==
    /\ call[c].at \in {"loading", "settling", "overtaken", "checking", "playing", "claiming",
                       "stopping", "reverting"}
    /\ faults < MaxFaults
    /\ faults' = faults + 1
    /\ disturbed' = TRUE
    /\ Rest(c)
    /\ UNCHANGED <<rowVars, memoryVars, reverted, starts, acts>>

\* The process dies: every call, timer and clock with it.
Crash ==
    /\ faults < MaxFaults
    /\ faults' = faults + 1
    /\ disturbed' = TRUE
    /\ deadline' = FALSE
    /\ idle' = FALSE
    /\ last' = "none"
    /\ call' = [c \in Calls |-> AtRest]
    /\ UNCHANGED <<rowVars, reverted, starts, acts>>

-----------------------------------------------------------------------------
\* What a call in flight does next.
Step(c) ==
    \/ OpenTable(c) \/ RevertStart(c)
    \/ LoadSession(c) \/ SettleTable(c) \/ SettleLost(c) \/ ApplyDeadline(c)
    \/ CheckRunning(c)
    \/ NoteAction(c) \/ PlayMove(c) \/ DropTimers(c) \/ FinishSession(c)
    \/ AbandonRunning(c) \/ StopRunning(c)

\* What begins a call.
Begin(c) ==
    \/ StartSession(c) \/ ReadSession(c) \/ ActInSession(c)
    \/ DeadlineFires(c) \/ IdleFires(c) \/ SweepIdleGames(c) \/ AwayFires(c)

Lobby ==
    \/ \E p \in Players : JoinSession(p) \/ LeaveSession(p)
    \/ CancelSession \/ CloseIdleLobby

Next ==
    \/ \E c \in Calls : Step(c) \/ Begin(c) \/ OpenFails(c) \/ CallFails(c)
    \/ Lobby
    \/ RowAges \/ ActionAges
    \/ Crash

\* A call that awaits resumes, a timer fires, time passes.  Timers ask for
\* strong fairness because a bounded number of calls stands for a process
\* that never lacks one.
Fairness ==
    /\ \A c \in Calls : WF_vars(Step(c))
    /\ SF_vars(\E c \in Calls : DeadlineFires(c))
    /\ SF_vars(\E c \in Calls : IdleFires(c))
    /\ WF_vars(RowAges)
    /\ WF_vars(ActionAges)

Spec == Init /\ [][Next]_vars
FairSpec == Spec /\ Fairness

-----------------------------------------------------------------------------
(* Properties.                                                             *)

\* The game's row lives the life GameLife describes: opened, ended once, paid
\* at most once, never brought back after the payment, although the end may be
\* reported by any number of calls at once (RewardService.finishSession) and a
\* failed launch rewrites the status blindly (GameService.startSession).
LivesOnce == Life!Spec

\* A timed move to come is always going to be played: its deadline is armed, or
\* a call that arms it or stops the game is on its way, although settles cross
\* and one that lost its move arms nothing (timers.ts, GameService.applyStep,
\* PlayIdleService.abandonRunning).  A table that waits for a player has none.
WakeUpPending ==
    (status = "RUNNING" /\ table = "open" /\ ~disturbed) =>
        \/ deadline
        \/ \E c \in Calls :
             call[c].at \in {"loading", "settling", "arming", "stopping"}

\* A running game whose last action is known has its idle timer, unless a call
\* is already closing it: the timer is armed once and re-arms itself, so one
\* drop too many would leave the game without (PlayIdleService.noteAction).
IdleTimerKept ==
    (status = "RUNNING" /\ last # "none" /\ ~disturbed) =>
        \/ idle
        \/ \E c \in Calls : call[c].at = "claiming"

\* A game open to players holds one, but for a lobby put back by a launch that
\* failed after everyone had left (LobbyService.afterDeparture).
OpenHoldsPlayers ==
    (status \in Open /\ seated = {}) => (status = "LOBBY" /\ reverted)

\* A running game that falls silent stops by its own timers, as long as the
\* process lives and no query of it fails (PlayIdleService.armIdle).
SilentGameStops ==
    (status = "RUNNING") ~> (status # "RUNNING" \/ disturbed)

\* Whatever was lost, crashes and failures included, a running game ends once
\* members keep opening the Play page (PlayIdleService.sweepIdleGames): a game
\* is never stuck running.
SweepEndsGames ==
    SF_vars(\E c \in Calls : SweepIdleGames(c)) =>
        ((status = "RUNNING") ~> (status # "RUNNING"))
=============================================================================
