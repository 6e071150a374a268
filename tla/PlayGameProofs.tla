--------------------------- MODULE PlayGameProofs ---------------------------
(***************************************************************************)
(* Proofs about PlayGame, for any players, any number of calls in flight   *)
(* and any bounds: its type invariant, the inductive invariant Inv, the    *)
(* implementation of GameLife and the safety invariants TLC checks.        *)
(***************************************************************************)
EXTENDS PlayGame, FiniteSetTheorems, TLAPS

Launching == {"opening", "reverting"}

\* One launch at a time, and its table is not laid yet: what makes the blind
\* rewrite of the status by a failed launch safe.
LaunchAlone ==
    \A c, d \in Calls :
        (call[c].at \in Launching /\ call[d].at \in Launching) => c = d

LaunchUnplayed ==
    \A c \in Calls :
        call[c].at \in Launching =>
            table = "none" /\ status \in {"RUNNING", "ABANDONED"}

\* A lobby has no table.
LobbyUnplayed == status = "LOBBY" => table = "none"

\* A call past the engine found a table, a call past its end a closed one.
PlayedCalls ==
    \A c \in Calls :
        /\ call[c].at \in {"overtaken", "arming", "noting", "checking", "playing"} => table # "none"
        /\ call[c].at \in {"closing", "claiming"} => table = "over"

\* The clock of the last action starts with the table.
ClockPlayed == last # "none" => table # "none"

\* The one payment follows the end of the table and ends the game.
PaidEnded ==
    /\ paid \in {0, 1}
    /\ paid = 1 => table = "over" /\ status \in {"FINISHED", "ABANDONED"}

Inv ==
    /\ TypeOK
    /\ LaunchAlone
    /\ LaunchUnplayed
    /\ LobbyUnplayed
    /\ PlayedCalls
    /\ ClockPlayed
    /\ PaidEnded

-----------------------------------------------------------------------------
\* TypeOK: every variable keeps its type through every step.
LEMMA RestType == AtRest \in [at : Places, then : Sequels]
  BY DEF AtRest, Places, Sequels

LEMMA AllRestType ==
  [c \in Calls |-> AtRest] \in [Calls -> [at : Places, then : Sequels]]
  BY RestType

LEMMA TypeInit == Init => TypeOK
<1> SUFFICES ASSUME Init PROVE TypeOK
  OBVIOUS
<1>1. call \in [Calls -> [at : Places, then : Sequels]]
  BY AllRestType DEF Init
<1>2. seated \subseteq Players
  BY DEF Init
<1>3. QED BY <1>1, <1>2 DEF Init, TypeOK, Statuses

LEMMA CrashType == TypeOK /\ Crash => TypeOK'
<1> SUFFICES ASSUME TypeOK, Crash PROVE TypeOK'
  OBVIOUS
<1>1. call' \in [Calls -> [at : Places, then : Sequels]]
  BY AllRestType DEF Crash
<1>2. /\ UNCHANGED <<status, seated, table, paid, touched, reverted, starts, acts>>
      /\ deadline' \in BOOLEAN /\ idle' \in BOOLEAN /\ last' = "none"
      /\ disturbed' \in BOOLEAN
  BY DEF Crash, rowVars
<1>3. faults' \in Nat
  BY DEF Crash, TypeOK
<1>4. QED
  BY <1>1, <1>2, <1>3 DEF TypeOK

LEMMA TypeStep == TypeOK /\ [Next]_vars => TypeOK'
<1> SUFFICES ASSUME TypeOK, [Next]_vars
             PROVE  TypeOK'
  OBVIOUS
<1> USE DEF TypeOK, Statuses, Places, Sequels, AtRest, Go, GoAhead, Follow, Kept, Rest, rowVars, memoryVars, noteVars
<1>1. ASSUME NEW c \in Calls, Step(c)
      PROVE  TypeOK'
  <2>1. CASE OpenTable(c)       BY <2>1 DEF OpenTable
  <2>2. CASE RevertStart(c)     BY <2>2 DEF RevertStart
  <2>3. CASE LoadSession(c)     BY <2>3 DEF LoadSession
  <2>4. CASE SettleTable(c)     BY <2>4 DEF SettleTable, AfterChange
  <2>5. CASE ApplyDeadline(c)   BY <2>5 DEF ApplyDeadline
  <2>6. CASE CheckRunning(c)    BY <2>6 DEF CheckRunning
  <2>7. CASE NoteAction(c)      BY <2>7 DEF NoteAction
  <2>8. CASE PlayMove(c)        BY <2>8 DEF PlayMove
  <2>9. CASE DropTimers(c)      BY <2>9, ZenonT(40) DEF DropTimers
  <2>10. CASE FinishSession(c)  BY <2>10 DEF FinishSession
  <2>11. CASE AbandonRunning(c) BY <2>11 DEF AbandonRunning
  <2>12. CASE StopRunning(c)    BY <2>12 DEF StopRunning
  <2>13. CASE SettleLost(c)     BY <2>13 DEF SettleLost, AfterChange
  <2>14. QED BY <1>1, <2>1, <2>2, <2>3, <2>4, <2>5, <2>6, <2>7, <2>8, <2>9,
                <2>10, <2>11, <2>12, <2>13 DEF Step
<1>2. ASSUME NEW c \in Calls, Begin(c)
      PROVE  TypeOK'
  <2>1. CASE StartSession(c)    BY <2>1 DEF StartSession
  <2>2. CASE ReadSession(c)     BY <2>2 DEF ReadSession
  <2>3. CASE ActInSession(c)    BY <2>3 DEF ActInSession
  <2>4. CASE DeadlineFires(c)   BY <2>4, ZenonT(40) DEF DeadlineFires
  <2>5. CASE IdleFires(c)       BY <2>5 DEF IdleFires
  <2>6. CASE SweepIdleGames(c)  BY <2>6 DEF SweepIdleGames
  <2>7. CASE AwayFires(c)       BY <2>7 DEF AwayFires
  <2>8. QED BY <1>2, <2>1, <2>2, <2>3, <2>4, <2>5, <2>6, <2>7 DEF Begin
<1>3. ASSUME NEW c \in Calls, OpenFails(c) \/ CallFails(c)
      PROVE  TypeOK'
  <2>1. CASE OpenFails(c)  BY <2>1, BoundsAssumption DEF OpenFails
  <2>2. CASE CallFails(c)  BY <2>2, BoundsAssumption DEF CallFails
  <2>3. QED BY <1>3, <2>1, <2>2
<1>4. ASSUME NEW p \in Players, JoinSession(p) \/ LeaveSession(p)
      PROVE  TypeOK'
  <2>1. CASE JoinSession(p)   BY <2>1 DEF JoinSession
  <2>2. CASE LeaveSession(p)  BY <2>2, ZenonT(40) DEF LeaveSession
  <2>3. QED BY <1>4, <2>1, <2>2
<1>5. CASE CancelSession \/ CloseIdleLobby
  <2>1. CASE CancelSession    BY <2>1 DEF CancelSession
  <2>2. CASE CloseIdleLobby   BY <2>2 DEF CloseIdleLobby
  <2>3. QED BY <1>5, <2>1, <2>2
<1>6. CASE RowAges \/ ActionAges
  BY <1>6 DEF RowAges, ActionAges
<1>7. CASE Crash
  BY <1>7, CrashType
<1>8. CASE UNCHANGED vars
  BY <1>8 DEF vars
<1>9. QED BY <1>1, <1>2, <1>3, <1>4, <1>5, <1>6, <1>7, <1>8 DEF Next, Lobby

THEOREM TypeCorrect == Spec => []TypeOK
  BY TypeInit, TypeStep, PTL DEF Spec

-----------------------------------------------------------------------------
\* Inv is inductive.
LEMMA InvInit == Init => Inv
<1> SUFFICES ASSUME Init PROVE Inv
  OBVIOUS
<1>1. TypeOK
  BY TypeInit
<1>2. \A c \in Calls : call[c].at = "rest"
  BY DEF Init, AtRest
<1>3. QED
  BY <1>1, <1>2 DEF Init, Inv, Launching, LaunchAlone, LaunchUnplayed, LobbyUnplayed,
                    PlayedCalls, ClockPlayed, PaidEnded

LEMMA InvStep == Inv /\ [Next]_vars => Inv'
<1> SUFFICES ASSUME Inv, [Next]_vars
             PROVE  Inv'
  OBVIOUS
<1>0. TypeOK'
  BY TypeStep DEF Inv
<1> USE DEF Inv, Launching, LaunchAlone, LaunchUnplayed, LobbyUnplayed, PlayedCalls,
            ClockPlayed, PaidEnded, TypeOK, AtRest, Go, GoAhead, Follow, Kept, Rest, rowVars, memoryVars, noteVars
<1>1. ASSUME NEW c \in Calls, Step(c)
      PROVE  Inv'
  <2>1. CASE OpenTable(c)       BY <1>0, <2>1 DEF OpenTable
  <2>2. CASE RevertStart(c)     BY <1>0, <2>2 DEF RevertStart
  <2>3. CASE LoadSession(c)     BY <1>0, <2>3 DEF LoadSession
  <2>4. CASE SettleTable(c)     BY <1>0, <2>4 DEF SettleTable, AfterChange
  <2>5. CASE ApplyDeadline(c)   BY <1>0, <2>5 DEF ApplyDeadline
  <2>6. CASE CheckRunning(c)    BY <1>0, <2>6 DEF CheckRunning
  <2>7. CASE NoteAction(c)      BY <1>0, <2>7 DEF NoteAction
  <2>8. CASE PlayMove(c)        BY <1>0, <2>8 DEF PlayMove
  <2>9. CASE DropTimers(c)      BY <1>0, <2>9 DEF DropTimers
  <2>10. CASE FinishSession(c)  BY <1>0, <2>10 DEF FinishSession
  <2>11. CASE AbandonRunning(c) BY <1>0, <2>11 DEF AbandonRunning
  <2>12. CASE StopRunning(c)    BY <1>0, <2>12 DEF StopRunning
  <2>13. CASE SettleLost(c)     BY <1>0, <2>13 DEF SettleLost, AfterChange
  <2>14. QED BY <1>1, <2>1, <2>2, <2>3, <2>4, <2>5, <2>6, <2>7, <2>8, <2>9,
                <2>10, <2>11, <2>12, <2>13 DEF Step
<1>2. ASSUME NEW c \in Calls, Begin(c)
      PROVE  Inv'
  <2>1. CASE StartSession(c)    BY <1>0, <2>1 DEF StartSession
  <2>2. CASE ReadSession(c)     BY <1>0, <2>2 DEF ReadSession
  <2>3. CASE ActInSession(c)    BY <1>0, <2>3 DEF ActInSession
  <2>4. CASE DeadlineFires(c)   BY <1>0, <2>4 DEF DeadlineFires
  <2>5. CASE IdleFires(c)       BY <1>0, <2>5 DEF IdleFires
  <2>6. CASE SweepIdleGames(c)  BY <1>0, <2>6 DEF SweepIdleGames
  <2>7. CASE AwayFires(c)       BY <1>0, <2>7 DEF AwayFires
  <2>8. QED BY <1>2, <2>1, <2>2, <2>3, <2>4, <2>5, <2>6, <2>7 DEF Begin
<1>3. ASSUME NEW c \in Calls, OpenFails(c) \/ CallFails(c)
      PROVE  Inv'
  <2>1. CASE OpenFails(c)  BY <1>0, <2>1 DEF OpenFails
  <2>2. CASE CallFails(c)  BY <1>0, <2>2 DEF CallFails
  <2>3. QED BY <1>3, <2>1, <2>2
<1>4. ASSUME NEW p \in Players, JoinSession(p) \/ LeaveSession(p)
      PROVE  Inv'
  <2>1. CASE JoinSession(p)   BY <1>0, <2>1 DEF JoinSession
  <2>2. CASE LeaveSession(p)  BY <1>0, <2>2 DEF LeaveSession
  <2>3. QED BY <1>4, <2>1, <2>2
<1>5. CASE CancelSession \/ CloseIdleLobby
  <2>1. CASE CancelSession    BY <1>0, <2>1 DEF CancelSession
  <2>2. CASE CloseIdleLobby   BY <1>0, <2>2 DEF CloseIdleLobby
  <2>3. QED BY <1>5, <2>1, <2>2
<1>6. CASE RowAges \/ ActionAges
  BY <1>0, <1>6 DEF RowAges, ActionAges
<1>7. CASE Crash
  <2>1. \A c \in Calls : call'[c].at = "rest"
    BY <1>7 DEF Crash
  <2>2. UNCHANGED <<status, table, paid>> /\ last' = "none"
    BY <1>7 DEF Crash
  <2>3. QED BY <1>0, <2>1, <2>2
<1>8. CASE UNCHANGED vars
  BY <1>0, <1>8 DEF vars
<1>9. QED BY <1>1, <1>2, <1>3, <1>4, <1>5, <1>6, <1>7, <1>8 DEF Next, Lobby

THEOREM Invariant == Spec => []Inv
  BY InvInit, InvStep, PTL DEF Spec

-----------------------------------------------------------------------------
\* LivesOnce: every step of the game is a step of GameLife or changes neither
\* the status nor the payments.  The two blind writes need Inv: a launch that
\* fails finds nobody paid, a claim finds a running game not paid yet.
LEMMA LifeInit == Init => Life!Init
  BY DEF Init, Life!Init

LEMMA LifeStep == Inv /\ [Next]_vars => [Life!Next]_(Life!vars)
<1> SUFFICES ASSUME Inv, [Next]_vars
             PROVE  [Life!Next]_(Life!vars)
  OBVIOUS
<1> USE DEF Life!Next, Life!vars, rowVars
<1>1. ASSUME NEW c \in Calls, RevertStart(c)
      PROVE  Life!Reopen
  BY <1>1 DEF RevertStart, Life!Reopen, Inv, LaunchUnplayed, PaidEnded, Launching
<1>2. ASSUME NEW c \in Calls, FinishSession(c)
      PROVE  Life!Finish \/ UNCHANGED <<status, paid>>
  BY <1>2 DEF FinishSession, Life!Finish, Inv, PaidEnded
<1>3. ASSUME NEW c \in Calls, StartSession(c)
      PROVE  Life!Open
  BY <1>3 DEF StartSession, Life!Open
<1>4. ASSUME NEW c \in Calls, StopRunning(c)
      PROVE  Life!Abandon \/ UNCHANGED <<status, paid>>
  BY <1>4 DEF StopRunning, Life!Abandon
<1>5. ASSUME NEW p \in Players, LeaveSession(p)
      PROVE  Life!Abandon \/ UNCHANGED <<status, paid>>
  BY <1>5 DEF LeaveSession, Life!Abandon
<1>6. ASSUME CancelSession \/ CloseIdleLobby
      PROVE  Life!Abandon
  BY <1>6 DEF CancelSession, CloseIdleLobby, Life!Abandon
<1>7. ASSUME NEW c \in Calls,
             \/ OpenTable(c) \/ LoadSession(c) \/ SettleTable(c) \/ SettleLost(c)
             \/ ApplyDeadline(c) \/ CheckRunning(c) \/ NoteAction(c) \/ PlayMove(c) \/ DropTimers(c)
             \/ AbandonRunning(c) \/ ReadSession(c) \/ ActInSession(c)
             \/ DeadlineFires(c) \/ IdleFires(c) \/ SweepIdleGames(c) \/ AwayFires(c)
             \/ OpenFails(c) \/ CallFails(c)
      PROVE  UNCHANGED <<status, paid>>
  BY <1>7 DEF OpenTable, LoadSession, SettleTable, SettleLost, ApplyDeadline, CheckRunning,
              NoteAction, PlayMove, DropTimers, AbandonRunning, ReadSession,
              ActInSession, DeadlineFires, IdleFires, SweepIdleGames, AwayFires,
              OpenFails, CallFails
<1>8. ASSUME \/ \E p \in Players : JoinSession(p)
             \/ RowAges \/ ActionAges \/ Crash \/ UNCHANGED vars
      PROVE  UNCHANGED <<status, paid>>
  BY <1>8 DEF JoinSession, RowAges, ActionAges, Crash, vars
<1>9. QED
  BY <1>1, <1>2, <1>3, <1>4, <1>5, <1>6, <1>7, <1>8 DEF Next, Step, Begin, Lobby

\* The game lives once: see LivesOnce in PlayGame.
THEOREM Implementation == Spec => LivesOnce
<1>1. Spec => []Inv
  BY Invariant
<1>2. QED
  BY <1>1, LifeInit, LifeStep, PTL DEF Spec, LivesOnce, Life!Spec

-----------------------------------------------------------------------------
\* WakeUpPending is inductive next to Inv.
LEMMA WakeUpStep == Inv /\ Inv' /\ WakeUpPending /\ [Next]_vars => WakeUpPending'
<1> SUFFICES ASSUME Inv, Inv', WakeUpPending, [Next]_vars,
                    status' = "RUNNING", table' = "open", ~disturbed'
             PROVE  \/ deadline'
                    \/ \E c \in Calls :
                         call'[c].at \in {"loading", "settling", "arming", "stopping"}
  BY DEF WakeUpPending
<1> USE DEF WakeUpPending, Inv, TypeOK, AtRest, Go, GoAhead, Follow, Kept, Rest, rowVars, memoryVars, noteVars
<1>1. ASSUME NEW c \in Calls, Step(c)
      PROVE  \/ deadline'
             \/ \E d \in Calls :
                  call'[d].at \in {"loading", "settling", "arming", "stopping"}
  <2>1. CASE OpenTable(c)       BY <2>1 DEF OpenTable
  <2>2. CASE RevertStart(c)     BY <2>2 DEF RevertStart
  <2>3. CASE LoadSession(c)     BY <2>3 DEF LoadSession
  <2>4. CASE SettleTable(c)
    <3>1. table' = "open" => table = "open"
      BY <2>4 DEF SettleTable
    <3>2. call'[c].at = "arming"
      BY <2>4, <3>1 DEF SettleTable
    <3>3. QED BY <3>2
  <2>5. CASE ApplyDeadline(c)   BY <2>5 DEF ApplyDeadline
  <2>6. CASE CheckRunning(c)    BY <2>6 DEF CheckRunning
  <2>7. CASE NoteAction(c)      BY <2>7 DEF NoteAction
  <2>8. CASE PlayMove(c)        BY <2>8 DEF PlayMove
  <2>9. CASE DropTimers(c)      BY <2>9 DEF DropTimers, PlayedCalls
  <2>10. CASE FinishSession(c)  BY <2>10 DEF FinishSession
  <2>11. CASE AbandonRunning(c) BY <2>11 DEF AbandonRunning
  <2>12. CASE StopRunning(c)    BY <2>12 DEF StopRunning
  <2>13. CASE SettleLost(c)     BY <2>13 DEF SettleLost, AfterChange
  <2>14. QED BY <1>1, <2>1, <2>2, <2>3, <2>4, <2>5, <2>6, <2>7, <2>8, <2>9,
                <2>10, <2>11, <2>12, <2>13 DEF Step
<1>2. ASSUME NEW c \in Calls, Begin(c)
      PROVE  \/ deadline'
             \/ \E d \in Calls :
                  call'[d].at \in {"loading", "settling", "arming", "stopping"}
  <2>1. CASE StartSession(c)    BY <2>1 DEF StartSession, LobbyUnplayed
  <2>2. CASE ReadSession(c)     BY <2>2 DEF ReadSession
  <2>3. CASE ActInSession(c)    BY <2>3 DEF ActInSession
  <2>4. CASE DeadlineFires(c)   BY <2>4 DEF DeadlineFires
  <2>5. CASE IdleFires(c)       BY <2>5 DEF IdleFires
  <2>6. CASE SweepIdleGames(c)  BY <2>6 DEF SweepIdleGames
  <2>7. CASE AwayFires(c)       BY <2>7 DEF AwayFires
  <2>8. QED BY <1>2, <2>1, <2>2, <2>3, <2>4, <2>5, <2>6, <2>7 DEF Begin
<1>3. ASSUME NEW c \in Calls, OpenFails(c) \/ CallFails(c)
      PROVE  \/ deadline'
             \/ \E d \in Calls :
                  call'[d].at \in {"loading", "settling", "arming", "stopping"}
  BY <1>3 DEF OpenFails, CallFails
<1>4. ASSUME NEW p \in Players, JoinSession(p) \/ LeaveSession(p)
      PROVE  \/ deadline'
             \/ \E d \in Calls :
                  call'[d].at \in {"loading", "settling", "arming", "stopping"}
  BY <1>4 DEF JoinSession, LeaveSession
<1>5. ASSUME CancelSession \/ CloseIdleLobby \/ RowAges \/ ActionAges \/ UNCHANGED vars
      PROVE  \/ deadline'
             \/ \E d \in Calls :
                  call'[d].at \in {"loading", "settling", "arming", "stopping"}
  BY <1>5 DEF CancelSession, CloseIdleLobby, RowAges, ActionAges, vars
<1>6. CASE Crash
  BY <1>6 DEF Crash
<1>7. QED BY <1>1, <1>2, <1>3, <1>4, <1>5, <1>6 DEF Next, Lobby

\* A table in play always has its wake-up: see WakeUpPending in PlayGame.
THEOREM WakeUp == Spec => []WakeUpPending
<1>1. Init => WakeUpPending
  BY DEF Init, WakeUpPending
<1>2. QED
  BY <1>1, Invariant, WakeUpStep, PTL DEF Spec
-----------------------------------------------------------------------------
\* IdleTimerKept is inductive next to Inv: no game has a clock before its table,
\* so a launch finds none, and a call that drops the timers of a running game
\* is about to claim its end.
LEMMA IdleTimerStep == Inv /\ Inv' /\ IdleTimerKept /\ [Next]_vars => IdleTimerKept'
<1> SUFFICES ASSUME Inv, Inv', IdleTimerKept, [Next]_vars,
                    status' = "RUNNING", last' # "none", ~disturbed'
             PROVE  idle' \/ \E c \in Calls : call'[c].at = "claiming"
  BY DEF IdleTimerKept
<1> USE DEF IdleTimerKept, Inv, TypeOK, AtRest, Go, GoAhead, Follow, Kept, Rest, rowVars, memoryVars, noteVars
<1>1. ASSUME NEW c \in Calls, Step(c)
      PROVE  idle' \/ \E d \in Calls : call'[d].at = "claiming"
  <2>1. CASE OpenTable(c)       BY <2>1 DEF OpenTable
  <2>2. CASE RevertStart(c)     BY <2>2 DEF RevertStart
  <2>3. CASE LoadSession(c)     BY <2>3 DEF LoadSession
  <2>4. CASE SettleTable(c)
    <3>1. UNCHANGED <<status, idle, last, disturbed>>
      BY <2>4 DEF SettleTable
    <3>2. \A d \in Calls : call[d].at = "claiming" => call'[d].at = "claiming"
      BY <2>4 DEF SettleTable
    <3>3. QED BY <3>1, <3>2
  <2>5. CASE ApplyDeadline(c)   BY <2>5 DEF ApplyDeadline
  <2>6. CASE CheckRunning(c)    BY <2>6 DEF CheckRunning
  <2>7. CASE NoteAction(c)      BY <2>7 DEF NoteAction
  <2>8. CASE PlayMove(c)        BY <2>8 DEF PlayMove
  <2>9. CASE DropTimers(c)      BY <2>9 DEF DropTimers
  <2>10. CASE FinishSession(c)  BY <2>10 DEF FinishSession
  <2>11. CASE AbandonRunning(c) BY <2>11 DEF AbandonRunning
  <2>12. CASE StopRunning(c)    BY <2>12 DEF StopRunning
  <2>13. CASE SettleLost(c)     BY <2>13 DEF SettleLost, AfterChange
  <2>14. QED BY <1>1, <2>1, <2>2, <2>3, <2>4, <2>5, <2>6, <2>7, <2>8, <2>9,
                <2>10, <2>11, <2>12, <2>13 DEF Step
<1>2. ASSUME NEW c \in Calls, Begin(c)
      PROVE  idle' \/ \E d \in Calls : call'[d].at = "claiming"
  <2>1. CASE StartSession(c)
    BY <2>1 DEF StartSession, LobbyUnplayed, ClockPlayed
  <2>2. CASE ReadSession(c) \/ ActInSession(c) \/ DeadlineFires(c)
    BY <2>2 DEF ReadSession, ActInSession, DeadlineFires
  <2>3. CASE IdleFires(c)       BY <2>3 DEF IdleFires
  <2>4. CASE SweepIdleGames(c)  BY <2>4 DEF SweepIdleGames
  <2>5. CASE AwayFires(c)       BY <2>5 DEF AwayFires
  <2>6. QED BY <1>2, <2>1, <2>2, <2>3, <2>4, <2>5 DEF Begin
<1>3. ASSUME NEW c \in Calls, OpenFails(c) \/ CallFails(c)
      PROVE  idle' \/ \E d \in Calls : call'[d].at = "claiming"
  BY <1>3 DEF OpenFails, CallFails
<1>4. ASSUME NEW p \in Players, JoinSession(p) \/ LeaveSession(p)
      PROVE  idle' \/ \E d \in Calls : call'[d].at = "claiming"
  BY <1>4 DEF JoinSession, LeaveSession
<1>5. ASSUME CancelSession \/ CloseIdleLobby \/ RowAges \/ ActionAges \/ UNCHANGED vars
      PROVE  idle' \/ \E d \in Calls : call'[d].at = "claiming"
  BY <1>5 DEF CancelSession, CloseIdleLobby, RowAges, ActionAges, vars
<1>6. CASE Crash
  BY <1>6 DEF Crash
<1>7. QED BY <1>1, <1>2, <1>3, <1>4, <1>5, <1>6 DEF Next, Lobby

\* The idle timer lasts as long as the clock: see IdleTimerKept in PlayGame.
THEOREM IdleTimer == Spec => []IdleTimerKept
<1>1. Init => IdleTimerKept
  BY DEF Init, IdleTimerKept
<1>2. QED
  BY <1>1, Invariant, IdleTimerStep, PTL DEF Spec

-----------------------------------------------------------------------------
\* OpenHoldsPlayers is inductive next to the types.
LEMMA HoldsStep == TypeOK /\ OpenHoldsPlayers /\ [Next]_vars => OpenHoldsPlayers'
<1> SUFFICES ASSUME TypeOK, OpenHoldsPlayers, [Next]_vars
             PROVE  OpenHoldsPlayers'
  OBVIOUS
<1> USE DEF OpenHoldsPlayers, Open, rowVars, noteVars
<1>1. ASSUME NEW c \in Calls, StartSession(c)
      PROVE  OpenHoldsPlayers'
  <2>1. seated # {}
    BY <1>1, FS_EmptySet, MinPlayersAssumption DEF StartSession
  <2>2. QED BY <1>1, <2>1 DEF StartSession
<1>2. ASSUME NEW c \in Calls, RevertStart(c) \/ FinishSession(c) \/ StopRunning(c)
      PROVE  OpenHoldsPlayers'
  BY <1>2 DEF RevertStart, FinishSession, StopRunning
<1>3. ASSUME NEW p \in Players, JoinSession(p) \/ LeaveSession(p)
      PROVE  OpenHoldsPlayers'
  BY <1>3 DEF JoinSession, LeaveSession
<1>4. CASE CancelSession \/ CloseIdleLobby
  BY <1>4 DEF CancelSession, CloseIdleLobby
<1>5. ASSUME NEW c \in Calls,
             \/ OpenTable(c) \/ LoadSession(c) \/ SettleTable(c) \/ SettleLost(c)
             \/ ApplyDeadline(c) \/ CheckRunning(c) \/ NoteAction(c) \/ PlayMove(c) \/ DropTimers(c)
             \/ AbandonRunning(c) \/ ReadSession(c) \/ ActInSession(c)
             \/ DeadlineFires(c) \/ IdleFires(c) \/ SweepIdleGames(c) \/ AwayFires(c)
             \/ OpenFails(c) \/ CallFails(c)
      PROVE  UNCHANGED <<status, seated, reverted>>
  BY <1>5 DEF OpenTable, LoadSession, SettleTable, SettleLost, ApplyDeadline, CheckRunning,
              NoteAction, PlayMove, DropTimers, AbandonRunning, ReadSession,
              ActInSession, DeadlineFires, IdleFires, SweepIdleGames, AwayFires,
              OpenFails, CallFails
<1>6. ASSUME RowAges \/ ActionAges \/ Crash \/ UNCHANGED vars
      PROVE  UNCHANGED <<status, seated, reverted>>
  BY <1>6 DEF RowAges, ActionAges, Crash, vars
<1>7. QED
  BY <1>1, <1>2, <1>3, <1>4, <1>5, <1>6 DEF Next, Step, Begin, Lobby

\* An open game holds a player: see OpenHoldsPlayers in PlayGame.
THEOREM Holds == Spec => []OpenHoldsPlayers
<1>1. Init => OpenHoldsPlayers
  BY DEF Init, OpenHoldsPlayers
<1>2. QED
  BY <1>1, TypeCorrect, HoldsStep, PTL DEF Spec
=============================================================================
