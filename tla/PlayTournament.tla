--------------------------- MODULE PlayTournament ---------------------------
(***************************************************************************)
(* A tournament: games chained on one table, paid at the end of the last.  *)
(* A game that ends is claimed and written to the totals of its players in *)
(* one transaction, and the tournament is advanced in another, by the same *)
(* call: it creates the next game or closes the tournament.  Meanwhile     *)
(* players leave, hosts cancel, silent games and lobbies stop.             *)
(*                                                                         *)
(* Tables are numbered as they are created.  Table 1 opens the tournament; *)
(* with a single game around, table 2 is one of the same kind, played by   *)
(* the same players, which may still run.  The engines are left out: a     *)
(* running game may end at any moment (see PlayGame).  A transaction is    *)
(* what it reads, then what it commits; a held row keeps others waiting.   *)
(***************************************************************************)
EXTENDS Naturals, Sequences, FiniteSets

CONSTANTS
    Players,
    Calls,          \* requests and timers in flight at once
    MaxGames,       \* longest tournament
    WithSingle,     \* whether a single game runs next to the tournament
    MaxCrashes,     \* bound: processes that die
    MaxIdle         \* bound: lobbies forgotten

GamesAssumption == MaxGames \in Nat \ {0}

VARIABLES
    table,      \* the tables: index in the tournament, status, seats not removed, present players
    tour,       \* status of the tournament
    gamesCount, \* its length
    played,     \* games in the totals of each player
    counted,    \* history: tables that finished, with their players
    closes,     \* times the tournament was closed and paid
    call,       \* where each call is
    lapsed,     \* history: a crash or a forgotten lobby left the tournament behind
    left        \* what may still happen

vars == <<table, tour, gamesCount, played, counted, closes, call, lapsed, left>>

Single == MaxGames      \* index of a table outside the tournament
Idle == [kind |-> "idle"]
Status == {"LOBBY", "RUNNING", "FINISHED", "ABANDONED"}
OfTournament(t) == table[t].index # Single
Open(t) == table[t].status \in {"LOBBY", "RUNNING"}
Held(t) == \E c \in Calls : call[c].kind = "record" /\ call[c].table = t

TypeOK ==
    /\ \A t \in DOMAIN table :
         /\ table[t].index \in 0 .. MaxGames
         /\ table[t].status \in Status
         /\ table[t].present \subseteq table[t].seats /\ table[t].seats \subseteq Players
    /\ tour \in {"RUNNING", "FINISHED", "ABANDONED"}
    /\ gamesCount \in 1 .. MaxGames
    /\ played \in [Players -> 0 .. Len(table)]

Table(i, s) == [index |-> i, status |-> s, seats |-> Players, present |-> Players]

Init ==
    /\ table = <<Table(0, "LOBBY")>> \o (IF WithSingle THEN <<Table(Single, "RUNNING")>> ELSE <<>>)
    /\ tour = "RUNNING"
    /\ gamesCount \in 1 .. MaxGames
    /\ played = [p \in Players |-> 0]
    /\ counted = {}
    /\ closes = 0
    /\ call = [c \in Calls |-> Idle]
    /\ lapsed = FALSE
    /\ left = [crash |-> MaxCrashes, idle |-> MaxIdle]

----------------------------------------------------------------------------
(* The end of a game, and what it does to the tournament *)

Claims(t) == table[t].status = "RUNNING" /\ ~Held(t)

FinishSession(c, t) ==
    /\ call[c] = Idle
    /\ Claims(t)
    /\ call' = [call EXCEPT ![c] = [kind |-> "record", table |-> t, read |-> played]]
    /\ UNCHANGED <<table, tour, gamesCount, played, counted, closes, lapsed, left>>

WriteResults(c) ==
    LET t == call[c].table IN
    /\ call[c].kind = "record"
    /\ table' = [table EXCEPT ![t].status = "FINISHED"]
    /\ played' = [p \in Players |->
                    IF p \in table[t].seats THEN call[c].read[p] + 1 ELSE played[p]]
    /\ counted' = counted \union {<<t, table[t].seats>>}
    /\ call' = [call EXCEPT ![c] =
                  IF OfTournament(t) THEN [kind |-> "advance", table |-> t] ELSE Idle]
    /\ UNCHANGED <<tour, gamesCount, closes, lapsed, left>>

\* Mutant: one game too many.
IsLastLate(t) == table[t].index + 1 > gamesCount
IsLast(t) == table[t].index + 1 >= gamesCount

AdvanceTournament(c) ==
    LET t == call[c].table IN
    /\ call[c].kind = "advance"
    /\ call' = [call EXCEPT ![c] =
         IF ~OfTournament(t) \/ tour # "RUNNING" THEN Idle
         ELSE IF ~IsLast(t) /\ table[t].present # {}
                THEN [kind |-> "clone", table |-> t, present |-> table[t].present]
                ELSE [kind |-> "close", table |-> t, read |-> played]]
    /\ UNCHANGED <<table, tour, gamesCount, played, counted, closes, lapsed, left>>

CloneTable(c) ==
    /\ call[c].kind = "clone"
    /\ table' = Append(table,
         [index |-> table[call[c].table].index + 1, status |-> "LOBBY",
          seats |-> call[c].present, present |-> call[c].present])
    /\ call' = [call EXCEPT ![c] = Idle]
    /\ UNCHANGED <<tour, gamesCount, played, counted, closes, lapsed, left>>

Contenders == UNION {table[t].seats : t \in {u \in DOMAIN table : OfTournament(u)}}

\* The totals are written back whole, the number of games as it was read.
CloseTournament(c) ==
    /\ call[c].kind = "close"
    /\ tour' = "FINISHED"
    /\ closes' = closes + 1
    /\ played' = [p \in Players |-> IF p \in Contenders THEN call[c].read[p] ELSE played[p]]
    /\ call' = [call EXCEPT ![c] = Idle]
    /\ UNCHANGED <<table, gamesCount, counted, lapsed, left>>

----------------------------------------------------------------------------
(* Launches, departures, and the ways a table stops *)

StartSession(t) ==
    /\ table[t].status = "LOBBY"
    /\ table[t].present # {}
    /\ table' = [table EXCEPT ![t].status = "RUNNING"]
    /\ UNCHANGED <<tour, gamesCount, played, counted, closes, call, lapsed, left>>

Stopped(t) == tour' = IF OfTournament(t) THEN "ABANDONED" ELSE tour

LeaveSession(t, p) ==
    /\ ~Held(t)
    /\ p \in table[t].present
    /\ IF table[t].present = {p}
         THEN /\ table' = [table EXCEPT ![t].present = {}, ![t].status = "ABANDONED"]
              /\ Stopped(t)
         ELSE /\ table' = [table EXCEPT ![t].present = @ \ {p}]
              /\ UNCHANGED tour
    /\ UNCHANGED <<gamesCount, played, counted, closes, call, lapsed, left>>

Removed(s, p) == [s EXCEPT !.seats = @ \ {p}, !.present = @ \ {p}]

KickPlayer(t, p) ==
    /\ ~Held(t)
    /\ p \in table[t].present
    /\ table[t].present # {p}       \* the host stays
    /\ table' = [table EXCEPT ![t] = Removed(@, p)]
    /\ UNCHANGED <<tour, gamesCount, played, counted, closes, call, lapsed, left>>

CancelSession(t) ==
    /\ table[t].status = "LOBBY"
    /\ table' = [table EXCEPT ![t].status = "ABANDONED"]
    /\ Stopped(t)
    /\ UNCHANGED <<gamesCount, played, counted, closes, call, lapsed, left>>

\* The first game's host changes the length, or goes back to a single game.
TournamentLink(t) ==
    /\ table[t].status = "LOBBY"
    /\ table[t].index = 0 /\ OfTournament(t)
    /\ \/ /\ gamesCount' \in 1 .. MaxGames
          /\ UNCHANGED <<table, tour>>
       \/ /\ tour' = "ABANDONED"
          /\ table' = [table EXCEPT ![t].index = Single]
          /\ UNCHANGED gamesCount
    /\ UNCHANGED <<played, counted, closes, call, lapsed, left>>

StopTournament == "ABANDONED"

AbandonRunning(c, t) ==
    /\ call[c] = Idle
    /\ table[t].status = "RUNNING" /\ ~Held(t)
    /\ table' = [table EXCEPT ![t].status = "ABANDONED"]
    /\ call' = [call EXCEPT ![c] = IF OfTournament(t) THEN [kind |-> "stop"] ELSE Idle]
    /\ UNCHANGED <<tour, gamesCount, played, counted, closes, lapsed, left>>

TournamentStops(c) ==
    /\ call[c].kind = "stop"
    /\ tour' = StopTournament
    /\ call' = [call EXCEPT ![c] = Idle]
    /\ UNCHANGED <<table, gamesCount, played, counted, closes, lapsed, left>>

\* Forgotten lobbies close quietly, whatever they belong to.
ListLobbies(t) ==
    /\ left.idle > 0
    /\ left' = [left EXCEPT !.idle = @ - 1]
    /\ table[t].status = "LOBBY"
    /\ table' = [table EXCEPT ![t].status = "ABANDONED"]
    /\ lapsed' = TRUE
    /\ UNCHANGED <<tour, gamesCount, played, counted, closes, call>>

Crash ==
    /\ left.crash > 0
    /\ left' = [left EXCEPT !.crash = @ - 1]
    /\ call' = [c \in Calls |-> Idle]
    /\ lapsed' = TRUE
    /\ UNCHANGED <<table, tour, gamesCount, played, counted, closes>>

Next ==
    \/ \E c \in Calls :
         \/ \E t \in DOMAIN table : FinishSession(c, t) \/ AbandonRunning(c, t)
         \/ WriteResults(c) \/ AdvanceTournament(c) \/ CloneTable(c) \/ CloseTournament(c)
         \/ TournamentStops(c)
    \/ \E t \in DOMAIN table :
         \/ StartSession(t) \/ CancelSession(t) \/ TournamentLink(t) \/ ListLobbies(t)
         \/ \E p \in Players : LeaveSession(t, p) \/ KickPlayer(t, p)
    \/ Crash

Spec == Init /\ [][Next]_vars

----------------------------------------------------------------------------
(* Properties *)

\* However its games end, no two games of a tournament have the same place in it, and none is
\* beyond its length (nextGameId takes the first it finds).
OneGamePerIndex ==
    \A t \in {v \in DOMAIN table : OfTournament(v)} :
      /\ table[t].index < gamesCount
      /\ \A u \in DOMAIN table : t # u => table[t].index # table[u].index

\* A tournament is paid at most once, and then none of its games is left to play.
PaidOnce ==
    /\ closes <= 1
    /\ closes = 1 => \A t \in DOMAIN table : OfTournament(t) => ~Open(t)

\* Unless a process died or a lobby was forgotten, a running tournament has a game to play, or a
\* call about to move it on.
GoesOn ==
    tour = "RUNNING" /\ ~lapsed =>
      \/ \E t \in DOMAIN table : OfTournament(t) /\ Open(t)
      \/ \E c \in Calls : call[c].kind \in {"advance", "clone", "close", "stop"}

\* Says StatService.recordResults: "Add results to the players' totals".
\* With no call in flight, the totals count every game that was claimed, once.
TotalsExact ==
    (\A c \in Calls : call[c] = Idle) =>
      \A p \in Players : played[p] = Cardinality({g \in counted : p \in g[2]})

\* Says LobbyService.afterDeparture: "Empty table, nothing left to play".  A tournament is not
\* abandoned by an empty table while another of its games is open.
NothingLeft ==
    [][\A t \in DOMAIN table, p \in Players :
         LeaveSession(t, p) /\ tour = "RUNNING" /\ tour' = "ABANDONED"
           => \A u \in DOMAIN table : u # t /\ OfTournament(u) => ~Open(u)]_vars

\* A tournament is a chain of games, each in the totals once, paid once, that goes on until it is
\* closed.
TournamentSound ==
    /\ TypeOK
    /\ OneGamePerIndex
    /\ PaidOnce
    /\ GoesOn
    /\ TotalsExact
=============================================================================
