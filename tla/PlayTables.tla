----------------------------- MODULE PlayTables -----------------------------
(***************************************************************************)
(* The tables of one game of Memora Play: who sits where, who hosts, and   *)
(* the rule that a player holds one table at a time.                       *)
(*                                                                         *)
(* A seating is a call of several steps: its transaction checks the player *)
(* while it holds the table's row, commits the seat, and only then reads   *)
(* the player's other open tables and leaves them one by one, each in a    *)
(* transaction of its own.  A ban writes the ban, then does the same to    *)
(* every table of the player.  Other calls run between any two steps.      *)
(*                                                                         *)
(* The order of the seats is not kept: any player still present stands for *)
(* the longest seated one who takes over a table.  PlayGame has the rest   *)
(* of one table's life.                                                    *)
(*                                                                         *)
(* The next game of a tournament, which follows a finished one with nobody *)
(* asking, seats its players as a rematch does, by the same cloneTable:    *)
(* RematchSession stands for both.  Its players are those present as it is *)
(* created: PlayTournament has those who leave while it is.                *)
(***************************************************************************)
EXTENDS Naturals, FiniteSets

CONSTANTS
    Players,        \* accounts
    Tables,         \* ids of games, all of one kind of game
    Calls,          \* seatings and bans in flight at once
    MinPlayers,     \* players a game needs to start
    MaxPlayers,     \* seats of a table
    MaxBans,        \* bound: bans and removals by an administrator
    MayFail         \* whether the process may die or a launch fail

ASSUME PlayersAssumption == IsFiniteSet(Players)
ASSUME SeatsAssumption ==
    /\ MinPlayers \in Nat \ {0}
    /\ MaxPlayers \in Nat
    /\ MinPlayers <= MaxPlayers
ASSUME BoundsAssumption == MaxBans \in Nat /\ MayFail \in BOOLEAN

VARIABLES
    status,     \* status of each table
    host,       \* host of each table, nobody while its id is unused
    seat,       \* seat of each player at each table
    launching,  \* running tables their launch has not laid yet
    rematched,  \* finished tables that have their rematch or next game
    banned,     \* players kept out of Play
    call,       \* seatings and bans in flight
    \* History and bounds
    reverted,   \* tables put back in their lobby by a failed launch
    loose,      \* players seated by a rematch, a next game or a revert, or whose call broke off
    bans

tableVars == <<status, host, seat, launching, rematched>>
noteVars  == <<reverted, loose, bans>>
vars      == <<tableVars, banned, call, noteVars>>

-----------------------------------------------------------------------------
Open == {"LOBBY", "RUNNING"}

Present(s)  == {p \in Players : seat[s][p] = "in"}
OpenSeats(p) == {s \in Tables : status[s] \in Open /\ seat[s][p] = "in"}

Idle == [at |-> "rest"]
Flight == [at : {"creating", "seating", "others", "leaving"}, who : Players,
           keep : SUBSET Tables, left : SUBSET Tables]

InFlight(c) == call[c] # Idle
Busy(p)     == \E c \in Calls : InFlight(c) /\ call[c].who = p

Go(c, at, who, keep, left) ==
    call' = [call EXCEPT ![c] = [at |-> at, who |-> who, keep |-> keep, left |-> left]]
Rest(c) == call' = [call EXCEPT ![c] = Idle]

\* Mutant of Free: the row is read without being held.
FreeUnlocked(s) == s \in Tables

\* Nobody holds the row of the table between a check and its commit.
Free(s) == \A c \in Calls : call[c].at = "seating" => s \notin call[c].keep

\* An id no game has yet.
Unused(s) ==
    /\ status[s] = "NEW"
    /\ \A c \in Calls : call[c].at = "creating" => s \notin call[c].keep

TypeOK ==
    /\ status \in [Tables -> {"NEW", "LOBBY", "RUNNING", "FINISHED", "ABANDONED"}]
    /\ host \in [Tables -> SUBSET Players]
    /\ seat \in [Tables -> [Players -> {"none", "in", "left", "kicked"}]]
    /\ launching \subseteq Tables
    /\ rematched \subseteq Tables
    /\ banned \subseteq Players
    /\ call \in [Calls -> {Idle} \union Flight]
    /\ reverted \subseteq Tables
    /\ loose \subseteq Players
    /\ bans \in 0..MaxBans

\* No game yet.
Init ==
    /\ status = [s \in Tables |-> "NEW"]
    /\ host = [s \in Tables |-> {}]
    /\ seat = [s \in Tables |-> [p \in Players |-> "none"]]
    /\ launching = {}
    /\ rematched = {}
    /\ banned = {}
    /\ call = [c \in Calls |-> Idle]
    /\ reverted = {}
    /\ loose = {}
    /\ bans = 0

-----------------------------------------------------------------------------
(* Seatings.                                                               *)

\* The transaction of a new table has checked its creator.
CreateSession(c, p, s) ==
    /\ call[c] = Idle
    /\ Unused(s)
    /\ p \notin banned
    /\ Go(c, "creating", p, {s}, {})
    /\ UNCHANGED <<tableVars, banned, noteVars>>

CommitCreate(c) ==
    /\ call[c].at = "creating"
    /\ \E s \in call[c].keep :
         /\ status' = [status EXCEPT ![s] = "LOBBY"]
         /\ host' = [host EXCEPT ![s] = {call[c].who}]
         /\ seat' = [seat EXCEPT ![s][call[c].who] = "in"]
    /\ Go(c, "others", call[c].who, call[c].keep, {})
    /\ UNCHANGED <<launching, rematched, banned, noteVars>>

\* A player takes a seat: the transaction holds the row and has checked them.
JoinSession(c, p, s) ==
    /\ call[c] = Idle
    /\ Free(s)
    /\ status[s] = "LOBBY"
    /\ seat[s][p] \in {"none", "left"}
    /\ Cardinality(Present(s)) < MaxPlayers
    /\ p \notin banned
    /\ Go(c, "seating", p, {s}, {})
    /\ UNCHANGED <<tableVars, banned, noteVars>>

\* Mutant of SeatBack: the host may call back a player they removed.
SeatBackKicked(c, p, s) ==
    /\ call[c] = Idle
    /\ Free(s)
    /\ status[s] = "LOBBY"
    /\ p \notin host[s]
    /\ seat[s][p] \in {"left", "kicked"}
    /\ Cardinality(Present(s)) < MaxPlayers
    /\ p \notin banned
    /\ Go(c, "seating", p, {s}, {})
    /\ UNCHANGED <<tableVars, banned, noteVars>>

\* The host calls a spectator who had a seat back to the table.
SeatBack(c, p, s) ==
    /\ call[c] = Idle
    /\ Free(s)
    /\ status[s] = "LOBBY"
    /\ p \notin host[s]
    /\ seat[s][p] = "left"
    /\ Cardinality(Present(s)) < MaxPlayers
    /\ p \notin banned
    /\ Go(c, "seating", p, {s}, {})
    /\ UNCHANGED <<tableVars, banned, noteVars>>

CommitSeat(c) ==
    /\ call[c].at = "seating"
    /\ \E s \in call[c].keep : seat' = [seat EXCEPT ![s][call[c].who] = "in"]
    /\ Go(c, "others", call[c].who, call[c].keep, {})
    /\ UNCHANGED <<status, host, launching, rematched, banned, noteVars>>

-----------------------------------------------------------------------------
(* Departures.                                                             *)

\* Mutant of Depart: the table keeps the host who left it.
DepartKeepsHost(p, s, how) ==
    /\ seat' = [seat EXCEPT ![s][p] = how]
    /\ status' = IF Present(s) = {p} THEN [status EXCEPT ![s] = "ABANDONED"] ELSE status
    /\ host' = host

\* A present player goes, whatever the status of the table: the last one out
\* abandons it, a host hands it over.
Depart(p, s, how) ==
    /\ seat' = [seat EXCEPT ![s][p] = how]
    /\ IF Present(s) = {p}
         THEN /\ status' = [status EXCEPT ![s] = "ABANDONED"]
              /\ host' = host
         ELSE /\ status' = status
              /\ IF host[s] = {p}
                   THEN \E h \in Present(s) \ {p} : host' = [host EXCEPT ![s] = {h}]
                   ELSE host' = host

LeaveSession(p, s) ==
    /\ Free(s)
    /\ seat[s][p] = "in"
    /\ Depart(p, s, "left")
    /\ UNCHANGED <<launching, rematched, banned, call, noteVars>>

\* Mutant of KickPlayer: a mark of its own the seats do not know.
KickPlayerMarked(p, s) ==
    /\ Free(s)
    /\ seat[s][p] = "in"
    /\ p \notin host[s]
    /\ Depart(p, s, "removed")
    /\ UNCHANGED <<launching, rematched, banned, call, noteVars>>

KickPlayer(p, s) ==
    /\ Free(s)
    /\ seat[s][p] = "in"
    /\ p \notin host[s]
    /\ Depart(p, s, "kicked")
    /\ UNCHANGED <<launching, rematched, banned, call, noteVars>>

\* The host sends a player to the stands.
StandUp(p, s) ==
    /\ Free(s)
    /\ status[s] = "LOBBY"
    /\ seat[s][p] = "in"
    /\ p \notin host[s]
    /\ seat' = [seat EXCEPT ![s][p] = "left"]
    /\ UNCHANGED <<status, host, launching, rematched, banned, call, noteVars>>

\* Mutant of ReadOthers: only the lobbies the player waits in are left.
ReadOthersLobbies(c) ==
    /\ call[c].at = "others"
    /\ LET others == {s \in OpenSeats(call[c].who) : status[s] = "LOBBY"} \ call[c].keep
       IN  IF others = {} THEN Rest(c) ELSE Go(c, "leaving", call[c].who, call[c].keep, others)
    /\ UNCHANGED <<tableVars, banned, noteVars>>

\* The other open tables of the player, read once.
ReadOthers(c) ==
    /\ call[c].at = "others"
    /\ LET others == OpenSeats(call[c].who) \ call[c].keep
       IN  IF others = {} THEN Rest(c) ELSE Go(c, "leaving", call[c].who, call[c].keep, others)
    /\ UNCHANGED <<tableVars, banned, noteVars>>

\* The next of them is left; if the player is gone from it already, the call
\* fails and the tables after it stay as they are.  Any order stands for the
\* latest updated first.
LeaveNext(c) ==
    /\ call[c].at = "leaving"
    /\ \E s \in call[c].left :
         LET p == call[c].who
             after == call[c].left \ {s}
         IN  /\ Free(s)
             /\ IF seat[s][p] = "in"
                  THEN /\ Depart(p, s, "left")
                       /\ IF after = {} THEN Rest(c) ELSE Go(c, "leaving", p, call[c].keep, after)
                       /\ loose' = loose
                  ELSE /\ UNCHANGED <<status, host, seat>>
                       /\ Rest(c)
                       /\ loose' = IF after = {} THEN loose ELSE loose \union {p}
    /\ UNCHANGED <<launching, rematched, banned, reverted, bans>>

-----------------------------------------------------------------------------
(* Bans.                                                                   *)

SetPlayBan(c, p) ==
    /\ call[c] = Idle
    /\ bans < MaxBans
    /\ bans' = bans + 1
    /\ banned' = banned \union {p}
    /\ Go(c, "others", p, {}, {})
    /\ UNCHANGED <<tableVars, reverted, loose>>

LiftPlayBan(p) ==
    /\ p \in banned
    /\ banned' = banned \ {p}
    /\ UNCHANGED <<tableVars, call, noteVars>>

RemoveFromPlay(c, p) ==
    /\ call[c] = Idle
    /\ bans < MaxBans
    /\ bans' = bans + 1
    /\ Go(c, "others", p, {}, {})
    /\ UNCHANGED <<tableVars, banned, reverted, loose>>

-----------------------------------------------------------------------------
(* The life of a table, the steps of PlayGame that matter to its seats.    *)

CancelSession(s) ==
    /\ Free(s)
    /\ status[s] = "LOBBY"
    /\ status' = [status EXCEPT ![s] = "ABANDONED"]
    /\ UNCHANGED <<host, seat, launching, rematched, banned, call, noteVars>>

StartSession(s) ==
    /\ Free(s)
    /\ status[s] = "LOBBY"
    /\ Cardinality(Present(s)) >= MinPlayers
    /\ status' = [status EXCEPT ![s] = "RUNNING"]
    /\ launching' = launching \union {s}
    /\ UNCHANGED <<host, seat, rematched, banned, call, noteVars>>

OpenTable(s) ==
    /\ s \in launching
    /\ launching' = launching \ {s}
    /\ UNCHANGED <<status, host, seat, rematched, banned, call, noteVars>>

\* The status is written blindly; a table abandoned meanwhile takes back the
\* players it still counts.
RevertStart(s) ==
    /\ MayFail
    /\ Free(s)
    /\ s \in launching
    /\ launching' = launching \ {s}
    /\ status' = [status EXCEPT ![s] = "LOBBY"]
    /\ reverted' = reverted \union {s}
    /\ loose' = IF status[s] = "ABANDONED" THEN loose \union Present(s) ELSE loose
    /\ UNCHANGED <<host, seat, rematched, banned, call, bans>>

FinishSession(s) ==
    /\ Free(s)
    /\ status[s] = "RUNNING"
    /\ s \notin launching
    /\ status' = [status EXCEPT ![s] = "FINISHED"]
    /\ UNCHANGED <<host, seat, launching, rematched, banned, call, noteVars>>

StopRunning(s) ==
    /\ Free(s)
    /\ status[s] = "RUNNING"
    /\ status' = [status EXCEPT ![s] = "ABANDONED"]
    /\ UNCHANGED <<host, seat, launching, rematched, banned, call, noteVars>>

\* The players present at a finished table are seated again at once, by the
\* host or by their tournament, without a check of bans and without leaving the
\* tables they joined since; a table that has its rematch gives its id again
\* and nothing changes, one that has its next game has no other.
RematchSession(s, t) ==
    /\ Free(s)
    /\ status[s] = "FINISHED"
    /\ s \notin rematched
    /\ Unused(t)
    /\ rematched' = rematched \union {s}
    /\ status' = [status EXCEPT ![t] = "LOBBY"]
    /\ IF host[s] \subseteq Present(s) \/ Present(s) = {}
         THEN host' = [host EXCEPT ![t] = host[s]]
         ELSE \E h \in Present(s) : host' = [host EXCEPT ![t] = {h}]
    /\ seat' = [seat EXCEPT ![t] = [p \in Players |-> IF p \in Present(s) THEN "in" ELSE "none"]]
    /\ loose' = loose \union {p \in Present(s) : OpenSeats(p) # {}}
    /\ UNCHANGED <<launching, banned, call, reverted, bans>>

\* The process dies: a check not committed is rolled back, a table whose seat
\* is committed keeps it, and nobody leaves the others; a launch ends where it is.
Crash ==
    /\ MayFail
    /\ launching # {} \/ \E c \in Calls : InFlight(c)
    /\ launching' = {}
    /\ call' = [c \in Calls |-> Idle]
    /\ loose' = loose \union {p \in Players :
                  \E c \in Calls : call[c].at \in {"others", "leaving"} /\ call[c].who = p}
    /\ UNCHANGED <<status, host, seat, rematched, banned, reverted, bans>>

-----------------------------------------------------------------------------
Seating(c) ==
    \/ \E p \in Players, s \in Tables :
         CreateSession(c, p, s) \/ JoinSession(c, p, s) \/ SeatBack(c, p, s)
    \/ \E p \in Players : SetPlayBan(c, p) \/ RemoveFromPlay(c, p)
    \/ CommitCreate(c) \/ CommitSeat(c) \/ ReadOthers(c) \/ LeaveNext(c)

Table(s) ==
    \/ \E p \in Players : LeaveSession(p, s) \/ KickPlayer(p, s) \/ StandUp(p, s)
    \/ CancelSession(s) \/ StartSession(s) \/ OpenTable(s) \/ RevertStart(s)
    \/ FinishSession(s) \/ StopRunning(s)
    \/ \E t \in Tables : RematchSession(s, t)

Next ==
    \/ \E c \in Calls : Seating(c)
    \/ \E s \in Tables : Table(s)
    \/ \E p \in Players : LiftPlayBan(p)
    \/ Crash

Spec == Init /\ [][Next]_vars

-----------------------------------------------------------------------------
(* Properties.                                                             *)

\* An open table is hosted by one of its players, so that somebody present can
\* launch it or close it, through departures, removals and rematches; but for a
\* lobby put back by a failed launch (LobbyService.afterDeparture, cloneTable).
HostSeated ==
    \A s \in Tables :
        (status[s] \in Open /\ s \notin reverted) => \E p \in Present(s) : host[s] = {p}

\* A table never seats more players than the game takes, two seatings checked
\* at once included: what the held row is for (PlaySessionService.lockSession).
SeatsWithinLimit ==
    \A s \in Tables : Cardinality(Present(s)) <= MaxPlayers

\* Once the calls of a player are over, they sit at one open table at most,
\* seatings of the same player running at once included, unless a rematch, the
\* next game of a tournament or a revert seated them, or a call broke off
\* (LobbyService.closeOtherTables).
QuietOneTable ==
    \A p \in Players :
        (~Busy(p) /\ p \notin loose) => Cardinality(OpenSeats(p)) <= 1

\* A player removed from a table by its host never sits there again, neither by
\* joining nor by the host's own hand (PlaySeatService.setSeatRole).
KickedStayOut ==
    [][\A s \in Tables, p \in Players :
         seat[s][p] = "kicked" => seat'[s][p] = "kicked"]_vars

\* One table per game: once the calls of a player are over, they sit at one
\* open table (comment of LobbyService.closeOtherTables).  A rematch, or the next
\* game of a tournament, breaks it.
OneTablePerGame ==
    \A p \in Players : ~Busy(p) => Cardinality(OpenSeats(p)) <= 1

\* A banned player leaves the table (comment of PlayAdminService.setPlayBan):
\* once the calls of a banned player are over, they sit at no open table.
BannedLeavesTables ==
    \A p \in banned : ~Busy(p) => OpenSeats(p) = {}
=============================================================================
