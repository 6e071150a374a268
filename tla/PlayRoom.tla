------------------------------ MODULE PlayRoom ------------------------------
(* The room of one running game on one process: sockets follow its topic and
   leave it, each change of the game is signalled and pushes to every reader
   the board read after it, and the away timer stops the game nobody plays any
   more.  Who stands in the room is PresenceRoom's: nothing here reads it.

   A database read or write is a step of its own; what runs between two awaits
   is one step.  A socket is a connection of its account: a tab that comes back
   after a close is another socket.  Boards are the plain ones, which a browser
   orders by the server clock they were stamped with when sent: the last one
   sent is the one it holds. *)
EXTENDS Naturals, FiniteSets

CONSTANTS Sockets,      \* connections to this process
          Accounts,     \* members they belong to
          Owner,        \* account of a socket
          Players,      \* accounts with a present seat in the game
          MaxVersion,   \* bound: changes of the game's tables
          MaxFollow,    \* bound: times one socket follows the topic
          MaxFaults     \* bound: database failures

RoomAssumption ==
    /\ Owner \in [Sockets -> Accounts] /\ Players \subseteq Accounts
    /\ {MaxVersion, MaxFollow, MaxFaults} \subseteq Nat
    /\ IsFiniteSet(Sockets)

VARIABLES
    status, version,   \* the game: its status, how many times its tables changed
    signals,           \* signals published and not delivered yet
    link,              \* socket -> "open", "closing" (frames are lost) or "closed"
    topic,             \* socket -> what its topics map holds: an opening, on or not, and its room
    openings,          \* openings that wait for the game to be read
    follows,           \* socket -> times it followed
    current, members,  \* the room registered for the game (0: none), readers of each room
    push, queued,      \* room -> "idle", "load" or "view"; one push queued behind
    failed,            \* room -> its last push failed
    views,             \* boards being read: their room (0: its push gave up), reader, oldest version
    shown, stray,      \* socket -> version of the last board it was sent; that board was sent
                       \* outdated, for a push that gave up or for a room that closed
    away, task,        \* away timer; its callback: "none", "load" or "stop"
    lost,              \* the callback failed and the timer was not armed since
    faults             \* failures and rare steps so far

game == <<status, version>>
link_vars == <<link, topic, openings, follows>>
room_vars == <<current, members>>
push_vars == <<push, queued, failed>>
seen_vars == <<shown, stray>>
timer_vars == <<away, task, lost>>
vars == <<game, signals, link_vars, room_vars, push_vars, views, seen_vars, timer_vars, faults>>

Rooms == 1..(Cardinality(Sockets) * MaxFollow)
Off == [n |-> 0, on |-> FALSE, room |-> 0]
Opened == {r \in Rooms : push[r] # "none"}
ConnectedSockets == IF current = 0 THEN {} ELSE members[current]
ConnectedAccounts == {Owner[c] : c \in ConnectedSockets}
MayFail == /\ faults < MaxFaults
           /\ faults' = faults + 1

Init ==
    /\ status = "RUNNING" /\ version = 0 /\ signals = 0
    /\ link = [c \in Sockets |-> "open"] /\ topic = [c \in Sockets |-> Off]
    /\ openings = {} /\ follows = [c \in Sockets |-> 0]
    /\ current = 0 /\ members = [r \in Rooms |-> {}]
    /\ push = [r \in Rooms |-> "none"] /\ queued = [r \in Rooms |-> FALSE]
    /\ failed = [r \in Rooms |-> FALSE] /\ views = {}
    /\ shown = [c \in Sockets |-> 0] /\ stray = [c \in Sockets |-> FALSE]
    /\ away = "off" /\ task = "none" /\ lost = FALSE
    /\ faults = 0

-----------------------------------------------------------------------------
(* The pieces of the handlers. *)

(* pushBoards: one push in flight, one queued behind it. *)
PushNothingQueued(r) ==
    IF push[r] \in {"load", "view"} THEN UNCHANGED push_vars
    ELSE /\ push' = [push EXCEPT ![r] = "load"]
         /\ queued' = [queued EXCEPT ![r] = FALSE]
         /\ failed' = [failed EXCEPT ![r] = FALSE]
PushBoards(r) ==
    IF push[r] \in {"load", "view"}
    THEN queued' = [queued EXCEPT ![r] = TRUE] /\ UNCHANGED <<push, failed>>
    ELSE /\ push' = [push EXCEPT ![r] = "load"]
         /\ queued' = [queued EXCEPT ![r] = FALSE]
         /\ failed' = [failed EXCEPT ![r] = FALSE]

(* The loop of pushBoards once a push is over: again when one is queued and
   somebody still reads. *)
PushOver(r, bad) ==
    LET again == queued[r] /\ members[r] # {}
    IN  /\ push' = [push EXCEPT ![r] = IF again THEN "load" ELSE "idle"]
        /\ queued' = [queued EXCEPT ![r] = ~again /\ @]
        /\ failed' = [failed EXCEPT ![r] = bad /\ ~again]

(* What joinPlayRoom returns: out of its own room, the away timer armed when
   that room is empty, and the room closed when it is still the game's. *)
StopRoom(c, r) ==
    /\ members' = [members EXCEPT ![r] = @ \ {c}]
    /\ IF members'[r] = {} THEN away' = "armed" /\ lost' = FALSE ELSE UNCHANGED <<away, lost>>
    /\ current' = IF members'[r] = {} /\ current = r THEN 0 ELSE current
    /\ UNCHANGED task

-----------------------------------------------------------------------------
(* Sockets. *)

(* follow: once per topic; a placeholder holds its place while it opens. *)
Follow(c) ==
    /\ link[c] = "open" /\ topic[c] = Off /\ follows[c] < MaxFollow
    /\ follows' = [follows EXCEPT ![c] = @ + 1]
    /\ topic' = [topic EXCEPT ![c] = [n |-> follows'[c], on |-> FALSE, room |-> 0]]
    /\ openings' = openings \union {[socket |-> c, n |-> follows'[c]]}
    /\ UNCHANGED <<game, signals, link, room_vars, push_vars, views, seen_vars, timer_vars, faults>>

(* The game is read: joinPlayRoom runs to its end, then `follow` keeps the
   stop, or calls it when the socket left while opening. *)
Join(o) ==
    LET c == o.socket
        r == IF current # 0 THEN current ELSE Cardinality(Opened) + 1
    IN  /\ o \in openings /\ openings' = openings \ {o}
        /\ PushBoards(r)
        /\ IF topic[c].n = o.n
           THEN /\ topic' = [topic EXCEPT ![c] = [n |-> o.n, on |-> TRUE, room |-> r]]
                /\ members' = [members EXCEPT ![r] = @ \union {c}]
                /\ current' = r /\ away' = "off" /\ lost' = FALSE
           ELSE /\ members' = [members EXCEPT ![r] = @ \ {c}]
                /\ current' = IF members'[r] = {} THEN 0 ELSE r
                /\ away' = IF members'[r] = {} THEN "armed" ELSE "off"
                /\ lost' = FALSE
                /\ UNCHANGED topic
        /\ UNCHANGED <<game, signals, link, follows, views, seen_vars, task, faults>>

(* The read of the game failed: the placeholder goes, if it is still there. *)
Refuse(o) ==
    /\ o \in openings /\ openings' = openings \ {o}
    /\ MayFail
    /\ topic' = IF topic[o.socket].n = o.n THEN [topic EXCEPT ![o.socket] = Off] ELSE topic
    /\ UNCHANGED <<game, signals, link, follows, room_vars, push_vars, views, seen_vars, timer_vars>>

(* unfollow: the stop held for the topic, a placeholder's does nothing. *)
Unfollow(c) ==
    /\ topic[c] # Off
    /\ topic' = [topic EXCEPT ![c] = Off]
    /\ IF topic[c].on THEN StopRoom(c, topic[c].room)
       ELSE UNCHANGED <<room_vars, timer_vars>>
    /\ UNCHANGED <<game, signals, openings, follows, push_vars, views, seen_vars, faults>>

Leave(c) == link[c] = "open" /\ Unfollow(c) /\ UNCHANGED link

(* A socket too far behind, flooding, silent or too old is closed: what is sent
   to it is lost from there; its close event leaves its topics. *)
Drop(c) ==
    /\ link[c] = "open"
    /\ link' = [link EXCEPT ![c] = "closing"]
    /\ UNCHANGED <<game, signals, topic, openings, follows, room_vars, push_vars, views, seen_vars,
                   timer_vars, faults>>
Closed(c) ==
    /\ link[c] = "closing"
    /\ link' = [link EXCEPT ![c] = "closed"]
    /\ \/ Unfollow(c)
       \/ topic[c] = Off /\ UNCHANGED <<game, signals, topic, openings, follows, room_vars,
                                        push_vars, views, seen_vars, timer_vars, faults>>

-----------------------------------------------------------------------------
(* Boards. *)

Change ==
    /\ status = "RUNNING" /\ version < MaxVersion
    /\ version' = version + 1 /\ signals' = signals + 1
    /\ UNCHANGED <<status, link_vars, room_vars, push_vars, views, seen_vars, timer_vars, faults>>

(* The bus hands a signal to the room that listens. *)
Deliver ==
    /\ signals > 0 /\ signals' = signals - 1
    /\ IF current # 0 THEN PushBoards(current) ELSE UNCHANGED push_vars
    /\ UNCHANGED <<game, link_vars, room_vars, views, seen_vars, timer_vars, faults>>

(* sendBoards, the game read: one view per account in the room now.  Each view
   reads the tables on its own, later than this. *)
Load(r) ==
    LET readers == {Owner[c] : c \in members[r]}
    IN  /\ push[r] = "load"
        /\ views' = views \union
             {[room |-> r, to |-> {c \in members[r] : Owner[c] = a}, from |-> version] : a \in readers}
        /\ IF readers = {} THEN PushOver(r, FALSE)
           ELSE push' = [push EXCEPT ![r] = "view"] /\ UNCHANGED <<queued, failed>>
        /\ UNCHANGED <<game, signals, link_vars, room_vars, seen_vars, timer_vars, faults>>

LoadFails(r) ==
    /\ push[r] = "load" /\ MayFail /\ PushOver(r, TRUE)
    /\ UNCHANGED <<game, signals, link_vars, room_vars, views, seen_vars, timer_vars>>

(* A view is read, at any moment since the game was, stamped and sent. *)
Send(w) ==
    /\ w \in views /\ views' = views \ {w}
    /\ \E v \in w.from..version :
         /\ shown' = [c \in Sockets |-> IF c \in w.to /\ link[c] = "open" THEN v ELSE shown[c]]
         /\ stray' = [c \in Sockets |-> IF c \in w.to /\ link[c] = "open"
                                        THEN w.room # current /\ v < version ELSE stray[c]]
    /\ IF w.room # 0 /\ ~\E x \in views' : x.room = w.room
       THEN PushOver(w.room, FALSE) ELSE UNCHANGED push_vars
    /\ UNCHANGED <<game, signals, link_vars, room_vars, timer_vars, faults>>

(* One view fails: the push gives up on all of them, and the others go on alone. *)
ViewFails(w) ==
    /\ w \in views /\ w.room # 0 /\ MayFail
    /\ views' = {IF x.room = w.room THEN [x EXCEPT !.room = 0] ELSE x : x \in views \ {w}}
    /\ PushOver(w.room, TRUE)
    /\ UNCHANGED <<game, signals, link_vars, room_vars, seen_vars, timer_vars>>

-----------------------------------------------------------------------------
(* The away timer. *)

(* The game ends another way, its timers cleared with it. *)
End ==
    /\ status = "RUNNING" /\ status' = "DONE"
    /\ signals' = signals + 1 /\ away' = "off"
    /\ UNCHANGED <<version, link_vars, room_vars, push_vars, views, seen_vars, task, lost, faults>>

(* Bound: one callback at a time. *)
Fire ==
    /\ away = "armed" /\ task = "none"
    /\ away' = "off" /\ task' = "load"
    /\ UNCHANGED <<game, signals, link_vars, room_vars, push_vars, views, seen_vars, lost, faults>>

(* The game is read: a player in the room keeps it; else abandonRunning clears
   its timers and goes on to its write. *)
Check ==
    /\ task = "load"
    /\ IF status = "RUNNING" /\ Players \intersect ConnectedAccounts = {}
       THEN task' = "stop" /\ away' = "off" ELSE task' = "none" /\ UNCHANGED away
    /\ UNCHANGED <<game, signals, link_vars, room_vars, push_vars, views, seen_vars, lost, faults>>

(* Only a running game stops. *)
Abandon ==
    /\ task = "stop" /\ task' = "none"
    /\ IF status = "RUNNING" THEN status' = "ABANDONED" /\ signals' = signals + 1
       ELSE UNCHANGED <<status, signals>>
    /\ UNCHANGED <<version, link_vars, room_vars, push_vars, views, seen_vars, away, lost, faults>>

TaskFails ==
    /\ task # "none" /\ MayFail
    /\ task' = "none" /\ lost' = TRUE
    /\ UNCHANGED <<game, signals, link_vars, room_vars, push_vars, views, seen_vars, away>>

Next ==
    \/ \E c \in Sockets : Follow(c) \/ Leave(c) \/ Drop(c) \/ Closed(c)
    \/ \E o \in openings : Join(o) \/ Refuse(o)
    \/ \E r \in Rooms : Load(r) \/ LoadFails(r)
    \/ \E w \in views : Send(w) \/ ViewFails(w)
    \/ Change \/ Deliver \/ End \/ Fire \/ Check \/ Abandon \/ TaskFails

(* What the process does on its own goes on: signals are delivered, reads are
   answered, timers go off. *)
Fairness ==
    /\ WF_vars(Deliver)
    /\ WF_vars(Fire) /\ WF_vars(Check) /\ WF_vars(Abandon)
    /\ WF_vars(\E r \in Rooms : Load(r)) /\ WF_vars(\E w \in views : Send(w))

Spec == Init /\ [][Next]_vars
FairSpec == Spec /\ Fairness

-----------------------------------------------------------------------------
(* Properties. *)

TypeOK ==
    /\ status \in {"RUNNING", "DONE", "ABANDONED"} /\ version \in 0..MaxVersion
    /\ signals \in 0..(MaxVersion + 1) /\ current \in {0} \union Rooms
    /\ link \in [Sockets -> {"open", "closing", "closed"}]
    /\ topic \in [Sockets -> [n : 0..MaxFollow, on : BOOLEAN, room : {0} \union Rooms]]
    /\ openings \subseteq [socket : Sockets, n : 1..MaxFollow]
    /\ members \in [Rooms -> SUBSET Sockets]
    /\ push \in [Rooms -> {"none", "idle", "load", "view"}]
    /\ queued \in [Rooms -> BOOLEAN] /\ failed \in [Rooms -> BOOLEAN]
    /\ \A w \in views : w.to # {} /\ w.from \in 0..version /\ (w.room # 0 => push[w.room] = "view")
    /\ shown \in [Sockets -> 0..version] /\ stray \in [Sockets -> BOOLEAN]
    /\ away \in {"off", "armed"} /\ task \in {"none", "load", "stop"} /\ lost \in BOOLEAN

(* Once no signal is on its way and the push of the room is over, every reader
   holds the board of the game as it is: however signals, joins, failed reads and
   reads given up interleave, the push in flight and the one queued behind it
   leave nobody behind.  What the code does leave behind: all of them when the last
   push itself failed, until the next signal, and a reader whose last board was
   a stray one, read for a push that gave up or a room that closed. *)
NewestShown ==
    current # 0 /\ push[current] = "idle" /\ signals = 0 /\ ~failed[current]
      => \A c \in members[current] :
           link[c] = "open" => shown[c] = version \/ stray[c]

(* A reader of the game's room follows the topic, through that very room: a
   socket that left while its opening was on its way is not kept as a reader. *)
MemberFollows ==
    current # 0 => \A c \in members[current] : topic[c].on /\ topic[c].room = current

(* A running game with its room empty is watched: its away timer is armed, or
   the callback is at work, unless that callback itself failed or nobody ever
   came. *)
EmptyIsWatched ==
    status = "RUNNING" /\ current = 0 /\ Opened # {} => away = "armed" \/ task # "none" \/ lost

(* A reader of the room of a game that goes on changing, or not, is in the end
   sent its last board, unless the reader goes or a query fails. *)
Behind(c) == /\ c \in ConnectedSockets /\ link[c] = "open" /\ faults = 0
             /\ version = MaxVersion /\ shown[c] # version
BoardsReach == \A c \in Sockets : []<>~Behind(c)

(* Socket.topics: a socket whose topic is on is a reader of the game's room. *)
FollowedIsMember ==
    \A c \in Sockets : topic[c].on => current # 0 /\ c \in members[current]

(* watchEmptyTable: a running game whose players followed it and are all gone is
   watched, whoever else is in the room. *)
PlayersGoneWatched ==
    /\ status = "RUNNING" /\ ~lost /\ Players \intersect ConnectedAccounts = {}
    /\ \E c \in Sockets : Owner[c] \in Players /\ follows[c] > 0
    /\ \A o \in openings : Owner[o.socket] \notin Players
    => away = "armed" \/ task # "none"

(* The away callback stops no game that has a player in its room. *)
KeepsGame ==
    [][status' = "ABANDONED" /\ status # "ABANDONED"
         => Players \intersect ConnectedAccounts = {}]_vars

\* The room of a game: whoever is seated follows it, no reader is left with an older board once the
\* pushes are over, and an empty room has its timer.
RoomSound ==
    /\ TypeOK
    /\ NewestShown
    /\ MemberFollows
    /\ EmptyIsWatched
=============================================================================
