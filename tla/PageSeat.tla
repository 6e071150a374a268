------------------------------ MODULE PageSeat ------------------------------
(* A socket on the topic of a page: the bus signals handed to it, its seat in
   the presence and in the shared document with the right to write, and the
   listener that reads its access again on every move of the shares.

   Reading the access and loading the document are awaited; an access is read
   at one moment and its answer used at a later one. *)
EXTENDS Naturals, FiniteSets

CONSTANTS Sockets,
          MaxMoves,    \* bound: moves of the shares
          MaxFollow,   \* bound: times a socket follows
          MaxFaults    \* bound: documents and accesses that could not be read

PageSeatAssumption == {MaxMoves, MaxFollow, MaxFaults} \subseteq Nat

Levels == {"none", "read", "write"}

VARIABLES
    level,      \* socket -> access of its member to the page
    topic,      \* socket -> "off", "opening", "on" in its topics
    at,         \* socket -> where its opening is: "idle", "reach" or "doc"
    found,      \* socket -> the level that opening found
    forwarded,  \* sockets handed the page's signals
    present,    \* sockets seated in the presence
    doc,        \* socket -> "none" (no seat), "read" or "write"
    listening,  \* sockets checked again when shares move
    checks,     \* accesses read again: socket, which following, level or "unread"
    follows,    \* socket -> times it followed
    moves, faults,
    crossed,    \* shares moved while a check was under way
    missed      \* shares moved while a socket was between its access and its seat

seat_vars == <<forwarded, present, doc, listening>>
open_vars == <<topic, at, found, follows>>
ghosts == <<crossed, missed>>
vars == <<level, open_vars, seat_vars, checks, moves, faults, ghosts>>

Init ==
    /\ level \in [Sockets -> {"read", "write"}]
    /\ topic = [c \in Sockets |-> "off"] /\ at = [c \in Sockets |-> "idle"]
    /\ found = [c \in Sockets |-> "none"]
    /\ forwarded = {} /\ present = {} /\ doc = [c \in Sockets |-> "none"] /\ listening = {}
    /\ checks = {} /\ follows = [c \in Sockets |-> 0]
    /\ moves = 0 /\ faults = 0 /\ crossed = FALSE /\ missed = FALSE

(* stop: every part of the seat, once. *)
Stop(c) ==
    /\ forwarded' = forwarded \ {c} /\ present' = present \ {c}
    /\ doc' = [doc EXCEPT ![c] = "none"] /\ listening' = listening \ {c}

(* Bound: an opening is over before the same socket opens again; PlayRoom has
   the case of two openings at once. *)
Follow(c) ==
    /\ topic[c] = "off" /\ at[c] = "idle" /\ follows[c] < MaxFollow
    /\ topic' = [topic EXCEPT ![c] = "opening"] /\ at' = [at EXCEPT ![c] = "reach"]
    /\ follows' = [follows EXCEPT ![c] = @ + 1]
    /\ UNCHANGED <<level, found, seat_vars, checks, moves, faults, ghosts>>

(* The page refuses who cannot read it; else the signals and the presence come
   first, the document after. *)
Reach(c) ==
    /\ at[c] = "reach"
    /\ IF level[c] = "none"
       THEN /\ at' = [at EXCEPT ![c] = "idle"] /\ topic' = [topic EXCEPT ![c] = "off"]
            /\ UNCHANGED <<found, forwarded, present>>
       ELSE /\ at' = [at EXCEPT ![c] = "doc"] /\ found' = [found EXCEPT ![c] = level[c]]
            /\ forwarded' = forwarded \union {c} /\ present' = present \union {c}
            /\ UNCHANGED topic
    /\ UNCHANGED <<level, follows, doc, listening, checks, moves, faults, ghosts>>

(* The document is there: the seat is whole and listens; a socket that left
   while it opened gives it all back. *)
Opened(c) ==
    /\ at[c] = "doc" /\ at' = [at EXCEPT ![c] = "idle"]
    /\ IF topic[c] = "opening"
       THEN /\ topic' = [topic EXCEPT ![c] = "on"]
            /\ doc' = [doc EXCEPT ![c] = found[c]]
            /\ listening' = listening \union {c} /\ UNCHANGED <<forwarded, present>>
       ELSE Stop(c) /\ UNCHANGED topic
    /\ UNCHANGED <<level, found, follows, checks, moves, faults, ghosts>>

(* The document could not be read: the topic is dropped, what came before the
   document is not. *)
DocFails(c) ==
    /\ at[c] = "doc" /\ faults < MaxFaults /\ faults' = faults + 1
    /\ at' = [at EXCEPT ![c] = "idle"] /\ topic' = [topic EXCEPT ![c] = "off"]
    /\ UNCHANGED <<level, found, follows, seat_vars, checks, moves, ghosts>>

(* A leave, or the end of the socket. *)
Unfollow(c) ==
    /\ topic[c] # "off" /\ topic' = [topic EXCEPT ![c] = "off"]
    /\ IF topic[c] = "on" THEN Stop(c) ELSE UNCHANGED seat_vars
    /\ UNCHANGED <<level, at, found, follows, checks, moves, faults, ghosts>>

(* Shares move: each socket that listens has its access read again. *)
Told == listening
Move(c, lv) ==
    /\ moves < MaxMoves /\ moves' = moves + 1
    /\ lv # level[c] /\ level' = [level EXCEPT ![c] = lv]
    /\ checks' = checks \union
         {[socket |-> d, n |-> follows[d], move |-> moves', level |-> "unread"] : d \in Told}
    /\ crossed' = (crossed \/ checks # {})
    /\ missed' = (missed \/ \E d \in Sockets : at[d] = "doc")
    /\ UNCHANGED <<open_vars, seat_vars, faults>>

Check(k) ==
    /\ k \in checks /\ k.level = "unread"
    /\ checks' = (checks \ {k}) \union {[k EXCEPT !.level = level[k.socket]]}
    /\ UNCHANGED <<level, open_vars, seat_vars, moves, faults, ghosts>>

(* Same seat, new rights, or out: `stop` of that following, nothing when it was
   called already. *)
Out(k) == IF k.n = follows[k.socket] /\ k.socket \in listening THEN Stop(k.socket)
          ELSE UNCHANGED seat_vars
AnswerReadersKept(k) ==
    /\ k \in checks /\ k.level # "unread" /\ checks' = checks \ {k}
    /\ IF k.level = "none" THEN Out(k)
       ELSE /\ doc' = [doc EXCEPT ![k.socket] = IF @ = "write" THEN k.level ELSE @]
            /\ UNCHANGED <<forwarded, present, listening>>
    /\ UNCHANGED <<level, open_vars, moves, faults, ghosts>>
Answer(k) ==
    /\ k \in checks /\ k.level # "unread" /\ checks' = checks \ {k}
    /\ IF k.level = "none" THEN Out(k)
       ELSE /\ doc' = [doc EXCEPT ![k.socket] = IF @ = "none" THEN @ ELSE k.level]
            /\ UNCHANGED <<forwarded, present, listening>>
    /\ UNCHANGED <<level, open_vars, moves, faults, ghosts>>

(* Whatever the refusal, a page that could not be read is out too. *)
CheckFails(k) ==
    /\ k \in checks /\ k.level = "unread" /\ faults < MaxFaults
    /\ faults' = faults + 1 /\ checks' = checks \ {k} /\ Out(k)
    /\ UNCHANGED <<level, open_vars, moves, ghosts>>

Next ==
    \/ \E c \in Sockets : Follow(c) \/ Reach(c) \/ Opened(c) \/ DocFails(c) \/ Unfollow(c)
    \/ \E c \in Sockets, lv \in Levels : Move(c, lv)
    \/ \E k \in checks : Check(k) \/ Answer(k) \/ CheckFails(k)

Fairness == WF_vars(\E k \in checks : Check(k) \/ Answer(k))
Spec == Init /\ [][Next]_vars /\ Fairness

-----------------------------------------------------------------------------
TypeOK ==
    /\ level \in [Sockets -> Levels] /\ topic \in [Sockets -> {"off", "opening", "on"}]
    /\ at \in [Sockets -> {"idle", "reach", "doc"}] /\ doc \in [Sockets -> Levels]
    /\ UNION {forwarded, present, listening} \subseteq Sockets
    /\ \A k \in checks : k.socket \in Sockets /\ k.n \in 1..follows[k.socket]

(* A seat on the document is a seat whole: its socket follows the page, hears
   its signals, stands in its presence and is checked on each move; and nobody
   listens without it. *)
SeatWhole ==
    \A c \in Sockets :
       /\ doc[c] # "none" <=> c \in listening
       /\ c \in listening => topic[c] = "on" /\ c \in forwarded /\ c \in present

Quiet == checks = {} /\ \A c \in Sockets : at[c] = "idle"
RightsAre == \A c \in listening : doc[c] = level[c]

(* Once the checks are answered, whoever is seated may do what the shares say,
   nothing more, when each move of the shares came after the last one was done
   with. *)
RightsTrue == Quiet /\ ~crossed /\ ~missed => RightsAre

(* Who may read the page no more is out in the end. *)
Intrudes(c) == c \in listening /\ doc[c] # "none" /\ level[c] = "none" /\ ~crossed /\ ~missed
LosesSeat == \A c \in Sockets : []<>~Intrudes(c)

(* The same, even when shares move while a seat is being opened. *)
RightsOnOpening == Quiet /\ ~crossed => RightsAre

(* The same, even when shares move again before the last check is answered. *)
RightsOnMoves == Quiet /\ ~missed => RightsAre

(* Whoever is handed the signals of the page is seated, or about to be: checked
   again on each move. *)
HearersChecked == \A c \in forwarded : c \in listening \/ at[c] = "doc"

\* The seat of a socket on a page is taken or left whole, with the rights the shares give once their
\* moves are answered.
SeatSound ==
    /\ TypeOK
    /\ SeatWhole
    /\ RightsTrue
=============================================================================
