-------------------------- MODULE BaccalaureatTable --------------------------
(* The rounds of a Baccalaureat game, the engine PlayGame drives for it.  Unlike
   the other engines it holds no row: a call reads the latest round, decides, and
   writes later, so calls of players, of the host and of timers cross.

   A word is the letter it opens on and a mark; categories and dates are kept for
   what is decided from them, the time left is not. *)
EXTENDS Naturals, Sequences, FiniteSetsExt

CONSTANTS
    Players, Nobody, Categories,
    Letters, Marks, NoWord,
    RoundCount, Jokers,            \* rounds of the game, letters a player may draw again
    Stop, AutoStop,                \* the round may be stopped, and is for the first one done
    Solo, Unique, Shared, StopBonus, RejectPercent,
    Kinds,                         \* calls made in this instance
    HostAtOnce,                    \* bound: calls of the host crossing each other
    MayClear,                      \* words may be cleared
    CallsAtOnce, MaxCalls          \* bounds: calls crossing, calls of players in all

Calls == 1..CallsAtOnce
Boxes == Players \X Categories
Words == Letters \X Marks

TableAssumption ==
    /\ IsFiniteSet(Players) /\ IsFiniteSet(Categories) /\ Nobody \notin Players
    /\ Letters # {} /\ NoWord \notin Words
    /\ RoundCount \in Nat \ {0} /\ CallsAtOnce \in Nat /\ HostAtOnce \in Nat
    /\ {Solo, Unique, Shared, StopBonus} \subseteq Nat

VARIABLES
    rounds,      \* rounds opened, with their words, votes and points
    score,       \* total of each seat
    present,     \* players still seated
    call,        \* what each call in flight has read
    started,     \* calls and departures of players so far
    ended        \* the engine said the game is over

vars == <<rounds, score, present, call, started, ended>>

NewRound(letter) ==
    [letter |-> letter, clock |-> "countdown", stopper |-> Nobody, joker |-> Nobody,
     closed |-> FALSE, timeUp |-> FALSE, scored |-> FALSE, bonus |-> 0,
     words |-> [b \in Boxes |-> NoWord], rejects |-> {}, given |-> [b \in Boxes |-> 0]]

Idle == [kind |-> "idle"]

(* drawLetter: a letter not used yet, any of them when all were. *)
Draw(used) == IF Letters \ used # {} THEN Letters \ used ELSE Letters
Used == {rounds[r].letter : r \in DOMAIN rounds}

Init ==
    /\ \E l \in Letters : rounds = <<NewRound(l)>>
    /\ score = [p \in Players |-> 0] /\ present = Players
    /\ call = [c \in Calls |-> Idle] /\ started = 0 /\ ended = FALSE

-----------------------------------------------------------------------------
(* Reading: what a call decides on the latest round. *)

Latest == Len(rounds)
Phase(R) == IF R.scored THEN "scored" ELSE IF R.closed THEN "review"
            ELSE IF R.clock = "countdown" THEN "countdown" ELSE "writing"
Writable(R) == Phase(R) = "writing" /\ R.clock # "over"
Filled(R, p) == \A k \in Categories : R.words[p, k] # NoWord
Spent(p) == Cardinality({r \in DOMAIN rounds : rounds[r].joker = p})

(* A call takes the first place free. *)
Begin(c, what) ==
    /\ what.kind \in Kinds /\ ~ended
    /\ \A d \in 1..c : call[d].kind = "idle" <=> d = c
    /\ call' = [call EXCEPT ![c] = what]
    /\ UNCHANGED <<rounds, score, present, ended>>
Player(c, p, what) == /\ p \in present /\ started < MaxCalls /\ started' = started + 1
                      /\ Begin(c, what)
Crossing(kinds) == Cardinality({c \in Calls : call[c].kind \in kinds})

ReadWrite(c, p) ==
    /\ Writable(rounds[Latest])
    /\ Player(c, p, [kind |-> "write", who |-> p, r |-> Latest])
ReadStop(c, p) ==
    /\ Stop /\ Writable(rounds[Latest]) /\ Filled(rounds[Latest], p)
    /\ Player(c, p, [kind |-> "stop", who |-> p, r |-> Latest])
ReadReroll(c, p) ==
    /\ Phase(rounds[Latest]) = "countdown" /\ Spent(p) < Jokers
    /\ Player(c, p, [kind |-> "reroll", who |-> p, r |-> Latest])
ReadVote(c, p, r, b) ==
    /\ r \in DOMAIN rounds /\ Phase(rounds[r]) = "review"
    /\ rounds[r].words[b] # NoWord /\ b[1] # p
    /\ Player(c, p, [kind |-> "vote", who |-> p, r |-> r, box |-> b])

(* The host counts the review now, or asks for the next letter. *)
ReadCount(c) ==
    /\ Phase(rounds[Latest]) = "review" /\ Crossing({"count", "next", "create"}) < HostAtOnce
    /\ Begin(c, [kind |-> "count", r |-> Latest, list |-> present]) /\ UNCHANGED started
ReadNext(c) ==
    /\ Phase(rounds[Latest]) = "scored" /\ Crossing({"count", "next", "create"}) < HostAtOnce
    /\ Crossing({"reroll"}) = 0    \* bound: a draw is answered within its round
    /\ Begin(c, [kind |-> "next"]) /\ UNCHANGED started

(* settleOnce: a round out of time is closed, a review out of time is counted. *)
ReadClose(c) ==
    /\ Phase(rounds[Latest]) \in {"countdown", "writing"} /\ rounds[Latest].clock = "over"
    /\ Crossing({"close"}) = 0
    /\ Begin(c, [kind |-> "close", r |-> Latest]) /\ UNCHANGED started
ReadScore(c) ==
    /\ Phase(rounds[Latest]) = "review" /\ rounds[Latest].timeUp /\ Crossing({"score"}) = 0
    /\ Begin(c, [kind |-> "score", r |-> Latest, list |-> present]) /\ UNCHANGED started

(* closeIfLast: the game is over once its last round is counted. *)
CloseOnLast == /\ ~ended /\ Latest >= RoundCount /\ ended' = TRUE
               /\ UNCHANGED <<rounds, score, present, call, started>>
CloseIfLast ==
    /\ ~ended /\ Phase(rounds[Latest]) = "scored" /\ Latest >= RoundCount
    /\ ended' = TRUE /\ UNCHANGED <<rounds, score, present, call, started>>

-----------------------------------------------------------------------------
(* Writing: what a call does with what it read. *)

Doing(c, kind) == call[c].kind = kind /\ UNCHANGED <<present, started>>
Then(c, what) == call' = [call EXCEPT ![c] = what]

(* Words sent replace those held, the empty ones are deleted with their votes. *)
Bodies == UNION {[D -> Words \union (IF MayClear THEN {NoWord} ELSE {})] : D \in SUBSET Categories}
WriteAnswers(c, body) ==
    LET r == call[c].r
        p == call[c].who
        R == rounds[r]
        cleared == {b \in Boxes : b[1] = p /\ b[2] \in DOMAIN body /\ body[b[2]] = NoWord}
        words == [b \in Boxes |->
                    IF b[1] = p /\ b[2] \in DOMAIN body THEN body[b[2]] ELSE R.words[b]]
        after == [R EXCEPT !.words = words,
                           !.rejects = {v \in @ : v[1] \notin cleared},
                           !.given = [b \in Boxes |-> IF b \in cleared THEN 0 ELSE @[b]]]
    IN  /\ Doing(c, "write")
        /\ rounds' = [rounds EXCEPT ![r] = after]
        /\ Then(c, IF Stop /\ AutoStop /\ ~Filled(R, p) /\ Filled(after, p)
                   THEN [call[c] EXCEPT !.kind = "stop"] ELSE Idle)
        /\ UNCHANGED <<score, ended>>

(* stopRound: first stop wins, while the clock runs. *)
StopRound(c) ==
    LET r == call[c].r
    IN  /\ Doing(c, "stop") /\ Then(c, Idle) /\ UNCHANGED <<score, ended>>
        /\ IF rounds[r].stopper = Nobody /\ rounds[r].clock \in {"countdown", "writing"}
           THEN rounds' = [rounds EXCEPT ![r].stopper = call[c].who, ![r].clock = "grace"]
           ELSE UNCHANGED rounds

(* rerollLetter: once a round, the countdown starts again. *)
Reroll(c) ==
    LET r == call[c].r
    IN  /\ Doing(c, "reroll") /\ Then(c, Idle) /\ UNCHANGED <<score, ended>>
        /\ IF rounds[r].joker # Nobody THEN UNCHANGED rounds
           ELSE \E l \in Draw(Used) :
                  rounds' = [rounds EXCEPT ![r].joker = call[c].who, ![r].letter = l,
                                           ![r].clock = "countdown"]

CastVote(c) ==
    LET r == call[c].r
        vote == <<call[c].box, call[c].who>>
    IN  /\ Doing(c, "vote") /\ Then(c, Idle) /\ UNCHANGED <<score, ended>>
        /\ IF rounds[r].words[call[c].box] = NoWord THEN UNCHANGED rounds
           ELSE \/ rounds' = [rounds EXCEPT ![r].rejects = @ \union {vote}]
                \/ rounds' = [rounds EXCEPT ![r].rejects = @ \ {vote}]

CloseRound(c) ==
    /\ Doing(c, "close") /\ Then(c, Idle) /\ UNCHANGED <<score, ended>>
    /\ rounds' = [rounds EXCEPT ![call[c].r].closed = TRUE]

(* keepsAnswer, with the players the call read. *)
Voters(P, b) == P \ {b[1]}
Rejects(R, b) == {v \in R.rejects : v[1] = b /\ v[2] # b[1]}
Holds(R, P, b) ==
    /\ R.words[b] # NoWord /\ R.words[b][1] = R.letter
    /\ \/ Voters(P, b) = {}
       \/ 100 * Cardinality(Rejects(R, b)) <= RejectPercent * Cardinality(Voters(P, b))

(* scoreAnswers *)
PointsOf(R, valid, b) ==
    LET peers == {x \in valid : x[2] = b[2]}
        twins == {x \in peers : R.words[x] = R.words[b]}
    IN  IF b \notin valid THEN 0 ELSE IF peers = {b} THEN Solo
        ELSE IF twins = {b} THEN Unique ELSE Shared

BonusOf(R, valid) ==
    IF R.stopper # Nobody /\ \A k \in Categories : <<R.stopper, k>> \in valid THEN StopBonus ELSE 0

Total(R, p) == MapThenSumSet(LAMBDA b : R.given[b], {b \in Boxes : b[1] = p})
               + (IF R.stopper = p THEN R.bonus ELSE 0)

Counted(R, P) ==
    LET valid == {b \in Boxes : Holds(R, P, b)}
    IN  [R EXCEPT !.scored = TRUE, !.bonus = BonusOf(R, valid),
                  !.given = [b \in Boxes |-> PointsOf(R, valid, b)]]

(* scoreRound: the count is claimed once, and paid to the seats. *)
ScoreRoundTwice(c) ==
    LET after == Counted(rounds[call[c].r], call[c].list)
    IN  /\ call[c].kind \in {"count", "score"} /\ Then(c, Idle)
        /\ rounds' = [rounds EXCEPT ![call[c].r] = after]
        /\ score' = [p \in Players |-> score[p] + Total(after, p)]
        /\ UNCHANGED <<present, started, ended>>
ScoreRound(c) ==
    LET R == rounds[call[c].r]
        after == Counted(R, call[c].list)
    IN  /\ call[c].kind \in {"count", "score"} /\ Then(c, Idle)
        /\ IF ~R.closed \/ R.scored THEN UNCHANGED <<rounds, score>>
           ELSE /\ rounds' = [rounds EXCEPT ![call[c].r] = after]
                /\ score' = [p \in Players |-> score[p] + Total(after, p)]
        /\ UNCHANGED <<present, started, ended>>

(* openRound: the rounds are counted, then the next one is created; its index
   is unique. *)
CountRounds(c) ==
    /\ Doing(c, "next") /\ UNCHANGED <<rounds, score>>
    /\ IF Latest >= RoundCount THEN ended' = TRUE /\ Then(c, Idle)
       ELSE Then(c, [kind |-> "create", index |-> Latest, used |-> Used]) /\ UNCHANGED ended
OpenRound(c) ==
    /\ Doing(c, "create") /\ Then(c, Idle) /\ UNCHANGED <<score, ended>>
    /\ IF Latest > call[c].index THEN UNCHANGED rounds
       ELSE \E l \in Draw(call[c].used) : rounds' = Append(rounds, NewRound(l))

-----------------------------------------------------------------------------
(* Clocks, and players who leave. *)

Tick ==
    LET R == rounds[Latest]
        next == [countdown |-> "writing", writing |-> "grace", grace |-> "over", over |-> "over"]
    IN  /\ ~R.closed /\ R.clock # "over"
        /\ rounds' = [rounds EXCEPT ![Latest].clock = next[@]]
        /\ UNCHANGED <<score, present, call, started, ended>>
ReviewTime ==
    /\ rounds[Latest].closed /\ ~rounds[Latest].timeUp
    /\ rounds' = [rounds EXCEPT ![Latest].timeUp = TRUE]
    /\ UNCHANGED <<score, present, call, started, ended>>

Leave(p) ==
    /\ "leave" \in Kinds /\ Cardinality(present) > 1
    /\ started < MaxCalls /\ started' = started + 1
    /\ present' = present \ {p} /\ UNCHANGED <<rounds, score, call, ended>>

Settle == \E c \in Calls : ReadClose(c) \/ ReadScore(c)
Finish(c) == \/ \E body \in Bodies : WriteAnswers(c, body)
             \/ StopRound(c) \/ Reroll(c) \/ CastVote(c) \/ CloseRound(c) \/ ScoreRound(c)
             \/ CountRounds(c) \/ OpenRound(c)

Next ==
    \/ \E c \in Calls, p \in Players :
          \/ ReadWrite(c, p) \/ ReadStop(c, p) \/ ReadReroll(c, p)
          \/ \E r \in DOMAIN rounds, b \in Boxes : ReadVote(c, p, r, b)
    \/ \E c \in Calls : ReadCount(c) \/ ReadNext(c) \/ Finish(c)
    \/ Settle \/ CloseIfLast \/ Tick \/ ReviewTime
    \/ \E p \in present : Leave(p)

Spec == Init /\ [][Next]_vars

(* Clocks run, timers settle a round out of time, calls are answered. *)
Fairness == /\ WF_vars(Tick) /\ WF_vars(ReviewTime) /\ WF_vars(CloseIfLast)
            /\ SF_vars(Settle) /\ \A c \in Calls : WF_vars(Finish(c))
FairSpec == Spec /\ Fairness

-----------------------------------------------------------------------------
Calling ==
    {Idle} \union [kind : {"next"}]
    \union [kind : {"write", "stop", "reroll"}, who : Players, r : DOMAIN rounds]
    \union [kind : {"vote"}, who : Players, r : DOMAIN rounds, box : Boxes]
    \union [kind : {"close"}, r : DOMAIN rounds]
    \union [kind : {"count", "score"}, r : DOMAIN rounds, list : SUBSET Players]
    \union [kind : {"create"}, index : 0..(RoundCount - 1), used : SUBSET Letters]
TypeOK ==
    /\ Latest \in 1..RoundCount
    /\ \A r \in DOMAIN rounds :
          /\ rounds[r].words \in [Boxes -> Words \union {NoWord}]
          /\ rounds[r].rejects \subseteq Boxes \X Players
          /\ rounds[r].given \in [Boxes -> {0, Solo, Unique, Shared}]
          /\ rounds[r].letter \in Letters
          /\ {rounds[r].stopper, rounds[r].joker} \subseteq Players \union {Nobody}
    /\ score \in [Players -> Nat] /\ present \subseteq Players
    /\ \A c \in Calls : call[c] \in Calling

(* The game is over only once every round was played and counted, whatever calls
   cross, for a host who asks one thing at a time. *)
EndsCounted ==
    HostAtOnce <= 1 /\ ended => Latest = RoundCount /\ \A r \in DOMAIN rounds : rounds[r].scored

(* Each round is paid once, when it is counted, though a timer and the host may
   count it together: the totals move by what the rounds just counted give. *)
Gains(R, S, p) == MapThenSumSet(LAMBDA r : Total(R[r], p), S)
JustCounted == {r \in DOMAIN rounds : ~rounds[r].scored /\ rounds'[r].scored}
RoundsPaidOnce ==
    [][\A p \in Players : score'[p] = score[p] + Gains(rounds', JustCounted, p)]_vars

(* The speed bonus is paid only to a stopper whose every word has points, where no word
   kept is worth nothing and none is emptied after the count. *)
BonusEarned ==
    ~MayClear /\ 0 \notin {Solo, Unique, Shared} =>
       \A r \in DOMAIN rounds : rounds[r].bonus > 0 =>
          /\ rounds[r].stopper # Nobody
          /\ \A k \in Categories : rounds[r].given[rounds[r].stopper, k] > 0

(* A round opened is counted in the end: again and again none is left to count. *)
AllCounted == \A r \in DOMAIN rounds : rounds[r].scored
CountsInTheEnd == []<>AllCounted

(* Once its writing is closed the words of a round stay. *)
WordsFrozen ==
    [][\A r \in DOMAIN rounds : rounds[r].closed => rounds'[r].words = rounds[r].words]_vars

(* The letter of a round changes during its countdown only. *)
LetterKept ==
    [][\A r \in DOMAIN rounds :
          rounds[r].clock # "countdown" => rounds'[r].letter = rounds[r].letter]_vars

(* A word on the letter, that nobody still seated rejects, is kept. *)
VerdictOfSeated ==
    [][\A r \in DOMAIN rounds, b \in Boxes :
          /\ ~rounds[r].scored /\ rounds'[r].scored
          /\ rounds[r].words[b] # NoWord /\ rounds[r].words[b][1] = rounds[r].letter
          /\ \A v \in rounds[r].rejects : v[1] # b \/ v[2] \notin present
          => rounds'[r].given[b] > 0]_vars

\* Whatever calls cross, the game ends with its last round counted, and only a stopper who was done
\* earns the bonus.
RoundsSound ==
    /\ TypeOK
    /\ EndsCounted
    /\ BonusEarned
=============================================================================
