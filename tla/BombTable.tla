----------------------------- MODULE BombTable ------------------------------
(***************************************************************************)
(* The table of a Bomb Party: players around a bomb hand it on by playing  *)
(* words, and lose a life when it goes off in their hands.  One of the     *)
(* engines PlayGame drives; its steps run one at a time on the held row of *)
(* the game, but on the list of players their call read before it held the *)
(* row, so a player who left since may still be counted.                   *)
(*                                                                         *)
(* Seats are numbered around the bomb in the random order of the opening.  *)
(* Time is counted from now: `fuse' is what is left before the explosion,  *)
(* `startsIn' what is left of the countdown.  Words, prompts and letters   *)
(* are reduced to what they decide: a word counts or misses, and a word    *)
(* that counts may complete the bonus letters of its player.               *)
(***************************************************************************)
EXTENDS Naturals, Sequences, FiniteSets

CONSTANTS
    SeatCount,          \* players at the opening
    Calls,              \* requests and timer callbacks in flight at once
    StartLives, MaxLives,
    MinTurn,            \* fuse a player is left at least after a word
    FuseMin, FuseMax,   \* length of a new fuse
    Countdown,          \* before the first turn
    MaxWords            \* bound: words that count

ASSUME SeatsAssumption == SeatCount \in Nat \ {0}
ASSUME LivesAssumption ==
    /\ StartLives \in Nat \ {0}
    /\ MaxLives \in Nat
    /\ StartLives <= MaxLives
ASSUME TimesAssumption ==
    /\ MinTurn \in Nat \ {0}
    /\ FuseMin \in Nat \ {0}
    /\ FuseMax \in Nat
    /\ FuseMin <= FuseMax
    /\ Countdown \in Nat
ASSUME WordsAssumption == MaxWords \in Nat

Seats == 0 .. SeatCount - 1

VARIABLES
    lives,      \* lives of each seat
    out,        \* eliminated seats, in the order they went
    turn,       \* seat holding the bomb
    draft,      \* seat whose text is shown, at most one
    startsIn,   \* countdown left
    fuse,       \* time left before the explosion, 0 once it is due
    score,      \* places written on the seats
    closed,     \* the places were written
    present,    \* players still seated in the game
    call,       \* calls that read the players and wait for the row
    words       \* words that counted

tableVars == <<lives, out, turn, draft, startsIn, fuse, score, closed>>
vars      == <<tableVars, present, call, words>>

Idle == [kind |-> "idle"]
Loaded ==
    [kind : {"settle"}, players : SUBSET Seats]
      \union [kind : {"submit", "type"}, who : Seats, players : SUBSET Seats]

TypeOK ==
    /\ lives \in [Seats -> 0 .. MaxLives]
    /\ out \in Seq(Seats)
    /\ turn \in Seats
    /\ draft \subseteq Seats
    /\ startsIn \in Nat
    /\ fuse \in Nat
    /\ score \in [Seats -> 0 .. SeatCount + 1]
    /\ closed \in BOOLEAN
    /\ present \subseteq Seats
    /\ call \in [Calls -> {Idle} \union Loaded]
    /\ words \in 0 .. MaxWords

Init ==
    /\ lives = [s \in Seats |-> StartLives]
    /\ out = <<>>
    /\ turn = 0
    /\ draft = {}
    /\ startsIn = Countdown
    /\ \E length \in FuseMin .. FuseMax : fuse = Countdown + length
    /\ score = [s \in Seats |-> 0]
    /\ closed = FALSE
    /\ present = Seats
    /\ call = [c \in Calls |-> Idle]
    /\ words = 0

-----------------------------------------------------------------------------
(* Rules.                                                                  *)

\* Mutant of Alive: lives are not looked at.
AliveSeated(players) == players

\* Living, and seated as far as the call knows.
Alive(players) == {s \in players : lives[s] > 0}

\* The last survivor ends a table of several.
IsTableOver(alive) == Cardinality(alive) <= IF SeatCount > 1 THEN 1 ELSE 0

LowestOf(seats) == CHOOSE s \in seats : \A t \in seats : s <= t

\* Next living seat around the bomb, the same seat when there is none.
NextTurn(alive) ==
    LET later == {s \in alive : s > turn}
    IN  CASE later # {} -> LowestOf(later)
          [] later = {} /\ alive # {} -> LowestOf(alive)
          [] OTHER -> turn

\* Mutant of FuseForNext: the next player inherits whatever is left.
FuseForNextAsIs == fuse

\* Fuse kept long enough for the next player.
FuseForNext == IF fuse > MinTurn THEN fuse ELSE MinTurn

\* Mutant of Healed: no ceiling.
HealedUnbounded(s) == {lives[s], lives[s] + 1}

\* Lives after a word that counts: one more if it completes the letters.
Healed(s) == {lives[s]} \union (IF lives[s] < MaxLives THEN {lives[s] + 1} ELSE {})

\* Mutant of Places: the first out ranks above the later ones.
PlacesReversed(gone, alive) ==
    [s \in Seats |->
        IF \E i \in DOMAIN gone : gone[i] = s
          THEN Len(gone) + 1 - CHOOSE i \in DOMAIN gone : gone[i] = s
          ELSE IF s \in alive THEN SeatCount + 1 ELSE score[s]]

\* Survivors first, then the latest out; who left alive keeps no place.
Places(gone, alive) ==
    [s \in Seats |->
        IF s \in alive THEN SeatCount + 1
        ELSE IF \E i \in DOMAIN gone : gone[i] = s
          THEN CHOOSE i \in DOMAIN gone : gone[i] = s
          ELSE score[s]]

CloseTable(gone, alive) ==
    /\ score' = Places(gone, alive)
    /\ closed' = TRUE
    /\ UNCHANGED <<turn, draft, fuse>>

\* The bomb is handed on, the shown text wiped.
PassBomb(alive) ==
    /\ turn' = NextTurn(alive)
    /\ draft' = {}
    /\ UNCHANGED <<score, closed>>

-----------------------------------------------------------------------------
(* Steps of the engine on the held row.                                    *)

\* The bomb goes off on the player on turn.
BlastTurn(alive) ==
    LET left  == lives[turn] - 1
        after == IF left > 0 THEN alive ELSE alive \ {turn}
        gone  == IF left > 0 THEN out ELSE Append(out, turn)
    IN  /\ lives' = [lives EXCEPT ![turn] = left]
        /\ out' = gone
        /\ IF IsTableOver(after)
             THEN CloseTable(gone, after)
             ELSE PassBomb(after) /\ fuse' \in FuseMin .. FuseMax

\* Mutant of SettleTable: the player on turn is waited for, gone or not.
SettleTableWaits(c) ==
    LET alive == Alive(call[c].players)
    IN  /\ call[c].kind = "settle"
        /\ call' = [call EXCEPT ![c] = Idle]
        /\ \/ IsTableOver(alive) /\ CloseTable(out, alive) /\ UNCHANGED <<lives, out>>
           \/ /\ ~IsTableOver(alive)
              /\ fuse = 0
              /\ turn \in alive
              /\ BlastTurn(alive)
           \/ /\ ~IsTableOver(alive)
              /\ fuse > 0 \/ turn \notin alive
              /\ UNCHANGED <<lives, out, turn, draft, fuse, score, closed>>
        /\ UNCHANGED <<startsIn, present, words>>

\* Every overdue move: the end, a player on turn who walked away, a blast.
SettleTable(c) ==
    LET alive == Alive(call[c].players)
    IN  /\ call[c].kind = "settle"
        /\ call' = [call EXCEPT ![c] = Idle]
        /\ \/ IsTableOver(alive) /\ CloseTable(out, alive) /\ UNCHANGED <<lives, out>>
           \/ /\ ~IsTableOver(alive)
              /\ turn \notin alive
              /\ PassBomb(alive)
              /\ fuse' = FuseForNext
              /\ UNCHANGED <<lives, out>>
           \/ /\ ~IsTableOver(alive)
              /\ turn \in alive
              /\ fuse = 0
              /\ BlastTurn(alive)
           \/ /\ ~IsTableOver(alive)
              /\ turn \in alive
              /\ fuse > 0
              /\ UNCHANGED <<lives, out, turn, draft, fuse, score, closed>>
        /\ UNCHANGED <<startsIn, present, words>>

\* A word of the player on turn, between the countdown and the explosion,
\* misses and stays on screen, or counts; any other word is refused.
SubmitWord(c) ==
    LET who   == call[c].who
        alive == Alive(call[c].players)
        onTurn == who = turn /\ startsIn = 0 /\ fuse > 0
    IN  /\ call[c].kind = "submit"
        /\ call' = [call EXCEPT ![c] = Idle]
        /\ \/ ~onTurn /\ UNCHANGED <<tableVars, words>>
           \/ /\ onTurn
              /\ draft' = {who}
              /\ UNCHANGED <<lives, out, turn, startsIn, fuse, score, closed, words>>
           \/ /\ onTurn
              /\ words < MaxWords
              /\ words' = words + 1
              /\ \E l \in Healed(who) : lives' = [lives EXCEPT ![who] = l]
              /\ PassBomb(alive)
              /\ fuse' = FuseForNext
              /\ UNCHANGED <<out, startsIn>>
        /\ UNCHANGED present

\* Mutant of TypeDraft: the turn is trusted as the call knew it.
TypeDraftUnchecked(c) ==
    /\ call[c].kind = "type"
    /\ call' = [call EXCEPT ![c] = Idle]
    /\ draft' = {call[c].who}
    /\ UNCHANGED <<lives, out, turn, startsIn, fuse, score, closed, present, words>>

\* The text of the player on turn, whoever holds the row.
TypeDraft(c) ==
    /\ call[c].kind = "type"
    /\ call' = [call EXCEPT ![c] = Idle]
    /\ draft' = IF turn = call[c].who THEN {turn} ELSE draft
    /\ UNCHANGED <<lives, out, turn, startsIn, fuse, score, closed, present, words>>

-----------------------------------------------------------------------------
(* Around the table.                                                       *)

\* A timer or a reader asks for the overdue moves of a game as it reads it.
LoadSettle(c) ==
    /\ call[c] = Idle
    /\ present # {}
    /\ call' = [call EXCEPT ![c] = [kind |-> "settle", players |-> present]]
    /\ UNCHANGED <<tableVars, present, words>>

\* A seated player acts, on the game as it was just read.
LoadMove(c) ==
    /\ call[c] = Idle
    /\ \E who \in present, kind \in {"submit", "type"} :
         call' = [call EXCEPT ![c] = [kind |-> kind, who |-> who, players |-> present]]
    /\ UNCHANGED <<tableVars, present, words>>

\* A running game lets its players leave and takes none.
Leave(s) ==
    /\ s \in present
    /\ present' = present \ {s}
    /\ UNCHANGED <<tableVars, call, words>>

Tick ==
    /\ fuse > 0
    /\ fuse' = fuse - 1
    /\ startsIn' = IF startsIn > 0 THEN startsIn - 1 ELSE 0
    /\ UNCHANGED <<lives, out, turn, draft, score, closed, present, call, words>>

Run(c) == SettleTable(c) \/ SubmitWord(c) \/ TypeDraft(c)

Next ==
    \/ \E c \in Calls : Run(c) \/ LoadSettle(c) \/ LoadMove(c)
    \/ \E s \in Seats : Leave(s)
    \/ Tick

\* Calls end, time passes, and the deadline of the table or a reader keeps
\* asking for its overdue moves (PlayGame!WakeUpPending).
Fairness ==
    /\ \A c \in Calls : WF_vars(Run(c))
    /\ SF_vars(\E c \in Calls : LoadSettle(c))
    /\ WF_vars(Tick)

Spec == Init /\ [][Next]_vars
FairSpec == Spec /\ Fairness

-----------------------------------------------------------------------------
(* Properties.                                                             *)

\* Until the table closes, the bomb is held by a player with a life left, even
\* when a word or a blast was played on an outdated list of players
\* (BombTurnService.passBomb, nextTurn).
HolderAlive == ~closed => lives[turn] > 0

\* A player handed the bomb has time to answer: the minimum turn, or a new
\* fuse, whichever is shorter (BombTurnService.fuseForNext, blast).
FairFuse ==
    [][turn' # turn => fuse' >= IF MinTurn < FuseMin THEN MinTurn ELSE FuseMin]_vars

\* The text on screen is that of the player holding the bomb, although typing
\* does not hold the row of the table (BombTurnService.typeDraft).
DraftIsHolders == draft \subseteq {turn}

\* Who went out later ranks higher, and a survivor who has a place ranks above
\* everyone out.
PlacesTell ==
    /\ \A i, j \in DOMAIN out : i < j => score[out[i]] < score[out[j]]
    /\ \A s \in Seats, i \in DOMAIN out :
         (lives[s] > 0 /\ score[s] > 0) => score[s] > score[out[i]]

\* Whenever places are written, on whatever list of players, they tell the
\* story of the game (BombTurnService.closeTable).
ScoresRank == [][score' # score => PlacesTell']_vars

\* The places written when the table closes are final (comment of
\* BombTurnService.closeTable): a player who has one keeps it.
FinalPlaces == [][closed => \A s \in Seats : score[s] > 0 => score'[s] = score[s]]_vars

\* A table closes: no series of words, departures and blasts keeps the bomb
\* going round forever, and a player on turn who left holds nobody up.
TableCloses == <>(closed \/ present = {})
=============================================================================
