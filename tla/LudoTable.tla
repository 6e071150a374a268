------------------------------ MODULE LudoTable ------------------------------
(* The board of a Ludo game: the engine PlayGame drives for it.  Its steps run
   one at a time on the held row of the game, each on the list of players its
   call read before it held the row: a player gone since may still count, and a
   call that waited may play on a board closed since.

   A colour is named by its corner.  A pawn stands on a step: in its yard, on
   the shared track, in its own lane, at home.  The clock of a turn may run out
   at any moment; lines, revisions and the time left are not kept. *)
EXTENDS Integers, FiniteSets

CONSTANTS
    Corners, Quarter, Lane, StarOffset,   \* the board
    Seats,                                \* corners dealt, the first one to roll
    First,
    PawnCount, Six, MaxSixes,             \* pawns of a colour, best face, sixes too many
    ExitFaces,                            \* faces that open the yard
    PlaceWeight,                          \* score of a place
    SixReplay, ThreeSixes, CaptureReplay, HomeReplay, ForcedCapture, SafeSquares, ExactFinish,
    FirstHomeWins,                        \* the ending picked
    LateCalls                             \* bound: calls that play on a closed board

ASSUME BoardAssumption ==
    /\ Corners \in Nat \ {0} /\ Quarter \in Nat \ {0} /\ Lane \in Nat \ {0} /\ StarOffset \in Nat
    /\ Seats \subseteq 0..(Corners - 1) /\ IsFiniteSet(Seats) /\ First \in Seats
ASSUME RulesAssumption ==
    /\ PawnCount \in Nat \ {0} /\ Six \in Nat \ {0} /\ MaxSixes \in Nat \ {0, 1}
    /\ ExitFaces \subseteq 1..Six /\ PlaceWeight \in Nat \ {0} /\ LateCalls \in Nat
    /\ {SixReplay, ThreeSixes, CaptureReplay, HomeReplay, ForcedCapture, SafeSquares,
        ExactFinish, FirstHomeWins} \subseteq BOOLEAN

Track == Quarter * Corners
Lap == Track - 1
Goal == Lap + Lane
Yard == -1
Steps == Yard..Goal
Faces == 1..Six
Pawns == 1..PawnCount
Board == Seats \X Pawns

VARIABLES
    pawns,     \* step of each pawn
    place,     \* place of each colour home, 0 while it races
    turn,      \* colour on turn
    dice,      \* die on the table, 0 when there is none
    sixes,     \* sixes in a row
    score, closed,   \* scores written, and that they were
    present,   \* players still seated in the game
    lists,     \* lists of players a call may have read
    late       \* calls that played on the closed board

board_vars == <<pawns, place, turn, dice, sixes, score, closed>>
vars == <<board_vars, present, lists, late>>

Init ==
    /\ pawns = [x \in Board |-> Yard] /\ place = [s \in Seats |-> 0]
    /\ turn = First /\ dice = 0 /\ sixes = 0
    /\ score = [s \in Seats |-> 0] /\ closed = FALSE
    /\ present = Seats /\ lists = {Seats} /\ late = 0

-----------------------------------------------------------------------------
(* Rules. *)

OnTrack(step) == step >= 0 /\ step < Lap
SquareOf(corner, step) == (corner * Quarter + step) % Track
SafeOnes == {SquareOf(c, 0) : c \in 0..(Corners - 1)}
            \union {SquareOf(c, StarOffset) : c \in 0..(Corners - 1)}

Exits(m, i) == pawns[<<m, i>>] = Yard
Reach(m, i, d) == IF Exits(m, i) THEN 0 ELSE pawns[<<m, i>>] + d
Landing(m, i, d) == IF Reach(m, i, d) > Goal THEN Goal ELSE Reach(m, i, d)
IsSafe(m, to) == OnTrack(to) /\ SquareOf(m, to) \in SafeOnes

(* Pawns of the others where a pawn of m lands. *)
RivalsOn(P, m, to) ==
    {x \in Board : /\ x[1] \in P \ {m} /\ OnTrack(to) /\ OnTrack(pawns[x])
                   /\ SquareOf(x[1], pawns[x]) = SquareOf(m, to)}

(* A pawn leaving the yard eats whoever sits on its start, safe or not. *)
Shielded(m, i, d) == SafeSquares /\ IsSafe(m, Landing(m, i, d)) /\ ~Exits(m, i)

(* planOf: what one pawn may do with a face. *)
MayMoveOnMates(P, m, i, d) ==
    /\ pawns[<<m, i>>] < Goal
    /\ Exits(m, i) => d \in ExitFaces
    /\ ExactFinish => Reach(m, i, d) <= Goal
    /\ ~(Shielded(m, i, d) /\ RivalsOn(P, m, Landing(m, i, d)) # {})
MayMove(P, m, i, d) ==
    LET to == Landing(m, i, d)
    IN  /\ pawns[<<m, i>>] < Goal
        /\ Exits(m, i) => d \in ExitFaces
        /\ ExactFinish => Reach(m, i, d) <= Goal
        /\ OnTrack(to) => \A j \in Pawns \ {i} : pawns[<<m, j>>] # to
        /\ ~(Shielded(m, i, d) /\ RivalsOn(P, m, to) # {})

Taken(P, m, i, d) ==
    IF Shielded(m, i, d) THEN {} ELSE RivalsOn(P, m, Landing(m, i, d))

(* legalMoves: captures only when they are forced. *)
LegalMoves(P, m, d) ==
    LET able == {i \in Pawns : MayMove(P, m, i, d)}
        taking == {i \in able : Taken(P, m, i, d) # {}}
    IN  IF m \notin P THEN {} ELSE IF ForcedCapture /\ taking # {} THEN taking ELSE able

(* Moves leading to the same board count once. *)
IsOnlyChoice(m, d, moves) ==
    \A i, j \in moves : pawns[<<m, i>>] = pawns[<<m, j>>] /\ Landing(m, i, d) = Landing(m, j, d)

(* autoMove: the move of most worth, the first pawn of those; there is one. *)
Gain(b, weight) == IF b THEN weight ELSE 0
Worth(P, m, i, d) ==
    LET to == Landing(m, i, d)
    IN  Goal * (Gain(Taken(P, m, i, d) # {}, 100) + Gain(to = Goal, 80) + Gain(Exits(m, i), 60)
                + Gain(SafeSquares /\ IsSafe(m, to), 20)) + 10 * to
BestMoves(P, m, d, moves) ==
    {i \in moves :
       \A j \in moves : \/ Worth(P, m, i, d) > Worth(P, m, j, d)
                        \/ Worth(P, m, i, d) = Worth(P, m, j, d) /\ i <= j}

Racing(P, places) == {s \in P : places[s] = 0}

(* isBoardOver *)
IsOver(P, places) ==
    \/ FirstHomeWins /\ \E s \in P : places[s] # 0
    \/ Cardinality(Racing(P, places)) <= IF Cardinality(Seats) > 1 THEN 1 ELSE 0

(* Next colour clockwise: the lowest corner after the one on turn, else the
   lowest of all; there is one. *)
NextTurns(active) ==
    LET later == {s \in active : s > turn}
        pool == IF later # {} THEN later ELSE active
    IN  {s \in pool : \A t \in pool : s <= t}

(* Steps walked by a colour, each pawn's counted from its yard. *)
Walked[n \in 0..PawnCount] ==
    [s \in Seats |-> IF n = 0 THEN 0 ELSE Walked[n - 1][s] + pawns'[<<s, n>>] + 1]
Standing(s) ==
    (IF place'[s] # 0 THEN (Corners + 1 - place'[s]) * PlaceWeight ELSE 0) + Walked[PawnCount][s]

-----------------------------------------------------------------------------
(* Steps of the engine, on the list P its call read. *)

CloseBoard ==
    /\ score' = [s \in Seats |-> Standing(s)] /\ closed' = TRUE
    /\ UNCHANGED <<turn, dice, sixes>>

(* passTurn: the die goes on, or back to a player still racing. *)
PassTurn(P, bonus, kept) ==
    LET active == Racing(P, place')
        keeps == bonus /\ turn \in active
    IN  IF IsOver(P, place') THEN CloseBoard
        ELSE /\ IF keeps THEN turn' = turn ELSE turn' \in NextTurns(active)
             /\ sixes' = IF keeps THEN kept ELSE 0
             /\ dice' = 0 /\ UNCHANGED <<score, closed>>

Placed == {s \in Seats : place[s] # 0}

AllHome(s) == \A j \in Pawns : pawns'[<<s, j>>] >= Goal

(* playPlan with seatsAfter: the pawn lands, those taken go back to their yard,
   a colour all home wins the next place. *)
PlayPlan(P, i, d, kept) ==
    LET to == Landing(turn, i, d)
        taken == Taken(P, turn, i, d)
        bonus == \/ d = Six /\ SixReplay
                 \/ taken # {} /\ CaptureReplay
                 \/ to = Goal /\ HomeReplay
    IN  /\ pawns' = [x \in Board |-> IF x = <<turn, i>> THEN to
                                     ELSE IF x \in taken THEN Yard ELSE pawns[x]]
        /\ place' = [place EXCEPT ![turn] =
                       IF @ = 0 /\ AllHome(turn) THEN Cardinality(Placed) + 1 ELSE @]
        /\ PassTurn(P, bonus, kept)

(* rollFor: played at once when nothing is to choose, or for a player whose
   clock ran out. *)
RollFor(P, d, auto) ==
    LET n == IF d = Six THEN sixes + 1 ELSE 0
        moves == LegalMoves(P, turn, d)
    IN  IF ThreeSixes /\ n >= MaxSixes
        THEN UNCHANGED <<pawns, place>> /\ PassTurn(P, FALSE, 0)
        ELSE IF moves = {}
        THEN UNCHANGED <<pawns, place>> /\ PassTurn(P, d = Six /\ SixReplay, n)
        ELSE IF auto \/ IsOnlyChoice(turn, d, moves)
        THEN \E i \in BestMoves(P, turn, d, moves) : PlayPlan(P, i, d, n)
        ELSE dice' = d /\ sixes' = n /\ UNCHANGED <<pawns, place, turn, score, closed>>

Called == /\ closed => late < LateCalls
          /\ late' = IF closed THEN late + 1 ELSE late

(* The player on turn throws the die. *)
RollDice(P, d) ==
    /\ turn \in P /\ dice = 0
    /\ RollFor(P, d, FALSE)
    /\ Called /\ UNCHANGED <<present, lists>>

(* The player on turn moves the pawn picked. *)
MovePawn(P, i) ==
    /\ turn \in P /\ dice # 0
    /\ i \in LegalMoves(P, turn, dice)
    /\ PlayPlan(P, i, dice, sixes)
    /\ Called /\ UNCHANGED <<present, lists>>

(* settleBoard: an over board is closed, the die of who walked away or is home
   goes on, and a turn out of time is played. *)
SettleBoard(P, d) ==
    LET moves == LegalMoves(P, turn, dice)
    IN  /\ IF IsOver(P, place) THEN UNCHANGED <<pawns, place>> /\ CloseBoard
           ELSE IF turn \notin Racing(P, place) THEN UNCHANGED <<pawns, place>> /\ PassTurn(P, FALSE, 0)
           ELSE IF dice = 0 THEN RollFor(P, d, TRUE)
           ELSE IF moves = {} THEN UNCHANGED <<pawns, place>> /\ PassTurn(P, FALSE, 0)
           ELSE \E i \in BestMoves(P, turn, dice, moves) : PlayPlan(P, i, dice, sixes)
        /\ Called /\ UNCHANGED <<present, lists>>

(* A player leaves the running game, for good. *)
Leave(s) ==
    /\ s \in present /\ present' = present \ {s}
    /\ lists' = lists \union {present'}
    /\ UNCHANGED <<board_vars, late>>

Next ==
    \/ \E P \in lists, d \in Faces : RollDice(P, d) \/ SettleBoard(P, d)
    \/ \E P \in lists, i \in Pawns : MovePawn(P, i)
    \/ \E s \in present : Leave(s)

Spec == Init /\ [][Next]_vars

(* The timer of the turn, or the one of a departure, reads the players left. *)
Fairness == WF_vars(\E d \in Faces : SettleBoard(present, d))
FairSpec == Spec /\ Fairness

-----------------------------------------------------------------------------
TypeOK ==
    /\ pawns \in [Board -> Steps]
    /\ place \in [Seats -> Nat]
    /\ turn \in Seats /\ dice \in {0} \union Faces /\ sixes \in Nat
    /\ closed \in BOOLEAN /\ late \in 0..LateCalls
    /\ present \subseteq Seats /\ lists \subseteq SUBSET Seats

(* Two pawns of players still in never share a square of the track: a mate bars
   the way, a rival is taken or spared by a safe square. *)
Apart(x, y) == IF x[1] = y[1] THEN pawns[x] # pawns[y]
               ELSE SquareOf(x[1], pawns[x]) # SquareOf(y[1], pawns[y])
OneOnTrack ==
    \A x, y \in Board :
       x # y /\ {x[1], y[1]} \subseteq present /\ OnTrack(pawns[x]) /\ OnTrack(pawns[y])
         => Apart(x, y)

(* Never two pawns of a colour on one square, its lane counted. *)
OneOnSquare ==
    \A s \in Seats, i, j \in Pawns :
       i # j /\ pawns[<<s, i>>] = pawns[<<s, j>>] => pawns[<<s, i>>] \in {Yard, Goal}

(* A die left on the table always has a pawn to move, though players may leave
   while its owner thinks. *)
DiceHasMove == dice # 0 /\ ~closed /\ turn \in present => LegalMoves(present, turn, dice) # {}

(* Places are won one after the other, each once, by colours all home. *)
PlacesInOrder ==
    /\ {place[s] : s \in Placed} = 1..Cardinality(Placed)
    /\ \A s \in Seats : place[s] # 0 <=> \A i \in Pawns : pawns[<<s, i>>] = Goal

(* The die never stays with a colour that is home, and a third six in a row is
   never kept. *)
TurnRaces == ~closed => place[turn] = 0 /\ (ThreeSixes => sixes < MaxSixes)

Ranked ==
    closed' /\ (~closed \/ score' # score) =>
       \A s, t \in Seats :
          place'[s] # 0 /\ (place'[t] = 0 \/ place'[s] < place'[t]) => score'[s] > score'[t]
(* Scores, when they are written, rank the colours home before the others, in
   the order they came. *)
PlacesRank == [][Ranked]_vars

(* Scores are final: written once, the board being over. *)
FinalScores == [][closed => score' = score]_vars

(* A pawn goes back only to its yard, from the track, under a pawn of another
   colour that lands on its square. *)
OnlyTakenGoBack ==
    [][\A x \in Board : pawns'[x] < pawns[x] =>
          /\ pawns'[x] = Yard /\ OnTrack(pawns[x]) /\ x[1] # turn
          /\ \E i \in Pawns : /\ pawns'[<<turn, i>>] # pawns[<<turn, i>>]
                              /\ OnTrack(pawns'[<<turn, i>>])
                              /\ SquareOf(turn, pawns'[<<turn, i>>]) = SquareOf(x[1], pawns[x])]_vars

(* The die of a player who left goes on, or the board closes: again and again it
   is with a player still seated. *)
TurnMovesOn == []<>(turn \in present \/ closed)

\* The board of a Ludo game stays one that its rules could have laid, whatever list of players each
\* step was played on.
BoardSound ==
    /\ TypeOK
    /\ OneOnTrack
    /\ DiceHasMove
    /\ TurnRaces
    /\ PlacesInOrder
=============================================================================
