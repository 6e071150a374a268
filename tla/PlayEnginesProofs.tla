-------------------------- MODULE PlayEnginesProofs --------------------------
(* Proofs about the two engines.  Of LudoTable, for any board, any rules and any
   number of seats and pawns: what holds of the pawns, of the die and of the places
   whatever list of players each call read.  Of BaccalaureatTable, for any players,
   categories and number of calls that cross: rounds counted in turn, and paid once. *)
EXTENDS PlayEngines, Sequences, FiniteSetTheorems, WellFoundedInduction, TLAPS

-----------------------------------------------------------------------------
\* The board and the rules.

LEMMA BoardNat == /\ Track \in Nat \ {0} /\ Lap \in Nat /\ Goal \in Nat /\ Lap < Goal
                  /\ Goal \in Steps /\ Yard \in Steps /\ 0 \in Steps /\ Yard # Goal
<1>1. Quarter * Corners \in Nat
  BY BoardAssumption
<1>2. Quarter * Corners # 0
  BY BoardAssumption
<1>3. Lane \in Nat \ {0}
  BY BoardAssumption
<1>4. QED BY <1>1, <1>2, <1>3 DEF Track, Lap, Goal, Steps, Yard

LEMMA StepInt == /\ \A n \in Steps : n \in Int /\ n <= Goal /\ (n = Yard \/ n \in Nat)
                 /\ \A n \in Nat : n <= Goal => n \in Steps
                 /\ Steps \subseteq Int
BY BoardNat DEF Steps, Yard

\* A list of players never lacks one still in the game.
ListsHold == \A P \in lists : present \subseteq P

Inv == /\ TypeOK /\ ListsHold /\ OneOnTrack /\ DiceHasMove /\ TurnRaces /\ PlacesInOrder

\* A pawn that may move lands further, on a step of the board.
LEMMA LandsFurther ==
  ASSUME TypeOK, NEW P \in SUBSET Seats, NEW m \in Seats, NEW i \in Pawns, NEW d \in Faces,
         MayMove(P, m, i, d)
  PROVE  Landing(m, i, d) \in Steps /\ Landing(m, i, d) > pawns[<<m, i>>] /\ Landing(m, i, d) >= 0
<1>1. pawns[<<m, i>>] \in Steps /\ pawns[<<m, i>>] < Goal
  BY DEF TypeOK, Board, MayMove
<1>2. d \in Int /\ d > 0
  BY RulesAssumption DEF Faces
<1>3. Reach(m, i, d) \in Int /\ Reach(m, i, d) > pawns[<<m, i>>] /\ Reach(m, i, d) >= 0
  <2>1. CASE pawns[<<m, i>>] = Yard
    BY <2>1 DEF Reach, Exits, Yard
  <2>2. CASE pawns[<<m, i>>] # Yard
    <3>1. pawns[<<m, i>>] \in Nat
      BY <1>1, <2>2, StepInt
    <3>2. Reach(m, i, d) = pawns[<<m, i>>] + d
      BY <2>2 DEF Reach, Exits
    <3>3. QED BY <1>2, <3>1, <3>2
  <2>3. QED BY <2>1, <2>2
<1>4. Landing(m, i, d) \in Nat /\ Landing(m, i, d) <= Goal /\ Landing(m, i, d) > pawns[<<m, i>>]
  <2> DEFINE reach == Reach(m, i, d)
  <2>1. pawns[<<m, i>>] \in Int /\ reach \in Nat
    <3>1. pawns[<<m, i>>] \in Int
      BY <1>1, StepInt
    <3>2. QED BY <1>3, <3>1
  <2>2. Landing(m, i, d) = IF reach > Goal THEN Goal ELSE reach
    BY DEF Landing
  <2> HIDE DEF reach
  <2>3. QED BY <1>1, <1>3, <2>1, <2>2, BoardNat DEF reach
<1>5. QED BY <1>4, StepInt, BoardNat

\* With fewer players a pawn has as many moves at least.
LEMMA FewerPlayers ==
  ASSUME NEW P, NEW Q \in SUBSET P, NEW m \in Q, NEW d, LegalMoves(P, m, d) # {}
  PROVE  LegalMoves(Q, m, d) # {}
<1>1. \A to : RivalsOn(Q, m, to) \subseteq RivalsOn(P, m, to)
  BY DEF RivalsOn
<1>2. PICK i \in Pawns : MayMove(P, m, i, d)
  BY DEF LegalMoves
<1>3. MayMove(Q, m, i, d)
  BY <1>1, <1>2 DEF MayMove
<1>4. QED BY <1>3 DEF LegalMoves

LEMMA Legal ==
  ASSUME NEW P, NEW m, NEW d, NEW i \in LegalMoves(P, m, d)
  PROVE  i \in Pawns /\ m \in P /\ MayMove(P, m, i, d)
BY DEF LegalMoves

LEMMA BestLegal ==
  ASSUME NEW P, NEW m, NEW d, NEW moves, NEW i \in BestMoves(P, m, d, moves)
  PROVE  i \in moves
BY DEF BestMoves

-----------------------------------------------------------------------------
\* What a move does to the pawns and the places.

\* The pawns and the places after the move PlayPlan plays.
Lands(P, i, d) ==
    /\ pawns' = [x \in Board |-> IF x = <<turn, i>> THEN Landing(turn, i, d)
                                 ELSE IF x \in Taken(P, turn, i, d) THEN Yard ELSE pawns[x]]
    /\ place' = [place EXCEPT ![turn] =
                   IF @ = 0 /\ \A j \in Pawns : pawns'[<<turn, j>>] >= Goal
                   THEN Cardinality(Placed) + 1 ELSE @]

BackTaken ==
    \A x \in Board : pawns'[x] < pawns[x] =>
       /\ pawns'[x] = Yard /\ OnTrack(pawns[x]) /\ x[1] # turn
       /\ \E i \in Pawns : /\ pawns'[<<turn, i>>] # pawns[<<turn, i>>]
                           /\ OnTrack(pawns'[<<turn, i>>])
                           /\ SquareOf(turn, pawns'[<<turn, i>>]) = SquareOf(x[1], pawns[x])

LEMMA LandsType ==
  ASSUME TypeOK, NEW P \in SUBSET Seats, NEW d \in Faces, NEW i \in LegalMoves(P, turn, d),
         Lands(P, i, d)
  PROVE  pawns' \in [Board -> Steps] /\ place' \in [Seats -> Nat]
<1>1. i \in Pawns /\ turn \in Seats /\ MayMove(P, turn, i, d)
  BY Legal DEF TypeOK
<1>2. Landing(turn, i, d) \in Steps
  BY <1>1, LandsFurther
<1>3. pawns' \in [Board -> Steps]
  BY <1>2, BoardNat DEF Lands, TypeOK
<1>4. Cardinality(Placed) + 1 \in Nat
  <2>1. IsFiniteSet(Placed)
    BY FS_Subset, BoardAssumption DEF Placed
  <2>2. QED BY <2>1, FS_CardinalityType
<1>5. QED BY <1>3, <1>4 DEF Lands, TypeOK

\* The pawn that lands shares the square of no pawn of a player still in.
LEMMA LandsAlone ==
  ASSUME TypeOK, NEW P \in SUBSET Seats, present \subseteq P,
         NEW d \in Faces, NEW i \in LegalMoves(P, turn, d), Lands(P, i, d),
         NEW y \in Board, y # <<turn, i>>, y[1] \in present,
         OnTrack(pawns'[<<turn, i>>]), OnTrack(pawns'[y])
  PROVE  IF turn = y[1] THEN pawns'[<<turn, i>>] # pawns'[y]
         ELSE SquareOf(turn, pawns'[<<turn, i>>]) # SquareOf(y[1], pawns'[y])
<1> DEFINE to == Landing(turn, i, d)
<1>1. i \in Pawns /\ turn \in Seats /\ MayMove(P, turn, i, d) /\ <<turn, i>> \in Board
  BY Legal DEF TypeOK, Board
<1>2. pawns'[<<turn, i>>] = to
  BY <1>1 DEF Lands
<1>3. y \notin Taken(P, turn, i, d) /\ pawns'[y] = pawns[y]
  <2>1. ~OnTrack(Yard)
    BY DEF OnTrack, Yard
  <2>2. QED BY <2>1 DEF Lands
<1>4. CASE turn = y[1]
  <2>1. PICK j \in Pawns : y = <<turn, j>>
    BY <1>4 DEF Board
  <2>2. j # i /\ pawns[<<turn, j>>] # to
    BY <1>1, <1>2, <2>1 DEF MayMove
  <2>3. QED BY <1>2, <1>3, <1>4, <2>1, <2>2
<1>5. CASE turn # y[1]
  <2>1. SUFFICES ASSUME SquareOf(turn, to) = SquareOf(y[1], pawns[y]) PROVE FALSE
    BY <1>2, <1>3, <1>5
  <2>2. y \in RivalsOn(P, turn, to)
    BY <1>2, <1>3, <1>5, <2>1 DEF RivalsOn
  <2>3. ~Shielded(turn, i, d)
    BY <1>1, <2>2 DEF MayMove
  <2>4. QED BY <1>3, <2>2, <2>3 DEF Taken
<1>6. QED BY <1>4, <1>5

LEMMA LandsApart ==
  ASSUME TypeOK, OneOnTrack, NEW P \in SUBSET Seats, present \subseteq P,
         NEW d \in Faces, NEW i \in LegalMoves(P, turn, d), Lands(P, i, d), UNCHANGED present
  PROVE  OneOnTrack'
<1> SUFFICES ASSUME NEW x \in Board, NEW y \in Board, x # y, {x[1], y[1]} \subseteq present,
                    OnTrack(pawns'[x]), OnTrack(pawns'[y])
             PROVE  IF x[1] = y[1] THEN pawns'[x] # pawns'[y]
                    ELSE SquareOf(x[1], pawns'[x]) # SquareOf(y[1], pawns'[y])
  BY DEF OneOnTrack, Apart, OnTrack, SquareOf
<1>1. CASE x = <<turn, i>>
  BY <1>1, LandsAlone
<1>2. CASE y = <<turn, i>>
  BY <1>2, LandsAlone
<1>3. CASE x # <<turn, i>> /\ y # <<turn, i>>
  <2>1. ~OnTrack(Yard)
    BY DEF OnTrack, Yard
  <2>2. pawns'[x] = pawns[x] /\ pawns'[y] = pawns[y]
    BY <1>3, <2>1 DEF Lands
  <2>3. QED BY <2>2 DEF OneOnTrack, Apart
<1>4. QED BY <1>1, <1>2, <1>3

LEMMA NoneBack ==
  ASSUME TypeOK, UNCHANGED pawns
  PROVE  BackTaken
<1>1. \A x \in Board : pawns[x] \in Int
  BY StepInt DEF TypeOK
<1>2. \A x \in Board : ~(pawns'[x] < pawns[x])
  BY <1>1
<1>3. QED BY <1>2 DEF BackTaken

LEMMA LandsTaken ==
  ASSUME TypeOK, NEW P \in SUBSET Seats, NEW d \in Faces, NEW i \in LegalMoves(P, turn, d),
         Lands(P, i, d)
  PROVE  BackTaken
<1> SUFFICES ASSUME NEW x \in Board, pawns'[x] < pawns[x]
             PROVE  /\ pawns'[x] = Yard /\ OnTrack(pawns[x]) /\ x[1] # turn
                    /\ pawns'[<<turn, i>>] # pawns[<<turn, i>>] /\ OnTrack(pawns'[<<turn, i>>])
                    /\ SquareOf(turn, pawns'[<<turn, i>>]) = SquareOf(x[1], pawns[x])
  BY Legal DEF BackTaken
<1>1. i \in Pawns /\ turn \in Seats /\ MayMove(P, turn, i, d) /\ <<turn, i>> \in Board
  BY Legal DEF TypeOK, Board
<1>2. pawns'[<<turn, i>>] = Landing(turn, i, d)
  BY <1>1 DEF Lands
<1>3. /\ pawns[<<turn, i>>] \in Int /\ Landing(turn, i, d) \in Int
      /\ Landing(turn, i, d) > pawns[<<turn, i>>]
  BY <1>1, LandsFurther, StepInt DEF TypeOK
<1>4. x # <<turn, i>>
  BY <1>2, <1>3
<1>5. x \in Taken(P, turn, i, d) /\ pawns'[x] = Yard
  <2>1. pawns[x] \in Int
    BY StepInt DEF TypeOK
  <2>2. CASE x \notin Taken(P, turn, i, d)
    <3>1. pawns'[x] = pawns[x]
      BY <1>4, <2>2 DEF Lands
    <3>2. QED BY <2>1, <3>1
  <2>3. CASE x \in Taken(P, turn, i, d)
    BY <1>4, <2>3 DEF Lands
  <2>4. QED BY <2>2, <2>3
<1>6. x \in RivalsOn(P, turn, Landing(turn, i, d))
  BY <1>5 DEF Taken
<1>7. QED BY <1>2, <1>3, <1>5, <1>6 DEF RivalsOn

\* The colour on turn is not all home before its move, and no other colour is
\* home or stops being home by it.
LEMMA LandsPlaces ==
  ASSUME TypeOK, PlacesInOrder, NEW P \in SUBSET Seats, NEW d \in Faces,
         NEW i \in LegalMoves(P, turn, d), Lands(P, i, d)
  PROVE  PlacesInOrder'
<1>1. i \in Pawns /\ turn \in Seats /\ MayMove(P, turn, i, d) /\ <<turn, i>> \in Board
  BY Legal DEF TypeOK, Board
<1>2. place[turn] = 0
  <2>1. pawns[<<turn, i>>] # Goal
    BY <1>1, BoardNat DEF MayMove
  <2>2. QED BY <1>1, <2>1 DEF PlacesInOrder
<1>3. pawns' \in [Board -> Steps]
  BY LandsType
<1>4. \A s \in Seats \ {turn} :
        (\A j \in Pawns : pawns'[<<s, j>>] = Goal) <=> (\A j \in Pawns : pawns[<<s, j>>] = Goal)
  <2> SUFFICES ASSUME NEW s \in Seats \ {turn}, NEW j \in Pawns
               PROVE  pawns'[<<s, j>>] = Goal <=> pawns[<<s, j>>] = Goal
    OBVIOUS
  <2>1. <<s, j>> \in Board /\ <<s, j>> # <<turn, i>>
    BY DEF Board
  <2>5. Goal # Yard /\ ~OnTrack(Goal)
    BY BoardNat DEF OnTrack
  <2>2. CASE <<s, j>> \in Taken(P, turn, i, d)
    <3>1. OnTrack(pawns[<<s, j>>]) /\ pawns'[<<s, j>>] = Yard
      BY <2>1, <2>2 DEF Lands, Taken, RivalsOn
    <3>2. QED BY <3>1, <2>5
  <2>3. CASE <<s, j>> \notin Taken(P, turn, i, d)
    BY <2>1, <2>3 DEF Lands
  <2>4. QED BY <2>2, <2>3
<1>5. (\A j \in Pawns : pawns'[<<turn, j>>] >= Goal)
        <=> (\A j \in Pawns : pawns'[<<turn, j>>] = Goal)
  <2> SUFFICES ASSUME NEW j \in Pawns
               PROVE  pawns'[<<turn, j>>] >= Goal <=> pawns'[<<turn, j>>] = Goal
    OBVIOUS
  <2>1. pawns'[<<turn, j>>] \in Steps
    BY <1>1, <1>3 DEF Board
  <2>2. pawns'[<<turn, j>>] \in Int /\ pawns'[<<turn, j>>] <= Goal
    BY <2>1, StepInt
  <2>3. QED BY <2>2, BoardNat
<1>6. IsFiniteSet(Placed) /\ Cardinality(Placed) \in Nat
  BY FS_Subset, FS_CardinalityType, BoardAssumption DEF Placed
<1> DEFINE k == Cardinality(Placed)
<1>7. CASE \A j \in Pawns : pawns'[<<turn, j>>] >= Goal
  <2>1. place' = [place EXCEPT ![turn] = k + 1]
    BY <1>2, <1>7, <1>1 DEF Lands, TypeOK
  <2>2. Placed' = Placed \union {turn} /\ turn \notin Placed
    <3>1. \A s \in Seats : place'[s] = IF s = turn THEN k + 1 ELSE place[s]
      BY <1>1, <2>1 DEF TypeOK
    <3>2. k \in Nat /\ k + 1 # 0
      BY <1>6
    <3>3. QED BY <1>1, <1>2, <3>1, <3>2 DEF Placed
  <2>3. Cardinality(Placed') = k + 1
    BY <1>6, <2>2, FS_AddElement
  <2>4. {place'[s] : s \in Placed'} = {place[s] : s \in Placed} \union {k + 1}
    BY <2>1, <2>2, <1>1 DEF Placed, TypeOK
  <2>5. {place'[s] : s \in Placed'} = 1..(k + 1)
    <3>1. {place[s] : s \in Placed} = 1..k
      BY DEF PlacesInOrder
    <3>2. QED BY <2>4, <3>1, <1>6
  <2>6. \A s \in Seats : place'[s] # 0 <=> \A j \in Pawns : pawns'[<<s, j>>] = Goal
    BY <1>4, <1>5, <1>6, <1>7, <2>1, <1>1 DEF PlacesInOrder, TypeOK
  <2>7. QED BY <2>3, <2>5, <2>6 DEF PlacesInOrder
<1>8. CASE ~(\A j \in Pawns : pawns'[<<turn, j>>] >= Goal)
  <2>1. place' = place
    BY <1>8, <1>1 DEF Lands, TypeOK
  <2>2. \A s \in Seats : place'[s] # 0 <=> \A j \in Pawns : pawns'[<<s, j>>] = Goal
    BY <1>2, <1>4, <1>5, <1>8, <2>1, <1>1 DEF PlacesInOrder
  <2>3. QED BY <2>1, <2>2 DEF PlacesInOrder, Placed
<1>9. QED BY <1>7, <1>8

-----------------------------------------------------------------------------
\* The die handed on, and the steps of the engine.

TurnType == /\ turn \in Seats /\ dice \in {0} \union Faces /\ sixes \in Nat /\ closed \in BOOLEAN

\* A board that is not over has a colour racing.
LEMMA GoesOn ==
  ASSUME NEW P \in SUBSET Seats, NEW places, ~IsOver(P, places)
  PROVE  Racing(P, places) # {}
<1>1. Cardinality({}) = 0
  BY FS_EmptySet
<1>2. QED BY <1>1 DEF IsOver

LEMMA NextIn ==
  ASSUME NEW active, NEW s \in NextTurns(active)
  PROVE  s \in active
BY DEF NextTurns

\* passTurn hands the die to a colour racing, with no six too many, or closes
\* the board.
LEMMA Passed ==
  ASSUME TypeOK, NEW P \in SUBSET Seats, NEW bonus, NEW kept \in Nat,
         ~closed /\ ThreeSixes => kept < MaxSixes, PassTurn(P, bonus, kept)
  PROVE  TurnType' /\ (closed => closed') /\ (dice' = 0 \/ closed') /\ TurnRaces'
<1>1. CASE IsOver(P, place')
  <2>1. CloseBoard
    BY <1>1 DEF PassTurn
  <2>2. QED BY <2>1 DEF CloseBoard, TurnType, TypeOK, TurnRaces
<1>2. CASE ~IsOver(P, place')
  <2> DEFINE active == Racing(P, place')
             keeps == bonus /\ turn \in active
  <2>1. /\ IF keeps THEN turn' = turn ELSE turn' \in NextTurns(active)
        /\ sixes' = IF keeps THEN kept ELSE 0
        /\ dice' = 0 /\ closed' = closed
    BY <1>2 DEF PassTurn
  <2>2. turn' \in active
    <3>1. CASE keeps
      BY <2>1, <3>1
    <3>2. CASE ~keeps
      BY <2>1, <3>2, NextIn
    <3>3. QED BY <3>1, <3>2
  <2>3. turn' \in Seats /\ place'[turn'] = 0
    BY <2>2 DEF Racing
  <2> HIDE DEF keeps, active
  <2>4. sixes' \in Nat /\ (~closed /\ ThreeSixes => sixes' < MaxSixes)
    BY <2>1, RulesAssumption
  <2>5. QED BY <2>1, <2>3, <2>4 DEF TurnType, TypeOK, TurnRaces
<1>3. QED BY <1>1, <1>2

\* What a step of the engine does, its call aside.
Kept == /\ TurnType' /\ (closed => closed') /\ TurnRaces' /\ DiceHasMove'
        /\ pawns' \in [Board -> Steps] /\ place' \in [Seats -> Nat]
        /\ OneOnTrack' /\ PlacesInOrder' /\ BackTaken

LEMMA PawnsStay ==
  ASSUME Inv, UNCHANGED <<pawns, place, present>>
  PROVE  /\ pawns' \in [Board -> Steps] /\ place' \in [Seats -> Nat]
         /\ OneOnTrack' /\ PlacesInOrder' /\ BackTaken
<1>1. OneOnTrack'
  BY DEF Inv, OneOnTrack, Apart
<1>2. PlacesInOrder'
  BY DEF Inv, PlacesInOrder, Placed
<1>3. BackTaken
  BY NoneBack DEF Inv
<1>4. QED BY <1>1, <1>2, <1>3 DEF Inv, TypeOK

LEMMA PassStep ==
  ASSUME Inv, UNCHANGED <<pawns, place, present>>, NEW P \in SUBSET Seats, NEW bonus,
         NEW kept \in Nat, ~closed /\ ThreeSixes => kept < MaxSixes, PassTurn(P, bonus, kept)
  PROVE  Kept
<1>1. TurnType' /\ (closed => closed') /\ (dice' = 0 \/ closed') /\ TurnRaces'
  BY Passed DEF Inv
<1>2. DiceHasMove'
  BY <1>1 DEF DiceHasMove
<1>3. QED BY <1>1, <1>2, PawnsStay DEF Kept

LEMMA PlayStep ==
  ASSUME Inv, UNCHANGED present, NEW P \in lists, NEW d \in Faces,
         NEW i \in LegalMoves(P, turn, d),
         NEW kept \in Nat, ~closed /\ ThreeSixes => kept < MaxSixes, PlayPlan(P, i, d, kept)
  PROVE  Kept
<1>1. TypeOK /\ OneOnTrack /\ PlacesInOrder /\ present \subseteq P /\ P \in SUBSET Seats
  BY DEF Inv, TypeOK, ListsHold
<1>2. Lands(P, i, d)
  BY DEF PlayPlan, AllHome, Lands
<1>3. PICK bonus : PassTurn(P, bonus, kept)
  BY DEF PlayPlan
<1>4. TurnType' /\ (closed => closed') /\ (dice' = 0 \/ closed') /\ TurnRaces'
  BY <1>1, <1>3, Passed
<1>5. DiceHasMove'
  BY <1>4 DEF DiceHasMove
<1>6. QED BY <1>1, <1>2, <1>4, <1>5, LandsType, LandsApart, LandsPlaces, LandsTaken DEF Kept

LEMMA RollStep ==
  ASSUME Inv, UNCHANGED present, NEW P \in lists, NEW d \in Faces, NEW auto, RollFor(P, d, auto)
  PROVE  Kept
<1> DEFINE n == IF d = Six THEN sixes + 1 ELSE 0
           moves == LegalMoves(P, turn, d)
<1>1. n \in Nat /\ P \in SUBSET Seats /\ present \subseteq P
  BY DEF Inv, TypeOK, ListsHold
<1>2. CASE ThreeSixes /\ n >= MaxSixes
  <2>1. UNCHANGED <<pawns, place>> /\ PassTurn(P, FALSE, 0)
    BY <1>2 DEF RollFor
  <2>2. 0 \in Nat /\ 0 < MaxSixes
    BY RulesAssumption
  <2>3. QED BY <1>1, <2>1, <2>2, PassStep
<1>3. CASE ~(ThreeSixes /\ n >= MaxSixes)
  <2>1. ThreeSixes => n < MaxSixes
    BY <1>1, <1>3, RulesAssumption
  <2>2. CASE moves = {}
    <3>1. UNCHANGED <<pawns, place>> /\ PassTurn(P, d = Six /\ SixReplay, n)
      BY <1>3, <2>2 DEF RollFor
    <3> HIDE DEF n
    <3>2. QED BY <1>1, <2>1, <3>1, PassStep
  <2>3. CASE moves # {} /\ (auto \/ IsOnlyChoice(turn, d, moves))
    <3>1. PICK i \in BestMoves(P, turn, d, moves) : PlayPlan(P, i, d, n)
      BY <1>3, <2>3 DEF RollFor
    <3>2. i \in moves
      BY BestLegal
    <3> HIDE DEF n
    <3>3. QED BY <1>1, <2>1, <3>1, <3>2, PlayStep
  <2>4. CASE moves # {} /\ ~(auto \/ IsOnlyChoice(turn, d, moves))
    <3>1. dice' = d /\ sixes' = n /\ UNCHANGED <<pawns, place, turn, score, closed>>
      BY <1>3, <2>4 DEF RollFor
    <3>2. TurnType'
      BY <1>1, <3>1 DEF TurnType, Inv, TypeOK
    <3>3. TurnRaces'
      BY <2>1, <3>1 DEF Inv, TurnRaces
    <3>4. DiceHasMove'
      <4>1. turn \in present => LegalMoves(present, turn, d) # {}
        BY <1>1, <2>4, FewerPlayers
      <4>2. LegalMoves(present, turn, d)' = LegalMoves(present, turn, d)
        BY <3>1 DEF LegalMoves, MayMove, Taken, RivalsOn, Shielded, Landing, Reach, Exits
      <4>3. turn' = turn /\ dice' = d /\ present' = present
        BY <3>1
      <4>4. LegalMoves(present, turn, dice)' = LegalMoves(present, turn, d)'
        BY <4>3 DEF LegalMoves, MayMove, Taken, RivalsOn, Shielded, Landing, Reach, Exits
      <4>5. QED BY <4>1, <4>2, <4>3, <4>4 DEF DiceHasMove
    <3>5. QED BY <3>1, <3>2, <3>3, <3>4, PawnsStay DEF Kept
  <2>5. QED BY <2>2, <2>3, <2>4
<1>4. QED BY <1>2, <1>3

LEMMA SettleStep ==
  ASSUME Inv, NEW P \in lists, NEW d \in Faces, SettleBoard(P, d)
  PROVE  Kept
<1> DEFINE moves == LegalMoves(P, turn, dice)
<1>1. P \in SUBSET Seats /\ UNCHANGED present
  BY DEF Inv, TypeOK, SettleBoard
<1>2. 0 \in Nat /\ 0 < MaxSixes
  BY RulesAssumption
<1>3. CASE IsOver(P, place)
  <2>1. UNCHANGED <<pawns, place>> /\ CloseBoard
    BY <1>3 DEF SettleBoard
  <2>2. TurnType' /\ TurnRaces' /\ DiceHasMove' /\ closed'
    BY <2>1 DEF CloseBoard, TurnType, Inv, TypeOK, TurnRaces, DiceHasMove
  <2>3. QED BY <1>1, <2>1, <2>2, PawnsStay DEF Kept
<1>4. CASE UNCHANGED <<pawns, place>> /\ PassTurn(P, FALSE, 0)
  BY <1>1, <1>2, <1>4, PassStep
<1>5. CASE RollFor(P, d, TRUE)
  BY <1>1, <1>5, RollStep
<1>6. CASE dice # 0 /\ \E i \in BestMoves(P, turn, dice, moves) : PlayPlan(P, i, dice, sixes)
  <2>1. PICK i \in moves : PlayPlan(P, i, dice, sixes)
    BY <1>6, BestLegal
  <2>2. dice \in Faces /\ sixes \in Nat /\ (~closed /\ ThreeSixes => sixes < MaxSixes)
    BY <1>6 DEF Inv, TypeOK, TurnRaces
  <2>3. QED BY <1>1, <2>1, <2>2, PlayStep
<1>7. QED BY <1>3, <1>4, <1>5, <1>6 DEF SettleBoard

LEMMA MoveStep ==
  ASSUME Inv, NEW P \in lists, NEW i \in Pawns, MovePawn(P, i)
  PROVE  Kept
<1>1. dice \in Faces /\ sixes \in Nat /\ (~closed /\ ThreeSixes => sixes < MaxSixes)
  BY DEF MovePawn, Inv, TypeOK, TurnRaces
<1>2. i \in LegalMoves(P, turn, dice) /\ PlayPlan(P, i, dice, sixes) /\ UNCHANGED present
  BY DEF MovePawn
<1>3. QED BY <1>1, <1>2, PlayStep

\* Fewer players are in, the board is what it was.
LEMMA LeaveStep ==
  ASSUME Inv, NEW s \in present, Leave(s)
  PROVE  Inv' /\ UNCHANGED pawns
<1>1. present' \subseteq present /\ UNCHANGED <<board_vars, late>>
  BY DEF Leave
<1>2. TypeOK'
  BY <1>1 DEF Leave, Inv, TypeOK, board_vars
<1>3. ListsHold'
  BY <1>1 DEF Leave, Inv, ListsHold
<1>4. OneOnTrack'
  BY <1>1 DEF Inv, OneOnTrack, Apart, board_vars
<1>5. DiceHasMove'
  <2>1. SUFFICES ASSUME dice' # 0, ~closed', turn' \in present'
                 PROVE  LegalMoves(present, turn, dice)' # {}
    BY DEF DiceHasMove
  <2>2. dice # 0 /\ ~closed /\ turn \in present'
    BY <1>1, <2>1 DEF board_vars
  <2>3. LegalMoves(present, turn, dice) # {}
    BY <1>1, <2>2 DEF Inv, DiceHasMove
  <2>4. LegalMoves(present', turn, dice) # {}
    BY <1>1, <2>2, <2>3, FewerPlayers
  <2>5. LegalMoves(present, turn, dice)' = LegalMoves(present', turn, dice)
    BY <1>1 DEF LegalMoves, MayMove, Taken, RivalsOn, Shielded, Landing, Reach, Exits, board_vars
  <2>6. QED BY <2>4, <2>5
<1>6. TurnRaces' /\ PlacesInOrder'
  BY <1>1 DEF Inv, TurnRaces, PlacesInOrder, Placed, board_vars
<1>7. QED BY <1>1, <1>2, <1>3, <1>4, <1>5, <1>6 DEF Inv, board_vars

LEMMA CallType ==
  ASSUME Inv, Kept, Called, UNCHANGED <<present, lists>>
  PROVE  Inv' /\ BackTaken
<1>1. late' \in 0..LateCalls
  BY RulesAssumption DEF Inv, TypeOK, Called
<1>2. TypeOK'
  BY <1>1 DEF Inv, Kept, TurnType, TypeOK
<1>3. ListsHold'
  BY DEF Inv, ListsHold
<1>4. QED BY <1>2, <1>3 DEF Inv, Kept

LEMMA Start == Init => Inv
<1> SUFFICES ASSUME Init PROVE Inv
  OBVIOUS
<1>1. TypeOK
  <2>1. pawns \in [Board -> Steps] /\ place \in [Seats -> Nat]
    BY BoardNat DEF Init
  <2>2. turn \in Seats /\ dice = 0 /\ sixes \in Nat /\ closed \in BOOLEAN
    BY BoardAssumption DEF Init
  <2>3. late \in 0..LateCalls
    BY RulesAssumption DEF Init
  <2>4. present \subseteq Seats /\ lists \subseteq SUBSET Seats
    BY DEF Init
  <2>5. QED BY <2>1, <2>2, <2>3, <2>4 DEF TypeOK
<1>2. \A x \in Board : ~OnTrack(pawns[x]) /\ pawns[x] # Goal
  BY BoardNat DEF Init, OnTrack, Yard
<1>3. OneOnTrack /\ ListsHold /\ DiceHasMove
  BY <1>2 DEF Init, OneOnTrack, ListsHold, DiceHasMove
<1>4. TurnRaces
  BY BoardAssumption, RulesAssumption DEF Init, TurnRaces
<1>5. PlacesInOrder
  <2>1. Placed = {} /\ Cardinality(Placed) = 0
    BY FS_EmptySet DEF Init, Placed
  <2>2. 1 \in Pawns
    BY RulesAssumption DEF Pawns
  <2>3. \A s \in Seats : place[s] = 0 /\ pawns[<<s, 1>>] # Goal
    BY <1>2, <2>2 DEF Init, Board
  <2>4. {place[s] : s \in Placed} = 1..Cardinality(Placed)
    BY <2>1
  <2>5. QED BY <2>2, <2>3, <2>4 DEF PlacesInOrder
<1>6. QED BY <1>1, <1>3, <1>4, <1>5 DEF Inv

LEMMA Step == Inv /\ [Next]_vars => Inv' /\ (BackTaken \/ UNCHANGED vars)
<1> SUFFICES ASSUME Inv, [Next]_vars PROVE Inv' /\ (BackTaken \/ UNCHANGED vars)
  OBVIOUS
<1>1. CASE \E P \in lists, d \in Faces : RollDice(P, d) \/ SettleBoard(P, d)
  <2>1. Kept
    BY <1>1, RollStep, SettleStep DEF RollDice
  <2>2. Called /\ UNCHANGED <<present, lists>>
    BY <1>1 DEF RollDice, SettleBoard
  <2>3. QED BY <2>1, <2>2, CallType
<1>2. CASE \E P \in lists, i \in Pawns : MovePawn(P, i)
  <2>1. Kept
    BY <1>2, MoveStep
  <2>2. Called /\ UNCHANGED <<present, lists>>
    BY <1>2 DEF MovePawn
  <2>3. QED BY <2>1, <2>2, CallType
<1>3. CASE \E s \in present : Leave(s)
  <2>1. Inv' /\ UNCHANGED pawns
    BY <1>3, LeaveStep
  <2>2. BackTaken
    BY <2>1, NoneBack DEF Inv
  <2>3. QED BY <2>1, <2>2
<1>4. CASE UNCHANGED vars
  <2>1. LegalMoves(present, turn, dice)' = LegalMoves(present, turn, dice)
    BY <1>4 DEF LegalMoves, MayMove, Taken, RivalsOn, Shielded, Landing, Reach, Exits, vars,
                board_vars
  <2>2. QED
    BY <1>4, <2>1 DEF vars, board_vars, Inv, TypeOK, ListsHold, OneOnTrack, Apart, DiceHasMove,
                      TurnRaces, PlacesInOrder, Placed
<1>5. QED BY <1>1, <1>2, <1>3, <1>4 DEF Next

\* The inductive invariant: with the properties of the board, no call reads a
\* list that lacks a player still in.
THEOREM Invariant == Spec => []Inv
<1>1. Inv /\ [Next]_vars => Inv'
  BY Step
<1>2. QED BY <1>1, Start, PTL DEF Spec

\* TypeOK: pawns stay on the board, the turn with a colour dealt, for any board.
THEOREM TypeCorrect == Spec => []TypeOK
<1>1. Inv => TypeOK
  BY DEF Inv
<1>2. QED BY <1>1, Invariant, PTL

\* OneOnTrack: planOf never lands two pawns of players still in on one square,
\* on an outdated list too.
THEOREM Alone == Spec => []OneOnTrack
<1>1. Inv => OneOnTrack
  BY DEF Inv
<1>2. QED BY <1>1, Invariant, PTL

\* DiceHasMove: rollFor leaves a die only to a player who has a move, and keeps
\* one whoever leaves.
THEOREM Playable == Spec => []DiceHasMove
<1>1. Inv => DiceHasMove
  BY DEF Inv
<1>2. QED BY <1>1, Invariant, PTL

\* TurnRaces: passTurn never leaves the die to a colour home, nor keeps a last six.
THEOREM Races == Spec => []TurnRaces
<1>1. Inv => TurnRaces
  BY DEF Inv
<1>2. QED BY <1>1, Invariant, PTL

\* PlacesInOrder: seatsAfter gives the places one after the other, to colours
\* all home and to no other.
THEOREM Ordered == Spec => []PlacesInOrder
<1>1. Inv => PlacesInOrder
  BY DEF Inv
<1>2. QED BY <1>1, Invariant, PTL

\* OnlyTakenGoBack: a pawn goes back only from the track, taken by the pawn of
\* another colour that lands there.
THEOREM Taking == Spec => OnlyTakenGoBack
<1>1. Inv /\ [Next]_vars => [BackTaken]_vars
  BY Step
<1>2. QED BY <1>1, Invariant, PTL DEF Spec, OnlyTakenGoBack, BackTaken

\* A set of naturals each of which has a smaller one in the set is empty.
LEMMA NoneSmallest ==
  ASSUME NEW T, T \subseteq Nat, \A n \in T : \E m \in T : m < n
  PROVE  T = {}
<1>1. SUFFICES ASSUME T # {} PROVE FALSE
  OBVIOUS
<1>2. PICK n \in T : \A m \in T : ~ (<<m, n>> \in OpToRel(<, Nat))
  BY <1>1, NatLessThanWellFounded, WFMin
<1>3. PICK m \in T : m < n
  BY <1>2
<1>4. <<m, n>> \in OpToRel(<, Nat)
  BY <1>3 DEF OpToRel
<1>5. QED BY <1>2, <1>4

\* Progress of the colours over their first n pawns, p being the steps of the pawns.
WalksOn(g, S, n, p) ==
    g = [k \in 0..n |-> [s \in S |-> IF k = 0 THEN 0 ELSE g[k - 1][s] + p[<<s, k>>] + 1]]

\* The progress exists, pawn after pawn.
LEMMA WalksExist ==
  ASSUME NEW S, NEW p, NEW n \in Nat
  PROVE  \E g : WalksOn(g, S, n, p)
<1> DEFINE T == {k \in Nat : ~ \E g : WalksOn(g, S, k, p)}
<1>1. 0 \notin T
  <2> DEFINE g == [k \in 0..0 |-> [s \in S |-> 0]]
  <2>1. WalksOn(g, S, 0, p)
    BY DEF WalksOn
  <2>2. QED BY <2>1
<1>2. ASSUME NEW m \in Nat, m # 0, m - 1 \notin T PROVE m \notin T
  <2>1. m - 1 \in Nat
    BY <1>2
  <2>2. PICK h : WalksOn(h, S, m - 1, p)
    BY <1>2, <2>1
  <2> DEFINE last == [s \in S |-> h[m - 1][s] + p[<<s, m>>] + 1]
             g == [k \in 0..m |-> IF k = m THEN last ELSE h[k]]
  <2>3. ASSUME NEW k \in 0..m
        PROVE  g[k] = [s \in S |-> IF k = 0 THEN 0 ELSE g[k - 1][s] + p[<<s, k>>] + 1]
    <3>1. k # 0 => k - 1 \in 0..m /\ k - 1 # m /\ g[k - 1] = h[k - 1]
      OBVIOUS
    <3>2. CASE k = m
      <4>1. g[k] = last /\ k # 0 /\ g[k - 1] = h[m - 1]
        BY <1>2, <3>1, <3>2
      <4> HIDE DEF g
      <4>2. QED BY <3>2, <4>1
    <3>3. CASE k # m
      <4>1. k \in 0..(m - 1) /\ g[k] = h[k]
        BY <3>3
      <4>2. h[k] = [s \in S |-> IF k = 0 THEN 0 ELSE h[k - 1][s] + p[<<s, k>>] + 1]
        BY <2>2, <4>1 DEF WalksOn
      <4> HIDE DEF g
      <4>3. QED BY <3>1, <4>1, <4>2
    <3>4. QED BY <3>2, <3>3
  <2>4. g = [k \in 0..m |-> g[k]]
    OBVIOUS
  <2> HIDE DEF g
  <2>5. WalksOn(g, S, m, p)
    BY <2>3, <2>4 DEF WalksOn
  <2>6. QED BY <2>5
<1>3. T = {}
  <2>1. ASSUME NEW k \in T PROVE \E m \in T : m < k
    <3>1. k # 0
      BY <1>1, Zenon
    <3>2. k \in Nat /\ k - 1 \in Nat
      BY <3>1
    <3>3. k - 1 \in T
      BY <1>2, <3>1, <3>2, Zenon
    <3>4. k - 1 < k
      BY <3>2
    <3>5. QED BY <3>3, <3>4, Zenon
  <2>2. T \subseteq Nat
    OBVIOUS
  <2> HIDE DEF T
  <2>3. QED BY <2>1, <2>2, NoneSmallest
<1>4. QED BY <1>3

\* A colour whose pawns are all as far as those of another has walked as far.
LEMMA WalksFurther ==
  ASSUME NEW S, NEW p, NEW n \in Nat, NEW g, WalksOn(g, S, n, p), NEW s \in S, NEW t \in S,
         \A k \in 1..n : p[<<s, k>>] \in Int /\ p[<<t, k>>] \in Int /\ p[<<t, k>>] <= p[<<s, k>>]
  PROVE  g[n][s] \in Int /\ g[n][t] \in Int /\ g[n][t] <= g[n][s]
<1> DEFINE Fine(k) == g[k][s] \in Int /\ g[k][t] \in Int /\ g[k][t] <= g[k][s]
           T == {k \in 0..n : ~Fine(k)}
<1>1. ASSUME NEW k \in 0..n, NEW r \in S
      PROVE  g[k][r] = IF k = 0 THEN 0 ELSE g[k - 1][r] + p[<<r, k>>] + 1
  <2>1. g[k] = [q \in S |-> IF k = 0 THEN 0 ELSE g[k - 1][q] + p[<<q, k>>] + 1]
    BY DEF WalksOn
  <2>2. QED BY <2>1
<1>2. ASSUME NEW k \in T PROVE \E m \in T : m < k
  <2>1. k \in 0..n /\ ~Fine(k)
    OBVIOUS
  <2>2. k # 0
    <3>1. k = 0 => g[k][s] = 0 /\ g[k][t] = 0
      BY <1>1, <2>1
    <3>2. QED BY <2>1, <3>1
  <2>3. k - 1 \in 0..n /\ k \in 1..n /\ k - 1 < k
    BY <2>1, <2>2
  <2>4. /\ g[k][s] = g[k - 1][s] + p[<<s, k>>] + 1
        /\ g[k][t] = g[k - 1][t] + p[<<t, k>>] + 1
    BY <1>1, <2>1, <2>2
  <2>5. p[<<s, k>>] \in Int /\ p[<<t, k>>] \in Int /\ p[<<t, k>>] <= p[<<s, k>>]
    BY <2>3
  <2>6. ~Fine(k - 1)
    BY <2>1, <2>4, <2>5
  <2>7. QED BY <2>3, <2>6
<1>3. T \subseteq Nat
  OBVIOUS
<1> HIDE DEF T
<1>4. T = {}
  BY <1>2, <1>3, NoneSmallest
<1>5. n \in 0..n
  OBVIOUS
<1>6. QED BY <1>4, <1>5 DEF T

LEMMA WalkedSolves == WalksOn(Walked, Seats, PawnCount, pawns')
<1>1. PICK g : WalksOn(g, Seats, PawnCount, pawns')
  BY RulesAssumption, WalksExist
<1>2. QED BY <1>1 DEF WalksOn, Walked

\* Scores are written as a board closes, or closes again.
Scores == score' = [s \in Seats |-> Standing(s)]
LEMMA ScoresWritten == ASSUME Next PROVE Scores \/ UNCHANGED <<score, closed>>
<1>1. ASSUME NEW P, NEW bonus, NEW kept, PassTurn(P, bonus, kept)
      PROVE  Scores \/ UNCHANGED <<score, closed>>
  BY <1>1 DEF PassTurn, CloseBoard, Scores
<1>2. ASSUME NEW P, NEW i, NEW d, NEW kept, PlayPlan(P, i, d, kept)
      PROVE  Scores \/ UNCHANGED <<score, closed>>
  BY <1>1, <1>2 DEF PlayPlan
<1>3. ASSUME NEW P, NEW d, NEW auto, RollFor(P, d, auto)
      PROVE  Scores \/ UNCHANGED <<score, closed>>
  BY <1>1, <1>2, <1>3 DEF RollFor
<1>4. ASSUME NEW P, NEW d, RollDice(P, d) PROVE Scores \/ UNCHANGED <<score, closed>>
  BY <1>3, <1>4 DEF RollDice
<1>5. ASSUME NEW P, NEW i, MovePawn(P, i) PROVE Scores \/ UNCHANGED <<score, closed>>
  BY <1>2, <1>5 DEF MovePawn
<1>6. ASSUME NEW P, NEW d, SettleBoard(P, d) PROVE Scores \/ UNCHANGED <<score, closed>>
  BY <1>1, <1>2, <1>3, <1>6 DEF SettleBoard, CloseBoard, Scores
<1>7. ASSUME NEW s, Leave(s) PROVE UNCHANGED <<score, closed>>
  BY <1>7 DEF Leave, board_vars
<1>8. QED BY <1>4, <1>5, <1>6, <1>7 DEF Next

\* A place outweighs whatever was walked: a colour home has walked the most.
LEMMA ScoresRank == ASSUME Inv', Scores PROVE Ranked
<1> SUFFICES ASSUME NEW s \in Seats, NEW t \in Seats, place'[s] # 0,
                    place'[t] = 0 \/ place'[s] < place'[t]
             PROVE  score'[s] > score'[t]
  BY DEF Ranked
<1> DEFINE ws == Walked[PawnCount][s]
           wt == Walked[PawnCount][t]
<1>1. \A r \in Seats, k \in 1..PawnCount : pawns'[<<r, k>>] \in Int /\ pawns'[<<r, k>>] <= Goal
  BY StepInt DEF Inv, TypeOK, Board, Pawns
<1>2. ASSUME NEW r \in Seats, place'[r] # 0
      PROVE  \A k \in 1..PawnCount : pawns'[<<r, k>>] = Goal
  BY <1>2 DEF Inv, PlacesInOrder, Pawns
<1>3. PawnCount \in Nat /\ PlaceWeight \in Nat \ {0} /\ Corners \in Nat
  BY RulesAssumption, BoardAssumption
<1>4. ws \in Int /\ wt \in Int /\ wt <= ws
  <2>1. \A k \in 1..PawnCount : /\ pawns'[<<s, k>>] \in Int /\ pawns'[<<t, k>>] \in Int
                                /\ pawns'[<<t, k>>] <= pawns'[<<s, k>>]
    BY <1>1, <1>2
  <2>2. QED BY <1>3, <2>1, WalkedSolves, WalksFurther
<1>5. place'[s] \in Nat /\ place'[t] \in Nat /\ place'[s] <= Corners /\ place'[t] <= Corners
  <2>1. ASSUME NEW r \in Seats PROVE place'[r] \in Nat /\ place'[r] <= Corners
    <3>1. IsFiniteSet(Placed') /\ Cardinality(Placed') <= Corners
      <4>1. Placed' \subseteq 0..(Corners - 1)
        BY BoardAssumption DEF Placed
      <4>2. IsFiniteSet(0..(Corners - 1)) /\ Cardinality(0..(Corners - 1)) = Corners
        BY <1>3, FS_Interval
      <4>3. QED BY <4>1, <4>2, FS_Subset
    <3>2. Cardinality(Placed') \in Nat
      BY <3>1, FS_CardinalityType
    <3>3. place'[r] \in Nat
      BY DEF Inv, TypeOK
    <3>4. CASE r \in Placed'
      <4>1. place'[r] \in 1..Cardinality(Placed')
        BY <3>4 DEF Inv, PlacesInOrder
      <4>2. QED BY <1>3, <3>1, <3>2, <4>1
    <3>5. CASE r \notin Placed'
      BY <1>3, <3>5 DEF Placed
    <3>6. QED BY <3>3, <3>4, <3>5
  <2>2. QED BY <2>1
<1>6. /\ score'[s] = (Corners + 1 - place'[s]) * PlaceWeight + ws
      /\ score'[t] = (IF place'[t] # 0 THEN (Corners + 1 - place'[t]) * PlaceWeight ELSE 0) + wt
  BY DEF Scores, Standing
<1> HIDE DEF ws, wt
<1>7. \A a, b \in Nat : a > b => a * PlaceWeight \in Int /\ b * PlaceWeight \in Int
                                /\ a * PlaceWeight > b * PlaceWeight
  <2> SUFFICES ASSUME NEW a \in Nat, NEW b \in Nat, a > b
               PROVE  /\ a * PlaceWeight \in Int /\ b * PlaceWeight \in Int
                      /\ a * PlaceWeight > b * PlaceWeight
    OBVIOUS
  <2>1. a - b \in Nat /\ a - b >= 1
    OBVIOUS
  <2>2. (a - b) * PlaceWeight >= 1
    BY <1>3, <2>1
  <2>3. a * PlaceWeight = b * PlaceWeight + (a - b) * PlaceWeight
    BY <1>3
  <2>4. a * PlaceWeight \in Int /\ b * PlaceWeight \in Int
    BY <1>3
  <2>5. QED BY <1>3, <2>1, <2>2, <2>3, <2>4
<1>8. CASE place'[t] = 0
  <2>1. Corners + 1 - place'[s] \in Nat /\ Corners + 1 - place'[s] > 0
    BY <1>3, <1>5
  <2>2. (Corners + 1 - place'[s]) * PlaceWeight \in Int
        /\ (Corners + 1 - place'[s]) * PlaceWeight > 0 * PlaceWeight
    BY <1>7, <2>1
  <2>3. 0 * PlaceWeight = 0
    BY <1>3
  <2>4. QED BY <1>4, <1>6, <1>8, <2>2, <2>3
<1>9. CASE place'[t] # 0
  <2>1. /\ Corners + 1 - place'[s] \in Nat /\ Corners + 1 - place'[t] \in Nat
        /\ Corners + 1 - place'[s] > Corners + 1 - place'[t]
    BY <1>3, <1>5, <1>9
  <2>2. /\ (Corners + 1 - place'[s]) * PlaceWeight \in Int
        /\ (Corners + 1 - place'[t]) * PlaceWeight \in Int
        /\ (Corners + 1 - place'[s]) * PlaceWeight > (Corners + 1 - place'[t]) * PlaceWeight
    BY <1>7, <2>1
  <2>3. QED BY <1>4, <1>6, <1>9, <2>2
<1>10. QED BY <1>8, <1>9

\* PlacesRank: whatever lists the calls read and however often a late call writes the scores of
\* a closed board again, they rank the colours home before the others, in the order they came.
THEOREM Ranking == Spec => PlacesRank
<1>1. Inv /\ [Next]_vars => Inv' /\ [Ranked]_vars
  <2>1. ASSUME Inv, Next PROVE Ranked
    <3>1. Inv'
      BY <2>1, Step
    <3>2. CASE Scores
      BY <3>1, <3>2, ScoresRank
    <3>3. CASE UNCHANGED <<score, closed>>
      BY <3>3 DEF Ranked
    <3>4. QED BY <2>1, <3>2, <3>3, ScoresWritten
  <2>2. QED BY <2>1, Step
<1>2. QED BY <1>1, Invariant, PTL DEF Spec, PlacesRank

\* BoardSound: the parts above hold together, for any board, die and set of house rules.
THEOREM Sound == Spec => []BoardSound
<1>1. TypeOK /\ OneOnTrack /\ DiceHasMove /\ TurnRaces /\ PlacesInOrder => BoardSound
  BY DEF BoardSound
<1>2. QED BY <1>1, TypeCorrect, Alone, Playable, Races, Ordered, PTL

-----------------------------------------------------------------------------
\* What SumSet does, by the recursion that MapThenSumSet unfolds to.
SumOver(f, S) == Rounds!MapThenSumSet(LAMBDA x : f[x], S)
SumsOn(g, f, S) == g = [s \in SUBSET S |-> IF s = {} THEN 0
                          ELSE f[CHOOSE x \in s : TRUE] + g[s \ {CHOOSE x \in s : TRUE}]]

LEMMA SumUnfolds ==
  ASSUME NEW S, NEW f
  PROVE  SumOver(f, S) = (CHOOSE g : SumsOn(g, f, S))[S]
BY DEF SumOver, Rounds!MapThenSumSet, Rounds!MapThenFoldSet, SumsOn

\* The sum of a function with natural values over a finite set is a natural: the
\* recursion of the sum has a solution on every set of subsets, the smallest
\* set without one being built from a smaller.
LEMMA SumsExist ==
  ASSUME NEW S, IsFiniteSet(S), NEW f, \A x \in S : f[x] \in Nat
  PROVE  \E g \in [SUBSET S -> Nat] : SumsOn(g, f, S)
<1> DEFINE first(s) == CHOOSE x \in s : TRUE
           short(g, n) == \A s \in SUBSET S : Cardinality(s) <= n =>
                             g[s] = IF s = {} THEN 0 ELSE f[first(s)] + g[s \ {first(s)}]
           T == {n \in Nat : ~ \E g \in [SUBSET S -> Nat] : short(g, n)}
           step(g, n) == [s \in SUBSET S |-> IF Cardinality(s) = n
                                             THEN f[first(s)] + g[s \ {first(s)}] ELSE g[s]]
<1>1. ASSUME NEW s \in SUBSET S, s # {}
      PROVE  /\ IsFiniteSet(s) /\ first(s) \in s /\ s \ {first(s)} \in SUBSET S
             /\ Cardinality(s) \in Nat /\ Cardinality(s \ {first(s)}) = Cardinality(s) - 1
  <2>1. first(s) \in s
    BY <1>1
  <2>2. IsFiniteSet(s) /\ Cardinality(s) \in Nat
    BY FS_Subset, FS_CardinalityType
  <2>3. Cardinality(s \ {first(s)}) = Cardinality(s) - 1
    BY <2>1, <2>2, FS_RemoveElement
  <2>4. QED BY <2>1, <2>2, <2>3
<1>2. \A s \in SUBSET S : Cardinality(s) \in Nat /\ (Cardinality(s) = 0 <=> s = {})
  BY FS_Subset, FS_CardinalityType, FS_EmptySet
<1>3. 0 \notin T
  <2> DEFINE g == [s \in SUBSET S |-> 0]
  <2>1. g \in [SUBSET S -> Nat]
    OBVIOUS
  <2>2. short(g, 0)
    BY <1>2
  <2>3. QED BY <2>1, <2>2
<1>4. ASSUME NEW n \in Nat, n # 0, n - 1 \notin T
      PROVE  n \notin T
  <2> n - 1 \in Nat
    BY <1>4
  <2>1. PICK g \in [SUBSET S -> Nat] : short(g, n - 1)
    BY <1>4
  <2>2. \A s \in SUBSET S : Cardinality(s) = n => s # {}
    BY <1>2, <1>4
  <2>3. step(g, n) \in [SUBSET S -> Nat]
    <3>1. ASSUME NEW s \in SUBSET S, Cardinality(s) = n
          PROVE  f[first(s)] + g[s \ {first(s)}] \in Nat
      <4>1. first(s) \in S /\ s \ {first(s)} \in SUBSET S
        BY <1>1, <2>2, <3>1
      <4>2. f[first(s)] \in Nat /\ g[s \ {first(s)}] \in Nat
        BY <4>1
      <4>3. QED BY <4>2
    <3>2. QED BY <3>1
  <2>4. ASSUME NEW s \in SUBSET S, Cardinality(s) <= n
        PROVE  step(g, n)[s] = IF s = {} THEN 0
                                ELSE f[first(s)] + step(g, n)[s \ {first(s)}]
    <3>1. CASE s = {}
      <4>1. Cardinality(s) # n /\ Cardinality(s) <= n - 1
        BY <3>1, <1>2, <1>4
      <4>2. step(g, n)[s] = g[s]
        BY <4>1
      <4>3. QED BY <4>1, <4>2, <3>1, <2>1
    <3>2. CASE s # {}
      <4>1. Cardinality(s \ {first(s)}) # n /\ s \ {first(s)} \in SUBSET S
        BY <3>2, <1>1, <2>4
      <4>2. step(g, n)[s \ {first(s)}] = g[s \ {first(s)}]
        BY <4>1
      <4>3. CASE Cardinality(s) = n
        BY <4>2, <4>3, <3>2
      <4>4. CASE Cardinality(s) # n
        <5>1. Cardinality(s) <= n - 1
          BY <4>4, <2>4, <1>2
        <5>2. g[s] = f[first(s)] + g[s \ {first(s)}]
          BY <5>1, <2>1, <3>2
        <5>3. QED BY <4>2, <4>4, <5>2, <3>2
      <4>5. QED BY <4>3, <4>4
    <3>3. QED BY <3>1, <3>2
  <2>5. short(step(g, n), n)
    BY <2>4
  <2>6. QED BY <2>3, <2>5
<1>5. T = {}
  <2>1. ASSUME NEW n \in T PROVE \E m \in T : m < n
    <3>1. n # 0
      BY <1>3, Zenon
    <3>2. n \in Nat /\ n - 1 \in Nat
      BY <3>1
    <3>3. n \in T => n - 1 \in T
      BY <1>4, <3>1, <3>2, Zenon
    <3>4. n - 1 < n
      BY <3>2
    <3>5. QED BY <3>3, <3>4, Zenon
  <2>2. T \subseteq Nat
    OBVIOUS
  <2>3. QED BY <2>1, <2>2, NoneSmallest
<1>6. Cardinality(S) \in Nat
  BY FS_CardinalityType
<1>7. PICK g \in [SUBSET S -> Nat] : short(g, Cardinality(S))
  BY <1>5, <1>6
<1>8. \A s \in SUBSET S : Cardinality(s) <= Cardinality(S)
  BY FS_Subset
<1>9. \A s \in SUBSET S : g[s] = IF s = {} THEN 0 ELSE f[first(s)] + g[s \ {first(s)}]
  BY <1>7, <1>8
<1>10. SumsOn(g, f, S)
  BY <1>9 DEF SumsOn
<1>11. QED BY <1>10

\* Any solution of the recursion has natural values, for the same reason.
LEMMA SumNat ==
  ASSUME NEW S, IsFiniteSet(S), NEW f, \A x \in S : f[x] \in Nat
  PROVE  SumOver(f, S) \in Nat
<1> DEFINE first(s) == CHOOSE x \in s : TRUE
           g == CHOOSE h : SumsOn(h, f, S)
           T == {n \in Nat : \E s \in SUBSET S : Cardinality(s) = n /\ g[s] \notin Nat}
<1>1. SumsOn(g, f, S)
  BY SumsExist, Zenon
<1>2. ASSUME NEW s \in SUBSET S
      PROVE  g[s] = IF s = {} THEN 0 ELSE f[first(s)] + g[s \ {first(s)}]
  BY <1>1 DEF SumsOn
<1>3. ASSUME NEW n \in T PROVE \E m \in T : m < n
  <2>1. PICK s \in SUBSET S : Cardinality(s) = n /\ g[s] \notin Nat
    OBVIOUS
  <2>2. s # {}
    BY <1>2, <2>1
  <2>3. first(s) \in s /\ s \ {first(s)} \in SUBSET S
    BY <2>2
  <2>4. g[s \ {first(s)}] \notin Nat
    <3>1. g[s] = f[first(s)] + g[s \ {first(s)}]
      BY <1>2, <2>2
    <3>2. f[first(s)] \in Nat
      BY <2>3
    <3>3. QED BY <2>1, <3>1, <3>2
  <2>5. IsFiniteSet(s)
    BY FS_Subset
  <2>6. Cardinality(s \ {first(s)}) = n - 1 /\ Cardinality(s \ {first(s)}) \in Nat /\ n \in Nat
    BY <2>1, <2>3, <2>5, FS_RemoveElement, FS_CardinalityType
  <2>7. n - 1 \in T
    BY <2>3, <2>4, <2>6
  <2>8. n - 1 < n
    BY <2>6
  <2>9. QED BY <2>7, <2>8, Zenon
<1>4. T = {}
  <2>1. T \subseteq Nat
    OBVIOUS
  <2>2. QED BY <1>3, <2>1, NoneSmallest
<1>5. g[S] \in Nat
  <2>1. Cardinality(S) \in Nat
    BY FS_CardinalityType
  <2>2. QED BY <1>4, <2>1
<1>6. QED BY <1>5, SumUnfolds

-----------------------------------------------------------------------------
\* What a round gained is the sum over a set of one round, or of none.

Gained(R, p, g, S) == g = [s \in SUBSET S |-> IF s = {} THEN 0
                             ELSE Rounds!Total(R[CHOOSE x \in s : TRUE], p)
                                  + g[s \ {CHOOSE x \in s : TRUE}]]

LEMMA GainsUnfold ==
  ASSUME NEW R, NEW S, NEW p
  PROVE  Rounds!Gains(R, S, p) = (CHOOSE g : Gained(R, p, g, S))[S]
BY DEF Rounds!Gains, Rounds!MapThenSumSet, Rounds!MapThenFoldSet, Gained

LEMMA GainsNone ==
  ASSUME NEW R, NEW p
  PROVE  Rounds!Gains(R, {}, p) = 0
<1> DEFINE g == [s \in SUBSET {} |-> 0]
<1>1. \A s \in SUBSET {} : s = {}
  OBVIOUS
<1>2. Gained(R, p, g, {})
  BY <1>1 DEF Gained
<1>3. Gained(R, p, CHOOSE h : Gained(R, p, h, {}), {})
  BY <1>2, Zenon
<1>4. ASSUME NEW h, Gained(R, p, h, {}) PROVE h[{}] = 0
  BY <1>4 DEF Gained
<1>5. QED BY <1>3, <1>4, GainsUnfold

LEMMA GainsOne ==
  ASSUME NEW R, NEW p, NEW r, Rounds!Total(R[r], p) \in Nat
  PROVE  Rounds!Gains(R, {r}, p) = Rounds!Total(R[r], p)
<1> DEFINE first(s) == CHOOSE y \in s : TRUE
           g == [s \in SUBSET {r} |-> IF s = {} THEN 0 ELSE Rounds!Total(R[r], p)]
<1>1. ASSUME NEW s \in SUBSET {r}, s # {}
      PROVE  first(s) = r /\ s \ {first(s)} = {}
  BY <1>1
<1>2. ASSUME NEW h, Gained(R, p, h, {r}) PROVE h[{r}] = Rounds!Total(R[r], p)
  <2>1. h[{}] = 0
    BY <1>2 DEF Gained
  <2>2. h[{r}] = Rounds!Total(R[first({r})], p) + h[{r} \ {first({r})}]
    BY <1>2 DEF Gained
  <2>3. first({r}) = r /\ {r} \ {first({r})} = {}
    BY <1>1
  <2>4. QED BY <2>1, <2>2, <2>3
<1>3. ASSUME NEW s \in SUBSET {r}
      PROVE  g[s] = IF s = {} THEN 0
                    ELSE Rounds!Total(R[first(s)], p) + g[s \ {first(s)}]
  BY <1>1, <1>3
<1>4. Gained(R, p, g, {r})
  BY <1>3 DEF Gained
<1>5. Gained(R, p, CHOOSE h : Gained(R, p, h, {r}), {r})
  BY <1>4, Zenon
<1>6. QED BY <1>2, <1>5, GainsUnfold

-----------------------------------------------------------------------------
\* The rounds.

LEMMA FiniteThere == ASSUME NEW S
                     PROVE  /\ Rounds!IsFiniteSet(S) <=> IsFiniteSet(S)
                            /\ Rounds!Cardinality(S) = Cardinality(S)
BY DEF Rounds!IsFiniteSet, IsFiniteSet, Rounds!Cardinality, Cardinality

LEMMA TablesFinite ==
    /\ IsFiniteSet(Players) /\ IsFiniteSet(Categories) /\ IsFiniteSet(Rounds!Boxes)
    /\ IsFiniteSet(Rounds!Calls)
<1>1. IsFiniteSet(Players) /\ IsFiniteSet(Categories)
  BY RoundsAssumption, FiniteThere DEF Rounds!TableAssumption
<1>2. IsFiniteSet(Rounds!Boxes)
  BY <1>1, FS_Product DEF Rounds!Boxes
<1>3. IsFiniteSet(Rounds!Calls)
  BY RoundsAssumption, FS_Interval DEF Rounds!TableAssumption, Rounds!Calls
<1>4. QED BY <1>1, <1>2, <1>3

Round == [letter : Letters, clock : {"countdown", "writing", "grace", "over"},
          stopper : Players \union {Nobody}, joker : Players \union {Nobody},
          closed : BOOLEAN, timeUp : BOOLEAN, scored : BOOLEAN, bonus : {0, StopBonus},
          words : [Rounds!Boxes -> Rounds!Words \union {NoWord}],
          rejects : SUBSET (Rounds!Boxes \X Players),
          given : [Rounds!Boxes -> {0, Solo, Unique, Shared}]]
RoundsTyped ==
    /\ rounds \in Seq(Round) /\ Len(rounds) \in 1..RoundCount
    /\ points \in [Players -> Nat] /\ seated \in SUBSET Players
    /\ call \in [Rounds!Calls -> Rounds!Calling] /\ ended \in BOOLEAN

\* A round with a bonus is counted, and its stopper earned it.
Earned(R) == ~MayClear /\ 0 \notin {Solo, Unique, Shared} /\ R.bonus > 0 =>
                R.stopper # Nobody /\ \A k \in Categories : R.given[<<R.stopper, k>>] > 0
Paid(R) == (R.bonus # 0 => R.scored) /\ Earned(R)
RoundsPaid == \A r \in 1..Len(rounds) : Paid(rounds[r])

\* A host who asks one thing at a time opens a round once the last is counted.
HostKinds == {"count", "next", "create"}
HostCalls == {c \in Rounds!Calls : call[c].kind \in HostKinds}
RoundsInTurn ==
    HostAtOnce <= 1 =>
       /\ \A r \in 1..Len(rounds) : r < Len(rounds) \/ ended => rounds[r].scored
       /\ ended => Len(rounds) = RoundCount
       /\ \A c, d \in HostCalls : c = d
       /\ \A c \in HostCalls : call[c].kind # "count" => rounds[Len(rounds)].scored
       /\ \A c \in HostCalls : call[c].kind = "create" => call[c].index = Len(rounds)
RoundsInv == RoundsTyped /\ RoundsPaid /\ RoundsInTurn

\* Points of a counted round.
LEMMA TotalNat ==
  ASSUME NEW R \in Round, NEW p \in Players
  PROVE  Rounds!Total(R, p) \in Nat
<1> DEFINE S == {b \in Rounds!Boxes : b[1] = p}
<1>1. IsFiniteSet(S)
  <2>1. S \in SUBSET Rounds!Boxes
    OBVIOUS
  <2>2. QED BY <2>1, TablesFinite, FS_Subset
<1>2. \A b \in S : R.given[b] \in Nat
  BY RoundsAssumption DEF Round, Rounds!TableAssumption
<1>3. SumOver(R.given, S) \in Nat
  BY <1>1, <1>2, SumNat
<1>4. R.bonus \in Nat
  BY RoundsAssumption DEF Round, Rounds!TableAssumption
<1>5. Rounds!Total(R, p) = SumOver(R.given, S) + (IF R.stopper = p THEN R.bonus ELSE 0)
  BY DEF Rounds!Total, SumOver
<1>6. QED BY <1>3, <1>4, <1>5

\* A round rewritten, paid no more than before.
LEMMA Rewritten ==
  ASSUME RoundsInv, NEW r \in 1..Len(rounds), NEW R \in Round, rounds' = [rounds EXCEPT ![r] = R],
         Paid(R)
  PROVE  /\ rounds' \in Seq(Round) /\ Len(rounds') = Len(rounds) /\ RoundsPaid'
         /\ \A q \in 1..Len(rounds) : rounds'[q] = IF q = r THEN R ELSE rounds[q]
<1>1. rounds \in Seq(Round) /\ Len(rounds) \in Nat
  BY DEF RoundsInv, RoundsTyped
<1>2. rounds' \in Seq(Round) /\ Len(rounds') = Len(rounds)
  BY <1>1
<1>3. \A q \in 1..Len(rounds) : rounds'[q] = IF q = r THEN R ELSE rounds[q]
  BY <1>1
<1>4. RoundsPaid'
  BY <1>2, <1>3 DEF RoundsInv, RoundsPaid, Paid, Earned
<1>5. QED BY <1>2, <1>3, <1>4

\* The turn of the rounds, when no call of the host moves.
LEMMA InTurnStays ==
  ASSUME RoundsInv, Len(rounds') = Len(rounds), ended' = ended,
         \A q \in 1..Len(rounds) : rounds[q].scored => rounds'[q].scored,
         \A d \in Rounds!Calls : call'[d].kind \in HostKinds => call'[d] = call[d]
  PROVE  RoundsInTurn'
<1>1. \A d \in HostCalls' : d \in HostCalls /\ call'[d] = call[d]
  BY DEF HostCalls
<1>2. Len(rounds) \in 1..Len(rounds)
  BY DEF RoundsInv, RoundsTyped
<1>3. QED BY <1>1, <1>2 DEF RoundsInv, RoundsInTurn

\* The calls, while rounds are rewritten or opened.
LEMMA CallsStay ==
  ASSUME RoundsTyped, Len(rounds') \in 1..RoundCount, Len(rounds) <= Len(rounds'),
         rounds' \in Seq(Round),
         NEW c \in Rounds!Calls, NEW k \in Rounds!Calling', call' = [call EXCEPT ![c] = k]
  PROVE  /\ call' \in [Rounds!Calls -> Rounds!Calling'] /\ call'[c] = k
         /\ \A d \in Rounds!Calls : d # c => call'[d] = call[d]
<1>1. DOMAIN rounds = 1..Len(rounds) /\ DOMAIN rounds' = 1..Len(rounds')
  BY DEF RoundsTyped
<1>2. DOMAIN rounds \subseteq DOMAIN rounds'
  BY <1>1 DEF RoundsTyped
<1>3. Rounds!Calling \subseteq Rounds!Calling'
  BY <1>2 DEF Rounds!Calling, Rounds!Idle, Rounds!Boxes
<1>4. QED BY <1>3 DEF RoundsTyped

\* A step pays what the rounds it counts give: none here.
StepPaid == \A p \in Players : points'[p] = points[p] + Rounds!Gains(rounds', Rounds!JustCounted, p)

LEMMA NothingPaid ==
  ASSUME RoundsTyped, points' = points,
         \A q \in 1..Len(rounds) : rounds'[q].scored => rounds[q].scored
  PROVE  StepPaid
<1>1. DOMAIN rounds = 1..Len(rounds)
  BY DEF RoundsTyped
<1>2. Rounds!JustCounted = {}
  BY <1>1 DEF Rounds!JustCounted
<1>3. \A p \in Players : Rounds!Gains(rounds', Rounds!JustCounted, p) = 0
  BY <1>2, GainsNone
<1>4. QED BY <1>3 DEF StepPaid, RoundsTyped

\* A call that writes, and neither opens a round nor counts one.
LEMMA Wrote ==
  ASSUME RoundsInv, NEW c \in Rounds!Calls, NEW k \in Rounds!Calling, k.kind \notin HostKinds,
         call' = [call EXCEPT ![c] = k],
         rounds' \in Seq(Round), Len(rounds') = Len(rounds), RoundsPaid',
         \A q \in 1..Len(rounds) : rounds'[q].scored = rounds[q].scored,
         UNCHANGED <<points, ended>>, seated' \in SUBSET Players
  PROVE  RoundsInv' /\ StepPaid
<1>1. RoundsTyped
  BY DEF RoundsInv
<1>2. Rounds!Calling' = Rounds!Calling
  <2>1. DOMAIN rounds' = DOMAIN rounds
    BY <1>1 DEF RoundsTyped
  <2>2. QED BY <2>1 DEF Rounds!Calling, Rounds!Idle, Rounds!Boxes
<1>3. /\ call' \in [Rounds!Calls -> Rounds!Calling'] /\ call'[c] = k
      /\ \A d \in Rounds!Calls : d # c => call'[d] = call[d]
  BY <1>1, <1>2 DEF RoundsTyped
<1>4. RoundsTyped'
  BY <1>1, <1>3 DEF RoundsTyped
<1>5. RoundsInTurn'
  BY <1>3, InTurnStays
<1>6. StepPaid
  BY <1>1, NothingPaid
<1>7. QED BY <1>4, <1>5, <1>6 DEF RoundsInv

\* A call of a player or of a timer begins.
LEMMA Begun ==
  ASSUME RoundsInv, NEW c \in Rounds!Calls, NEW k \in Rounds!Calling, k.kind \notin HostKinds,
         Rounds!Begin(c, k)
  PROVE  RoundsInv' /\ StepPaid
<1>1. RoundsPaid'
  BY DEF RoundsInv, RoundsPaid, Rounds!Begin, Paid, Earned
<1>2. QED BY <1>1, Wrote DEF Rounds!Begin, RoundsInv, RoundsTyped

\* A call of the host begins: no other is under way.
LEMMA BegunByHost ==
  ASSUME RoundsInv, NEW c \in Rounds!Calls, NEW k \in Rounds!Calling, k.kind \in {"count", "next"},
         k.kind = "next" => rounds[Len(rounds)].scored,
         Rounds!Crossing(HostKinds) < HostAtOnce, Rounds!Begin(c, k)
  PROVE  RoundsInv' /\ StepPaid
<1>1. RoundsTyped /\ UNCHANGED <<rounds, points, seated, ended>> /\ call' = [call EXCEPT ![c] = k]
  BY DEF RoundsInv, Rounds!Begin
<1>2. Rounds!Calling' = Rounds!Calling
  BY <1>1 DEF Rounds!Calling, Rounds!Idle, Rounds!Boxes
<1>3. RoundsTyped' /\ \A d \in Rounds!Calls : call'[d] = IF d = c THEN k ELSE call[d]
  BY <1>1, <1>2 DEF RoundsTyped
<1>4. RoundsPaid'
  BY <1>1 DEF RoundsInv, RoundsPaid, Paid, Earned
<1>5. HostAtOnce <= 1 => HostCalls = {}
  <2>1. IsFiniteSet(HostCalls)
    BY TablesFinite, FS_Subset DEF HostCalls
  <2>2. Rounds!Crossing(HostKinds) = Cardinality(HostCalls)
    BY FiniteThere DEF Rounds!Crossing, HostCalls
  <2>3. Cardinality(HostCalls) \in Nat /\ HostAtOnce \in Nat
    BY <2>1, FS_CardinalityType, RoundsAssumption DEF Rounds!TableAssumption
  <2>4. HostAtOnce <= 1 => Cardinality(HostCalls) = 0
    BY <2>2, <2>3
  <2>5. QED BY <2>1, <2>4, FS_EmptySet
<1>6. HostAtOnce <= 1 => HostCalls' \subseteq {c}
  BY <1>3, <1>5 DEF HostCalls
<1>7. RoundsInTurn'
  <2>1. UNCHANGED <<rounds, ended>> /\ call'[c] = k
    BY <1>1, <1>3
  <2>2. QED BY <1>6, <2>1 DEF RoundsInv, RoundsInTurn
<1>8. StepPaid
  BY <1>1, NothingPaid
<1>9. QED BY <1>3, <1>4, <1>7, <1>8 DEF RoundsInv

\* WriteAnswers: the words of a player, and the points of those deleted.
LEMMA WriteAnswersSound ==
  ASSUME RoundsInv, NEW c \in Rounds!Calls, NEW body \in Rounds!Bodies, Rounds!WriteAnswers(c, body)
  PROVE  RoundsInv' /\ StepPaid
<1> DEFINE r == call[c].r
           p == call[c].who
           R == rounds[r]
           cleared == {b \in Rounds!Boxes : /\ b[1] = p /\ b[2] \in DOMAIN body
                                            /\ body[b[2]] = NoWord}
           words == [b \in Rounds!Boxes |->
                       IF b[1] = p /\ b[2] \in DOMAIN body THEN body[b[2]] ELSE R.words[b]]
           rejects == {v \in R.rejects : v[1] \notin cleared}
           given == [b \in Rounds!Boxes |-> IF b \in cleared THEN 0 ELSE R.given[b]]
           after == [R EXCEPT !.words = words, !.rejects = rejects, !.given = given]
<1>1. call[c] \in Rounds!Calling /\ call[c].kind = "write"
  BY DEF RoundsInv, RoundsTyped, Rounds!WriteAnswers, Rounds!Doing
<1>2. r \in 1..Len(rounds) /\ p \in Players /\ R \in Round
  BY <1>1 DEF RoundsInv, RoundsTyped, Rounds!Calling, Rounds!Idle
<1>3. words \in [Rounds!Boxes -> Rounds!Words \union {NoWord}]
  <2>1. \A k \in DOMAIN body : body[k] \in Rounds!Words \union {NoWord}
    BY DEF Rounds!Bodies
  <2>2. QED BY <1>2, <2>1 DEF Round
<1>4. rejects \in SUBSET (Rounds!Boxes \X Players)
  BY <1>2 DEF Round
<1>5. given \in [Rounds!Boxes -> {0, Solo, Unique, Shared}]
  BY <1>2 DEF Round
<1>6. after \in Round
  BY <1>2, <1>3, <1>4, <1>5 DEF Round
<1>7. ~MayClear => given = R.given
  <2>1. ASSUME ~MayClear PROVE cleared = {}
    BY <2>1, RoundsAssumption DEF Rounds!TableAssumption, Rounds!Bodies
  <2>2. QED BY <1>2, <2>1 DEF Round
<1>8. Paid(after)
  <2>1. /\ after.bonus = R.bonus /\ after.scored = R.scored /\ after.stopper = R.stopper
        /\ after.given = given
    BY <1>2 DEF Round
  <2>2. QED BY <1>2, <1>7, <2>1 DEF RoundsInv, RoundsPaid, Paid, Earned
<1>9. rounds' = [rounds EXCEPT ![r] = after]
  BY DEF Rounds!WriteAnswers
<1>10. PICK k \in Rounds!Calling : /\ k.kind \notin HostKinds
                                   /\ call' = [call EXCEPT ![c] = k]
  <2>1. Rounds!Idle \in Rounds!Calling /\ Rounds!Idle.kind \notin HostKinds
    BY DEF Rounds!Calling, Rounds!Idle, HostKinds
  <2>2. [call[c] EXCEPT !.kind = "stop"] \in Rounds!Calling
    BY <1>1 DEF Rounds!Calling, Rounds!Idle
  <2>3. [call[c] EXCEPT !.kind = "stop"].kind \notin HostKinds
    BY <1>1 DEF Rounds!Calling, Rounds!Idle, HostKinds
  <2>4. QED BY <2>1, <2>2, <2>3 DEF Rounds!WriteAnswers, Rounds!Then
<1>11. /\ rounds' \in Seq(Round) /\ Len(rounds') = Len(rounds) /\ RoundsPaid'
       /\ \A q \in 1..Len(rounds) : rounds'[q].scored = rounds[q].scored
  <2>1. after.scored = R.scored
    BY <1>2 DEF Round
  <2> HIDE DEF after
  <2>2. /\ rounds' \in Seq(Round) /\ Len(rounds') = Len(rounds) /\ RoundsPaid'
        /\ \A q \in 1..Len(rounds) : rounds'[q] = IF q = r THEN after ELSE rounds[q]
    BY <1>2, <1>6, <1>8, <1>9, Rewritten
  <2>3. QED BY <2>1, <2>2
<1>12. QED BY <1>10, <1>11, Wrote DEF Rounds!WriteAnswers, Rounds!Doing, RoundsInv, RoundsTyped

\* A call that rewrites a round, its points aside, or leaves it.
LEMMA RoundTouched ==
  ASSUME RoundsInv, NEW c \in Rounds!Calls, NEW r \in 1..Len(rounds), NEW R \in Round,
         rounds' = [rounds EXCEPT ![r] = R],
         R.bonus = rounds[r].bonus, R.given = rounds[r].given, R.scored = rounds[r].scored,
         R.stopper = rounds[r].stopper \/ rounds[r].stopper = Nobody,
         Rounds!Then(c, Rounds!Idle), UNCHANGED <<points, seated, ended>>
  PROVE  RoundsInv' /\ StepPaid
<1>1. rounds[r] \in Round
  BY DEF RoundsInv, RoundsTyped
<1>2. Paid(R)
  BY <1>1 DEF RoundsInv, RoundsPaid, Paid, Earned, Round
<1>3. /\ rounds' \in Seq(Round) /\ Len(rounds') = Len(rounds) /\ RoundsPaid'
      /\ \A q \in 1..Len(rounds) : rounds'[q].scored = rounds[q].scored
  <2>1. /\ rounds' \in Seq(Round) /\ Len(rounds') = Len(rounds) /\ RoundsPaid'
        /\ \A q \in 1..Len(rounds) : rounds'[q] = IF q = r THEN R ELSE rounds[q]
    BY <1>2, Rewritten
  <2>2. QED BY <2>1
<1>4. Rounds!Idle \in Rounds!Calling /\ Rounds!Idle.kind \notin HostKinds
  BY DEF Rounds!Calling, Rounds!Idle, HostKinds
<1>5. QED BY <1>3, <1>4, Wrote DEF Rounds!Then, RoundsInv, RoundsTyped

LEMMA RoundLeft ==
  ASSUME RoundsInv, NEW c \in Rounds!Calls, Rounds!Then(c, Rounds!Idle),
         UNCHANGED <<rounds, points, seated, ended>>
  PROVE  RoundsInv' /\ StepPaid
<1>1. Rounds!Idle \in Rounds!Calling /\ Rounds!Idle.kind \notin HostKinds
  BY DEF Rounds!Calling, Rounds!Idle, HostKinds
<1>2. RoundsPaid'
  BY DEF RoundsInv, RoundsPaid, Paid, Earned
<1>3. QED BY <1>1, <1>2, Wrote DEF Rounds!Then, RoundsInv, RoundsTyped

\* StopRound: whoever stopped first stays.
LEMMA StopRoundSound ==
  ASSUME RoundsInv, NEW c \in Rounds!Calls, Rounds!StopRound(c)
  PROVE  RoundsInv' /\ StepPaid
<1> DEFINE r == call[c].r
           R == [rounds[r] EXCEPT !.stopper = call[c].who, !.clock = "grace"]
<1>1. /\ call[c] \in Rounds!Calling /\ call[c].kind = "stop" /\ UNCHANGED <<points, seated, ended>>
      /\ Rounds!Then(c, Rounds!Idle)
  BY DEF RoundsInv, RoundsTyped, Rounds!StopRound, Rounds!Doing
<1>2. r \in 1..Len(rounds) /\ call[c].who \in Players /\ rounds[r] \in Round
  BY <1>1 DEF RoundsInv, RoundsTyped, Rounds!Calling, Rounds!Idle
<1>3. CASE UNCHANGED rounds
  BY <1>1, <1>3, RoundLeft
<1>4. CASE rounds[r].stopper = Nobody /\ rounds' = [rounds EXCEPT ![r] = R]
  <2>1. /\ R \in Round /\ R.bonus = rounds[r].bonus /\ R.given = rounds[r].given
        /\ R.scored = rounds[r].scored
    BY <1>2 DEF Round
  <2>2. QED BY <1>1, <1>2, <1>4, <2>1, RoundTouched
<1>5. QED
  <2>1. \/ UNCHANGED rounds
        \/ /\ rounds[r].stopper = Nobody
           /\ rounds' = [rounds EXCEPT ![r].stopper = call[c].who, ![r].clock = "grace"]
    BY DEF Rounds!StopRound
  <2>2. [rounds EXCEPT ![r].stopper = call[c].who, ![r].clock = "grace"]
          = [rounds EXCEPT ![r] = R]
    BY <1>2 DEF RoundsInv, RoundsTyped, Round
  <2>3. QED BY <1>3, <1>4, <2>1, <2>2

\* Reroll: another letter, drawn among those of the game.
LEMMA RerollSound ==
  ASSUME RoundsInv, NEW c \in Rounds!Calls, Rounds!Reroll(c)
  PROVE  RoundsInv' /\ StepPaid
<1> DEFINE r == call[c].r
           R(l) == [rounds[r] EXCEPT !.joker = call[c].who, !.letter = l, !.clock = "countdown"]
<1>1. /\ call[c] \in Rounds!Calling /\ call[c].kind = "reroll"
      /\ UNCHANGED <<points, seated, ended>>
      /\ Rounds!Then(c, Rounds!Idle)
  BY DEF RoundsInv, RoundsTyped, Rounds!Reroll, Rounds!Doing
<1>2. r \in 1..Len(rounds) /\ call[c].who \in Players /\ rounds[r] \in Round
  BY <1>1 DEF RoundsInv, RoundsTyped, Rounds!Calling, Rounds!Idle
<1>3. CASE UNCHANGED rounds
  BY <1>1, <1>3, RoundLeft
<1>4. ASSUME NEW l \in Letters, rounds' = [rounds EXCEPT ![r] = R(l)]
      PROVE  RoundsInv' /\ StepPaid
  <2>1. /\ R(l) \in Round /\ R(l).bonus = rounds[r].bonus /\ R(l).given = rounds[r].given
        /\ R(l).scored = rounds[r].scored /\ R(l).stopper = rounds[r].stopper
    BY <1>2 DEF Round
  <2>2. QED BY <1>1, <1>2, <1>4, <2>1, RoundTouched
<1>5. QED
  <2>1. \/ UNCHANGED rounds
        \/ \E l \in Rounds!Draw(Rounds!Used) :
              rounds' = [rounds EXCEPT ![r].joker = call[c].who, ![r].letter = l,
                                       ![r].clock = "countdown"]
    BY DEF Rounds!Reroll
  <2>2. Rounds!Draw(Rounds!Used) \subseteq Letters
    BY DEF Rounds!Draw
  <2>3. \A l \in Letters :
          [rounds EXCEPT ![r].joker = call[c].who, ![r].letter = l, ![r].clock = "countdown"]
            = [rounds EXCEPT ![r] = R(l)]
    BY <1>2 DEF RoundsInv, RoundsTyped, Round
  <2>4. QED BY <1>3, <1>4, <2>1, <2>2, <2>3

\* CastVote: a vote set or taken back, on a word still there.
LEMMA CastVoteSound ==
  ASSUME RoundsInv, NEW c \in Rounds!Calls, Rounds!CastVote(c)
  PROVE  RoundsInv' /\ StepPaid
<1> DEFINE r == call[c].r
           vote == <<call[c].box, call[c].who>>
           R(V) == [rounds[r] EXCEPT !.rejects = V]
           old == rounds[r].rejects
<1>1. /\ call[c] \in Rounds!Calling /\ call[c].kind = "vote" /\ UNCHANGED <<points, seated, ended>>
      /\ Rounds!Then(c, Rounds!Idle)
  BY DEF RoundsInv, RoundsTyped, Rounds!CastVote, Rounds!Doing
<1>2. /\ r \in 1..Len(rounds) /\ rounds[r] \in Round
      /\ call[c].who \in Players /\ call[c].box \in Rounds!Boxes
  BY <1>1 DEF RoundsInv, RoundsTyped, Rounds!Calling, Rounds!Idle
<1>3. CASE UNCHANGED rounds
  BY <1>1, <1>3, RoundLeft
<1>4. ASSUME NEW V \in SUBSET (Rounds!Boxes \X Players), rounds' = [rounds EXCEPT ![r] = R(V)]
      PROVE  RoundsInv' /\ StepPaid
  <2>1. /\ R(V) \in Round /\ R(V).bonus = rounds[r].bonus /\ R(V).given = rounds[r].given
        /\ R(V).scored = rounds[r].scored /\ R(V).stopper = rounds[r].stopper
    BY <1>2 DEF Round
  <2>2. QED BY <1>1, <1>2, <1>4, <2>1, RoundTouched
<1>5. QED
  <2>1. \/ UNCHANGED rounds
        \/ rounds' = [rounds EXCEPT ![r].rejects = @ \union {vote}]
        \/ rounds' = [rounds EXCEPT ![r].rejects = @ \ {vote}]
    BY DEF Rounds!CastVote
  <2>2. /\ old \union {vote} \in SUBSET (Rounds!Boxes \X Players)
        /\ old \ {vote} \in SUBSET (Rounds!Boxes \X Players)
    BY <1>2 DEF Round
  <2>3. /\ [rounds EXCEPT ![r].rejects = @ \union {vote}]
             = [rounds EXCEPT ![r] = R(old \union {vote})]
        /\ [rounds EXCEPT ![r].rejects = @ \ {vote}] = [rounds EXCEPT ![r] = R(old \ {vote})]
    BY <1>2 DEF RoundsInv, RoundsTyped, Round
  <2>4. QED BY <1>3, <1>4, <2>1, <2>2, <2>3

\* CloseRound: the writing is closed, again or not.
LEMMA CloseRoundSound ==
  ASSUME RoundsInv, NEW c \in Rounds!Calls, Rounds!CloseRound(c)
  PROVE  RoundsInv' /\ StepPaid
<1> DEFINE r == call[c].r
           R == [rounds[r] EXCEPT !.closed = TRUE]
<1>1. /\ call[c] \in Rounds!Calling /\ call[c].kind = "close" /\ UNCHANGED <<points, seated, ended>>
      /\ Rounds!Then(c, Rounds!Idle)
  BY DEF RoundsInv, RoundsTyped, Rounds!CloseRound, Rounds!Doing
<1>2. r \in 1..Len(rounds) /\ rounds[r] \in Round
  BY <1>1 DEF RoundsInv, RoundsTyped, Rounds!Calling, Rounds!Idle
<1>3. /\ R \in Round /\ R.bonus = rounds[r].bonus /\ R.given = rounds[r].given
      /\ R.scored = rounds[r].scored /\ R.stopper = rounds[r].stopper
  BY <1>2 DEF Round
<1>4. rounds' = [rounds EXCEPT ![r] = R]
  BY <1>2 DEF Rounds!CloseRound, RoundsInv, RoundsTyped, Round
<1>5. QED BY <1>1, <1>2, <1>3, <1>4, RoundTouched

\* The points of a count: those of a word kept, whatever its peers, are never none.
LEMMA CountedPaid ==
  ASSUME NEW R \in Round, NEW P
  PROVE  /\ Rounds!Counted(R, P) \in Round /\ Rounds!Counted(R, P).scored
         /\ Paid(Rounds!Counted(R, P))
<1> DEFINE valid == {b \in Rounds!Boxes : Rounds!Holds(R, P, b)}
           given == [b \in Rounds!Boxes |-> Rounds!PointsOf(R, valid, b)]
           after == [R EXCEPT !.scored = TRUE, !.bonus = Rounds!BonusOf(R, valid), !.given = given]
<1>1. Rounds!Counted(R, P) = after
  BY DEF Rounds!Counted
<1>2. \A b : /\ Rounds!PointsOf(R, valid, b) \in {0, Solo, Unique, Shared}
             /\ b \in valid => Rounds!PointsOf(R, valid, b) \in {Solo, Unique, Shared}
  BY DEF Rounds!PointsOf
<1>3. Rounds!BonusOf(R, valid) \in {0, StopBonus}
  BY DEF Rounds!BonusOf
<1>4. given \in [Rounds!Boxes -> {0, Solo, Unique, Shared}]
  BY <1>2
<1>5. /\ after.scored /\ after.given = given /\ after.bonus = Rounds!BonusOf(R, valid)
      /\ after.stopper = R.stopper
  BY DEF Round
<1>6. after \in Round
  <2> HIDE DEF given, valid
  <2>1. QED BY <1>3, <1>4 DEF Round
<1>7. Earned(after)
  <2>1. SUFFICES ASSUME 0 \notin {Solo, Unique, Shared}, after.bonus > 0
                 PROVE  /\ after.stopper # Nobody
                        /\ \A k \in Categories : after.given[<<after.stopper, k>>] > 0
    BY DEF Earned
  <2>2. R.stopper # Nobody /\ \A k \in Categories : <<R.stopper, k>> \in valid
    BY <1>5, <2>1 DEF Rounds!BonusOf
  <2>3. ASSUME NEW k \in Categories PROVE given[<<R.stopper, k>>] > 0
    <3>1. <<R.stopper, k>> \in valid /\ <<R.stopper, k>> \in Rounds!Boxes
      BY <2>2
    <3>2. given[<<R.stopper, k>>] \in {Solo, Unique, Shared}
      BY <1>2, <3>1
    <3>3. QED BY <2>1, <3>2, RoundsAssumption DEF Rounds!TableAssumption
  <2>4. QED BY <1>5, <2>2, <2>3
<1>8. Paid(after)
  BY <1>5, <1>7 DEF Paid
<1>9. QED BY <1>1, <1>5, <1>6, <1>8

\* ScoreRound: the first count of a round pays it, the others leave it.
LEMMA ScoreRoundSound ==
  ASSUME RoundsInv, NEW c \in Rounds!Calls, Rounds!ScoreRound(c)
  PROVE  RoundsInv' /\ StepPaid
<1> DEFINE r == call[c].r
           after == Rounds!Counted(rounds[r], call[c].list)
<1>1. /\ call[c] \in Rounds!Calling /\ call[c].kind \in {"count", "score"}
      /\ UNCHANGED <<seated, ended>> /\ Rounds!Then(c, Rounds!Idle)
  BY DEF RoundsInv, RoundsTyped, Rounds!ScoreRound
<1>2. r \in 1..Len(rounds) /\ rounds[r] \in Round
  BY <1>1 DEF RoundsInv, RoundsTyped, Rounds!Calling, Rounds!Idle
<1>3. CASE UNCHANGED <<rounds, points>>
  BY <1>1, <1>3, RoundLeft
<1>4. CASE /\ ~rounds[r].scored /\ rounds' = [rounds EXCEPT ![r] = after]
           /\ points' = [p \in Players |-> points[p] + Rounds!Total(after, p)]
  <2>1. after \in Round /\ after.scored /\ Paid(after)
    BY <1>2, CountedPaid
  <2> HIDE DEF after
  <2>2. /\ rounds' \in Seq(Round) /\ Len(rounds') = Len(rounds) /\ RoundsPaid'
        /\ \A q \in 1..Len(rounds) : rounds'[q] = IF q = r THEN after ELSE rounds[q]
    BY <1>2, <1>4, <2>1, Rewritten
  <2>3. \A p \in Players : Rounds!Total(after, p) \in Nat
    BY <2>1, TotalNat
  <2>4. Rounds!Idle \in Rounds!Calling' /\ Rounds!Idle.kind \notin HostKinds
    BY DEF Rounds!Calling, Rounds!Idle, HostKinds
  <2>5. /\ call' \in [Rounds!Calls -> Rounds!Calling'] /\ call'[c] = Rounds!Idle
        /\ \A d \in Rounds!Calls : d # c => call'[d] = call[d]
    <3>1. RoundsTyped /\ call' = [call EXCEPT ![c] = Rounds!Idle]
      BY <1>1 DEF RoundsInv, Rounds!Then
    <3>2. Len(rounds') \in 1..RoundCount /\ Len(rounds) <= Len(rounds')
      BY <2>2, <3>1 DEF RoundsTyped
    <3>3. QED BY <2>2, <2>4, <3>1, <3>2, CallsStay
  <2>6. points' \in [Players -> Nat]
    BY <1>4, <2>3 DEF RoundsInv, RoundsTyped
  <2>7. RoundsTyped'
    BY <1>1, <2>2, <2>5, <2>6 DEF RoundsInv, RoundsTyped
  <2>8. RoundsInTurn'
    BY <1>1, <2>1, <2>2, <2>4, <2>5, InTurnStays
  <2>9. Rounds!JustCounted = {r}
    <3>1. DOMAIN rounds = 1..Len(rounds)
      BY DEF RoundsInv, RoundsTyped
    <3>2. QED BY <1>2, <1>4, <2>1, <2>2, <3>1 DEF Rounds!JustCounted
  <2>10. StepPaid
    <3>1. rounds'[r] = after
      BY <1>2, <2>2
    <3>2. \A p \in Players : Rounds!Gains(rounds', {r}, p) = Rounds!Total(after, p)
      BY <2>3, <3>1, GainsOne
    <3>3. QED BY <1>4, <2>9, <3>2 DEF StepPaid
  <2>11. QED BY <2>2, <2>7, <2>8, <2>10 DEF RoundsInv
<1>5. QED BY <1>3, <1>4 DEF Rounds!ScoreRound

\* CountRounds: the game is over on its last round, which is counted.
LEMMA CountRoundsSound ==
  ASSUME RoundsInv, NEW c \in Rounds!Calls, Rounds!CountRounds(c)
  PROVE  RoundsInv' /\ StepPaid
<1> DEFINE create == [kind |-> "create", index |-> Len(rounds), used |-> Rounds!Used]
<1>1. /\ RoundsTyped /\ call[c].kind = "next" /\ UNCHANGED <<rounds, points, seated>>
      /\ c \in HostCalls
  BY DEF RoundsInv, Rounds!CountRounds, Rounds!Doing, HostCalls, HostKinds
<1>2. PICK k \in Rounds!Calling :
         /\ call' = [call EXCEPT ![c] = k]
         /\ \/ k = Rounds!Idle /\ Len(rounds) >= RoundCount /\ ended' = TRUE
            \/ k = create /\ ended' = ended
  <2>1. Rounds!Idle \in Rounds!Calling
    BY DEF Rounds!Calling
  <2>2. create \in Rounds!Calling \/ Len(rounds) >= RoundCount
    <3>1. Rounds!Used \in SUBSET Letters
      <4>1. \A r \in DOMAIN rounds : rounds[r] \in Round
        BY <1>1 DEF RoundsTyped
      <4>2. QED BY <4>1 DEF Rounds!Used, Round
    <3>2. Len(rounds) \in 0..(RoundCount - 1) \/ Len(rounds) >= RoundCount
      BY <1>1, RoundsAssumption DEF RoundsTyped, Rounds!TableAssumption
    <3>3. QED BY <3>1, <3>2 DEF Rounds!Calling
  <2>3. QED BY <2>1, <2>2 DEF Rounds!CountRounds, Rounds!Then, Rounds!Latest
<1>3. Rounds!Calling' = Rounds!Calling
  BY <1>1 DEF Rounds!Calling, Rounds!Idle, Rounds!Boxes
<1>4. RoundsTyped' /\ \A d \in Rounds!Calls : call'[d] = IF d = c THEN k ELSE call[d]
  BY <1>1, <1>2, <1>3 DEF RoundsTyped
<1>5. RoundsPaid'
  BY <1>1 DEF RoundsInv, RoundsPaid, Paid, Earned
<1>6. RoundsInTurn'
  <2>1. SUFFICES ASSUME HostAtOnce <= 1 PROVE RoundsInTurn'
    BY DEF RoundsInTurn
  <2>2. /\ \A r \in 1..Len(rounds) : rounds[r].scored
        /\ \A d \in HostCalls : d = c
    <3>1. /\ \A r \in 1..Len(rounds) : r < Len(rounds) => rounds[r].scored
          /\ rounds[Len(rounds)].scored /\ \A d \in HostCalls : d = c
      BY <1>1, <2>1 DEF RoundsInv, RoundsInTurn
    <3>2. Len(rounds) \in Nat
      BY <1>1 DEF RoundsTyped
    <3>3. QED BY <3>1, <3>2
  <2>3. HostCalls' \subseteq {c} /\ \A d \in HostCalls' : call'[d] = k /\ k.kind \in HostKinds
    BY <1>4, <2>2 DEF HostCalls
  <2>4. \A d \in HostCalls' : call'[d].kind = "create" /\ call'[d].index = Len(rounds)
    BY <1>2, <2>3 DEF Rounds!Idle, HostKinds
  <2>5. ended' => Len(rounds) = RoundCount
    <3>1. Len(rounds) \in 1..RoundCount /\ RoundCount \in Nat
      BY <1>1, RoundsAssumption DEF RoundsTyped, Rounds!TableAssumption
    <3>2. ended => Len(rounds) = RoundCount
      BY <2>1 DEF RoundsInv, RoundsInTurn
    <3>3. Len(rounds) >= RoundCount => Len(rounds) = RoundCount
      BY <3>1
    <3>4. ended' = ended \/ Len(rounds) >= RoundCount
      BY <1>2
    <3>5. QED BY <3>2, <3>3, <3>4
  <2>6. Len(rounds) \in 1..Len(rounds)
    BY <1>1 DEF RoundsTyped
  <2>7. QED BY <1>1, <2>2, <2>3, <2>4, <2>5, <2>6 DEF RoundsInTurn
<1>7. StepPaid
  BY <1>1, NothingPaid
<1>8. QED BY <1>4, <1>5, <1>6, <1>7 DEF RoundsInv

\* OpenRound: the next round, once, the one before being counted.
LEMMA OpenRoundSound ==
  ASSUME RoundsInv, NEW c \in Rounds!Calls, Rounds!OpenRound(c)
  PROVE  RoundsInv' /\ StepPaid
<1>1. /\ RoundsTyped /\ call[c].kind = "create" /\ c \in HostCalls
      /\ UNCHANGED <<points, seated, ended>> /\ Rounds!Then(c, Rounds!Idle)
  BY DEF RoundsInv, Rounds!OpenRound, Rounds!Doing, HostCalls, HostKinds
<1>2. CASE UNCHANGED rounds
  BY <1>1, <1>2, RoundLeft
<1>3. ASSUME NEW l \in Letters, rounds' = Append(rounds, Rounds!NewRound(l)),
             Len(rounds) <= call[c].index
      PROVE  RoundsInv' /\ StepPaid
  <2> DEFINE R == Rounds!NewRound(l)
  <2>1. R \in Round /\ ~R.scored /\ Paid(R)
    <3>1. R \in Round
      BY DEF Round, Rounds!NewRound
    <3>2. ~R.scored /\ R.bonus = 0
      BY DEF Rounds!NewRound
    <3>3. QED BY <3>1, <3>2 DEF Paid, Earned
  <2> HIDE DEF R
  <2>2. /\ rounds' \in Seq(Round) /\ Len(rounds') = Len(rounds) + 1
        /\ \A q \in 1..Len(rounds) : rounds'[q] = rounds[q]
        /\ rounds'[Len(rounds) + 1] = R
    BY <1>1, <1>3, <2>1 DEF RoundsTyped, R
  <2>3. call[c].index \in 0..(RoundCount - 1)
    BY <1>1 DEF RoundsTyped, Rounds!Calling, Rounds!Idle
  <2>4. /\ Len(rounds') \in 1..RoundCount /\ Len(rounds) <= Len(rounds')
        /\ Len(rounds) < RoundCount /\ Len(rounds) \in Nat
    BY <1>1, <1>3, <2>2, <2>3, RoundsAssumption DEF RoundsTyped, Rounds!TableAssumption
  <2>5. Rounds!Idle \in Rounds!Calling' /\ Rounds!Idle.kind \notin HostKinds
    BY DEF Rounds!Calling, Rounds!Idle, HostKinds
  <2>6. /\ call' \in [Rounds!Calls -> Rounds!Calling'] /\ call'[c] = Rounds!Idle
        /\ \A d \in Rounds!Calls : d # c => call'[d] = call[d]
    <3>1. call' = [call EXCEPT ![c] = Rounds!Idle]
      BY <1>1 DEF Rounds!Then
    <3>2. QED BY <1>1, <2>2, <2>4, <2>5, <3>1, CallsStay
  <2>7. RoundsTyped'
    BY <1>1, <2>2, <2>4, <2>6 DEF RoundsTyped
  <2>8. \A q \in 1..Len(rounds') : q \in 1..Len(rounds) \/ q = Len(rounds) + 1
    BY <2>2, <2>4
  <2>9. RoundsPaid'
    <3>1. \A q \in 1..Len(rounds) : Paid(rounds'[q])
      BY <2>2 DEF RoundsInv, RoundsPaid, Paid, Earned
    <3>2. Paid(rounds'[Len(rounds) + 1])
      BY <2>1, <2>2 DEF Paid, Earned
    <3>3. QED BY <2>8, <3>1, <3>2 DEF RoundsPaid, Paid, Earned
  <2>10. RoundsInTurn'
    <3>1. SUFFICES ASSUME HostAtOnce <= 1 PROVE RoundsInTurn'
      BY DEF RoundsInTurn
    <3>2. /\ \A r \in 1..Len(rounds) : r < Len(rounds) => rounds[r].scored
          /\ ended => Len(rounds) = RoundCount
          /\ rounds[Len(rounds)].scored /\ \A d \in HostCalls : d = c
      BY <1>1, <3>1 DEF RoundsInv, RoundsInTurn
    <3>3. \A r \in 1..Len(rounds) : rounds'[r].scored
      BY <2>2, <2>4, <3>2
    <3>4. ~ended'
      BY <1>1, <2>4, <3>2 DEF RoundsTyped
    <3>5. HostCalls' = {}
      BY <2>5, <2>6, <3>2 DEF HostCalls
    <3>6. \A r \in 1..Len(rounds') : r < Len(rounds') => rounds'[r].scored
      BY <2>2, <2>4, <2>8, <3>3
    <3>7. QED BY <3>4, <3>5, <3>6 DEF RoundsInTurn
  <2>11. StepPaid
    <3>1. \A q \in 1..Len(rounds) : rounds'[q].scored => rounds[q].scored
      BY <2>2
    <3>2. QED BY <1>1, <3>1, NothingPaid
  <2>12. QED BY <2>7, <2>9, <2>10, <2>11 DEF RoundsInv
<1>4. QED
  <2>1. \/ UNCHANGED rounds
        \/ /\ ~(Len(rounds) > call[c].index)
           /\ \E l \in Rounds!Draw(call[c].used) : rounds' = Append(rounds, Rounds!NewRound(l))
    BY DEF Rounds!OpenRound, Rounds!Latest
  <2>2. Len(rounds) \in Int /\ call[c].index \in Int /\ call[c].used \in SUBSET Letters
    BY <1>1 DEF RoundsTyped, Rounds!Calling, Rounds!Idle
  <2>3. Rounds!Draw(call[c].used) \subseteq Letters
    BY DEF Rounds!Draw
  <2>4. QED BY <1>2, <1>3, <2>1, <2>2, <2>3

\* Tick, ReviewTime: the clock of the latest round.
LEMMA ClockSound ==
  ASSUME RoundsInv, Rounds!Tick \/ Rounds!ReviewTime
  PROVE  RoundsInv' /\ StepPaid
<1> DEFINE r == Len(rounds)
<1>1. /\ RoundsTyped /\ UNCHANGED <<points, seated, call, ended>>
      /\ r \in 1..Len(rounds) /\ rounds[r] \in Round
  BY DEF RoundsInv, RoundsTyped, Rounds!Tick, Rounds!ReviewTime
<1>2. PICK R \in Round : /\ rounds' = [rounds EXCEPT ![r] = R] /\ R.bonus = rounds[r].bonus
                         /\ R.given = rounds[r].given /\ R.scored = rounds[r].scored
                         /\ R.stopper = rounds[r].stopper
  <2>1. CASE Rounds!Tick
    <3> DEFINE next == [countdown |-> "writing", writing |-> "grace", grace |-> "over",
                        over |-> "over"]
               R == [rounds[r] EXCEPT !.clock = next[rounds[r].clock]]
    <3>1. next[rounds[r].clock] \in {"countdown", "writing", "grace", "over"}
      BY <1>1 DEF Round
    <3>2. rounds' = [rounds EXCEPT ![r] = R]
      BY <1>1, <2>1 DEF Rounds!Tick, Rounds!Latest, RoundsTyped, Round
    <3> HIDE DEF next
    <3>3. /\ R \in Round /\ R.bonus = rounds[r].bonus /\ R.given = rounds[r].given
          /\ R.scored = rounds[r].scored /\ R.stopper = rounds[r].stopper
      BY <1>1, <3>1 DEF Round
    <3> HIDE DEF R
    <3>4. QED BY <3>2, <3>3
  <2>2. CASE Rounds!ReviewTime
    <3> DEFINE R == [rounds[r] EXCEPT !.timeUp = TRUE]
    <3>1. rounds' = [rounds EXCEPT ![r] = R]
      BY <1>1, <2>2 DEF Rounds!ReviewTime, Rounds!Latest, RoundsTyped, Round
    <3>2. /\ R \in Round /\ R.bonus = rounds[r].bonus /\ R.given = rounds[r].given
          /\ R.scored = rounds[r].scored /\ R.stopper = rounds[r].stopper
      BY <1>1 DEF Round
    <3> HIDE DEF R
    <3>3. QED BY <3>1, <3>2
  <2>3. QED BY <2>1, <2>2
<1>3. Paid(R)
  BY <1>1, <1>2 DEF RoundsInv, RoundsPaid, Paid, Earned
<1>4. /\ rounds' \in Seq(Round) /\ Len(rounds') = Len(rounds) /\ RoundsPaid'
      /\ \A q \in 1..Len(rounds) : rounds'[q] = IF q = r THEN R ELSE rounds[q]
  BY <1>1, <1>2, <1>3, Rewritten
<1>5. \A q \in 1..Len(rounds) : rounds'[q].scored = rounds[q].scored
  BY <1>2, <1>4
<1>6. RoundsTyped'
  <2>1. DOMAIN rounds' = DOMAIN rounds
    BY <1>1, <1>4 DEF RoundsTyped
  <2>2. Rounds!Calling' = Rounds!Calling
    BY <2>1 DEF Rounds!Calling, Rounds!Idle, Rounds!Boxes
  <2>3. QED BY <1>1, <1>4, <2>2 DEF RoundsTyped
<1>7. RoundsInTurn'
  BY <1>1, <1>4, <1>5, InTurnStays
<1>8. StepPaid
  BY <1>1, <1>5, NothingPaid
<1>9. QED BY <1>4, <1>6, <1>7, <1>8 DEF RoundsInv

\* A step that changes no round, no call and no total, but may end a game all counted.
LEMMA RoundsStay ==
  ASSUME RoundsInv, UNCHANGED <<rounds, points, call>>, seated' \in SUBSET Players,
         ended' \in BOOLEAN,
         ended' # ended => rounds[Len(rounds)].scored /\ Len(rounds) >= RoundCount
  PROVE  RoundsInv' /\ StepPaid
<1>1. RoundsTyped /\ Len(rounds) \in 1..RoundCount /\ RoundCount \in Nat
  BY RoundsAssumption DEF RoundsInv, RoundsTyped, Rounds!TableAssumption
<1>2. Rounds!Calling' = Rounds!Calling
  BY DEF Rounds!Calling, Rounds!Idle, Rounds!Boxes
<1>3. RoundsTyped'
  BY <1>1, <1>2 DEF RoundsTyped
<1>4. RoundsPaid'
  BY DEF RoundsInv, RoundsPaid, Paid, Earned
<1>5. CASE ended' = ended
  <2>1. RoundsInTurn'
    BY <1>5, InTurnStays
  <2>2. QED BY <1>1, <1>3, <1>4, <2>1, NothingPaid DEF RoundsInv
<1>6. CASE rounds[Len(rounds)].scored /\ Len(rounds) >= RoundCount
  <2>1. HostCalls' = HostCalls
    BY DEF HostCalls
  <2>2. Len(rounds) = RoundCount /\ \A r \in 1..Len(rounds) : r < Len(rounds) \/ r = Len(rounds)
    BY <1>1, <1>6
  <2>3. RoundsInTurn'
    BY <1>6, <2>1, <2>2 DEF RoundsInv, RoundsInTurn
  <2>4. QED BY <1>1, <1>3, <1>4, <2>3, NothingPaid DEF RoundsInv
<1>7. QED BY <1>5, <1>6

-----------------------------------------------------------------------------
\* Every step of the rounds.

LEMMA RoundsStart == Rounds!Init => RoundsInv
<1>1. SUFFICES ASSUME Rounds!Init PROVE RoundsInv
  OBVIOUS
<1>2. PICK l \in Letters : rounds = <<Rounds!NewRound(l)>>
  BY <1>1 DEF Rounds!Init
<1>3. Rounds!NewRound(l) \in Round
  BY DEF Round, Rounds!NewRound
<1>4. ~Rounds!NewRound(l).scored /\ Rounds!NewRound(l).bonus = 0
  BY DEF Rounds!NewRound
<1>5. rounds \in Seq(Round) /\ Len(rounds) = 1 /\ rounds[1] = Rounds!NewRound(l)
  BY <1>2, <1>3
<1>6. \A c \in Rounds!Calls : call[c] = Rounds!Idle
  BY <1>1 DEF Rounds!Init
<1>7. RoundsTyped
  <2>1. Len(rounds) \in 1..RoundCount
    BY <1>5, RoundsAssumption DEF Rounds!TableAssumption
  <2>2. call \in [Rounds!Calls -> Rounds!Calling]
    BY <1>1 DEF Rounds!Init, Rounds!Calling
  <2>3. points \in [Players -> Nat] /\ seated \in SUBSET Players /\ ended \in BOOLEAN
    BY <1>1 DEF Rounds!Init
  <2>4. QED BY <1>5, <2>1, <2>2, <2>3 DEF RoundsTyped
<1>8. RoundsPaid
  BY <1>4, <1>5 DEF RoundsPaid, Paid, Earned
<1>9. HostCalls = {}
  BY <1>6 DEF HostCalls, HostKinds, Rounds!Idle
<1>10. RoundsInTurn
  BY <1>1, <1>5, <1>9 DEF RoundsInTurn, Rounds!Init
<1>11. QED BY <1>7, <1>8, <1>10 DEF RoundsInv

\* The checks of players.
LEMMA ReadsSound ==
  ASSUME RoundsInv, NEW c \in Rounds!Calls, NEW p \in Players,
         \/ Rounds!ReadWrite(c, p) \/ Rounds!ReadStop(c, p) \/ Rounds!ReadReroll(c, p)
         \/ \E r \in DOMAIN rounds, b \in Rounds!Boxes : Rounds!ReadVote(c, p, r, b)
  PROVE  RoundsInv' /\ StepPaid
<1>1. DOMAIN rounds = 1..Len(rounds) /\ Len(rounds) \in DOMAIN rounds
  BY DEF RoundsInv, RoundsTyped
<1>2. ASSUME NEW kind \in {"write", "stop", "reroll"},
             Rounds!Begin(c, [kind |-> kind, who |-> p, r |-> Len(rounds)])
      PROVE  RoundsInv' /\ StepPaid
  <2> DEFINE k == [kind |-> kind, who |-> p, r |-> Len(rounds)]
  <2>1. k \in Rounds!Calling /\ k.kind \notin HostKinds
    BY <1>1 DEF Rounds!Calling, HostKinds
  <2>2. QED BY <1>2, <2>1, Begun
<1>3. ASSUME NEW r \in DOMAIN rounds, NEW b \in Rounds!Boxes,
             Rounds!Begin(c, [kind |-> "vote", who |-> p, r |-> r, box |-> b])
      PROVE  RoundsInv' /\ StepPaid
  <2> DEFINE k == [kind |-> "vote", who |-> p, r |-> r, box |-> b]
  <2>1. k \in Rounds!Calling /\ k.kind \notin HostKinds
    BY <1>1 DEF Rounds!Calling, HostKinds
  <2>2. QED BY <1>3, <2>1, Begun
<1>4. QED
  BY <1>2, <1>3 DEF Rounds!ReadWrite, Rounds!ReadStop, Rounds!ReadReroll, Rounds!ReadVote,
                    Rounds!Player, Rounds!Latest

\* The checks of the host and of timers.
LEMMA AsksSound ==
  ASSUME RoundsInv, NEW c \in Rounds!Calls,
         \/ Rounds!ReadCount(c) \/ Rounds!ReadNext(c)
         \/ Rounds!ReadClose(c) \/ Rounds!ReadScore(c)
  PROVE  RoundsInv' /\ StepPaid
<1>1. /\ DOMAIN rounds = 1..Len(rounds) /\ Len(rounds) \in DOMAIN rounds
      /\ seated \in SUBSET Players
  BY DEF RoundsInv, RoundsTyped
<1>2. CASE Rounds!ReadCount(c)
  <2> DEFINE k == [kind |-> "count", r |-> Len(rounds), list |-> seated]
  <2>1. k \in Rounds!Calling /\ k.kind = "count"
    BY <1>1 DEF Rounds!Calling
  <2>2. Rounds!Crossing(HostKinds) < HostAtOnce /\ Rounds!Begin(c, k)
    BY <1>2 DEF Rounds!ReadCount, Rounds!Latest, HostKinds
  <2>3. QED BY <2>1, <2>2, BegunByHost
<1>3. CASE Rounds!ReadNext(c)
  <2> DEFINE k == [kind |-> "next"]
  <2>1. k \in Rounds!Calling /\ k.kind = "next"
    BY <1>1 DEF Rounds!Calling
  <2>2. Rounds!Crossing(HostKinds) < HostAtOnce /\ Rounds!Begin(c, k)
    BY <1>3 DEF Rounds!ReadNext, HostKinds
  <2>3. rounds[Len(rounds)].scored
    BY <1>3 DEF Rounds!ReadNext, Rounds!Phase, Rounds!Latest
  <2>4. QED BY <2>1, <2>2, <2>3, BegunByHost
<1>4. CASE Rounds!ReadClose(c)
  <2> DEFINE k == [kind |-> "close", r |-> Len(rounds)]
  <2>1. k \in Rounds!Calling /\ k.kind \notin HostKinds
    BY <1>1 DEF Rounds!Calling, HostKinds
  <2>2. Rounds!Begin(c, k)
    BY <1>4 DEF Rounds!ReadClose, Rounds!Latest
  <2>3. QED BY <2>1, <2>2, Begun
<1>5. CASE Rounds!ReadScore(c)
  <2> DEFINE k == [kind |-> "score", r |-> Len(rounds), list |-> seated]
  <2>1. k \in Rounds!Calling /\ k.kind \notin HostKinds
    BY <1>1 DEF Rounds!Calling, HostKinds
  <2>2. Rounds!Begin(c, k)
    BY <1>5 DEF Rounds!ReadScore, Rounds!Latest
  <2>3. QED BY <2>1, <2>2, Begun
<1>6. QED BY <1>2, <1>3, <1>4, <1>5

LEMMA RoundsStep == RoundsInv /\ [Rounds!Next]_(Rounds!vars) => RoundsInv' /\ StepPaid
<1>1. SUFFICES ASSUME RoundsInv, [Rounds!Next]_(Rounds!vars) PROVE RoundsInv' /\ StepPaid
  OBVIOUS
<1>2. RoundsTyped /\ seated \in SUBSET Players /\ ended \in BOOLEAN
  BY <1>1 DEF RoundsInv, RoundsTyped
<1>3. CASE UNCHANGED Rounds!vars
  BY <1>1, <1>2, <1>3, RoundsStay DEF Rounds!vars
<1>4. ASSUME NEW c \in Rounds!Calls, Rounds!Finish(c)
      PROVE  RoundsInv' /\ StepPaid
  BY <1>1, <1>4, WriteAnswersSound, StopRoundSound, RerollSound, CastVoteSound, CloseRoundSound,
     ScoreRoundSound, CountRoundsSound, OpenRoundSound DEF Rounds!Finish
<1>5. CASE Rounds!CloseIfLast
  <2>1. rounds[Len(rounds)].scored /\ Len(rounds) >= RoundCount
    BY <1>5 DEF Rounds!CloseIfLast, Rounds!Phase, Rounds!Latest
  <2>2. UNCHANGED <<rounds, points, call, seated>> /\ ended' \in BOOLEAN
    BY <1>5 DEF Rounds!CloseIfLast
  <2>3. QED BY <1>1, <1>2, <2>1, <2>2, RoundsStay
<1>6. CASE Rounds!Tick \/ Rounds!ReviewTime
  BY <1>1, <1>6, ClockSound
<1>7. ASSUME NEW p \in seated, Rounds!Leave(p)
      PROVE  RoundsInv' /\ StepPaid
  BY <1>1, <1>2, <1>7, RoundsStay DEF Rounds!Leave
<1>8. ASSUME NEW c \in Rounds!Calls,
             \/ Rounds!ReadCount(c) \/ Rounds!ReadNext(c)
             \/ Rounds!ReadClose(c) \/ Rounds!ReadScore(c)
      PROVE  RoundsInv' /\ StepPaid
  BY <1>1, <1>8, AsksSound
<1>9. ASSUME NEW c \in Rounds!Calls, NEW p \in Players,
             \/ Rounds!ReadWrite(c, p) \/ Rounds!ReadStop(c, p) \/ Rounds!ReadReroll(c, p)
             \/ \E r \in DOMAIN rounds, b \in Rounds!Boxes : Rounds!ReadVote(c, p, r, b)
      PROVE  RoundsInv' /\ StepPaid
  BY <1>1, <1>9, ReadsSound
<1>10. QED
  BY <1>1, <1>3, <1>4, <1>5, <1>6, <1>7, <1>8, <1>9 DEF Rounds!Next, Rounds!Settle

-----------------------------------------------------------------------------
\* The engines side by side.

LEMMA OnTheRounds == [EnginesNext]_all_vars => [Rounds!Next]_(Rounds!vars)
<1>1. UNCHANGED all_vars => UNCHANGED Rounds!vars
  BY DEF all_vars, rounds_vars, Rounds!vars
<1>2. OnLudo => UNCHANGED Rounds!vars
  BY DEF OnLudo, rounds_vars, Rounds!vars
<1>3. QED BY <1>1, <1>2 DEF EnginesNext

LEMMA OnTheBoard == [EnginesNext]_all_vars => [Next]_vars
BY DEF all_vars, EnginesNext, OnRounds

\* The inductive invariant of the rounds: those before the latest are counted, and the host
\* has one call at a time, which opens a round only when the latest is counted too.
THEOREM RoundsInvariant == EnginesSpec => []RoundsInv
<1>1. EnginesInit => RoundsInv
  BY RoundsStart DEF EnginesInit
<1>2. RoundsInv /\ [EnginesNext]_all_vars => RoundsInv'
  BY RoundsStep, OnTheRounds
<1>3. QED BY <1>1, <1>2, PTL DEF EnginesSpec

\* RoundsSound: whatever calls of players, of timers and of a host cross, a game ends with its
\* last round counted, and a bonus is earned.
THEOREM RoundsHold == EnginesSpec => []RoundsSound
<1>1. RoundsInv => RoundsSound
  <2>1. SUFFICES ASSUME RoundsInv PROVE RoundsSound
    OBVIOUS
  <2>2. /\ RoundsTyped /\ DOMAIN rounds = 1..Len(rounds)
        /\ \A r \in DOMAIN rounds : rounds[r] \in Round
    BY <2>1 DEF RoundsInv, RoundsTyped
  <2>3. Rounds!TypeOK
    BY <2>2 DEF Rounds!TypeOK, RoundsTyped, Round, Rounds!Latest
  <2>4. Rounds!EndsCounted
    BY <2>1, <2>2 DEF RoundsInv, RoundsInTurn, Rounds!EndsCounted, Rounds!Latest
  <2>5. Rounds!BonusEarned
    BY <2>1, <2>2 DEF RoundsInv, RoundsPaid, Paid, Earned, Rounds!BonusEarned
  <2>6. QED BY <2>3, <2>4, <2>5 DEF RoundsSound, Rounds!RoundsSound
<1>2. QED BY <1>1, RoundsInvariant, PTL

\* RoundsPaidOnce: whoever counts a round, a timer or the host, it is paid once, and the totals
\* move by what the rounds just counted give.
THEOREM PaidOnce == EnginesSpec => RoundsPaidOnce
<1>1. RoundsInv /\ [EnginesNext]_all_vars => [StepPaid]_(Rounds!vars)
  BY RoundsStep, OnTheRounds
<1>2. EnginesSpec => [][StepPaid]_(Rounds!vars)
  BY <1>1, RoundsInvariant, PTL DEF EnginesSpec
<1>3. QED BY <1>2, PTL DEF StepPaid, RoundsPaidOnce, Rounds!RoundsPaidOnce

\* Both engines hold what they promise, side by side.
THEOREM EnginesHold == EnginesSpec => [](BoardSound /\ RoundsSound)
<1>1. EnginesSpec => Spec
  <2>1. EnginesInit => Init
    BY DEF EnginesInit
  <2>2. QED BY <2>1, OnTheBoard, PTL DEF EnginesSpec, Spec
<1>2. QED BY <1>1, Sound, RoundsHold, PTL
=============================================================================
