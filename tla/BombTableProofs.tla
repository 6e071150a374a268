--------------------------- MODULE BombTableProofs ---------------------------
(***************************************************************************)
(* Proofs about BombTable, for any number of seats and calls and any       *)
(* rules: its type invariant, and what holds of the bomb and of the places *)
(* even when an outdated list of players is played.                        *)
(***************************************************************************)
EXTENDS BombTable, FiniteSetTheorems, TLAPS

-----------------------------------------------------------------------------
\* Rules.

LEMMA SeatsFinite == IsFiniteSet(Seats) /\ Cardinality(Seats) = SeatCount
<1>1. 0 \in Int /\ SeatCount - 1 \in Int /\ ~(0 > SeatCount - 1)
  BY SeatsAssumption
<1>2. QED BY <1>1, FS_Interval, SeatsAssumption DEF Seats

LEMMA LowestIn ==
  ASSUME NEW S \in SUBSET Nat, S # {}
  PROVE  LowestOf(S) \in S
<1> DEFINE Less == {ss \in Nat \X Nat : ss[1] < ss[2]}
<1>1. IsWellFoundedOn(Less, Nat)
  BY NatLessThanWellFounded DEF OpToRel
<1> HIDE DEF Less
<1>2. \E s \in S : \A t \in S : ~(<<t, s>> \in Less)
  BY <1>1, WFMin
<1>3. \E s \in S : \A t \in S : s <= t
  <2>1. PICK s \in S : \A t \in S : ~(<<t, s>> \in Less)
    BY <1>2
  <2>2. ASSUME NEW t \in S PROVE ~(t < s)
    <3>1. <<t, s>> \in Nat \X Nat /\ <<t, s>>[1] = t /\ <<t, s>>[2] = s
      OBVIOUS
    <3>2. QED BY <2>1, <3>1 DEF Less
  <2>3. QED BY <2>2
<1>4. QED BY <1>3 DEF LowestOf

\* The bomb goes to a living player, or stays.
LEMMA NextTurnIn ==
  ASSUME NEW alive \in SUBSET Seats
  PROVE  NextTurn(alive) \in alive \/ (alive = {} /\ NextTurn(alive) = turn)
<1>1. CASE {s \in alive : s > turn} # {}
  <2>1. LowestOf({s \in alive : s > turn}) \in {s \in alive : s > turn}
    BY <1>1, LowestIn DEF Seats
  <2>2. NextTurn(alive) = LowestOf({s \in alive : s > turn})
    BY <1>1 DEF NextTurn
  <2>3. QED BY <2>1, <2>2
<1>2. CASE {s \in alive : s > turn} = {} /\ alive # {}
  <2>1. LowestOf(alive) \in alive
    BY <1>2, LowestIn DEF Seats
  <2>2. NextTurn(alive) = LowestOf(alive)
    BY <1>2 DEF NextTurn
  <2>3. QED BY <2>1, <2>2
<1>3. CASE {s \in alive : s > turn} = {} /\ alive = {}
  BY <1>3 DEF NextTurn
<1>4. QED BY <1>1, <1>2, <1>3

\* A table that goes on has somebody to go on.
LEMMA GoesOn ==
  ASSUME NEW alive, ~IsTableOver(alive)
  PROVE  alive # {}
  BY FS_EmptySet, SeatsAssumption DEF IsTableOver

LEMMA FuseFair == fuse \in Nat => FuseForNext \in Nat /\ FuseForNext >= MinTurn /\ FuseForNext > 0
  BY TimesAssumption DEF FuseForNext

-----------------------------------------------------------------------------
\* The seats out went once each and have no life left; a player on turn with
\* no life left has just closed the table, under a bomb gone off; a seat with a
\* life left has a survivor's place or none.
OutOnce ==
    /\ \A i \in DOMAIN out : lives[out[i]] = 0
    /\ \A i, j \in DOMAIN out : out[i] = out[j] => i = j

HolderLives == lives[turn] = 0 => closed /\ fuse = 0

SurvivorPlaces == \A s \in Seats : lives[s] > 0 => score[s] \in {0, SeatCount + 1}

Inv == TypeOK /\ OutOnce /\ HolderLives /\ SurvivorPlaces /\ DraftIsHolders

\* Distinct seats are no more than there are.
LEMMA Distinct ==
  ASSUME NEW q \in Seq(Seats), \A i, j \in DOMAIN q : q[i] = q[j] => i = j
  PROVE  Len(q) <= SeatCount
<1>1. q \in Injection(1 .. Len(q), Seats)
  BY DEF Injection, IsInjective
<1>2. Cardinality(1 .. Len(q)) <= SeatCount
  BY <1>1, SeatsFinite, FS_Injection
<1>3. Cardinality(1 .. Len(q)) = Len(q)
  <2> DEFINE n == Len(q)
  <2>1. n \in Nat
    OBVIOUS
  <2> HIDE DEF n
  <2>2. 1 \in Int /\ n \in Int
    BY <2>1
  <2>3. Cardinality(1 .. n) = IF 1 > n THEN 0 ELSE n - 1 + 1
    BY <2>2, FS_Interval
  <2>4. Cardinality(1 .. n) = n
    BY <2>1, <2>3
  <2>5. QED BY <2>4 DEF n
<1>4. QED BY <1>2, <1>3

\* Places, read by rank: survivors on top, then who went out by when.
LEMMA PlacesAre ==
  ASSUME NEW gone \in Seq(Seats), \A i, j \in DOMAIN gone : gone[i] = gone[j] => i = j,
         NEW alive \in SUBSET Seats, \A i \in DOMAIN gone : gone[i] \notin alive
  PROVE  /\ \A s \in alive : Places(gone, alive)[s] = SeatCount + 1
         /\ \A i \in DOMAIN gone : Places(gone, alive)[gone[i]] = i
         /\ \A s \in Seats \ alive :
              (\A i \in DOMAIN gone : gone[i] # s) => Places(gone, alive)[s] = score[s]
  BY DEF Places

LEMMA CallType ==
  ASSUME TypeOK, NEW c \in Calls, call[c] # Idle
  PROVE  /\ call[c].players \subseteq Seats
         /\ call[c].kind \in {"submit", "type"} => call[c].who \in Seats
<1>1. call[c] \in Loaded
  BY DEF TypeOK
<1>2. CASE call[c] \in [kind : {"settle"}, players : SUBSET Seats]
  BY <1>2
<1>3. CASE call[c] \in [kind : {"submit", "type"}, who : Seats, players : SUBSET Seats]
  BY <1>3
<1>4. QED BY <1>1, <1>2, <1>3 DEF Loaded

\* The table closes on a list of living players, after lives may have gone.
LEMMA CloseStep ==
  ASSUME Inv, NEW gone \in Seq(Seats), NEW alive \in SUBSET Seats,
         out' = gone, OutOnce',
         lives' \in [Seats -> 0 .. MaxLives],
         \A s \in Seats : lives'[s] > 0 => lives[s] > 0,
         \A s \in alive : lives'[s] > 0,
         lives'[turn] > 0 \/ fuse = 0,
         CloseTable(gone, alive)
  PROVE  /\ score' \in [Seats -> 0 .. SeatCount + 1]
         /\ HolderLives' /\ SurvivorPlaces' /\ DraftIsHolders' /\ PlacesTell'
         /\ closed' = TRUE /\ UNCHANGED <<turn, draft, fuse>>
<1>1. /\ closed' = TRUE /\ UNCHANGED <<turn, draft, fuse>>
      /\ score' = Places(gone, alive)
  BY DEF CloseTable
<1>2. /\ \A i \in DOMAIN gone : lives'[gone[i]] = 0 /\ gone[i] \in Seats
      /\ \A i, j \in DOMAIN gone : gone[i] = gone[j] => i = j
  BY DEF OutOnce
<1>3. \A i \in DOMAIN gone : gone[i] \notin alive
  BY <1>2
<1>4. DOMAIN gone = 1 .. Len(gone) /\ Len(gone) \in Nat /\ Len(gone) <= SeatCount
  BY <1>2, Distinct
<1>5. /\ \A s \in alive : score'[s] = SeatCount + 1
      /\ \A i \in DOMAIN gone : score'[gone[i]] = i
      /\ \A s \in Seats \ alive : (\A i \in DOMAIN gone : gone[i] # s) => score'[s] = score[s]
  BY <1>1, <1>2, <1>3, PlacesAre
<1>6. \A s \in Seats : lives'[s] > 0 => score'[s] \in {0, SeatCount + 1}
  BY <1>2, <1>5 DEF Inv, SurvivorPlaces
<1>7. score' \in [Seats -> 0 .. SeatCount + 1]
  <2>1. DOMAIN score' = Seats
    BY <1>1 DEF Places
  <2>2. score' = [s \in Seats |-> score'[s]]
    BY <1>1 DEF Places
  <2>3. ASSUME NEW s \in Seats PROVE score'[s] \in 0 .. SeatCount + 1
    <3>1. CASE s \in alive
      BY <1>5, <3>1, SeatsAssumption
    <3>2. CASE s \notin alive /\ \A i \in DOMAIN gone : gone[i] # s
      BY <1>5, <3>2 DEF Inv, TypeOK
    <3>3. ASSUME NEW i \in DOMAIN gone, gone[i] = s
          PROVE  score'[s] \in 0 .. SeatCount + 1
      <4>1. score'[s] = i
        BY <1>5, <3>3
      <4>2. i \in 0 .. SeatCount + 1
        BY <1>4, SeatsAssumption
      <4>3. QED BY <4>1, <4>2
    <3>4. QED BY <3>1, <3>2, <3>3
  <2>4. QED BY <2>2, <2>3
<1>8. PlacesTell'
  <2>1. ASSUME NEW i \in DOMAIN gone, NEW j \in DOMAIN gone, i < j
        PROVE  score'[gone[i]] < score'[gone[j]]
    BY <1>5, <2>1
  <2>2. ASSUME NEW s \in Seats, NEW i \in DOMAIN gone, lives'[s] > 0, score'[s] > 0
        PROVE  score'[s] > score'[gone[i]]
    <3>1. score'[s] = SeatCount + 1
      BY <1>6, <2>2
    <3>2. score'[gone[i]] = i /\ i <= SeatCount /\ i \in Nat
      BY <1>4, <1>5, SeatsAssumption
    <3>3. QED BY <3>1, <3>2, SeatsAssumption
  <2>3. QED BY <2>1, <2>2 DEF PlacesTell
<1>9. HolderLives' /\ DraftIsHolders'
  BY <1>1 DEF HolderLives, DraftIsHolders, Inv
<1>10. QED BY <1>1, <1>6, <1>7, <1>8, <1>9 DEF SurvivorPlaces

\* The bomb is handed on among the living, the lives being as they become.
LEMMA PassStep ==
  ASSUME Inv, NEW alive \in SUBSET Seats, alive # {} \/ lives'[turn] > 0,
         lives' \in [Seats -> 0 .. MaxLives],
         \A s \in alive : lives'[s] > 0,
         \A s \in Seats : lives'[s] > 0 => lives[s] > 0,
         PassBomb(alive)
  PROVE  /\ turn' \in Seats /\ draft' = {}
         /\ UNCHANGED <<score, closed>>
         /\ HolderLives' /\ SurvivorPlaces' /\ DraftIsHolders'
<1>1. /\ turn' = NextTurn(alive) /\ draft' = {} /\ UNCHANGED <<score, closed>>
  BY DEF PassBomb
<1>2. turn' \in Seats /\ lives'[turn'] > 0
  BY <1>1, NextTurnIn DEF Inv, TypeOK
<1>3. HolderLives'
  BY <1>2 DEF HolderLives
<1>4. SurvivorPlaces' /\ DraftIsHolders'
  BY <1>1 DEF SurvivorPlaces, DraftIsHolders, Inv
<1>5. QED BY <1>1, <1>2, <1>3, <1>4

\* What a step of the engine keeps, and what it says of the bomb and the places.
Kept ==
    /\ Inv'
    /\ turn' # turn => fuse' >= IF MinTurn < FuseMin THEN MinTurn ELSE FuseMin
    /\ score' # score => PlacesTell'

\* The bomb went off on the player on turn: `after' still live, `gone' are out.
LEMMA BlastInto ==
  ASSUME Inv, NEW left \in 0 .. MaxLives, NEW after \in SUBSET Seats, NEW gone \in Seq(Seats),
         lives[turn] > 0, fuse = 0,
         lives' = [lives EXCEPT ![turn] = left], out' = gone, OutOnce',
         \A s \in after : lives'[s] > 0,
         \/ IsTableOver(after) /\ CloseTable(gone, after)
         \/ ~IsTableOver(after) /\ PassBomb(after) /\ fuse' \in FuseMin .. FuseMax,
         UNCHANGED <<startsIn, present, words>>,
         call' \in [Calls -> {Idle} \union Loaded]
  PROVE  Kept
<1>1. /\ lives' \in [Seats -> 0 .. MaxLives]
      /\ \A s \in Seats : lives'[s] > 0 => lives[s] > 0
  BY DEF Inv, TypeOK
<1>2. CASE IsTableOver(after) /\ CloseTable(gone, after)
  <2>1. /\ score' \in [Seats -> 0 .. SeatCount + 1]
        /\ HolderLives' /\ SurvivorPlaces' /\ DraftIsHolders' /\ PlacesTell'
        /\ closed' = TRUE /\ UNCHANGED <<turn, draft, fuse>>
    BY <1>1, <1>2, CloseStep
  <2>2. TypeOK'
    BY <1>1, <2>1 DEF Inv, TypeOK
  <2>3. QED BY <2>1, <2>2 DEF Kept, Inv
<1>3. CASE ~IsTableOver(after) /\ PassBomb(after) /\ fuse' \in FuseMin .. FuseMax
  <2>1. /\ turn' \in Seats /\ draft' = {}
        /\ UNCHANGED <<score, closed>>
        /\ HolderLives' /\ SurvivorPlaces' /\ DraftIsHolders'
    BY <1>1, <1>3, GoesOn, PassStep
  <2>2. fuse' \in Nat /\ fuse' >= FuseMin
    BY <1>3, TimesAssumption
  <2>3. TypeOK'
    BY <1>1, <2>1, <2>2 DEF Inv, TypeOK
  <2>4. QED BY <2>1, <2>2, <2>3, TimesAssumption DEF Kept, Inv
<1>4. QED BY <1>2, <1>3

\* The bomb goes off on a living player on turn.
LEMMA BlastStep ==
  ASSUME Inv, NEW alive \in SUBSET Seats, \A s \in alive : lives[s] > 0,
         turn \in alive, fuse = 0, BlastTurn(alive),
         UNCHANGED <<startsIn, present, words>>,
         call' \in [Calls -> {Idle} \union Loaded]
  PROVE  Kept
<1>1. /\ lives[turn] \in 1 .. MaxLives
      /\ turn \in Seats /\ out \in Seq(Seats) /\ lives \in [Seats -> 0 .. MaxLives]
  BY LivesAssumption DEF Inv, TypeOK
<1>2. \A i \in DOMAIN out : lives[out[i]] = 0 /\ out[i] # turn /\ out[i] \in Seats
  BY <1>1 DEF Inv, OutOnce
<1>3. CASE lives[turn] - 1 > 0
  <2>1. /\ lives' = [lives EXCEPT ![turn] = lives[turn] - 1]
        /\ out' = out
        /\ \/ IsTableOver(alive) /\ CloseTable(out, alive)
           \/ ~IsTableOver(alive) /\ PassBomb(alive) /\ fuse' \in FuseMin .. FuseMax
    BY <1>3 DEF BlastTurn
  <2>2. lives[turn] - 1 \in 0 .. MaxLives /\ lives[turn] > 0
    BY <1>1, LivesAssumption
  <2>3. \A s \in alive : lives'[s] > 0
    BY <1>1, <1>3, <2>1
  <2>4. OutOnce'
    BY <1>1, <1>2, <2>1 DEF Inv, OutOnce
  <2>5. QED BY <1>1, <2>1, <2>2, <2>3, <2>4, BlastInto
<1>4. CASE ~(lives[turn] - 1 > 0)
  <2>1. lives[turn] - 1 = 0 /\ 0 \in 0 .. MaxLives /\ lives[turn] > 0
    BY <1>1, <1>4, LivesAssumption
  <2>2. /\ lives' = [lives EXCEPT ![turn] = 0]
        /\ out' = Append(out, turn)
        /\ \/ IsTableOver(alive \ {turn}) /\ CloseTable(Append(out, turn), alive \ {turn})
           \/ /\ ~IsTableOver(alive \ {turn})
              /\ PassBomb(alive \ {turn}) /\ fuse' \in FuseMin .. FuseMax
    BY <1>4, <2>1 DEF BlastTurn
  <2>3. \A s \in alive \ {turn} : lives'[s] > 0
    BY <1>1, <2>2
  <2>4. OutOnce'
    <3>1. /\ DOMAIN out' = 1 .. Len(out) + 1 /\ DOMAIN out = 1 .. Len(out)
          /\ out'[Len(out) + 1] = turn
          /\ \A i \in DOMAIN out : out'[i] = out[i]
          /\ Len(out) \in Nat
      BY <1>1, <2>2
    <3>2. \A i \in DOMAIN out' : i \in DOMAIN out \/ i = Len(out) + 1
      BY <3>1
    <3>3. \A i \in DOMAIN out' : lives'[out'[i]] = 0
      BY <1>1, <1>2, <2>2, <3>1, <3>2
    <3>4. \A i, j \in DOMAIN out' : out'[i] = out'[j] => i = j
      BY <1>2, <3>1, <3>2 DEF Inv, OutOnce
    <3>5. QED BY <3>3, <3>4 DEF OutOnce
  <2>5. Append(out, turn) \in Seq(Seats) /\ alive \ {turn} \in SUBSET Seats
    BY <1>1
  <2>6. QED BY <2>1, <2>2, <2>3, <2>4, <2>5, BlastInto
<1>5. QED BY <1>3, <1>4

LEMMA SettleStep ==
  ASSUME Inv, NEW c \in Calls, SettleTable(c)
  PROVE  Kept
<1> DEFINE alive == Alive(call[c].players)
<1>1. /\ call[c] # Idle
      /\ call' = [call EXCEPT ![c] = Idle]
      /\ UNCHANGED <<startsIn, present, words>>
  BY DEF SettleTable, Idle
<1>2. alive \in SUBSET Seats /\ \A s \in alive : lives[s] > 0
  BY <1>1, CallType DEF Alive, Inv
<1>3. call' \in [Calls -> {Idle} \union Loaded]
  BY <1>1 DEF Inv, TypeOK
<1>4. \/ IsTableOver(alive) /\ CloseTable(out, alive) /\ UNCHANGED <<lives, out>>
      \/ /\ ~IsTableOver(alive) /\ PassBomb(alive) /\ fuse' = FuseForNext
         /\ UNCHANGED <<lives, out>>
      \/ ~IsTableOver(alive) /\ turn \in alive /\ fuse = 0 /\ BlastTurn(alive)
      \/ UNCHANGED <<lives, out, turn, draft, fuse, score, closed>>
  BY DEF SettleTable
<1> HIDE DEF alive
<1>5. CASE IsTableOver(alive) /\ CloseTable(out, alive) /\ UNCHANGED <<lives, out>>
  <2>1. OutOnce' /\ out \in Seq(Seats) /\ lives \in [Seats -> 0 .. MaxLives]
    BY <1>5 DEF Inv, OutOnce, TypeOK
  <2>2. lives[turn] > 0 \/ fuse = 0
    BY DEF Inv, HolderLives, TypeOK
  <2>3. /\ score' \in [Seats -> 0 .. SeatCount + 1]
        /\ HolderLives' /\ SurvivorPlaces' /\ DraftIsHolders' /\ PlacesTell'
        /\ closed' = TRUE /\ UNCHANGED <<turn, draft, fuse>>
    BY <1>2, <1>5, <2>1, <2>2, CloseStep
  <2>4. TypeOK'
    BY <1>1, <1>3, <1>5, <2>3 DEF Inv, TypeOK
  <2>5. QED BY <2>1, <2>3, <2>4 DEF Kept, Inv
<1>6. CASE /\ ~IsTableOver(alive) /\ PassBomb(alive) /\ fuse' = FuseForNext
           /\ UNCHANGED <<lives, out>>
  <2>1. OutOnce' /\ lives \in [Seats -> 0 .. MaxLives]
    BY <1>6 DEF Inv, OutOnce, TypeOK
  <2>2. /\ turn' \in Seats /\ draft' = {}
        /\ UNCHANGED <<score, closed>>
        /\ HolderLives' /\ SurvivorPlaces' /\ DraftIsHolders'
    BY <1>2, <1>6, <2>1, GoesOn, PassStep
  <2>3. fuse' \in Nat /\ fuse' >= MinTurn
    BY <1>6, FuseFair DEF Inv, TypeOK
  <2>4. TypeOK'
    BY <1>1, <1>3, <1>6, <2>2, <2>3 DEF Inv, TypeOK
  <2>5. QED BY <2>1, <2>2, <2>3, <2>4, TimesAssumption DEF Kept, Inv
<1>7. CASE ~IsTableOver(alive) /\ turn \in alive /\ fuse = 0 /\ BlastTurn(alive)
  BY <1>1, <1>2, <1>3, <1>7, BlastStep
<1>8. CASE UNCHANGED <<lives, out, turn, draft, fuse, score, closed>>
  BY <1>1, <1>3, <1>8
  DEF Kept, Inv, TypeOK, OutOnce, HolderLives, SurvivorPlaces, DraftIsHolders
<1>9. QED BY <1>4, <1>5, <1>6, <1>7, <1>8

LEMMA SubmitStep ==
  ASSUME Inv, NEW c \in Calls, SubmitWord(c)
  PROVE  Kept
<1> DEFINE who == call[c].who
           alive == Alive(call[c].players)
<1>1. /\ call[c] # Idle /\ call[c].kind = "submit"
      /\ call' = [call EXCEPT ![c] = Idle]
      /\ UNCHANGED present
  BY DEF SubmitWord, Idle
<1>2. who \in Seats /\ alive \in SUBSET Seats /\ \A s \in alive : lives[s] > 0
  BY <1>1, CallType DEF Alive, Inv
<1>3. call' \in [Calls -> {Idle} \union Loaded]
  BY <1>1 DEF Inv, TypeOK
<1>4. \/ UNCHANGED <<tableVars, words>>
      \/ /\ who = turn /\ draft' = {turn}
         /\ UNCHANGED <<lives, out, turn, startsIn, fuse, score, closed, words>>
      \/ /\ who = turn /\ fuse > 0
         /\ words < MaxWords /\ words' = words + 1
         /\ \E l \in Healed(turn) : lives' = [lives EXCEPT ![turn] = l]
         /\ PassBomb(alive)
         /\ fuse' = FuseForNext
         /\ UNCHANGED <<out, startsIn>>
  BY DEF SubmitWord
<1> HIDE DEF who, alive
<1>5. CASE UNCHANGED <<tableVars, words>>
  BY <1>1, <1>3, <1>5
  DEF Kept, Inv, TypeOK, OutOnce, HolderLives, SurvivorPlaces, DraftIsHolders, tableVars
<1>6. CASE /\ who = turn /\ draft' = {turn}
           /\ UNCHANGED <<lives, out, turn, startsIn, fuse, score, closed, words>>
  BY <1>1, <1>3, <1>6
  DEF Kept, Inv, TypeOK, OutOnce, HolderLives, SurvivorPlaces, DraftIsHolders
<1>7. CASE /\ who = turn /\ fuse > 0
           /\ words < MaxWords /\ words' = words + 1
           /\ \E l \in Healed(turn) : lives' = [lives EXCEPT ![turn] = l]
           /\ PassBomb(alive)
           /\ fuse' = FuseForNext
           /\ UNCHANGED <<out, startsIn>>
  <2>1. lives[turn] > 0 /\ turn \in Seats /\ lives \in [Seats -> 0 .. MaxLives]
    BY <1>7 DEF Inv, TypeOK, HolderLives
  <2>2. PICK l \in Healed(turn) : lives' = [lives EXCEPT ![turn] = l]
    BY <1>7
  <2>3. l \in 1 .. MaxLives
    BY <2>1, LivesAssumption DEF Healed
  <2>4. /\ lives' \in [Seats -> 0 .. MaxLives]
        /\ lives'[turn] > 0
        /\ \A s \in Seats \ {turn} : lives'[s] = lives[s]
    BY <2>1, <2>2, <2>3, LivesAssumption
  <2>5. OutOnce'
    <3>1. \A i \in DOMAIN out : out[i] \in Seats /\ out[i] # turn
      BY <2>1 DEF Inv, OutOnce, TypeOK
    <3>2. QED BY <1>7, <2>4, <3>1 DEF Inv, OutOnce
  <2>6. /\ turn' \in Seats /\ draft' = {}
        /\ UNCHANGED <<score, closed>>
        /\ HolderLives' /\ SurvivorPlaces' /\ DraftIsHolders'
    <3>1. \A s \in Seats : lives'[s] > 0 => lives[s] > 0
      BY <2>1, <2>4
    <3>2. \A s \in alive : lives'[s] > 0
      BY <1>2, <2>4
    <3>3. QED BY <1>2, <1>7, <2>4, <3>1, <3>2, PassStep
  <2>7. fuse' \in Nat /\ fuse' >= MinTurn
    BY <1>7, FuseFair DEF Inv, TypeOK
  <2>8. words' \in 0 .. MaxWords
    BY <1>7, WordsAssumption DEF Inv, TypeOK
  <2>9. TypeOK'
    BY <1>1, <1>3, <1>7, <2>4, <2>6, <2>7, <2>8 DEF Inv, TypeOK
  <2>10. QED BY <2>5, <2>6, <2>7, <2>9, TimesAssumption DEF Kept, Inv
<1>8. QED BY <1>4, <1>5, <1>6, <1>7

LEMMA Step == Inv /\ [Next]_vars => Kept
<1> SUFFICES ASSUME Inv, [Next]_vars PROVE Kept
  OBVIOUS
<1>1. ASSUME NEW c \in Calls, TypeDraft(c)
      PROVE  Kept
  <2>1. /\ draft' \in {draft, {turn}}
        /\ call' = [call EXCEPT ![c] = Idle]
        /\ UNCHANGED <<lives, out, turn, startsIn, fuse, score, closed, present, words>>
    BY <1>1 DEF TypeDraft
  <2>2. QED
    BY <2>1 DEF Kept, Inv, TypeOK, OutOnce, HolderLives, SurvivorPlaces, DraftIsHolders
<1>2. ASSUME NEW c \in Calls, LoadSettle(c) \/ LoadMove(c)
      PROVE  Kept
  <2>1. UNCHANGED <<tableVars, present, words>>
    BY <1>2 DEF LoadSettle, LoadMove
  <2>2. \E l \in Loaded : call' = [call EXCEPT ![c] = l]
    <3>1. present \subseteq Seats
      BY DEF Inv, TypeOK
    <3>2. CASE LoadSettle(c)
      <4>1. [kind |-> "settle", players |-> present] \in Loaded
        BY <3>1 DEF Loaded
      <4>2. QED BY <3>2, <4>1 DEF LoadSettle
    <3>3. CASE LoadMove(c)
      <4>1. PICK who \in present, kind \in {"submit", "type"} :
              call' = [call EXCEPT ![c] = [kind |-> kind, who |-> who, players |-> present]]
        BY <3>3 DEF LoadMove
      <4>2. [kind |-> kind, who |-> who, players |-> present] \in Loaded
        BY <3>1 DEF Loaded
      <4>3. QED BY <4>1, <4>2
    <3>4. QED BY <1>2, <3>2, <3>3
  <2>3. call' \in [Calls -> {Idle} \union Loaded]
    BY <2>2 DEF Inv, TypeOK
  <2>4. QED
    BY <2>1, <2>3
    DEF Kept, Inv, TypeOK, OutOnce, HolderLives, SurvivorPlaces, DraftIsHolders, tableVars
<1>3. ASSUME NEW s \in Seats, Leave(s)
      PROVE  Kept
  BY <1>3 DEF Leave, Kept, Inv, TypeOK, OutOnce, HolderLives, SurvivorPlaces, DraftIsHolders,
              tableVars
<1>4. CASE Tick
  <2>1. /\ fuse > 0 /\ fuse' = fuse - 1
        /\ UNCHANGED <<lives, out, turn, draft, score, closed, present, call, words>>
    BY <1>4 DEF Tick
  <2>2. startsIn' \in Nat
    BY <1>4 DEF Tick, Inv, TypeOK
  <2>3. lives[turn] # 0
    BY <2>1 DEF Inv, HolderLives
  <2>4. fuse' \in Nat
    BY <2>1 DEF Inv, TypeOK
  <2>5. TypeOK'
    BY <2>1, <2>2, <2>4 DEF Inv, TypeOK
  <2>6. QED
    BY <2>1, <2>3, <2>5 DEF Kept, Inv, OutOnce, HolderLives, SurvivorPlaces, DraftIsHolders
<1>5. CASE UNCHANGED vars
  BY <1>5 DEF vars, Kept, Inv, TypeOK, OutOnce, HolderLives, SurvivorPlaces, DraftIsHolders,
              tableVars
<1>6. QED BY <1>1, <1>2, <1>3, <1>4, <1>5, SettleStep, SubmitStep DEF Next, Run

LEMMA Start == Init => Inv
<1> SUFFICES ASSUME Init PROVE Inv
  OBVIOUS
<1>1. /\ lives \in [Seats -> 0 .. MaxLives]
      /\ \A s \in Seats : lives[s] # 0
      /\ turn = 0 /\ 0 \in Seats
  BY LivesAssumption, SeatsAssumption DEF Init, Seats
<1>2. fuse \in Nat /\ startsIn \in Nat
  BY TimesAssumption DEF Init
<1>3. score \in [Seats -> 0 .. SeatCount + 1] /\ \A s \in Seats : score[s] = 0
  BY SeatsAssumption DEF Init
<1>4. out = <<>> /\ out \in Seq(Seats) /\ DOMAIN out = {}
  BY DEF Init
<1>5. words \in 0 .. MaxWords
  BY WordsAssumption DEF Init
<1>6. TypeOK
  BY <1>1, <1>2, <1>3, <1>4, <1>5 DEF Init, TypeOK
<1>7. OutOnce /\ HolderLives /\ SurvivorPlaces /\ DraftIsHolders
  BY <1>1, <1>3, <1>4 DEF Init, OutOnce, HolderLives, SurvivorPlaces, DraftIsHolders
<1>8. QED BY <1>6, <1>7 DEF Inv

\* The inductive invariant: the seats out went once each, and a dead player is
\* on turn only under the bomb that closed the table.
THEOREM Invariant == Spec => []Inv
<1>1. Inv /\ [Next]_vars => Inv'
  BY Step DEF Kept
<1>2. QED BY <1>1, Start, PTL DEF Spec

\* TypeOK: lives, places and fuse stay in their ranges, for any rules.
THEOREM TypeCorrect == Spec => []TypeOK
<1>1. Inv => TypeOK
  BY DEF Inv
<1>2. QED BY <1>1, Invariant, PTL

\* HolderAlive: passBomb and nextTurn hand the bomb to the living, on whatever
\* list of players a word or a blast is played.
THEOREM Holder == Spec => []HolderAlive
<1>1. Inv => HolderAlive
  BY DEF Inv, HolderLives, HolderAlive, TypeOK
<1>2. QED BY <1>1, Invariant, PTL

\* DraftIsHolders: the text shown is the holder's, although typeDraft does not
\* hold the row.
THEOREM Draft == Spec => []DraftIsHolders
<1>1. Inv => DraftIsHolders
  BY DEF Inv
<1>2. QED BY <1>1, Invariant, PTL

\* FairFuse: whoever is handed the bomb has time to answer (fuseForNext).
THEOREM Fuse == Spec => FairFuse
<1>1. Inv /\ [Next]_vars =>
        [turn' # turn => fuse' >= IF MinTurn < FuseMin THEN MinTurn ELSE FuseMin]_vars
  BY Step DEF Kept
<1>2. QED BY <1>1, Invariant, PTL DEF Spec, FairFuse

\* ScoresRank: the places closeTable writes tell who went out when, for any
\* number of seats and calls.
THEOREM Ranks == Spec => ScoresRank
<1>1. Inv /\ [Next]_vars => [score' # score => PlacesTell']_vars
  BY Step DEF Kept
<1>2. QED BY <1>1, Invariant, PTL DEF Spec, ScoresRank
=============================================================================
