-------------------------- MODULE PlayTablesProofs --------------------------
(***************************************************************************)
(* Proofs about PlayTables, for any players, tables, calls and bounds: its *)
(* type invariant and the safety properties TLC checks on small instances. *)
(***************************************************************************)
EXTENDS PlayTables, FiniteSetTheorems, TLAPS

Seats == [Players -> {"none", "in", "left", "kicked"}]

-----------------------------------------------------------------------------
\* TypeOK: every variable keeps its type through every step.
LEMMA FlightType ==
  ASSUME TypeOK, NEW c \in Calls, call[c] # Idle
  PROVE  /\ call[c] \in Flight
         /\ call[c].who \in Players
         /\ call[c].keep \subseteq Tables
         /\ call[c].left \subseteq Tables
         /\ call[c].at \in {"creating", "seating", "others", "leaving"}
<1>1. call[c] \in Flight
  BY DEF TypeOK
<1>2. QED BY <1>1 DEF Flight

LEMMA GoType ==
  ASSUME TypeOK, NEW c \in Calls,
         NEW at \in {"creating", "seating", "others", "leaving"}, NEW who \in Players,
         NEW keep \in SUBSET Tables, NEW left \in SUBSET Tables,
         Go(c, at, who, keep, left)
  PROVE  call' \in [Calls -> {Idle} \union Flight]
<1>1. [at |-> at, who |-> who, keep |-> keep, left |-> left] \in Flight
  BY DEF Flight
<1>2. QED BY <1>1 DEF Go, TypeOK

LEMMA RestType ==
  ASSUME TypeOK, NEW c \in Calls, Rest(c)
  PROVE  call' \in [Calls -> {Idle} \union Flight]
  BY DEF Rest, TypeOK

\* What a departure does to its table, and that it does nothing to the others.
LEMMA DepartType ==
  ASSUME TypeOK, NEW p \in Players, NEW s \in Tables, NEW how \in {"left", "kicked"},
         Depart(p, s, how)
  PROVE  /\ status' \in [Tables -> {"NEW", "LOBBY", "RUNNING", "FINISHED", "ABANDONED"}]
         /\ host' \in [Tables -> SUBSET Players]
         /\ seat' \in [Tables -> Seats]
<1>1. seat' \in [Tables -> Seats]
  BY DEF TypeOK, Depart, Seats
<1>2. CASE Present(s) = {p}
  BY <1>1, <1>2 DEF TypeOK, Depart
<1>3. CASE Present(s) # {p}
  <2>1. status' = status
    BY <1>3 DEF Depart
  <2>2. host' = host \/ \E h \in Players : host' = [host EXCEPT ![s] = {h}]
    BY <1>3 DEF Depart, Present
  <2>3. host' \in [Tables -> SUBSET Players]
    BY <2>2 DEF TypeOK
  <2>4. QED BY <1>1, <2>1, <2>3 DEF TypeOK
<1>4. QED BY <1>2, <1>3

LEMMA TypeInit == Init => TypeOK
  BY BoundsAssumption DEF Init, TypeOK, Seats

LEMMA SeatingType ==
  ASSUME TypeOK, NEW c \in Calls, Seating(c)
  PROVE  TypeOK'
<1>1. ASSUME NEW p \in Players, NEW s \in Tables,
             CreateSession(c, p, s) \/ JoinSession(c, p, s) \/ SeatBack(c, p, s)
      PROVE  TypeOK'
  <2>1. /\ UNCHANGED <<tableVars, banned, noteVars>>
        /\ Go(c, "creating", p, {s}, {}) \/ Go(c, "seating", p, {s}, {})
    BY <1>1 DEF CreateSession, JoinSession, SeatBack
  <2>2. call' \in [Calls -> {Idle} \union Flight]
    BY <2>1, GoType
  <2>3. QED BY <2>1, <2>2 DEF TypeOK, tableVars, noteVars
<1>2. ASSUME NEW p \in Players, SetPlayBan(c, p) \/ RemoveFromPlay(c, p)
      PROVE  TypeOK'
  <2>1. /\ UNCHANGED <<tableVars, reverted, loose>>
        /\ Go(c, "others", p, {}, {})
        /\ bans < MaxBans /\ bans' = bans + 1
        /\ banned' \in {banned, banned \union {p}}
    BY <1>2 DEF SetPlayBan, RemoveFromPlay
  <2>2. call' \in [Calls -> {Idle} \union Flight]
    BY <2>1, GoType
  <2>3. bans' \in 0..MaxBans
    BY <2>1, BoundsAssumption DEF TypeOK
  <2>4. QED BY <2>1, <2>2, <2>3 DEF TypeOK, tableVars
<1>3. CASE CommitCreate(c)
  <2>1. /\ call[c] # Idle
        /\ Go(c, "others", call[c].who, call[c].keep, {})
        /\ UNCHANGED <<launching, rematched, banned, noteVars>>
    BY <1>3 DEF CommitCreate, Idle
  <2>2. call' \in [Calls -> {Idle} \union Flight]
    BY <2>1, GoType, FlightType
  <2>3. PICK s \in call[c].keep :
          /\ status' = [status EXCEPT ![s] = "LOBBY"]
          /\ host' = [host EXCEPT ![s] = {call[c].who}]
          /\ seat' = [seat EXCEPT ![s][call[c].who] = "in"]
    BY <1>3 DEF CommitCreate
  <2>4. s \in Tables /\ call[c].who \in Players
    BY <2>1, FlightType
  <2>5. QED BY <2>1, <2>2, <2>3, <2>4 DEF TypeOK, noteVars
<1>4. CASE CommitSeat(c)
  <2>1. /\ call[c] # Idle
        /\ Go(c, "others", call[c].who, call[c].keep, {})
        /\ UNCHANGED <<status, host, launching, rematched, banned, noteVars>>
    BY <1>4 DEF CommitSeat, Idle
  <2>2. call' \in [Calls -> {Idle} \union Flight]
    BY <2>1, GoType, FlightType
  <2>3. PICK s \in call[c].keep : seat' = [seat EXCEPT ![s][call[c].who] = "in"]
    BY <1>4 DEF CommitSeat
  <2>4. s \in Tables /\ call[c].who \in Players
    BY <2>1, FlightType
  <2>5. QED BY <2>1, <2>2, <2>3, <2>4 DEF TypeOK, noteVars
<1>5. CASE ReadOthers(c)
  <2>1. /\ call[c] # Idle
        /\ UNCHANGED <<tableVars, banned, noteVars>>
        /\ Rest(c) \/ Go(c, "leaving", call[c].who, call[c].keep, OpenSeats(call[c].who) \ call[c].keep)
    BY <1>5 DEF ReadOthers, Idle
  <2>2. OpenSeats(call[c].who) \ call[c].keep \in SUBSET Tables
    BY DEF OpenSeats
  <2>3. call' \in [Calls -> {Idle} \union Flight]
    BY <2>1, <2>2, GoType, RestType, FlightType
  <2>4. QED BY <2>1, <2>3 DEF TypeOK, tableVars, noteVars
<1>6. CASE LeaveNext(c)
  <2>1. call[c] # Idle /\ UNCHANGED <<launching, rematched, banned, reverted, bans>>
    BY <1>6 DEF LeaveNext, Idle
  <2>2. PICK s \in call[c].left :
          \/ /\ Depart(call[c].who, s, "left")
             /\ \/ Rest(c)
                \/ Go(c, "leaving", call[c].who, call[c].keep, call[c].left \ {s})
             /\ loose' = loose
          \/ /\ UNCHANGED <<status, host, seat>>
             /\ Rest(c)
             /\ loose' \in {loose, loose \union {call[c].who}}
    BY <1>6 DEF LeaveNext
  <2>3. s \in Tables /\ call[c].who \in Players /\ call[c].left \ {s} \in SUBSET Tables
    BY <2>1, FlightType
  <2>4. call' \in [Calls -> {Idle} \union Flight]
    BY <2>1, <2>2, <2>3, GoType, RestType, FlightType
  <2>5. loose' \subseteq Players
    BY <2>2, <2>3 DEF TypeOK
  <2>6. /\ status' \in [Tables -> {"NEW", "LOBBY", "RUNNING", "FINISHED", "ABANDONED"}]
        /\ host' \in [Tables -> SUBSET Players]
        /\ seat' \in [Tables -> Seats]
    BY <2>2, <2>3, DepartType DEF TypeOK, Seats
  <2>7. QED BY <2>1, <2>4, <2>5, <2>6 DEF TypeOK, Seats
<1>7. QED BY <1>1, <1>2, <1>3, <1>4, <1>5, <1>6 DEF Seating

LEMMA TableType ==
  ASSUME TypeOK, NEW s \in Tables, Table(s)
  PROVE  TypeOK'
<1>1. ASSUME NEW p \in Players, LeaveSession(p, s) \/ KickPlayer(p, s)
      PROVE  TypeOK'
  <2>1. /\ Depart(p, s, "left") \/ Depart(p, s, "kicked")
        /\ UNCHANGED <<launching, rematched, banned, call, noteVars>>
    BY <1>1 DEF LeaveSession, KickPlayer
  <2>2. /\ status' \in [Tables -> {"NEW", "LOBBY", "RUNNING", "FINISHED", "ABANDONED"}]
        /\ host' \in [Tables -> SUBSET Players]
        /\ seat' \in [Tables -> Seats]
    BY <2>1, DepartType
  <2>3. QED BY <2>1, <2>2 DEF TypeOK, Seats, noteVars
<1>2. ASSUME NEW p \in Players, StandUp(p, s)
      PROVE  TypeOK'
  BY <1>2 DEF StandUp, TypeOK, noteVars
<1>3. CASE CancelSession(s)
  BY <1>3 DEF CancelSession, TypeOK, noteVars
<1>4. CASE StartSession(s)
  BY <1>4 DEF StartSession, TypeOK, noteVars
<1>5. CASE OpenTable(s)
  BY <1>5 DEF OpenTable, TypeOK, noteVars
<1>6. CASE RevertStart(s)
  BY <1>6 DEF RevertStart, TypeOK, noteVars, Present
<1>7. CASE FinishSession(s)
  BY <1>7 DEF FinishSession, TypeOK, noteVars
<1>8. CASE StopRunning(s)
  BY <1>8 DEF StopRunning, TypeOK, noteVars
<1>9. ASSUME NEW t \in Tables, RematchSession(s, t)
      PROVE  TypeOK'
  <2>1. /\ UNCHANGED <<launching, banned, call, reverted, bans>>
        /\ rematched' = rematched \union {s}
        /\ status' = [status EXCEPT ![t] = "LOBBY"]
        /\ loose' = loose \union {p \in Present(s) : OpenSeats(p) # {}}
    BY <1>9 DEF RematchSession
  <2>2. \E h \in SUBSET Players : host' = [host EXCEPT ![t] = h]
    <3>1. CASE host[s] \subseteq Present(s) \/ Present(s) = {}
      BY <1>9, <3>1 DEF RematchSession, TypeOK
    <3>2. CASE ~(host[s] \subseteq Present(s) \/ Present(s) = {})
      BY <1>9, <3>2 DEF RematchSession, Present
    <3>3. QED BY <3>1, <3>2
  <2>3. seat' = [seat EXCEPT ![t] = [p \in Players |-> IF p \in Present(s) THEN "in" ELSE "none"]]
    BY <1>9 DEF RematchSession
  <2>4. QED BY <2>1, <2>2, <2>3 DEF TypeOK, Present
<1>10. QED BY <1>1, <1>2, <1>3, <1>4, <1>5, <1>6, <1>7, <1>8, <1>9 DEF Table

LEMMA TypeStep == TypeOK /\ [Next]_vars => TypeOK'
<1> SUFFICES ASSUME TypeOK, [Next]_vars PROVE TypeOK'
  OBVIOUS
<1>1. ASSUME NEW p \in Players, LiftPlayBan(p)
      PROVE  TypeOK'
  BY <1>1 DEF LiftPlayBan, TypeOK, tableVars, noteVars
<1>2. CASE Crash
  BY <1>2 DEF Crash, TypeOK
<1>3. CASE UNCHANGED vars
  BY <1>3 DEF vars, TypeOK, tableVars, noteVars
<1>4. QED BY <1>1, <1>2, <1>3, SeatingType, TableType DEF Next

\* TypeOK: the rows and calls of PlayTables keep their shape.
THEOREM TypeCorrect == Spec => []TypeOK
  BY TypeInit, TypeStep, PTL DEF Spec

-----------------------------------------------------------------------------
\* The rows a seating holds, and the tables it may count on.

\* A table nobody opened yet has nobody and is not launched.
NewEmpty ==
    \A s \in Tables :
        status[s] = "NEW" => s \notin launching /\ \A p \in Players : seat[s][p] = "none"

\* A table about to be created has an id of its own.
CreatesNew ==
    \A c \in Calls : call[c].at = "creating" =>
        \E s \in Tables : call[c].keep = {s} /\ status[s] = "NEW"

CreatesAlone ==
    \A c, d \in Calls :
        (c # d /\ call[c].at = "creating" /\ call[d].at = "creating") =>
            call[c].keep \intersect call[d].keep = {}

\* What a seating checked holds until it commits.
SeatsHeld ==
    \A c \in Calls : call[c].at = "seating" =>
        \E s \in Tables :
            /\ call[c].keep = {s}
            /\ status[s] # "NEW"
            /\ seat[s][call[c].who] \in {"none", "left"}
            /\ Cardinality(Present(s)) < MaxPlayers

SeatsAlone ==
    \A c, d \in Calls :
        (c # d /\ call[c].at = "seating" /\ call[d].at = "seating") =>
            call[c].keep \intersect call[d].keep = {}

Locks ==
    /\ TypeOK
    /\ NewEmpty
    /\ CreatesNew
    /\ CreatesAlone
    /\ SeatsHeld
    /\ SeatsAlone

LEMMA LocksInit == Init => Locks
<1> SUFFICES ASSUME Init PROVE Locks
  OBVIOUS
<1>1. \A c \in Calls : call[c].at = "rest"
  BY DEF Init, Idle
<1>2. QED
  BY <1>1, TypeInit
  DEF Init, Locks, NewEmpty, CreatesNew, CreatesAlone, SeatsHeld, SeatsAlone

\* A step that only ends checks, or moves calls past them, keeps the locks.
LEMMA LocksCalls ==
  ASSUME Locks, TypeOK', UNCHANGED <<status, seat>>, launching' \subseteq launching,
         \A d \in Calls : call'[d] = call[d] \/ call'[d].at \notin {"creating", "seating"}
  PROVE  Locks'
<1>1. \A s \in Tables : Present(s)' = Present(s)
  BY DEF Present
<1>2. NewEmpty' /\ CreatesNew' /\ CreatesAlone' /\ SeatsAlone'
  BY DEF Locks, NewEmpty, CreatesNew, CreatesAlone, SeatsAlone
<1>3. SeatsHeld'
  BY <1>1 DEF Locks, SeatsHeld
<1>4. QED BY <1>2, <1>3 DEF Locks

\* So does a step on one table whose row no seating holds.
LEMMA LocksTable ==
  ASSUME Locks, TypeOK', NEW s \in Tables, Free(s),
         status[s] # "NEW", status'[s] # "NEW",
         \A t \in Tables \ {s} : status'[t] = status[t] /\ seat'[t] = seat[t],
         launching' \subseteq launching \union {s},
         \A d \in Calls : call'[d] = call[d] \/ call'[d].at \notin {"creating", "seating"}
  PROVE  Locks'
<1>1. \A t \in Tables \ {s} : Present(t)' = Present(t)
  BY DEF Present
<1>2. NewEmpty' /\ CreatesNew' /\ CreatesAlone' /\ SeatsAlone'
  BY DEF Locks, NewEmpty, CreatesNew, CreatesAlone, SeatsAlone
<1>3. SeatsHeld'
  <2> SUFFICES ASSUME NEW c \in Calls, call'[c].at = "seating"
               PROVE  (\E t \in Tables :
                        /\ call[c].keep = {t}
                        /\ status[t] # "NEW"
                        /\ seat[t][call[c].who] \in {"none", "left"}
                        /\ Cardinality(Present(t)) < MaxPlayers)'
    BY DEF SeatsHeld
  <2>1. call'[c] = call[c] /\ call[c].at = "seating"
    OBVIOUS
  <2>2. PICK t \in Tables :
          /\ call[c].keep = {t}
          /\ status[t] # "NEW"
          /\ seat[t][call[c].who] \in {"none", "left"}
          /\ Cardinality(Present(t)) < MaxPlayers
    BY <2>1 DEF Locks, SeatsHeld
  <2>3. t # s
    BY <2>1, <2>2 DEF Free
  <2>4. QED BY <1>1, <2>1, <2>2, <2>3
<1>4. QED BY <1>2, <1>3 DEF Locks

\* The check of a seating: its row joins the locks.
LEMMA LocksCheck ==
  ASSUME Locks, TypeOK', NEW c \in Calls, NEW p \in Players, NEW s \in Tables,
         CreateSession(c, p, s) \/ JoinSession(c, p, s) \/ SeatBack(c, p, s)
  PROVE  Locks'
<1>1. UNCHANGED tableVars /\ call[c] = Idle
  BY DEF CreateSession, JoinSession, SeatBack
<1>2. /\ UNCHANGED <<status, seat, launching>>
      /\ \A t \in Tables : Present(t)' = Present(t)
  BY <1>1 DEF tableVars, Present
<1>3. NewEmpty'
  BY <1>2 DEF Locks, NewEmpty
<1>4. CASE CreateSession(c, p, s)
  <2>1. /\ call' = [call EXCEPT ![c] = [at |-> "creating", who |-> p, keep |-> {s}, left |-> {}]]
        /\ status[s] = "NEW"
        /\ \A d \in Calls : call[d].at = "creating" => s \notin call[d].keep
    BY <1>4 DEF CreateSession, Go, Unused
  <2>2. /\ call'[c] = [at |-> "creating", who |-> p, keep |-> {s}, left |-> {}]
        /\ \A d \in Calls \ {c} : call'[d] = call[d]
    BY <2>1 DEF Locks, TypeOK
  <2>3. CreatesNew' /\ CreatesAlone'
    BY <1>2, <2>1, <2>2 DEF Locks, CreatesNew, CreatesAlone
  <2>4. SeatsHeld' /\ SeatsAlone'
    BY <1>2, <2>2 DEF Locks, SeatsHeld, SeatsAlone
  <2>5. QED BY <1>3, <2>3, <2>4 DEF Locks
<1>5. CASE JoinSession(c, p, s) \/ SeatBack(c, p, s)
  <2>1. /\ call' = [call EXCEPT ![c] = [at |-> "seating", who |-> p, keep |-> {s}, left |-> {}]]
        /\ status[s] # "NEW"
        /\ seat[s][p] \in {"none", "left"}
        /\ Cardinality(Present(s)) < MaxPlayers
        /\ \A d \in Calls : call[d].at = "seating" => s \notin call[d].keep
    BY <1>5 DEF JoinSession, SeatBack, Go, Free
  <2>2. /\ call'[c] = [at |-> "seating", who |-> p, keep |-> {s}, left |-> {}]
        /\ \A d \in Calls \ {c} : call'[d] = call[d]
    BY <2>1 DEF Locks, TypeOK
  <2>3. CreatesNew' /\ CreatesAlone'
    BY <1>2, <2>2 DEF Locks, CreatesNew, CreatesAlone
  <2>4. SeatsHeld' /\ SeatsAlone'
    BY <1>2, <2>1, <2>2 DEF Locks, SeatsHeld, SeatsAlone
  <2>5. QED BY <1>3, <2>3, <2>4 DEF Locks
<1>6. QED BY <1>4, <1>5

\* What the two commits write, and where.
LEMMA CommitCreateFacts ==
  ASSUME Locks, NEW c \in Calls, CommitCreate(c)
  PROVE  \E s \in Tables :
           /\ call[c].keep = {s} /\ call[c].who \in Players
           /\ status[s] = "NEW"
           /\ status' = [status EXCEPT ![s] = "LOBBY"]
           /\ host' = [host EXCEPT ![s] = {call[c].who}]
           /\ seat' = [seat EXCEPT ![s][call[c].who] = "in"]
           /\ call' = [call EXCEPT ![c] = [at |-> "others", who |-> call[c].who,
                                           keep |-> {s}, left |-> {}]]
           /\ UNCHANGED <<launching, rematched, banned, noteVars>>
<1>1. call[c] # Idle
  BY DEF CommitCreate, Idle
<1>2. call[c].who \in Players
  BY <1>1, FlightType DEF Locks
<1>3. PICK s \in Tables : call[c].keep = {s} /\ status[s] = "NEW"
  BY DEF Locks, CreatesNew, CommitCreate
<1>4. /\ status' = [status EXCEPT ![s] = "LOBBY"]
      /\ host' = [host EXCEPT ![s] = {call[c].who}]
      /\ seat' = [seat EXCEPT ![s][call[c].who] = "in"]
  BY <1>3 DEF CommitCreate
<1>5. /\ call' = [call EXCEPT ![c] = [at |-> "others", who |-> call[c].who,
                                      keep |-> {s}, left |-> {}]]
      /\ UNCHANGED <<launching, rematched, banned, noteVars>>
  BY <1>3 DEF CommitCreate, Go
<1>6. QED BY <1>2, <1>3, <1>4, <1>5

LEMMA CommitSeatFacts ==
  ASSUME Locks, NEW c \in Calls, CommitSeat(c)
  PROVE  \E s \in Tables :
           /\ call[c].keep = {s} /\ call[c].who \in Players
           /\ status[s] # "NEW"
           /\ seat[s][call[c].who] \in {"none", "left"}
           /\ Cardinality(Present(s)) < MaxPlayers
           /\ seat' = [seat EXCEPT ![s][call[c].who] = "in"]
           /\ call' = [call EXCEPT ![c] = [at |-> "others", who |-> call[c].who,
                                           keep |-> {s}, left |-> {}]]
           /\ UNCHANGED <<status, host, launching, rematched, banned, noteVars>>
<1>1. call[c] # Idle
  BY DEF CommitSeat, Idle
<1>2. call[c].who \in Players
  BY <1>1, FlightType DEF Locks
<1>3. PICK s \in Tables :
        /\ call[c].keep = {s}
        /\ status[s] # "NEW"
        /\ seat[s][call[c].who] \in {"none", "left"}
        /\ Cardinality(Present(s)) < MaxPlayers
  BY DEF Locks, SeatsHeld, CommitSeat
<1>4. seat' = [seat EXCEPT ![s][call[c].who] = "in"]
  BY <1>3 DEF CommitSeat
<1>5. /\ call' = [call EXCEPT ![c] = [at |-> "others", who |-> call[c].who,
                                      keep |-> {s}, left |-> {}]]
      /\ UNCHANGED <<status, host, launching, rematched, banned, noteVars>>
  BY <1>3 DEF CommitSeat, Go
<1>6. QED BY <1>2, <1>3, <1>4, <1>5

\* The next departure of a call, or the table already left that ends it.
LEMMA LeaveNextFacts ==
  ASSUME Locks, NEW c \in Calls, LeaveNext(c)
  PROVE  /\ call[c].who \in Players /\ call[c].left \subseteq Tables
         /\ call[c].at = "leaving"
         /\ UNCHANGED <<launching, rematched, banned, reverted, bans>>
         /\ \E s \in call[c].left :
              /\ Free(s)
              /\ \/ /\ seat[s][call[c].who] = "in"
                    /\ Depart(call[c].who, s, "left")
                    /\ \/ call' = [call EXCEPT ![c] = Idle] /\ call[c].left \ {s} = {}
                       \/ call' = [call EXCEPT ![c] =
                                     [at |-> "leaving", who |-> call[c].who,
                                      keep |-> call[c].keep, left |-> call[c].left \ {s}]]
                    /\ loose' = loose
                 \/ /\ seat[s][call[c].who] # "in"
                    /\ UNCHANGED <<status, host, seat>>
                    /\ call' = [call EXCEPT ![c] = Idle]
                    /\ loose' = IF call[c].left \ {s} = {} THEN loose
                                ELSE loose \union {call[c].who}
<1>1. call[c] # Idle
  BY DEF LeaveNext, Idle
<1>2. call[c].who \in Players /\ call[c].left \subseteq Tables
  BY <1>1, FlightType DEF Locks
<1>3. QED BY <1>2 DEF LeaveNext, Go, Rest

\* A departure touches one table, that was opened.
LEMMA DepartFacts ==
  ASSUME Locks, NEW p \in Players, NEW s \in Tables, NEW how \in {"left", "kicked"},
         seat[s][p] = "in", Depart(p, s, how)
  PROVE  /\ seat' = [seat EXCEPT ![s][p] = how]
         /\ status[s] # "NEW" /\ status'[s] # "NEW"
         /\ status'[s] \in {status[s], "ABANDONED"}
         /\ \A t \in Tables \ {s} :
              status'[t] = status[t] /\ host'[t] = host[t] /\ seat'[t] = seat[t]
         /\ Present(s)' = Present(s) \ {p}
         /\ p \in Present(s)
<1>1. seat' = [seat EXCEPT ![s][p] = how]
  BY DEF Depart
<1>2. status[s] # "NEW"
  BY DEF Locks, NewEmpty
<1>3. status' = status \/ status' = [status EXCEPT ![s] = "ABANDONED"]
  BY DEF Depart
<1>4. host' = host \/ \E h \in Players : host' = [host EXCEPT ![s] = {h}]
  <2>1. CASE Present(s) = {p}
    BY <2>1 DEF Depart
  <2>2. CASE Present(s) # {p}
    BY <2>2 DEF Depart, Present
  <2>3. QED BY <2>1, <2>2
<1>5. Present(s)' = Present(s) \ {p} /\ p \in Present(s)
  BY <1>1 DEF Present, Locks, TypeOK
<1>6. \A t \in Tables \ {s} :
         status'[t] = status[t] /\ host'[t] = host[t] /\ seat'[t] = seat[t]
  BY <1>1, <1>3, <1>4 DEF Locks, TypeOK
<1>7. status'[s] \in {status[s], "ABANDONED"}
  BY <1>3 DEF Locks, TypeOK
<1>8. QED BY <1>1, <1>2, <1>5, <1>6, <1>7

LEMMA LocksCommit ==
  ASSUME Locks, TypeOK', NEW c \in Calls, CommitCreate(c) \/ CommitSeat(c)
  PROVE  Locks'
<1>1. CASE CommitCreate(c)
  <2>1. PICK s \in Tables :
          /\ call[c].keep = {s} /\ call[c].who \in Players
          /\ status[s] = "NEW"
          /\ status' = [status EXCEPT ![s] = "LOBBY"]
          /\ seat' = [seat EXCEPT ![s][call[c].who] = "in"]
          /\ call' = [call EXCEPT ![c] = [at |-> "others", who |-> call[c].who,
                                          keep |-> {s}, left |-> {}]]
          /\ UNCHANGED launching
    BY <1>1, CommitCreateFacts
  <2>2. /\ status'[s] = "LOBBY"
        /\ \A t \in Tables \ {s} : status'[t] = status[t] /\ seat'[t] = seat[t]
        /\ \A t \in Tables \ {s} : Present(t)' = Present(t)
        /\ \A d \in Calls \ {c} : call'[d] = call[d]
        /\ call'[c].at = "others"
        /\ call[c].at = "creating"
    BY <1>1, <2>1 DEF Locks, TypeOK, CommitCreate, Present
  <2>3. NewEmpty' /\ CreatesAlone' /\ SeatsAlone'
    BY <2>1, <2>2 DEF Locks, NewEmpty, CreatesAlone, SeatsAlone
  <2>4. CreatesNew'
    BY <2>1, <2>2 DEF Locks, CreatesNew, CreatesAlone
  <2>5. SeatsHeld'
    BY <2>1, <2>2 DEF Locks, SeatsHeld
  <2>6. QED BY <2>3, <2>4, <2>5 DEF Locks
<1>2. CASE CommitSeat(c)
  <2>1. PICK s \in Tables :
          /\ call[c].keep = {s} /\ call[c].who \in Players
          /\ status[s] # "NEW"
          /\ seat' = [seat EXCEPT ![s][call[c].who] = "in"]
          /\ call' = [call EXCEPT ![c] = [at |-> "others", who |-> call[c].who,
                                          keep |-> {s}, left |-> {}]]
          /\ UNCHANGED <<status, launching>>
    BY <1>2, CommitSeatFacts
  <2>2. /\ \A t \in Tables \ {s} : seat'[t] = seat[t]
        /\ \A t \in Tables \ {s} : Present(t)' = Present(t)
        /\ \A d \in Calls \ {c} : call'[d] = call[d]
        /\ call'[c].at = "others"
        /\ call[c].at = "seating"
    BY <1>2, <2>1 DEF Locks, TypeOK, CommitSeat, Present
  <2>3. NewEmpty' /\ CreatesNew' /\ CreatesAlone' /\ SeatsAlone'
    BY <2>1, <2>2 DEF Locks, NewEmpty, CreatesNew, CreatesAlone, SeatsAlone
  <2>4. SeatsHeld'
    <3> SUFFICES ASSUME NEW d \in Calls, call'[d].at = "seating"
                 PROVE  (\E t \in Tables :
                          /\ call[d].keep = {t}
                          /\ status[t] # "NEW"
                          /\ seat[t][call[d].who] \in {"none", "left"}
                          /\ Cardinality(Present(t)) < MaxPlayers)'
      BY DEF SeatsHeld
    <3>1. d # c /\ call'[d] = call[d]
      BY <2>2
    <3>2. PICK t \in Tables :
            /\ call[d].keep = {t}
            /\ status[t] # "NEW"
            /\ seat[t][call[d].who] \in {"none", "left"}
            /\ Cardinality(Present(t)) < MaxPlayers
      BY <3>1 DEF Locks, SeatsHeld
    <3>3. t # s
      BY <2>1, <2>2, <3>1, <3>2 DEF Locks, SeatsAlone
    <3>4. QED BY <2>1, <2>2, <3>1, <3>2, <3>3
  <2>5. QED BY <2>3, <2>4 DEF Locks
<1>3. QED BY <1>1, <1>2

LEMMA LocksStep == Locks /\ [Next]_vars => Locks'
<1> SUFFICES ASSUME Locks, [Next]_vars PROVE Locks'
  OBVIOUS
<1>0. TypeOK'
  BY TypeStep DEF Locks
<1>1. ASSUME NEW c \in Calls, Seating(c)
      PROVE  Locks'
  <2>1. ASSUME NEW p \in Players, NEW s \in Tables,
               CreateSession(c, p, s) \/ JoinSession(c, p, s) \/ SeatBack(c, p, s)
        PROVE  Locks'
    BY <1>0, <2>1, LocksCheck
  <2>2. ASSUME NEW p \in Players, SetPlayBan(c, p) \/ RemoveFromPlay(c, p)
        PROVE  Locks'
    <3>1. /\ UNCHANGED <<status, seat, launching>>
          /\ \A d \in Calls : call'[d] = call[d] \/ call'[d].at = "others"
      BY <2>2 DEF SetPlayBan, RemoveFromPlay, tableVars, Go, Locks, TypeOK
    <3>2. QED BY <1>0, <3>1, LocksCalls
  <2>3. CASE CommitCreate(c) \/ CommitSeat(c)
    BY <1>0, <2>3, LocksCommit
  <2>4. CASE ReadOthers(c)
    <3>1. /\ UNCHANGED <<status, seat, launching>>
          /\ \A d \in Calls : call'[d] = call[d] \/ call'[d].at \in {"rest", "leaving"}
      BY <2>4 DEF ReadOthers, tableVars, Go, Rest, Idle, Locks, TypeOK
    <3>2. QED BY <1>0, <3>1, LocksCalls
  <2>5. CASE LeaveNext(c)
    <3>1. /\ launching' = launching /\ call[c].who \in Players
          /\ \A d \in Calls : call'[d] = call[d] \/ call'[d].at \in {"rest", "leaving"}
      BY <2>5, LeaveNextFacts DEF Idle, Locks, TypeOK
    <3>2. PICK s \in Tables :
            /\ Free(s)
            /\ \/ seat[s][call[c].who] = "in" /\ Depart(call[c].who, s, "left")
               \/ UNCHANGED <<status, host, seat>>
      BY <2>5, LeaveNextFacts
    <3>3. CASE UNCHANGED <<status, host, seat>>
      BY <1>0, <3>1, <3>3, LocksCalls
    <3>4. CASE seat[s][call[c].who] = "in" /\ Depart(call[c].who, s, "left")
      <4>1. /\ status[s] # "NEW" /\ status'[s] # "NEW"
            /\ \A t \in Tables \ {s} : status'[t] = status[t] /\ seat'[t] = seat[t]
        BY <3>1, <3>4, DepartFacts
      <4>2. QED BY <1>0, <3>1, <3>2, <4>1, LocksTable
    <3>5. QED BY <3>2, <3>3, <3>4
  <2>6. QED BY <1>1, <2>1, <2>2, <2>3, <2>4, <2>5 DEF Seating
<1>2. ASSUME NEW s \in Tables, Table(s)
      PROVE  Locks'
  <2>1. ASSUME NEW p \in Players, LeaveSession(p, s) \/ KickPlayer(p, s)
        PROVE  Locks'
    <3>1. /\ Free(s) /\ seat[s][p] = "in" /\ UNCHANGED <<launching, call>>
          /\ Depart(p, s, "left") \/ Depart(p, s, "kicked")
      BY <2>1 DEF LeaveSession, KickPlayer
    <3>2. /\ status[s] # "NEW" /\ status'[s] # "NEW"
          /\ \A t \in Tables \ {s} : status'[t] = status[t] /\ seat'[t] = seat[t]
      BY <3>1, DepartFacts
    <3>3. QED BY <1>0, <3>1, <3>2, LocksTable
  <2>2. ASSUME NEW p \in Players, StandUp(p, s)
        PROVE  Locks'
    <3>1. /\ Free(s) /\ status[s] # "NEW" /\ UNCHANGED <<status, launching, call>>
          /\ \A t \in Tables \ {s} : seat'[t] = seat[t]
      BY <2>2 DEF StandUp, Locks, TypeOK
    <3>2. QED BY <1>0, <3>1, LocksTable
  <2>3. CASE \/ CancelSession(s) \/ StartSession(s) \/ RevertStart(s)
             \/ FinishSession(s) \/ StopRunning(s)
    <3>1. status[s] # "NEW"
      BY <2>3
      DEF CancelSession, StartSession, RevertStart, FinishSession, StopRunning, Locks, NewEmpty
    <3>2. /\ Free(s) /\ status'[s] # "NEW" /\ UNCHANGED <<seat, call>>
          /\ \A t \in Tables \ {s} : status'[t] = status[t]
          /\ launching' \subseteq launching \union {s}
      BY <2>3
      DEF CancelSession, StartSession, RevertStart, FinishSession, StopRunning, Locks, TypeOK
    <3>3. QED BY <1>0, <3>1, <3>2, LocksTable
  <2>4. CASE OpenTable(s)
    <3>1. UNCHANGED <<status, seat, call>> /\ launching' \subseteq launching
      BY <2>4 DEF OpenTable
    <3>2. QED BY <1>0, <3>1, LocksCalls
  <2>5. ASSUME NEW t \in Tables, RematchSession(s, t)
        PROVE  Locks'
    <3>1. /\ status[t] = "NEW"
          /\ \A c \in Calls : call[c].at = "creating" => t \notin call[c].keep
          /\ status' = [status EXCEPT ![t] = "LOBBY"]
          /\ \A u \in Tables \ {t} : seat'[u] = seat[u]
          /\ UNCHANGED <<launching, call>>
      BY <2>5 DEF RematchSession, Unused, Locks, TypeOK
    <3>2. \A u \in Tables \ {t} : Present(u)' = Present(u)
      BY <3>1 DEF Present
    <3>3. /\ status'[t] = "LOBBY"
          /\ \A u \in Tables \ {t} : status'[u] = status[u]
      BY <3>1 DEF Locks, TypeOK
    <3>4. NewEmpty' /\ CreatesNew' /\ CreatesAlone' /\ SeatsAlone'
      BY <3>1, <3>3 DEF Locks, NewEmpty, CreatesNew, CreatesAlone, SeatsAlone
    <3>5. SeatsHeld'
      BY <3>1, <3>2, <3>3 DEF Locks, SeatsHeld
    <3>6. QED BY <1>0, <3>4, <3>5 DEF Locks
  <2>6. QED BY <1>2, <2>1, <2>2, <2>3, <2>4, <2>5 DEF Table
<1>3. ASSUME NEW p \in Players, LiftPlayBan(p)
      PROVE  Locks'
  <2>1. UNCHANGED <<status, seat, launching, call>>
    BY <1>3 DEF LiftPlayBan, tableVars
  <2>2. QED BY <1>0, <2>1, LocksCalls
<1>4. CASE Crash
  <2>1. /\ UNCHANGED <<status, seat>> /\ launching' \subseteq launching
        /\ \A d \in Calls : call'[d].at = "rest"
    BY <1>4 DEF Crash, Idle
  <2>2. QED BY <1>0, <2>1, LocksCalls
<1>5. CASE UNCHANGED vars
  <2>1. UNCHANGED <<status, seat, launching, call>>
    BY <1>5 DEF vars, tableVars
  <2>2. QED BY <1>0, <2>1, LocksCalls
<1>6. QED BY <1>1, <1>2, <1>3, <1>4, <1>5 DEF Next

\* The rows a seating holds stay as it checked them until it commits.
THEOREM LocksHold == Spec => []Locks
  BY LocksInit, LocksStep, PTL DEF Spec

-----------------------------------------------------------------------------
\* Only a commit or a rematch seats anybody; any other step only lets players go.
Calm ==
    \A t \in Tables, p \in Players : seat'[t][p] = seat[t][p] \/ seat[t][p] = "in"

OnlyGoes == Calm /\ \A t \in Tables : Present(t)' \subseteq Present(t)

LEMMA Goes ==
  ASSUME Locks, NEW s \in Tables, NEW p \in Players, NEW how \in {"left", "kicked"},
         seat[s][p] = "in", seat' = [seat EXCEPT ![s][p] = how]
  PROVE  OnlyGoes
<1>1. Calm
  BY DEF Calm, Locks, TypeOK
<1>2. \A t \in Tables : Present(t)' \subseteq Present(t)
  BY DEF Present, Locks, TypeOK
<1>3. QED BY <1>1, <1>2 DEF OnlyGoes

LEMMA StaysPut ==
  ASSUME Locks, UNCHANGED seat
  PROVE  OnlyGoes
  BY DEF OnlyGoes, Calm, Present

LEMMA SeatEffects ==
  ASSUME Locks, [Next]_vars
  PROVE  \/ OnlyGoes
         \/ \E c \in Calls : CommitCreate(c) \/ CommitSeat(c)
         \/ \E s, t \in Tables : RematchSession(s, t)
<1>1. ASSUME NEW c \in Calls, Seating(c), ~(CommitCreate(c) \/ CommitSeat(c))
      PROVE  OnlyGoes
  <2>1. CASE LeaveNext(c)
    <3>1. \/ UNCHANGED seat
          \/ \E s \in Tables :
               seat[s][call[c].who] = "in" /\ seat' = [seat EXCEPT ![s][call[c].who] = "left"]
      BY <2>1, LeaveNextFacts DEF Depart
    <3>2. call[c].who \in Players
      BY <2>1, LeaveNextFacts
    <3>3. QED BY <3>1, <3>2, Goes, StaysPut
  <2>2. CASE ReadOthers(c)
    BY <2>2, StaysPut DEF ReadOthers, tableVars
  <2>3. ASSUME NEW p \in Players, SetPlayBan(c, p) \/ RemoveFromPlay(c, p)
        PROVE  OnlyGoes
    BY <2>3, StaysPut DEF SetPlayBan, RemoveFromPlay, tableVars
  <2>4. ASSUME NEW p \in Players, NEW s \in Tables,
               CreateSession(c, p, s) \/ JoinSession(c, p, s) \/ SeatBack(c, p, s)
        PROVE  OnlyGoes
    BY <2>4, StaysPut DEF CreateSession, JoinSession, SeatBack, tableVars
  <2>5. QED BY <1>1, <2>1, <2>2, <2>3, <2>4 DEF Seating
<1>2. ASSUME NEW s \in Tables, Table(s), ~\E t \in Tables : RematchSession(s, t)
      PROVE  OnlyGoes
  <2>1. ASSUME NEW p \in Players, LeaveSession(p, s) \/ KickPlayer(p, s) \/ StandUp(p, s)
        PROVE  OnlyGoes
    <3>1. /\ seat[s][p] = "in"
          /\ \/ seat' = [seat EXCEPT ![s][p] = "left"]
             \/ seat' = [seat EXCEPT ![s][p] = "kicked"]
      BY <2>1 DEF LeaveSession, KickPlayer, StandUp, Depart
    <3>2. QED BY <3>1, Goes
  <2>2. CASE \/ CancelSession(s) \/ StartSession(s) \/ OpenTable(s) \/ RevertStart(s)
             \/ FinishSession(s) \/ StopRunning(s)
    BY <2>2, StaysPut
    DEF CancelSession, StartSession, OpenTable, RevertStart, FinishSession, StopRunning
  <2>3. QED BY <1>2, <2>1, <2>2 DEF Table
<1>3. CASE \E p \in Players : LiftPlayBan(p)
  BY <1>3, StaysPut DEF LiftPlayBan, tableVars
<1>4. CASE Crash
  BY <1>4, StaysPut DEF Crash
<1>5. CASE UNCHANGED vars
  BY <1>5, StaysPut DEF vars, tableVars
<1>6. QED BY <1>1, <1>2, <1>3, <1>4, <1>5 DEF Next

\* What a rematch writes.
LEMMA RematchFacts ==
  ASSUME Locks, NEW s \in Tables, NEW t \in Tables, RematchSession(s, t)
  PROVE  /\ status[s] = "FINISHED" /\ status[t] = "NEW" /\ s # t
         /\ status'[t] = "LOBBY"
         /\ \A u \in Tables \ {t} :
              status'[u] = status[u] /\ host'[u] = host[u] /\ seat'[u] = seat[u]
         /\ Present(t)' = Present(s)
<1>1. /\ status[s] = "FINISHED" /\ status[t] = "NEW"
      /\ status' = [status EXCEPT ![t] = "LOBBY"]
      /\ seat' = [seat EXCEPT ![t] = [p \in Players |-> IF p \in Present(s) THEN "in" ELSE "none"]]
  BY DEF RematchSession, Unused
<1>2. \E h : host' = [host EXCEPT ![t] = h]
  <2>1. CASE host[s] \subseteq Present(s) \/ Present(s) = {}
    BY <2>1 DEF RematchSession
  <2>2. CASE ~(host[s] \subseteq Present(s) \/ Present(s) = {})
    BY <2>2 DEF RematchSession
  <2>3. QED BY <2>1, <2>2
<1>3. Present(t)' = Present(s)
  BY <1>1 DEF Present, Locks, TypeOK
<1>4. QED BY <1>1, <1>2, <1>3 DEF Locks, TypeOK

-----------------------------------------------------------------------------
\* SeatsWithinLimit: two seatings never take the same last seat.
LEMMA PresentFinite == \A s \in Tables :
  IsFiniteSet(Present(s)) /\ IsFiniteSet(Present(s)')
<1> SUFFICES ASSUME NEW s \in Tables
             PROVE  IsFiniteSet(Present(s)) /\ IsFiniteSet(Present(s)')
  OBVIOUS
<1>1. Present(s) \subseteq Players /\ Present(s)' \subseteq Players
  BY DEF Present
<1>2. QED BY <1>1, PlayersAssumption, FS_Subset

LEMMA SeatsInit == Init => SeatsWithinLimit
<1> SUFFICES ASSUME Init, NEW s \in Tables PROVE Cardinality(Present(s)) <= MaxPlayers
  BY DEF SeatsWithinLimit
<1>1. Present(s) = {}
  BY DEF Init, Present
<1>2. QED BY <1>1, FS_EmptySet, SeatsAssumption

LEMMA SeatsStep == Locks /\ SeatsWithinLimit /\ [Next]_vars => SeatsWithinLimit'
<1> SUFFICES ASSUME Locks, SeatsWithinLimit, [Next]_vars PROVE SeatsWithinLimit'
  OBVIOUS
<1>1. CASE OnlyGoes
  <2> SUFFICES ASSUME NEW t \in Tables PROVE Cardinality(Present(t)') <= MaxPlayers
    BY DEF SeatsWithinLimit
  <2>1. Present(t)' \subseteq Present(t)
    BY <1>1 DEF OnlyGoes
  <2>2. Cardinality(Present(t)') <= Cardinality(Present(t))
    BY <2>1, PresentFinite, FS_Subset
  <2>3. Cardinality(Present(t)) <= MaxPlayers
    BY DEF SeatsWithinLimit
  <2>4. Cardinality(Present(t)) \in Nat /\ Cardinality(Present(t)') \in Nat
    BY PresentFinite, FS_CardinalityType
  <2>5. QED BY <2>2, <2>3, <2>4, SeatsAssumption
<1>2. ASSUME NEW c \in Calls, CommitCreate(c)
      PROVE  SeatsWithinLimit'
  <2>1. PICK s \in Tables :
          /\ call[c].who \in Players
          /\ status[s] = "NEW"
          /\ seat' = [seat EXCEPT ![s][call[c].who] = "in"]
    BY <1>2, CommitCreateFacts
  <2>2. Present(s)' = {call[c].who}
    BY <2>1 DEF Present, Locks, TypeOK, NewEmpty
  <2>3. \A t \in Tables \ {s} : Present(t)' = Present(t)
    BY <2>1 DEF Present, Locks, TypeOK
  <2>4. Cardinality({call[c].who}) = 1
    BY FS_Singleton
  <2>5. Cardinality(Present(s)') <= MaxPlayers
    BY <2>2, <2>4, SeatsAssumption
  <2>6. QED BY <2>3, <2>5 DEF SeatsWithinLimit
<1>3. ASSUME NEW c \in Calls, CommitSeat(c)
      PROVE  SeatsWithinLimit'
  <2>1. PICK s \in Tables :
          /\ call[c].who \in Players
          /\ seat[s][call[c].who] \in {"none", "left"}
          /\ Cardinality(Present(s)) < MaxPlayers
          /\ seat' = [seat EXCEPT ![s][call[c].who] = "in"]
    BY <1>3, CommitSeatFacts
  <2>2. Present(s)' = Present(s) \union {call[c].who} /\ call[c].who \notin Present(s)
    BY <2>1 DEF Present, Locks, TypeOK
  <2>3. \A t \in Tables \ {s} : Present(t)' = Present(t)
    BY <2>1 DEF Present, Locks, TypeOK
  <2>4. Cardinality(Present(s)') = Cardinality(Present(s)) + 1
    BY <2>2, PresentFinite, FS_AddElement
  <2>5. Cardinality(Present(s)) \in Nat
    BY PresentFinite, FS_CardinalityType
  <2>6. Cardinality(Present(s)') <= MaxPlayers
    BY <2>1, <2>4, <2>5, SeatsAssumption
  <2>7. QED BY <2>3, <2>6 DEF SeatsWithinLimit
<1>4. ASSUME NEW s \in Tables, NEW t \in Tables, RematchSession(s, t)
      PROVE  SeatsWithinLimit'
  <2>1. /\ Present(t)' = Present(s)
        /\ \A u \in Tables \ {t} : Present(u)' = Present(u)
    BY <1>4, RematchFacts DEF Present
  <2>2. QED BY <2>1 DEF SeatsWithinLimit
<1>5. QED BY <1>1, <1>2, <1>3, <1>4, SeatEffects

\* SeatsWithinLimit: lockSession keeps any number of seatings within the limit.
THEOREM WithinLimit == Spec => []SeatsWithinLimit
  BY SeatsInit, SeatsStep, LocksHold, PTL DEF Spec

-----------------------------------------------------------------------------
\* KickedStayOut: no commit and no rematch takes back a removed player.
LEMMA KickedStep ==
  ASSUME Locks, [Next]_vars
  PROVE  \A s \in Tables, p \in Players : seat[s][p] = "kicked" => seat'[s][p] = "kicked"
<1>1. CASE OnlyGoes
  BY <1>1 DEF OnlyGoes, Calm
<1>2. ASSUME NEW c \in Calls, CommitCreate(c) \/ CommitSeat(c)
      PROVE  \A s \in Tables, p \in Players : seat[s][p] = "kicked" => seat'[s][p] = "kicked"
  <2>1. PICK s \in Tables :
          /\ call[c].who \in Players
          /\ status[s] = "NEW" \/ seat[s][call[c].who] \in {"none", "left"}
          /\ seat' = [seat EXCEPT ![s][call[c].who] = "in"]
    BY <1>2, CommitCreateFacts, CommitSeatFacts
  <2>2. seat[s][call[c].who] # "kicked"
    BY <2>1 DEF Locks, NewEmpty
  <2>3. QED BY <2>1, <2>2 DEF Locks, TypeOK
<1>3. ASSUME NEW u \in Tables, NEW t \in Tables, RematchSession(u, t)
      PROVE  \A s \in Tables, p \in Players : seat[s][p] = "kicked" => seat'[s][p] = "kicked"
  BY <1>3, RematchFacts DEF Locks, NewEmpty
<1>4. QED BY <1>1, <1>2, <1>3, SeatEffects

\* KickedStayOut: whom a host kicked never comes back (setSeatRole), whatever
\* seatings and rematches run at once.
THEOREM KickedOut == Spec => KickedStayOut
<1>1. Locks /\ [Next]_vars =>
        [\A s \in Tables, p \in Players : seat[s][p] = "kicked" => seat'[s][p] = "kicked"]_vars
  BY KickedStep
<1>2. QED BY <1>1, LocksHold, PTL DEF Spec, KickedStayOut

-----------------------------------------------------------------------------
\* HostSeated: the host of an open table is one of its players.

\* A table past its creation has one host, one that is played or over is not
\* empty, and none but a reverted one lost its host.
HostedAt(s) ==
    /\ status[s] # "NEW" => \E p \in Players : host[s] = {p}
    /\ status[s] \in {"RUNNING", "FINISHED"} => Present(s) # {}
    /\ (status[s] \in {"LOBBY", "RUNNING", "FINISHED"} /\ s \notin reverted) =>
          \E p \in Present(s) : host[s] = {p}

Hosted == \A s \in Tables : HostedAt(s)

LEMMA HostedFrame ==
  ASSUME NEW s \in Tables, HostedAt(s), reverted \subseteq reverted',
         status'[s] = status[s], host'[s] = host[s], Present(s)' = Present(s)
  PROVE  HostedAt(s)'
  BY DEF HostedAt

\* A departure hands the table over, or abandons it.
LEMMA HostedDepart ==
  ASSUME Locks, Hosted, NEW p \in Players, NEW s \in Tables, NEW how \in {"left", "kicked"},
         seat[s][p] = "in", Depart(p, s, how), UNCHANGED reverted
  PROVE  Hosted'
<1>1. /\ Present(s)' = Present(s) \ {p}
      /\ status[s] # "NEW"
      /\ \A t \in Tables \ {s} :
           status'[t] = status[t] /\ host'[t] = host[t] /\ seat'[t] = seat[t]
  BY DepartFacts
<1>2. \A t \in Tables \ {s} : Present(t)' = Present(t)
  BY <1>1 DEF Present
<1>3. \A t \in Tables \ {s} : HostedAt(t)'
  BY <1>1, <1>2, HostedFrame DEF Hosted
<1>4. HostedAt(s)
  BY DEF Hosted
<1>5. CASE Present(s) = {p}
  <2>1. status'[s] = "ABANDONED" /\ host' = host
    BY <1>5 DEF Depart, Locks, TypeOK
  <2>2. HostedAt(s)'
    BY <1>1, <1>4, <2>1 DEF HostedAt
  <2>3. QED BY <1>3, <2>2 DEF Hosted
<1>6. CASE Present(s) # {p}
  <2>1. status'[s] = status[s] /\ p \in Present(s)
    BY <1>6 DEF Depart, Present
  <2>2. Present(s)' # {}
    BY <1>1, <1>6, <2>1
  <2>3. CASE host[s] = {p}
    <3>1. PICK h \in Present(s) \ {p} : host' = [host EXCEPT ![s] = {h}]
      BY <1>6, <2>3 DEF Depart
    <3>2. host'[s] = {h} /\ h \in Present(s)' /\ h \in Players
      BY <1>1, <3>1 DEF Locks, TypeOK, Present
    <3>3. HostedAt(s)'
      BY <1>1, <2>1, <2>2, <3>2 DEF HostedAt
    <3>4. QED BY <1>3, <3>3 DEF Hosted
  <2>4. CASE host[s] # {p}
    <3>1. host' = host
      BY <1>6, <2>4 DEF Depart
    <3>2. \A q \in Present(s) : host[s] = {q} => q \in Present(s)'
      BY <1>1, <2>4
    <3>3. HostedAt(s)'
      BY <1>4, <2>1, <2>2, <3>1, <3>2 DEF HostedAt
    <3>4. QED BY <1>3, <3>3 DEF Hosted
  <2>5. QED BY <2>3, <2>4
<1>7. QED BY <1>5, <1>6

LEMMA HostedCommit ==
  ASSUME Locks, Hosted, NEW c \in Calls, CommitCreate(c) \/ CommitSeat(c)
  PROVE  Hosted'
<1>1. CASE CommitCreate(c)
  <2>1. PICK s \in Tables :
          /\ call[c].who \in Players
          /\ status' = [status EXCEPT ![s] = "LOBBY"]
          /\ host' = [host EXCEPT ![s] = {call[c].who}]
          /\ seat' = [seat EXCEPT ![s][call[c].who] = "in"]
          /\ UNCHANGED reverted
    BY <1>1, CommitCreateFacts DEF noteVars
  <2>2. /\ status'[s] = "LOBBY" /\ host'[s] = {call[c].who} /\ call[c].who \in Present(s)'
        /\ \A t \in Tables \ {s} :
             status'[t] = status[t] /\ host'[t] = host[t] /\ Present(t)' = Present(t)
    BY <2>1 DEF Locks, TypeOK, Present
  <2>3. HostedAt(s)'
    BY <2>1, <2>2 DEF HostedAt
  <2>4. \A t \in Tables \ {s} : HostedAt(t)'
    BY <2>1, <2>2, HostedFrame DEF Hosted
  <2>5. QED BY <2>3, <2>4 DEF Hosted
<1>2. CASE CommitSeat(c)
  <2>1. PICK s \in Tables :
          /\ call[c].who \in Players
          /\ seat' = [seat EXCEPT ![s][call[c].who] = "in"]
          /\ UNCHANGED <<status, host, reverted>>
    BY <1>2, CommitSeatFacts DEF noteVars
  <2>2. /\ Present(s) \subseteq Present(s)'
        /\ \A t \in Tables \ {s} : Present(t)' = Present(t)
    BY <2>1 DEF Locks, TypeOK, Present
  <2>3. HostedAt(s)'
    BY <2>1, <2>2 DEF Hosted, HostedAt
  <2>4. \A t \in Tables \ {s} : HostedAt(t)'
    BY <2>1, <2>2, HostedFrame DEF Hosted
  <2>5. QED BY <2>3, <2>4 DEF Hosted
<1>3. QED BY <1>1, <1>2

\* A step that leaves the seats and the hosts alone and never opens or plays
\* an empty table.
LEMMA HostedStatus ==
  ASSUME Hosted, NEW s \in Tables, UNCHANGED <<host, seat>>, reverted \subseteq reverted',
         \A t \in Tables \ {s} : status'[t] = status[t],
         status[s] # "NEW",
         \/ status'[s] = "ABANDONED"
         \/ status'[s] = "LOBBY" /\ s \in reverted'
         \/ status'[s] = "RUNNING" /\ status[s] = "LOBBY" /\ Present(s) # {}
         \/ status'[s] = "FINISHED" /\ status[s] = "RUNNING"
  PROVE  Hosted'
<1>1. \A t \in Tables : Present(t)' = Present(t) /\ host'[t] = host[t]
  BY DEF Present
<1>2. \A t \in Tables \ {s} : HostedAt(t)'
  BY <1>1, HostedFrame DEF Hosted
<1>3. HostedAt(s)'
  BY <1>1 DEF Hosted, HostedAt
<1>4. QED BY <1>2, <1>3 DEF Hosted

LEMMA HostedRematch ==
  ASSUME Locks, Hosted, NEW s \in Tables, NEW t \in Tables, RematchSession(s, t)
  PROVE  Hosted'
<1>1. /\ status[s] = "FINISHED" /\ s # t
      /\ status'[t] = "LOBBY"
      /\ \A u \in Tables \ {t} :
           status'[u] = status[u] /\ host'[u] = host[u] /\ seat'[u] = seat[u]
      /\ Present(t)' = Present(s)
  BY RematchFacts
<1>2. reverted' = reverted
  BY DEF RematchSession
<1>3. \A u \in Tables \ {t} : HostedAt(u)'
  <2>1. \A u \in Tables \ {t} : Present(u)' = Present(u)
    BY <1>1 DEF Present
  <2>2. QED BY <1>1, <1>2, <2>1, HostedFrame DEF Hosted
<1>4. Present(s) # {} /\ \E p \in Players : host[s] = {p}
  BY <1>1 DEF Hosted, HostedAt
<1>5. \E p \in Present(s) : host'[t] = {p}
  <2>1. CASE host[s] \subseteq Present(s)
    <3>1. host'[t] = host[s]
      BY <2>1 DEF RematchSession, Locks, TypeOK
    <3>2. QED BY <1>4, <2>1, <3>1
  <2>2. CASE ~(host[s] \subseteq Present(s))
    BY <1>4, <2>2 DEF RematchSession, Locks, TypeOK
  <2>3. QED BY <2>1, <2>2
<1>6. HostedAt(t)'
  <2>1. Present(s) \subseteq Players
    BY DEF Present
  <2>2. QED BY <1>1, <1>5, <2>1 DEF HostedAt
<1>7. QED BY <1>3, <1>6 DEF Hosted

LEMMA HostedStep == Locks /\ Hosted /\ [Next]_vars => Hosted'
<1> SUFFICES ASSUME Locks, Hosted, [Next]_vars PROVE Hosted'
  OBVIOUS
<1>0. ASSUME UNCHANGED <<status, host, seat, reverted>>
      PROVE  Hosted'
  BY <1>0, HostedFrame DEF Hosted, Present
<1>1. ASSUME NEW c \in Calls, Seating(c)
      PROVE  Hosted'
  <2>1. CASE CommitCreate(c) \/ CommitSeat(c)
    BY <2>1, HostedCommit
  <2>2. CASE LeaveNext(c)
    <3>1. call[c].who \in Players /\ UNCHANGED reverted
      BY <2>2, LeaveNextFacts
    <3>2. PICK s \in Tables :
            \/ seat[s][call[c].who] = "in" /\ Depart(call[c].who, s, "left")
            \/ UNCHANGED <<status, host, seat>>
      BY <2>2, LeaveNextFacts
    <3>3. QED BY <1>0, <3>1, <3>2, HostedDepart
  <2>3. CASE \/ ReadOthers(c)
             \/ \E p \in Players : SetPlayBan(c, p) \/ RemoveFromPlay(c, p)
             \/ \E p \in Players, s \in Tables :
                  CreateSession(c, p, s) \/ JoinSession(c, p, s) \/ SeatBack(c, p, s)
    BY <1>0, <2>3 DEF ReadOthers, SetPlayBan, RemoveFromPlay, CreateSession, JoinSession,
                      SeatBack, tableVars, noteVars
  <2>4. QED BY <1>1, <2>1, <2>2, <2>3 DEF Seating
<1>2. ASSUME NEW s \in Tables, Table(s)
      PROVE  Hosted'
  <2>1. ASSUME NEW p \in Players, LeaveSession(p, s) \/ KickPlayer(p, s)
        PROVE  Hosted'
    BY <2>1, HostedDepart DEF LeaveSession, KickPlayer, noteVars
  <2>2. ASSUME NEW p \in Players, StandUp(p, s)
        PROVE  Hosted'
    <3>1. /\ status[s] = "LOBBY" /\ p \notin host[s]
          /\ seat' = [seat EXCEPT ![s][p] = "left"]
          /\ UNCHANGED <<status, host, reverted>>
      BY <2>2 DEF StandUp, noteVars
    <3>2. /\ Present(s)' = Present(s) \ {p}
          /\ \A t \in Tables \ {s} : Present(t)' = Present(t)
      BY <3>1 DEF Locks, TypeOK, Present
    <3>3. HostedAt(s)'
      BY <3>1, <3>2 DEF Hosted, HostedAt
    <3>4. \A t \in Tables \ {s} : HostedAt(t)'
      BY <3>1, <3>2, HostedFrame DEF Hosted
    <3>5. QED BY <3>3, <3>4 DEF Hosted
  <2>3. CASE \/ CancelSession(s) \/ StopRunning(s) \/ RevertStart(s) \/ FinishSession(s)
             \/ StartSession(s)
    <3>1. /\ status[s] # "NEW"
          /\ UNCHANGED <<host, seat>> /\ reverted \subseteq reverted'
          /\ \A t \in Tables \ {s} : status'[t] = status[t]
      BY <2>3 DEF CancelSession, StopRunning, RevertStart, FinishSession, StartSession,
                  Locks, TypeOK, NewEmpty, noteVars
    <3>2. CASE StartSession(s)
      <4>1. Present(s) # {}
        BY <3>2, FS_EmptySet, SeatsAssumption DEF StartSession
      <4>2. status'[s] = "RUNNING" /\ status[s] = "LOBBY"
        BY <3>2 DEF StartSession, Locks, TypeOK
      <4>3. QED BY <3>1, <4>1, <4>2, HostedStatus
    <3>3. CASE ~StartSession(s)
      <4>1. \/ status'[s] = "ABANDONED"
            \/ status'[s] = "LOBBY" /\ s \in reverted'
            \/ status'[s] = "FINISHED" /\ status[s] = "RUNNING"
        BY <2>3, <3>3 DEF CancelSession, StopRunning, RevertStart, FinishSession, Locks, TypeOK
      <4>2. QED BY <3>1, <4>1, HostedStatus
    <3>4. QED BY <3>2, <3>3
  <2>4. CASE OpenTable(s)
    BY <1>0, <2>4 DEF OpenTable, noteVars
  <2>5. ASSUME NEW t \in Tables, RematchSession(s, t)
        PROVE  Hosted'
    BY <2>5, HostedRematch
  <2>6. QED BY <1>2, <2>1, <2>2, <2>3, <2>4, <2>5 DEF Table
<1>3. CASE \/ \E p \in Players : LiftPlayBan(p)
           \/ Crash
           \/ UNCHANGED vars
  BY <1>0, <1>3 DEF LiftPlayBan, Crash, vars, tableVars, noteVars
<1>4. QED BY <1>1, <1>2, <1>3 DEF Next

\* HostSeated: afterDeparture and cloneTable leave a seated host, through any
\* departures, removals, launches and rematches.
THEOREM HostInSeat == Spec => []HostSeated
<1>1. Init => Hosted
  BY DEF Init, Hosted, HostedAt
<1>2. Hosted => HostSeated
  BY DEF Hosted, HostedAt, HostSeated, Open
<1>3. QED BY <1>1, <1>2, HostedStep, LocksHold, PTL DEF Spec

-----------------------------------------------------------------------------
\* QuietOneTable: two tables of a player are a call's business.

\* Only a running table, or one abandoned since it started, is being launched.
Launches == \A s \in launching : status[s] \in {"RUNNING", "ABANDONED"}

\* The call will see the other of the two tables, or is about to leave one.
Covers(c, p, s, t) ==
    /\ call[c].at \in {"others", "leaving"}
    /\ call[c].who = p
    /\ call[c].at = "others" => s \notin call[c].keep \/ t \notin call[c].keep
    /\ call[c].at = "leaving" => s \in call[c].left \/ t \in call[c].left

CoveredSeats ==
    \A p \in Players \ loose : \A s, t \in OpenSeats(p) :
        s # t => \E c \in Calls : Covers(c, p, s, t)

OneSeat == Launches /\ CoveredSeats

LEMMA LaunchesStep == Locks /\ Launches /\ [Next]_vars => Launches'
<1> SUFFICES ASSUME Locks, Launches, [Next]_vars PROVE Launches'
  OBVIOUS
<1>0. ASSUME UNCHANGED status, launching' \subseteq launching
      PROVE  Launches'
  BY <1>0 DEF Launches
<1>1. ASSUME NEW c \in Calls, Seating(c)
      PROVE  Launches'
  <2>1. CASE CommitCreate(c)
    BY <2>1, CommitCreateFacts DEF Launches, Locks, NewEmpty, TypeOK
  <2>2. CASE LeaveNext(c)
    <3>1. call[c].who \in Players /\ UNCHANGED launching
      BY <2>2, LeaveNextFacts
    <3>2. PICK s \in Tables :
            \/ seat[s][call[c].who] = "in" /\ Depart(call[c].who, s, "left")
            \/ UNCHANGED status
      BY <2>2, LeaveNextFacts
    <3>3. QED BY <3>1, <3>2, DepartFacts DEF Launches, Locks, TypeOK
  <2>3. CASE \/ ReadOthers(c) \/ CommitSeat(c)
             \/ \E p \in Players : SetPlayBan(c, p) \/ RemoveFromPlay(c, p)
             \/ \E p \in Players, s \in Tables :
                  CreateSession(c, p, s) \/ JoinSession(c, p, s) \/ SeatBack(c, p, s)
    BY <1>0, <2>3 DEF ReadOthers, CommitSeat, SetPlayBan, RemoveFromPlay, CreateSession,
                      JoinSession, SeatBack, tableVars
  <2>4. QED BY <1>1, <2>1, <2>2, <2>3 DEF Seating
<1>2. ASSUME NEW s \in Tables, Table(s)
      PROVE  Launches'
  <2>1. ASSUME NEW p \in Players, LeaveSession(p, s) \/ KickPlayer(p, s)
        PROVE  Launches'
    BY <2>1, DepartFacts DEF LeaveSession, KickPlayer, Launches, Locks, TypeOK
  <2>2. CASE \/ \E p \in Players : StandUp(p, s)
             \/ CancelSession(s) \/ StartSession(s) \/ OpenTable(s) \/ RevertStart(s)
             \/ FinishSession(s) \/ StopRunning(s)
    BY <2>2 DEF StandUp, CancelSession, StartSession, OpenTable, RevertStart, FinishSession,
                StopRunning, Launches, Locks, TypeOK
  <2>3. ASSUME NEW t \in Tables, RematchSession(s, t)
        PROVE  Launches'
    <3>1. UNCHANGED launching
      BY <2>3 DEF RematchSession
    <3>2. QED BY <2>3, <3>1, RematchFacts DEF Launches, Locks, NewEmpty, TypeOK
  <2>4. QED BY <1>2, <2>1, <2>2, <2>3 DEF Table
<1>3. CASE \/ \E p \in Players : LiftPlayBan(p)
           \/ Crash
           \/ UNCHANGED vars
  BY <1>0, <1>3 DEF LiftPlayBan, Crash, vars, tableVars
<1>4. QED BY <1>1, <1>2, <1>3 DEF Next

\* A step that opens no seat and lets every covering call go on.
LEMMA CoveredFrame ==
  ASSUME CoveredSeats, loose \subseteq loose',
         \A p \in Players \ loose' : OpenSeats(p)' \subseteq OpenSeats(p),
         \A c \in Calls : call'[c] = call[c] \/ call[c].at \notin {"others", "leaving"}
  PROVE  CoveredSeats'
<1> SUFFICES ASSUME NEW p \in Players \ loose', NEW s \in OpenSeats(p)', NEW t \in OpenSeats(p)',
                    s # t
             PROVE  \E c \in Calls : Covers(c, p, s, t)'
  BY DEF CoveredSeats
<1>1. PICK c \in Calls : Covers(c, p, s, t)
  BY DEF CoveredSeats
<1>2. call'[c] = call[c]
  BY <1>1 DEF Covers
<1>3. QED BY <1>1, <1>2 DEF Covers

\* A seat just committed makes the player's other tables the call's business.
LEMMA CoveredCommit ==
  ASSUME Locks, CoveredSeats, NEW c \in Calls, CommitCreate(c) \/ CommitSeat(c)
  PROVE  CoveredSeats'
<1>1. PICK u \in Tables :
        /\ call[c].who \in Players
        /\ status' = status \/ (status[u] = "NEW" /\ status' = [status EXCEPT ![u] = "LOBBY"])
        /\ seat' = [seat EXCEPT ![u][call[c].who] = "in"]
        /\ call' = [call EXCEPT ![c] = [at |-> "others", who |-> call[c].who,
                                        keep |-> {u}, left |-> {}]]
        /\ UNCHANGED loose
  BY CommitCreateFacts, CommitSeatFacts DEF noteVars
<1>2. call[c].at \notin {"others", "leaving"}
  BY DEF CommitCreate, CommitSeat
<1>3. /\ call'[c] = [at |-> "others", who |-> call[c].who, keep |-> {u}, left |-> {}]
      /\ \A d \in Calls \ {c} : call'[d] = call[d]
  BY <1>1 DEF Locks, TypeOK
<1>4. ASSUME NEW p \in Players, NEW s \in OpenSeats(p)', s \notin OpenSeats(p)
      PROVE  p = call[c].who /\ s = u
  BY <1>1, <1>4 DEF OpenSeats, Locks, TypeOK, NewEmpty
<1> SUFFICES ASSUME NEW p \in Players \ loose, NEW s \in OpenSeats(p)', NEW t \in OpenSeats(p)',
                    s # t
             PROVE  \E d \in Calls : Covers(d, p, s, t)'
  BY <1>1 DEF CoveredSeats
<1>5. CASE s \in OpenSeats(p) /\ t \in OpenSeats(p)
  <2>1. PICK d \in Calls : Covers(d, p, s, t)
    BY <1>5 DEF CoveredSeats
  <2>2. d # c
    BY <1>2, <2>1 DEF Covers
  <2>3. QED BY <1>3, <2>1, <2>2 DEF Covers
<1>6. CASE s \notin OpenSeats(p) \/ t \notin OpenSeats(p)
  <2>1. p = call[c].who
    BY <1>4, <1>6
  <2>2. Covers(c, p, s, t)'
    BY <1>3, <2>1 DEF Covers
  <2>3. QED BY <2>2
<1>7. QED BY <1>5, <1>6

\* The tables read are all the call covered.
LEMMA CoveredRead ==
  ASSUME Locks, CoveredSeats, NEW c \in Calls, ReadOthers(c)
  PROVE  CoveredSeats'
<1>1. /\ call[c].at = "others"
      /\ UNCHANGED <<status, seat, loose>>
      /\ \A p \in Players : OpenSeats(p)' = OpenSeats(p)
  BY DEF ReadOthers, tableVars, noteVars, OpenSeats
<1> DEFINE others == OpenSeats(call[c].who) \ call[c].keep
<1>2. /\ \A d \in Calls \ {c} : call'[d] = call[d]
      /\ others # {} => call'[c] = [at |-> "leaving", who |-> call[c].who,
                                    keep |-> call[c].keep, left |-> others]
  BY DEF ReadOthers, Go, Rest, Locks, TypeOK
<1> SUFFICES ASSUME NEW p \in Players \ loose, NEW s \in OpenSeats(p), NEW t \in OpenSeats(p),
                    s # t
             PROVE  \E d \in Calls : Covers(d, p, s, t)'
  BY <1>1 DEF CoveredSeats
<1>3. PICK d \in Calls : Covers(d, p, s, t)
  BY DEF CoveredSeats
<1>4. CASE d # c
  BY <1>2, <1>3, <1>4 DEF Covers
<1>5. CASE d = c
  <2>1. call[c].who = p /\ (s \in others \/ t \in others)
    BY <1>1, <1>3, <1>5 DEF Covers
  <2>2. Covers(c, p, s, t)'
    BY <1>2, <2>1 DEF Covers
  <2>3. QED BY <2>2
<1>6. QED BY <1>4, <1>5

\* A departure opens no seat.
LEMMA OpenDepart ==
  ASSUME Locks, NEW q \in Players, NEW u \in Tables, NEW how \in {"left", "kicked"},
         seat[u][q] = "in", Depart(q, u, how)
  PROVE  /\ \A p \in Players : OpenSeats(p)' \subseteq OpenSeats(p)
         /\ u \notin OpenSeats(q)'
<1>1. /\ seat' = [seat EXCEPT ![u][q] = how]
      /\ status'[u] \in {status[u], "ABANDONED"}
      /\ \A t \in Tables \ {u} : status'[t] = status[t]
  BY DepartFacts
<1>2. QED BY <1>1 DEF OpenSeats, Open, Locks, TypeOK

\* The table a call leaves is the only one it stops covering.
LEMMA CoveredLeave ==
  ASSUME Locks, CoveredSeats, NEW c \in Calls, LeaveNext(c)
  PROVE  CoveredSeats'
<1>0. PICK q \in Players : q = call[c].who
  BY LeaveNextFacts
<1>1. call[c].left \subseteq Tables /\ call[c].at = "leaving"
  BY LeaveNextFacts
<1>2. PICK u \in call[c].left :
        \/ /\ seat[u][q] = "in"
           /\ Depart(q, u, "left")
           /\ \/ call' = [call EXCEPT ![c] = Idle] /\ call[c].left \ {u} = {}
              \/ call' = [call EXCEPT ![c] = [at |-> "leaving", who |-> q,
                             keep |-> call[c].keep, left |-> call[c].left \ {u}]]
           /\ loose' = loose
        \/ /\ seat[u][q] # "in"
           /\ UNCHANGED <<status, host, seat>>
           /\ call' = [call EXCEPT ![c] = Idle]
           /\ loose' = IF call[c].left \ {u} = {} THEN loose ELSE loose \union {q}
  BY <1>0, LeaveNextFacts
<1>3. /\ \A d \in Calls \ {c} : call'[d] = call[d]
      /\ loose \subseteq loose'
  BY <1>2 DEF Locks, TypeOK
<1>4. /\ \A p \in Players : OpenSeats(p)' \subseteq OpenSeats(p)
      /\ u \notin OpenSeats(q)'
  <2>1. CASE seat[u][q] = "in" /\ Depart(q, u, "left")
    BY <1>1, <2>1, OpenDepart
  <2>2. CASE seat[u][q] # "in" /\ UNCHANGED <<status, host, seat>>
    BY <2>2 DEF OpenSeats
  <2>3. QED BY <1>2, <2>1, <2>2
<1> SUFFICES ASSUME NEW p \in Players \ loose', NEW s \in OpenSeats(p)', NEW t \in OpenSeats(p)',
                    s # t
             PROVE  \E d \in Calls : Covers(d, p, s, t)'
  BY DEF CoveredSeats
<1>5. PICK d \in Calls : Covers(d, p, s, t)
  BY <1>3, <1>4 DEF CoveredSeats
<1>6. CASE d # c
  BY <1>3, <1>5, <1>6 DEF Covers
<1>7. CASE d = c
  <2>1. p = q /\ (s \in call[c].left \ {u} \/ t \in call[c].left \ {u})
    BY <1>0, <1>1, <1>4, <1>5, <1>7 DEF Covers
  <2>2. call'[c] = [at |-> "leaving", who |-> q,
                    keep |-> call[c].keep, left |-> call[c].left \ {u}]
    BY <1>2, <2>1 DEF Locks, TypeOK
  <2>3. Covers(c, p, s, t)'
    BY <2>1, <2>2 DEF Covers
  <2>4. QED BY <2>3
<1>8. QED BY <1>6, <1>7

LEMMA CoveredTable ==
  ASSUME Locks, OneSeat, NEW s \in Tables, Table(s)
  PROVE  CoveredSeats'
<1>0. CoveredSeats
  BY DEF OneSeat
<1>1. ASSUME NEW p \in Players, LeaveSession(p, s) \/ KickPlayer(p, s)
      PROVE  CoveredSeats'
  <2>1. \A q \in Players : OpenSeats(q)' \subseteq OpenSeats(q)
    BY <1>1, OpenDepart DEF LeaveSession, KickPlayer
  <2>2. UNCHANGED <<call, loose>>
    BY <1>1 DEF LeaveSession, KickPlayer, noteVars
  <2>3. QED BY <1>0, <2>1, <2>2, CoveredFrame
<1>2. ASSUME NEW p \in Players, StandUp(p, s)
      PROVE  CoveredSeats'
  <2>1. \A q \in Players : OpenSeats(q)' \subseteq OpenSeats(q)
    BY <1>2 DEF StandUp, OpenSeats, Locks, TypeOK
  <2>2. UNCHANGED <<call, loose>>
    BY <1>2 DEF StandUp, noteVars
  <2>3. QED BY <1>0, <2>1, <2>2, CoveredFrame
<1>3. CASE \/ CancelSession(s) \/ StartSession(s) \/ OpenTable(s)
           \/ FinishSession(s) \/ StopRunning(s)
  <2>1. \A q \in Players : OpenSeats(q)' \subseteq OpenSeats(q)
    BY <1>3 DEF CancelSession, StartSession, OpenTable, FinishSession, StopRunning,
                OpenSeats, Open, Locks, TypeOK
  <2>2. UNCHANGED <<call, loose>>
    BY <1>3 DEF CancelSession, StartSession, OpenTable, FinishSession, StopRunning, noteVars
  <2>3. QED BY <1>0, <2>1, <2>2, CoveredFrame
<1>4. CASE RevertStart(s)
  <2>1. /\ status[s] \in {"RUNNING", "ABANDONED"}
        /\ status' = [status EXCEPT ![s] = "LOBBY"]
        /\ loose' = IF status[s] = "ABANDONED" THEN loose \union Present(s) ELSE loose
        /\ UNCHANGED <<seat, call>>
    BY <1>4 DEF RevertStart, OneSeat, Launches
  <2>2. \A q \in Players \ loose' : OpenSeats(q)' \subseteq OpenSeats(q)
    BY <2>1 DEF OpenSeats, Open, Present, Locks, TypeOK
  <2>3. QED BY <1>0, <2>1, <2>2, CoveredFrame
<1>5. ASSUME NEW t \in Tables, RematchSession(s, t)
      PROVE  CoveredSeats'
  <2>1. /\ UNCHANGED call
        /\ loose' = loose \union {p \in Present(s) : OpenSeats(p) # {}}
    BY <1>5 DEF RematchSession
  <2>2. \A p \in Players : OpenSeats(p)' \subseteq OpenSeats(p) \union {t}
    BY <1>5, RematchFacts DEF OpenSeats
  <2>3. \A p \in Players : t \in OpenSeats(p)' => p \in Present(s)
    BY <1>5, RematchFacts DEF OpenSeats, Present
  <2> SUFFICES ASSUME NEW p \in Players \ loose', NEW u \in OpenSeats(p)', NEW v \in OpenSeats(p)',
                      u # v
               PROVE  \E c \in Calls : Covers(c, p, u, v)'
    BY DEF CoveredSeats
  <2>4. u \in OpenSeats(p) /\ v \in OpenSeats(p)
    BY <2>1, <2>2, <2>3
  <2>5. PICK c \in Calls : Covers(c, p, u, v)
    BY <1>0, <2>1, <2>4 DEF CoveredSeats
  <2>6. QED BY <2>1, <2>5 DEF Covers
<1>6. QED BY <1>1, <1>2, <1>3, <1>4, <1>5 DEF Table

LEMMA CoveredStep == Locks /\ OneSeat /\ [Next]_vars => CoveredSeats'
<1> SUFFICES ASSUME Locks, OneSeat, [Next]_vars PROVE CoveredSeats'
  OBVIOUS
<1>0. CoveredSeats
  BY DEF OneSeat
<1>1. ASSUME UNCHANGED <<status, seat, loose>>,
             \A c \in Calls : call'[c] = call[c] \/ call[c].at = "rest"
      PROVE  CoveredSeats'
  <2>1. \A p \in Players : OpenSeats(p)' = OpenSeats(p)
    BY <1>1 DEF OpenSeats
  <2>2. QED BY <1>0, <1>1, <2>1, CoveredFrame
<1>2. ASSUME NEW c \in Calls, Seating(c)
      PROVE  CoveredSeats'
  <2>1. CASE \/ \E p \in Players : SetPlayBan(c, p) \/ RemoveFromPlay(c, p)
             \/ \E p \in Players, s \in Tables :
                  CreateSession(c, p, s) \/ JoinSession(c, p, s) \/ SeatBack(c, p, s)
    <3>1. call[c] = Idle /\ UNCHANGED <<status, seat, loose>>
      BY <2>1 DEF SetPlayBan, RemoveFromPlay, CreateSession, JoinSession, SeatBack,
                  tableVars, noteVars
    <3>2. \A d \in Calls \ {c} : call'[d] = call[d]
      BY <2>1 DEF SetPlayBan, RemoveFromPlay, CreateSession, JoinSession, SeatBack,
                  Go, Locks, TypeOK
    <3>3. QED BY <1>1, <3>1, <3>2 DEF Idle
  <2>2. QED BY <1>0, <1>2, <2>1, CoveredCommit, CoveredRead, CoveredLeave DEF Seating
<1>3. CASE Crash
  <2>1. /\ UNCHANGED <<status, seat>>
        /\ loose' = loose \union {p \in Players :
             \E c \in Calls : call[c].at \in {"others", "leaving"} /\ call[c].who = p}
    BY <1>3 DEF Crash
  <2> SUFFICES ASSUME NEW p \in Players \ loose', NEW s \in OpenSeats(p), NEW t \in OpenSeats(p),
                      s # t
               PROVE  FALSE
    BY <2>1 DEF CoveredSeats, OpenSeats
  <2>2. PICK c \in Calls : Covers(c, p, s, t)
    BY <1>0, <2>1 DEF CoveredSeats
  <2>3. QED BY <2>1, <2>2 DEF Covers
<1>4. CASE UNCHANGED vars \/ \E p \in Players : LiftPlayBan(p)
  BY <1>1, <1>4 DEF LiftPlayBan, vars, tableVars, noteVars
<1>5. QED BY <1>0, <1>2, <1>3, <1>4, CoveredTable DEF Next

\* With no call of theirs in flight, nothing covers a second table.
LEMMA OneSeatQuiet == CoveredSeats => QuietOneTable
<1> SUFFICES ASSUME CoveredSeats, NEW p \in Players, ~Busy(p), p \notin loose
             PROVE  Cardinality(OpenSeats(p)) <= 1
  BY DEF QuietOneTable
<1>1. \A s, t \in OpenSeats(p) : s = t
  BY DEF CoveredSeats, Covers, Busy, InFlight, Idle
<1>2. CASE OpenSeats(p) = {}
  BY <1>2, FS_EmptySet
<1>3. CASE OpenSeats(p) # {}
  <2>1. PICK s \in OpenSeats(p) : OpenSeats(p) = {s}
    BY <1>1, <1>3
  <2>2. Cardinality(OpenSeats(p)) = 1
    BY <2>1, FS_Singleton
  <2>3. QED BY <2>2
<1>4. QED BY <1>2, <1>3

\* QuietOneTable: closeOtherTables leaves a player one open table, whatever
\* seatings, bans and departures run at once.
THEOREM OneTable == Spec => []QuietOneTable
<1>1. Init => OneSeat
  BY DEF Init, OneSeat, Launches, CoveredSeats, OpenSeats
<1>2. Locks /\ OneSeat /\ [Next]_vars => OneSeat'
  BY LaunchesStep, CoveredStep DEF OneSeat
<1>3. OneSeat => QuietOneTable
  BY OneSeatQuiet DEF OneSeat
<1>4. QED BY <1>1, <1>2, <1>3, LocksHold, PTL DEF Spec
=============================================================================
