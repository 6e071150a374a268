--------------------------- MODULE SharedDocProofs ---------------------------
(***************************************************************************)
(* Proofs about SharedDoc, for any number of sockets, edits, rooms and     *)
(* faults: its type invariant, who is seated where, and that no edit is    *)
(* lost under the reserves EditsKept states.                               *)
(***************************************************************************)
EXTENDS SharedDoc, TLAPS

-----------------------------------------------------------------------------
(* One room.                                                               *)

\* A room is written in turn; with nobody seated it has nothing left to ask;
\* its last write carries the whole document unless an edit came since.
RoomOK(r) ==
    /\ r \in Room
    /\ r.done <= r.asked
    /\ r.writing => r.done < r.asked
    /\ r.seats = {} => ~r.dirty
    /\ (r.writing /\ ~r.dirty /\ r.asked = r.done + 1) => r.carry = r.doc

LEMMA ResumeRoom ==
  ASSUME NEW r, RoomOK(r)
  PROVE  /\ RoomOK(Resume(r))
         /\ Resume(r).doc = r.doc /\ Resume(r).seats = r.seats /\ Resume(r).dirty = r.dirty
         /\ Resume(r).asked = r.asked /\ Resume(r).done = r.done
         /\ Resume(r).carry = r.carry /\ Resume(r).writing = r.writing
<1>1. r \in Room /\ {n \in r.waits : n > r.done} \in SUBSET Nat
  BY DEF RoomOK, Room
<1>2. QED BY <1>1 DEF RoomOK, Room, Resume

LEMMA PersistRoom ==
  ASSUME NEW r \in Room, r.done <= r.asked, r.writing => r.done < r.asked,
         (r.writing /\ ~r.dirty /\ r.asked = r.done + 1) => r.carry = r.doc
  PROVE  /\ RoomOK(Persist(r))
         /\ Persist(r).doc = r.doc /\ Persist(r).seats = r.seats /\ Persist(r).done = r.done
         /\ Persist(r).dirty = FALSE /\ Persist(r).writing = r.writing
         /\ Persist(r).asked = IF r.dirty THEN r.asked + 1 ELSE r.asked
<1>1. r.asked \in Nat /\ r.done \in Nat /\ r.asked + 1 \in Nat
  BY DEF Room
<1>2. /\ Persist(r).doc = r.doc /\ Persist(r).seats = r.seats /\ Persist(r).done = r.done
      /\ Persist(r).dirty = FALSE /\ Persist(r).writing = r.writing
      /\ Persist(r).carry = r.carry
      /\ Persist(r).asked = IF r.dirty THEN r.asked + 1 ELSE r.asked
  BY DEF Room, Persist
<1>3. Persist(r) \in Room
  BY <1>1 DEF Room, Persist
<1>4. CASE r.dirty
  BY <1>1, <1>2, <1>3, <1>4 DEF RoomOK
<1>5. CASE ~r.dirty
  BY <1>1, <1>2, <1>3, <1>5 DEF RoomOK
<1>6. QED BY <1>2, <1>4, <1>5

LEMMA WrittenRoom ==
  ASSUME NEW r, RoomOK(r), r.asked > r.done
  PROVE  /\ RoomOK(Written(r))
         /\ Written(r).doc = r.doc /\ Written(r).seats = r.seats
         /\ Written(r).dirty = r.dirty
         /\ Written(r).asked = r.asked /\ Written(r).done = r.done + 1
<1>1. r \in Room /\ r.asked \in Nat /\ r.done \in Nat /\ r.done + 1 \in Nat
  BY DEF RoomOK, Room
<1>2. /\ Written(r).doc = r.doc /\ Written(r).seats = r.seats
      /\ Written(r).dirty = r.dirty /\ Written(r).writing = FALSE
      /\ Written(r).asked = r.asked /\ Written(r).done = r.done + 1
  BY <1>1 DEF Room, Written
<1>3. Written(r) \in Room
  BY <1>1 DEF Room, Written
<1>4. QED BY <1>1, <1>2, <1>3 DEF RoomOK

LEMMA AwaitRoom ==
  ASSUME NEW r, RoomOK(r)
  PROVE  /\ RoomOK(Await(r))
         /\ Await(r).doc = r.doc /\ Await(r).seats = r.seats /\ Await(r).dirty = r.dirty
         /\ Await(r).asked = r.asked /\ Await(r).done = r.done
         /\ Await(r).writing = r.writing
         /\ Await(r).waits = r.waits \union {r.asked}
  BY DEF RoomOK, Room, Await

LEMMA ScheduleRoom ==
  ASSUME NEW r, RoomOK(r), NEW e \in Edits
  PROVE  /\ Schedule(r, e) \in Room
         /\ Schedule(r, e).doc = r.doc \union {e} /\ Schedule(r, e).dirty = TRUE
         /\ Schedule(r, e).seats = r.seats /\ Schedule(r, e).writing = r.writing
         /\ Schedule(r, e).asked = r.asked /\ Schedule(r, e).done = r.done
         /\ Schedule(r, e).waits = r.waits
         /\ r.seats # {} => RoomOK(Schedule(r, e))
  BY DEF RoomOK, Room, Schedule

\* A server edit leaves one more write to come.
LEMMA EditRoom ==
  ASSUME NEW r, RoomOK(r), NEW e \in Edits
  PROVE  /\ RoomOK(EditDoc(r, e))
         /\ EditDoc(r, e).doc = r.doc \union {e} /\ EditDoc(r, e).seats = r.seats
         /\ EditDoc(r, e).asked = r.asked + 1 /\ EditDoc(r, e).done = r.done
         /\ EditDoc(r, e).waits = r.waits \union {r.asked + 1}
         /\ EditDoc(r, e).dirty = FALSE
<1> DEFINE s == Schedule(r, e)
<1>1. /\ s \in Room /\ s.dirty = TRUE
      /\ s.doc = r.doc \union {e} /\ s.seats = r.seats /\ s.asked = r.asked /\ s.done = r.done
      /\ s.writing = r.writing /\ s.waits = r.waits
  BY ScheduleRoom
<1>2. s.done <= s.asked /\ (s.writing => s.done < s.asked)
  BY <1>1 DEF RoomOK
<1> HIDE DEF s
<1>3. /\ RoomOK(Persist(s))
      /\ Persist(s).doc = s.doc /\ Persist(s).seats = s.seats /\ Persist(s).done = s.done
      /\ Persist(s).dirty = FALSE /\ Persist(s).asked = s.asked + 1
  BY <1>1, <1>2, PersistRoom
<1>4. Persist(s).waits = s.waits
  BY <1>1 DEF Persist, Room
<1>5. EditDoc(r, e) = Await(Persist(s))
  BY DEF EditDoc, s
<1>6. QED BY <1>1, <1>3, <1>4, <1>5, AwaitRoom

\* A departure keeps the document, and asks for its write if it empties the room.
LEMMA LeaveRoom ==
  ASSUME NEW r, RoomOK(r), NEW leavers \in SUBSET Conns
  PROVE  /\ RoomOK(LeaveDoc(r, leavers))
         /\ LeaveDoc(r, leavers).doc = r.doc
         /\ LeaveDoc(r, leavers).seats = r.seats \ leavers
         /\ LeaveDoc(r, leavers).done = r.done
         /\ LeaveDoc(r, leavers).asked \in {r.asked, r.asked + 1}
         /\ (~LeaveDoc(r, leavers).dirty /\ LeaveDoc(r, leavers).asked = LeaveDoc(r, leavers).done)
               => (~r.dirty /\ r.asked = r.done)
         /\ ~r.dirty => LeaveDoc(r, leavers).asked = r.asked
         /\ LeaveDoc(r, leavers).waits \subseteq r.waits \union {LeaveDoc(r, leavers).asked}
<1> DEFINE left == [r EXCEPT !.seats = @ \ leavers]
<1>1. /\ left \in Room /\ left.seats = r.seats \ leavers
      /\ left.doc = r.doc /\ left.dirty = r.dirty /\ left.asked = r.asked /\ left.done = r.done
      /\ left.writing = r.writing /\ left.carry = r.carry /\ left.waits = r.waits
  BY DEF RoomOK, Room
<1>2. /\ left.done <= left.asked /\ (left.writing => left.done < left.asked)
      /\ (left.writing /\ ~left.dirty /\ left.asked = left.done + 1) => left.carry = left.doc
  BY <1>1 DEF RoomOK
<1>3. r.asked \in Nat /\ r.done \in Nat /\ r.done <= r.asked /\ r.dirty \in BOOLEAN
  BY DEF RoomOK, Room
<1>4. LeaveDoc(r, leavers) =
        IF leavers = {} \/ left.seats # {} THEN left ELSE Await(Persist(left))
  BY DEF LeaveDoc
<1> HIDE DEF left
<1>5. CASE leavers = {} \/ left.seats # {}
  <2>1. RoomOK(left)
    BY <1>1, <1>2, <1>5 DEF RoomOK
  <2>2. QED BY <1>1, <1>4, <1>5, <2>1
<1>6. CASE ~(leavers = {} \/ left.seats # {})
  <2>1. /\ RoomOK(Persist(left))
        /\ Persist(left).doc = left.doc /\ Persist(left).seats = left.seats
        /\ Persist(left).done = left.done /\ Persist(left).dirty = FALSE
        /\ Persist(left).asked = IF left.dirty THEN left.asked + 1 ELSE left.asked
    BY <1>1, <1>2, PersistRoom
  <2>2. Persist(left).waits = left.waits
    BY <1>1 DEF Persist, Room
  <2>3. LeaveDoc(r, leavers) = Await(Persist(left))
    BY <1>4, <1>6
  <2>4. QED BY <1>1, <1>3, <2>1, <2>2, <2>3, AwaitRoom
<1>7. QED BY <1>5, <1>6

-----------------------------------------------------------------------------
(* The rooms and the sockets.                                              *)

Shape ==
    /\ TypeOK
    /\ \A g \in DOMAIN rooms : RoomOK(rooms[g])

\* A page is loaded only while it has no room.
LoadClosed == load # "none" => open = 0

\* A socket with two openings under way followed again before the first ended.
TwoOpenings == \A c \in Conns : (old[c] # "off" /\ cur[c] # "off") => c \in refollowed

\* Under the reserves of EditsKept, only the open room writes; it holds every
\* edit, and the database does once it has nothing more to write.
OneWriter ==
    (~failed /\ ~early) =>
        /\ \A g \in DOMAIN rooms : g # open => rooms[g].asked = rooms[g].done
        /\ open = 0 => 1 .. edits \subseteq stored
        /\ open > 0 =>
             /\ 1 .. edits \subseteq rooms[open].doc
             /\ (~rooms[open].dirty /\ rooms[open].asked = rooms[open].done) =>
                   1 .. edits \subseteq stored
        /\ load = "read" => 1 .. edits \subseteq loaded

Inv ==
    /\ Shape
    /\ LoadClosed
    /\ TwoOpenings
    /\ DirtyHasReader
    /\ SeatedInOpenRoom
    /\ FollowedIsSeated
    /\ OneWriter

LEMMA RoomsAre ==
  ASSUME Shape
  PROVE  /\ DOMAIN rooms = 1 .. Len(rooms) /\ Len(rooms) \in Nat /\ open \in 0 .. Len(rooms)
         /\ open > 0 => open \in DOMAIN rooms
         /\ \A g \in DOMAIN rooms : rooms[g] \in Room
  BY DEF Shape, TypeOK, RoomOK

\* The room g put back as r, what its callers do on the way included.
LEMMA PutRoom ==
  ASSUME Shape, NEW g \in DOMAIN rooms, NEW r, RoomOK(r), Put(g, r)
  PROVE  /\ rooms' \in Seq(Room) /\ open' \in 0 .. Len(rooms') /\ early' \in BOOLEAN
         /\ DOMAIN rooms' = DOMAIN rooms
         /\ \A h \in DOMAIN rooms : h # g => rooms'[h] = rooms[h]
         /\ RoomOK(rooms'[g])
         /\ rooms'[g].doc = r.doc /\ rooms'[g].seats = r.seats /\ rooms'[g].dirty = r.dirty
         /\ rooms'[g].asked = r.asked /\ rooms'[g].done = r.done
         /\ open' = open \/ (open = g /\ open' = 0 /\ r.seats = {}
                             /\ (early' \/ r.asked <= r.done))
         /\ early => early'
<1>1. rooms' = [rooms EXCEPT ![g] = Resume(r)]
  BY DEF Put
<1>2. /\ RoomOK(Resume(r))
      /\ Resume(r).doc = r.doc /\ Resume(r).seats = r.seats /\ Resume(r).dirty = r.dirty
      /\ Resume(r).asked = r.asked /\ Resume(r).done = r.done
  BY ResumeRoom
<1>3. Resume(r) \in Room /\ r \in Room /\ rooms \in Seq(Room)
  BY <1>2 DEF RoomOK, Shape, TypeOK
<1>4. /\ rooms' \in Seq(Room) /\ Len(rooms') = Len(rooms) /\ DOMAIN rooms' = DOMAIN rooms
      /\ rooms'[g] = Resume(r)
      /\ \A h \in DOMAIN rooms : h # g => rooms'[h] = rooms[h]
  BY <1>1, <1>3
<1>5. /\ open' = open \/ (open = g /\ open' = 0 /\ r.seats = {}
                          /\ (early' \/ ~(r.asked > r.done)))
      /\ early => early'
      /\ early' \in BOOLEAN
  BY DEF Put, IsFreed, Shape, TypeOK
<1>6. r.asked \in Nat /\ r.done \in Nat
  BY <1>3 DEF Room
<1>7. open' \in 0 .. Len(rooms')
  BY <1>4, <1>5, RoomsAre
<1>8. QED BY <1>2, <1>4, <1>5, <1>6, <1>7

\* What a put keeps, when the room it writes holds what it must.
LEMMA PutStep ==
  ASSUME Inv, NEW g \in DOMAIN rooms, NEW r, RoomOK(r), Put(g, r),
         open = g \/ r.seats = {},
         load' = load, loaded' = loaded,
         stored' \in SUBSET Edits, cur' \in [Conns -> {"off", "checking", "waiting", "on"}],
         old' \in [Conns -> {"off", "checking", "waiting"}],
         editing' \in BOOLEAN, refollowed' \in SUBSET Conns, failed' \in BOOLEAN,
         edits' \in 0 .. MaxEdits, faults' \in 0 .. MaxFaults,
         TwoOpenings', failed => failed',
         \A c \in Conns \ refollowed' :
            cur'[c] = "on" <=> (open > 0 /\ c \in IF open = g THEN r.seats ELSE rooms[open].seats),
         (~failed' /\ ~early /\ open = g) =>
            /\ 1 .. edits' \subseteq r.doc
            /\ (~r.dirty /\ r.asked = r.done) => 1 .. edits' \subseteq stored',
         (~failed' /\ ~early /\ open # g) =>
            r.asked = r.done /\ stored' = stored /\ edits' = edits
  PROVE  Inv'
<1>1. Shape
  BY DEF Inv
<1>2. /\ rooms' \in Seq(Room) /\ open' \in 0 .. Len(rooms') /\ early' \in BOOLEAN
      /\ DOMAIN rooms' = DOMAIN rooms
      /\ \A h \in DOMAIN rooms : h # g => rooms'[h] = rooms[h]
      /\ RoomOK(rooms'[g])
      /\ rooms'[g].doc = r.doc /\ rooms'[g].seats = r.seats /\ rooms'[g].dirty = r.dirty
      /\ rooms'[g].asked = r.asked /\ rooms'[g].done = r.done
      /\ open' = open \/ (open = g /\ open' = 0 /\ r.seats = {}
                          /\ (early' \/ r.asked <= r.done))
      /\ early => early'
  BY <1>1, PutRoom
<1>3. /\ DOMAIN rooms = 1 .. Len(rooms) /\ Len(rooms) \in Nat /\ open \in 0 .. Len(rooms)
      /\ open > 0 => open \in DOMAIN rooms
      /\ g > 0 /\ g \in Nat
  BY <1>1, RoomsAre
<1>4. r \in Room /\ r.asked \in Nat /\ r.done \in Nat /\ r.done <= r.asked
      /\ (r.seats = {} => ~r.dirty)
  BY DEF RoomOK, Room
<1>5. Shape'
  BY <1>1, <1>2 DEF Shape, TypeOK
<1>6. LoadClosed'
  BY <1>2 DEF Inv, LoadClosed
<1>7. SeatedInOpenRoom'
  BY <1>2 DEF Inv, SeatedInOpenRoom
<1>8. DirtyHasReader'
  BY <1>2, <1>4 DEF Inv, DirtyHasReader
<1>9. FollowedIsSeated'
  <2> SUFFICES ASSUME NEW c \in Conns \ refollowed'
               PROVE  cur'[c] = "on" <=> (open' > 0 /\ c \in rooms'[open'].seats)
    BY DEF FollowedIsSeated
  <2>1. CASE open' = open /\ open = g
    BY <1>2, <2>1
  <2>2. CASE open' = open /\ open # g
    BY <1>2, <1>3, <2>2
  <2>3. CASE open = g /\ open' = 0 /\ r.seats = {}
    BY <1>3, <2>3
  <2>4. QED BY <1>2, <2>1, <2>2, <2>3
<1>10. OneWriter'
  <2> SUFFICES ASSUME ~failed', ~early'
               PROVE  /\ \A h \in DOMAIN rooms' : h # open' => rooms'[h].asked = rooms'[h].done
                      /\ open' = 0 => 1 .. edits' \subseteq stored'
                      /\ open' > 0 =>
                           /\ 1 .. edits' \subseteq rooms'[open'].doc
                           /\ (~rooms'[open'].dirty /\ rooms'[open'].asked = rooms'[open'].done) =>
                                 1 .. edits' \subseteq stored'
                      /\ load' = "read" => 1 .. edits' \subseteq loaded'
    BY DEF OneWriter
  <2>1. ~failed /\ ~early
    BY <1>2
  <2>2. /\ \A h \in DOMAIN rooms : h # open => rooms[h].asked = rooms[h].done
        /\ open = 0 => 1 .. edits \subseteq stored
        /\ open > 0 =>
             /\ 1 .. edits \subseteq rooms[open].doc
             /\ (~rooms[open].dirty /\ rooms[open].asked = rooms[open].done) =>
                   1 .. edits \subseteq stored
        /\ load = "read" => 1 .. edits \subseteq loaded
    BY <2>1 DEF Inv, OneWriter
  <2>3. CASE open = g
    <3>1. load = "none"
      BY <1>3, <2>3 DEF Inv, LoadClosed
    <3>2. \A h \in DOMAIN rooms' : h # g => rooms'[h].asked = rooms'[h].done
      BY <1>2, <2>2, <2>3
    <3>3. CASE open' = open
      BY <1>2, <1>3, <2>1, <2>3, <3>1, <3>2, <3>3
    <3>4. CASE open' = 0 /\ r.seats = {} /\ r.asked <= r.done
      <4>1. r.asked = r.done /\ ~r.dirty
        BY <1>4, <3>4
      <4>2. 1 .. edits' \subseteq stored'
        BY <2>1, <2>3, <4>1
      <4>3. QED BY <1>2, <3>1, <3>2, <3>4, <4>1, <4>2
    <3>5. QED BY <1>2, <3>3, <3>4
  <2>4. CASE open # g
    BY <1>2, <1>3, <2>1, <2>2, <2>4
  <2>5. QED BY <2>3, <2>4
<1>11. QED BY <1>5, <1>6, <1>7, <1>8, <1>9, <1>10 DEF Inv

\* A step that puts no room.
LEMMA FrameStep ==
  ASSUME Inv, UNCHANGED <<stored, rooms, open, early, failed, edits>>,
         TypeOK', TwoOpenings', LoadClosed',
         \A c \in Conns \ refollowed' : c \notin refollowed /\ (cur'[c] = "on" <=> cur[c] = "on"),
         load' = "read" => (load = "read" /\ loaded' = loaded) \/ (open = 0 /\ loaded' = stored)
  PROVE  Inv'
<1>1. Shape' /\ DirtyHasReader' /\ SeatedInOpenRoom'
  BY DEF Inv, Shape, DirtyHasReader, SeatedInOpenRoom
<1>2. FollowedIsSeated'
  BY DEF Inv, FollowedIsSeated
<1>3. OneWriter'
  BY DEF Inv, OneWriter
<1>4. QED BY <1>1, <1>2, <1>3 DEF Inv

LEMMA Start == Init => Inv
<1> SUFFICES ASSUME Init PROVE Inv
  OBVIOUS
<1>0. rooms = <<>> /\ rooms \in Seq(Room) /\ Len(rooms) = 0
  BY DEF Init
<1>1. TypeOK
  <2>1. open \in 0 .. Len(rooms) /\ edits \in 0 .. MaxEdits /\ faults \in 0 .. MaxFaults
    BY <1>0, BoundsAssumption DEF Init
  <2>2. /\ cur \in [Conns -> {"off", "checking", "waiting", "on"}]
        /\ old \in [Conns -> {"off", "checking", "waiting"}]
    BY DEF Init
  <2>3. QED BY <1>0, <2>1, <2>2 DEF Init, TypeOK
<1>2. Shape /\ LoadClosed /\ TwoOpenings /\ DirtyHasReader /\ SeatedInOpenRoom /\ FollowedIsSeated
  BY <1>0, <1>1
  DEF Init, Shape, LoadClosed, TwoOpenings, DirtyHasReader, SeatedInOpenRoom, FollowedIsSeated
<1>3. OneWriter
  BY <1>0 DEF Init, OneWriter
<1>4. QED BY <1>2, <1>3 DEF Inv

\* A room that takes an edit, written or to be written.
LEMMA Edited ==
  ASSUME Inv, edits < MaxEdits
  PROVE  /\ edits + 1 \in Edits /\ edits + 1 \in 0 .. MaxEdits
         /\ 1 .. edits + 1 = 1 .. edits \union {edits + 1}
<1>1. edits \in Nat
  BY DEF Inv, Shape, TypeOK
<1>2. QED BY <1>1, BoundsAssumption DEF Edits

\* What the open room holds, and who sits there.
LEMMA OpenRoom ==
  ASSUME Inv, open > 0
  PROVE  /\ open \in DOMAIN rooms /\ RoomOK(rooms[open]) /\ load = "none"
         /\ \A c \in Conns \ refollowed : cur[c] = "on" <=> c \in rooms[open].seats
         /\ (~failed /\ ~early) =>
              /\ 1 .. edits \subseteq rooms[open].doc
              /\ (~rooms[open].dirty /\ rooms[open].asked = rooms[open].done) =>
                    1 .. edits \subseteq stored
<1>1. open \in DOMAIN rooms /\ RoomOK(rooms[open])
  BY RoomsAre DEF Inv, Shape
<1>2. open # 0
  BY DEF Inv, Shape, TypeOK
<1>3. QED BY <1>1, <1>2 DEF Inv, LoadClosed, FollowedIsSeated, OneWriter

LEMMA SocketStep ==
  ASSUME Inv, NEW c \in Conns, Socket(c)
  PROVE  Inv'
<1>0. TypeOK
  BY DEF Inv, Shape
<1>1. CASE Follow(c)
  <2>1. TypeOK' /\ TwoOpenings' /\ LoadClosed'
    BY <1>0, <1>1 DEF Follow, TypeOK, Inv, TwoOpenings, LoadClosed
  <2>2. \A d \in Conns \ refollowed' : d \notin refollowed /\ (cur'[d] = "on" <=> cur[d] = "on")
    BY <1>0, <1>1 DEF Follow, TypeOK
  <2>3. QED BY <1>1, <2>1, <2>2, FrameStep DEF Follow
<1>2. CASE GiveUp(c)
  <2>1. TypeOK' /\ TwoOpenings' /\ LoadClosed'
    BY <1>0, <1>2 DEF GiveUp, TypeOK, Inv, TwoOpenings, LoadClosed, noteVars
  <2>2. \A d \in Conns \ refollowed' : d \notin refollowed /\ (cur'[d] = "on" <=> cur[d] = "on")
    BY <1>0, <1>2 DEF GiveUp, TypeOK, noteVars
  <2>3. QED BY <1>2, <2>1, <2>2, FrameStep DEF GiveUp, noteVars
<1>3. CASE Refused(c)
  <2>1. TypeOK' /\ TwoOpenings' /\ LoadClosed'
    BY <1>0, <1>3 DEF Refused, TypeOK, Inv, TwoOpenings, LoadClosed, noteVars
  <2>2. \A d \in Conns \ refollowed' : d \notin refollowed /\ (cur'[d] = "on" <=> cur[d] = "on")
    BY <1>0, <1>3 DEF Refused, TypeOK, noteVars
  <2>3. QED BY <1>3, <2>1, <2>2, FrameStep DEF Refused, noteVars
<1>4. CASE Unfollow(c)
  <2>1. /\ cur[c] = "on" /\ cur' = [cur EXCEPT ![c] = "off"]
        /\ UNCHANGED <<stored, load, loaded, old, editing, refollowed, failed, edits, faults>>
    BY <1>4 DEF Unfollow
  <2>2. TwoOpenings' /\ cur' \in [Conns -> {"off", "checking", "waiting", "on"}]
    BY <1>0, <2>1 DEF TypeOK, Inv, TwoOpenings
  <2>3. CASE open > 0 /\ c \in rooms[open].seats
    <3> DEFINE r == LeaveDoc(rooms[open], {c})
    <3>1. Put(open, r)
      BY <1>4, <2>3 DEF Unfollow
    <3>2. /\ RoomOK(r) /\ r.doc = rooms[open].doc
          /\ r.seats = rooms[open].seats \ {c}
          /\ (~r.dirty /\ r.asked = r.done) =>
                (~rooms[open].dirty /\ rooms[open].asked = rooms[open].done)
      BY <2>3, OpenRoom, LeaveRoom
    <3> HIDE DEF r
    <3>3. \A d \in Conns \ refollowed' : cur'[d] = "on" <=> d \in r.seats
      BY <1>0, <2>1, <2>3, <3>2, OpenRoom DEF TypeOK
    <3>4. QED
      BY <1>0, <2>1, <2>2, <2>3, <3>1, <3>2, <3>3, OpenRoom, PutStep DEF TypeOK
  <2>4. CASE ~(open > 0 /\ c \in rooms[open].seats)
    <3>1. UNCHANGED <<rooms, open, early>>
      BY <1>4, <2>4 DEF Unfollow
    <3>2. c \in refollowed
      BY <2>1, <2>4 DEF Inv, FollowedIsSeated
    <3>3. TypeOK' /\ LoadClosed'
      BY <1>0, <2>1, <2>2, <3>1 DEF TypeOK, Inv, LoadClosed
    <3>4. \A d \in Conns \ refollowed' : d \notin refollowed /\ (cur'[d] = "on" <=> cur[d] = "on")
      BY <1>0, <2>1, <3>2 DEF TypeOK
    <3>5. QED BY <2>1, <2>2, <3>1, <3>3, <3>4, FrameStep
  <2>5. QED BY <2>3, <2>4
<1>5. CASE Granted(c)
  <2>1. /\ cur[c] = "checking"
        /\ UNCHANGED <<stored, loaded, old, editing, refollowed, failed, edits, faults>>
    BY <1>5 DEF Granted
  <2>2. CASE open > 0
    <3> DEFINE r == [rooms[open] EXCEPT !.seats = @ \union {c}]
    <3>1. Put(open, r) /\ load' = load /\ cur' = [cur EXCEPT ![c] = "on"]
      BY <1>5, <2>2 DEF Granted
    <3>2. /\ RoomOK(r) /\ r.doc = rooms[open].doc
          /\ r.seats = rooms[open].seats \union {c}
          /\ r.dirty = rooms[open].dirty /\ r.asked = rooms[open].asked
          /\ r.done = rooms[open].done
      BY <2>2, OpenRoom DEF RoomOK, Room
    <3> HIDE DEF r
    <3>3. TwoOpenings' /\ cur' \in [Conns -> {"off", "checking", "waiting", "on"}]
      BY <1>0, <2>1, <3>1 DEF TypeOK, Inv, TwoOpenings
    <3>4. \A d \in Conns \ refollowed' : cur'[d] = "on" <=> d \in r.seats
      BY <1>0, <2>1, <2>2, <3>1, <3>2, OpenRoom DEF TypeOK
    <3>5. QED
      BY <1>0, <2>1, <2>2, <3>1, <3>2, <3>3, <3>4, OpenRoom, PutStep DEF TypeOK
  <2>3. CASE ~(open > 0)
    <3>1. /\ cur' = [cur EXCEPT ![c] = "waiting"]
          /\ load' = IF load = "none" THEN "asked" ELSE load
          /\ UNCHANGED <<rooms, open, early>>
      BY <1>5, <2>3 DEF Granted
    <3>2. open = 0
      BY <1>0, <2>3, RoomsAre DEF Inv
    <3>3. TypeOK' /\ TwoOpenings' /\ LoadClosed'
      BY <1>0, <2>1, <3>1, <3>2 DEF TypeOK, Inv, TwoOpenings, LoadClosed
    <3>4. \A d \in Conns \ refollowed' : d \notin refollowed /\ (cur'[d] = "on" <=> cur[d] = "on")
      BY <1>0, <2>1, <3>1 DEF TypeOK
    <3>5. QED BY <2>1, <3>1, <3>3, <3>4, FrameStep
  <2>4. QED BY <2>2, <2>3
<1>6. CASE GrantedLate(c)
  <2>1. /\ old[c] = "checking"
        /\ UNCHANGED <<stored, loaded, cur, editing, refollowed, failed, edits, faults>>
    BY <1>6 DEF GrantedLate
  <2>2. CASE open > 0
    <3> DEFINE r == LeaveDoc(rooms[open], {c})
    <3>1. Put(open, r) /\ load' = load /\ old' = [old EXCEPT ![c] = "off"]
      BY <1>6, <2>2 DEF GrantedLate
    <3>2. /\ RoomOK(r) /\ r.doc = rooms[open].doc
          /\ r.seats = rooms[open].seats \ {c}
          /\ (~r.dirty /\ r.asked = r.done) =>
                (~rooms[open].dirty /\ rooms[open].asked = rooms[open].done)
      BY <2>2, OpenRoom, LeaveRoom
    <3> HIDE DEF r
    <3>3. TwoOpenings' /\ old' \in [Conns -> {"off", "checking", "waiting"}]
      BY <1>0, <2>1, <3>1 DEF TypeOK, Inv, TwoOpenings
    <3>4. c \notin refollowed => cur[c] # "on"
      BY <2>1 DEF Inv, TwoOpenings
    <3>5. \A d \in Conns \ refollowed' : cur'[d] = "on" <=> d \in r.seats
      BY <1>0, <2>1, <2>2, <3>2, <3>4, OpenRoom DEF TypeOK
    <3>6. QED
      BY <1>0, <2>1, <2>2, <3>1, <3>2, <3>3, <3>5, OpenRoom, PutStep DEF TypeOK
  <2>3. CASE ~(open > 0)
    <3>1. /\ old' = [old EXCEPT ![c] = "waiting"]
          /\ load' = IF load = "none" THEN "asked" ELSE load
          /\ UNCHANGED <<rooms, open, early>>
      BY <1>6, <2>3 DEF GrantedLate
    <3>2. open = 0
      BY <1>0, <2>3, RoomsAre DEF Inv
    <3>3. TypeOK' /\ TwoOpenings' /\ LoadClosed'
      BY <1>0, <2>1, <3>1, <3>2 DEF TypeOK, Inv, TwoOpenings, LoadClosed
    <3>4. QED BY <2>1, <3>1, <3>3, FrameStep
  <2>4. QED BY <2>2, <2>3
<1>7. CASE DocUpdate(c)
  <2>1. /\ open > 0 /\ c \in rooms[open].seats
        /\ edits < MaxEdits /\ edits' = edits + 1
        /\ Put(open, Schedule(rooms[open], edits + 1))
        /\ UNCHANGED <<stored, load, loaded, cur, old, editing, refollowed, failed, faults>>
    BY <1>7 DEF DocUpdate
  <2> DEFINE r == Schedule(rooms[open], edits + 1)
  <2>2. /\ RoomOK(r) /\ r.doc = rooms[open].doc \union {edits + 1}
        /\ r.seats = rooms[open].seats /\ r.dirty = TRUE
    <3>1. RoomOK(rooms[open]) /\ rooms[open].seats # {} /\ edits + 1 \in Edits
      BY <2>1, OpenRoom, Edited
    <3>2. QED BY <3>1, ScheduleRoom
  <2>3. Put(open, r)
    BY <2>1
  <2> HIDE DEF r
  <2>4. \A d \in Conns \ refollowed' : cur'[d] = "on" <=> d \in r.seats
    BY <2>1, <2>2, OpenRoom
  <2>5. TwoOpenings'
    BY <2>1 DEF Inv, TwoOpenings
  <2>6. (~failed' /\ ~early) => 1 .. edits' \subseteq r.doc
    BY <2>1, <2>2, OpenRoom, Edited
  <2>7. QED
    BY <1>0, <2>1, <2>2, <2>3, <2>4, <2>5, <2>6, OpenRoom, Edited, PutStep DEF TypeOK
<1>8. QED BY <1>1, <1>2, <1>3, <1>4, <1>5, <1>6, <1>7 DEF Socket

LEMMA ServerEditStep ==
  ASSUME Inv, ServerEdit
  PROVE  Inv'
<1>0. TypeOK
  BY DEF Inv, Shape
<1>1. /\ edits < MaxEdits /\ ~editing
      /\ UNCHANGED <<stored, loaded, cur, old, refollowed, failed, faults>>
  BY DEF ServerEdit
<1>2. TwoOpenings'
  BY <1>1 DEF Inv, TwoOpenings
<1>3. CASE open > 0
  <2> DEFINE r == EditDoc(rooms[open], edits + 1)
  <2>1. Put(open, r) /\ edits' = edits + 1 /\ UNCHANGED <<load, editing>>
    BY <1>3 DEF ServerEdit
  <2>2. RoomOK(rooms[open]) /\ edits + 1 \in Edits
    BY <1>1, <1>3, OpenRoom, Edited
  <2>3. /\ RoomOK(r) /\ r.doc = rooms[open].doc \union {edits + 1}
        /\ r.seats = rooms[open].seats
        /\ r.asked = rooms[open].asked + 1 /\ r.done = rooms[open].done
    BY <2>2, EditRoom
  <2>4. r.asked # r.done
    BY <2>2, <2>3 DEF RoomOK, Room
  <2> HIDE DEF r
  <2>5. \A d \in Conns \ refollowed' : cur'[d] = "on" <=> d \in r.seats
    BY <1>1, <1>3, <2>3, OpenRoom
  <2>6. (~failed' /\ ~early) => 1 .. edits' \subseteq r.doc
    BY <1>1, <1>3, <2>1, <2>3, OpenRoom, Edited
  <2>7. QED
    BY <1>0, <1>1, <1>2, <1>3, <2>1, <2>3, <2>4, <2>5, <2>6, OpenRoom, Edited, PutStep
    DEF TypeOK
<1>4. CASE ~(open > 0)
  <2>1. /\ editing' = TRUE
        /\ load' = IF load = "none" THEN "asked" ELSE load
        /\ UNCHANGED <<rooms, open, early, edits>>
    BY <1>4 DEF ServerEdit
  <2>2. open = 0
    BY <1>0, <1>4, RoomsAre DEF Inv
  <2>3. TypeOK' /\ LoadClosed'
    BY <1>0, <1>1, <2>1, <2>2 DEF TypeOK, Inv, LoadClosed
  <2>4. QED BY <1>1, <1>2, <2>1, <2>3, FrameStep
<1>5. QED BY <1>3, <1>4

LEMMA LoadStep ==
  ASSUME Inv, LoadRead \/ LoadFails
  PROVE  Inv'
<1>0. TypeOK
  BY DEF Inv, Shape
<1>1. CASE LoadRead
  <2>1. TypeOK' /\ TwoOpenings' /\ LoadClosed'
    BY <1>0, <1>1 DEF LoadRead, TypeOK, Inv, TwoOpenings, LoadClosed, noteVars
  <2>2. open = 0
    BY <1>1 DEF LoadRead, Inv, LoadClosed
  <2>3. QED BY <1>1, <2>1, <2>2, FrameStep DEF LoadRead, noteVars
<1>2. CASE LoadFails
  <2>1. /\ faults < MaxFaults /\ faults' = faults + 1 /\ load' = "none" /\ editing' = FALSE
        /\ cur' = [c \in Conns |-> IF cur[c] = "waiting" THEN "off" ELSE cur[c]]
        /\ old' = [c \in Conns |-> IF old[c] = "waiting" THEN "off" ELSE old[c]]
        /\ UNCHANGED <<stored, rooms, open, loaded, refollowed, early, failed, edits>>
    BY <1>2 DEF LoadFails
  <2>2. /\ cur' \in [Conns -> {"off", "checking", "waiting", "on"}]
        /\ old' \in [Conns -> {"off", "checking", "waiting"}]
        /\ faults' \in 0 .. MaxFaults
    BY <1>0, <2>1, BoundsAssumption DEF TypeOK
  <2>3. TypeOK'
    BY <1>0, <2>1, <2>2 DEF TypeOK
  <2>4. TwoOpenings' /\ LoadClosed'
    BY <2>1 DEF Inv, TwoOpenings, LoadClosed
  <2>5. \A d \in Conns \ refollowed' : d \notin refollowed /\ (cur'[d] = "on" <=> cur[d] = "on")
    BY <2>1
  <2>6. QED BY <2>1, <2>3, <2>4, <2>5, FrameStep
<1>3. QED BY <1>1, <1>2

\* The room a load opens holds all that is stored, and seats who waited.
LEMMA LoadDoneStep ==
  ASSUME Inv, LoadDone
  PROVE  Inv'
<1>0. TypeOK /\ open = 0 /\ load = "read"
  BY DEF Inv, Shape, LoadClosed, LoadDone
<1> DEFINE waiting == {c \in Conns : cur[c] = "waiting"}
           leavers == {c \in Conns : old[c] = "waiting"}
           fresh == [doc |-> loaded, seats |-> waiting \union leavers,
                     dirty |-> FALSE, timer |-> FALSE, asked |-> 0, done |-> 0,
                     writing |-> FALSE, carry |-> {}, waits |-> {}]
           edited == IF editing THEN EditDoc(fresh, edits + 1) ELSE fresh
           room == LeaveDoc(edited, leavers)
<1>1. /\ Len(rooms) < MaxRooms
      /\ editing => edits < MaxEdits
      /\ rooms' = Append(rooms, Resume(room))
      /\ open' = IF IsFreed(room) THEN 0 ELSE Len(rooms) + 1
      /\ cur' = [c \in Conns |-> IF c \in waiting THEN "on" ELSE cur[c]]
      /\ old' = [c \in Conns |-> IF c \in leavers THEN "off" ELSE old[c]]
      /\ edits' = IF editing THEN edits + 1 ELSE edits
      /\ editing' = FALSE /\ load' = "none" /\ loaded' = {}
      /\ UNCHANGED <<stored, refollowed, early, failed, faults>>
  BY DEF LoadDone
<1>2. /\ waiting \subseteq Conns /\ leavers \subseteq Conns
      /\ RoomOK(fresh)
      /\ fresh.doc = loaded /\ fresh.seats = waiting \union leavers /\ fresh.dirty = FALSE
      /\ fresh.asked = 0 /\ fresh.done = 0 /\ fresh.waits = {}
  BY <1>0 DEF TypeOK, RoomOK, Room
<1> HIDE DEF waiting, leavers, fresh
<1>3. /\ RoomOK(edited) /\ edited.seats = waiting \union leavers /\ edited.done = 0
      /\ edited.dirty = FALSE
      /\ IF editing
           THEN /\ edited.doc = loaded \union {edits + 1}
                /\ edited.asked = 1 /\ edited.waits = {1}
           ELSE edited.doc = loaded /\ edited.asked = 0 /\ edited.waits = {}
  <2>1. CASE editing
    <3>1. edits + 1 \in Edits
      BY <1>1, <2>1, Edited
    <3>2. /\ RoomOK(EditDoc(fresh, edits + 1))
          /\ EditDoc(fresh, edits + 1).doc = fresh.doc \union {edits + 1}
          /\ EditDoc(fresh, edits + 1).seats = fresh.seats
          /\ EditDoc(fresh, edits + 1).asked = fresh.asked + 1
          /\ EditDoc(fresh, edits + 1).done = fresh.done
          /\ EditDoc(fresh, edits + 1).waits = fresh.waits \union {fresh.asked + 1}
          /\ EditDoc(fresh, edits + 1).dirty = FALSE
      BY <1>2, <3>1, EditRoom
    <3>3. edited = EditDoc(fresh, edits + 1)
      BY <2>1
    <3> HIDE DEF edited
    <3>4. QED BY <1>2, <2>1, <3>2, <3>3
  <2>2. CASE ~editing
    BY <1>2, <2>2
  <2>3. QED BY <2>1, <2>2
<1> HIDE DEF edited
<1>4. /\ RoomOK(room) /\ room.doc = edited.doc /\ room.seats = waiting \ leavers
      /\ room.done = 0 /\ room.asked = edited.asked
      /\ room.waits \subseteq edited.waits \union {edited.asked}
  <2>1. /\ RoomOK(room)
        /\ room.doc = edited.doc
        /\ room.seats = edited.seats \ leavers
        /\ room.done = edited.done
        /\ ~edited.dirty => room.asked = edited.asked
        /\ room.waits \subseteq edited.waits \union {room.asked}
    BY <1>2, <1>3, LeaveRoom
  <2> HIDE DEF room
  <2>2. QED BY <1>3, <2>1
<1>5. IsFreed(room) => room.seats = {} /\ ~editing
  <2>1. \A n \in room.waits : editing => n = 1
    BY <1>3, <1>4
  <2>2. QED BY <1>4, <2>1 DEF IsFreed
<1> HIDE DEF room
<1>6. /\ RoomOK(Resume(room)) /\ Resume(room).doc = room.doc
      /\ Resume(room).seats = room.seats /\ Resume(room).dirty = room.dirty
      /\ Resume(room).asked = room.asked /\ Resume(room).done = room.done
  BY <1>4, ResumeRoom
<1>7. /\ Len(rooms) \in Nat /\ DOMAIN rooms = 1 .. Len(rooms)
      /\ Resume(room) \in Room /\ rooms \in Seq(Room)
  BY <1>0, <1>6 DEF TypeOK, RoomOK
<1>8. /\ rooms' \in Seq(Room) /\ Len(rooms') = Len(rooms) + 1
      /\ DOMAIN rooms' = 1 .. Len(rooms) + 1
      /\ rooms'[Len(rooms) + 1] = Resume(room)
      /\ \A g \in DOMAIN rooms : rooms'[g] = rooms[g]
  BY <1>1, <1>7
<1>9. \A g \in DOMAIN rooms' : g \in DOMAIN rooms \/ g = Len(rooms) + 1
  BY <1>7, <1>8
<1>10. open' \in 0 .. Len(rooms') /\ open' \in {0, Len(rooms) + 1}
  BY <1>1, <1>7, <1>8
<1>11. edits' \in 0 .. MaxEdits
  BY <1>0, <1>1, Edited DEF TypeOK
<1>12. /\ cur' \in [Conns -> {"off", "checking", "waiting", "on"}]
       /\ old' \in [Conns -> {"off", "checking", "waiting"}]
  BY <1>0, <1>1 DEF TypeOK
<1>13. TypeOK'
  BY <1>0, <1>1, <1>8, <1>10, <1>11, <1>12 DEF TypeOK
<1>14. Shape'
  BY <1>6, <1>8, <1>9, <1>13 DEF Inv, Shape
<1>15. LoadClosed'
  BY <1>1 DEF LoadClosed
<1>16. TwoOpenings'
  BY <1>1 DEF Inv, TwoOpenings, waiting, leavers
<1>17. \A g \in DOMAIN rooms : rooms[g].seats = {} /\ ~rooms[g].dirty
  BY <1>0, <1>7 DEF Inv, SeatedInOpenRoom, DirtyHasReader
<1>18. SeatedInOpenRoom'
  BY <1>1, <1>5, <1>6, <1>8, <1>9, <1>17 DEF SeatedInOpenRoom
<1>19. DirtyHasReader'
  <2>1. room.dirty => room.seats # {}
    BY <1>4 DEF RoomOK
  <2>2. QED BY <1>1, <1>5, <1>6, <1>8, <1>9, <1>17, <2>1 DEF DirtyHasReader
<1>20. FollowedIsSeated'
  <2> SUFFICES ASSUME NEW c \in Conns \ refollowed
               PROVE  cur'[c] = "on" <=> (open' > 0 /\ c \in rooms'[open'].seats)
    BY <1>1 DEF FollowedIsSeated
  <2>1. cur[c] # "on"
    BY <1>0 DEF Inv, FollowedIsSeated
  <2>2. c \in waiting => c \notin leavers
    BY DEF Inv, TwoOpenings, waiting, leavers
  <2>3. cur'[c] = "on" <=> c \in room.seats
    BY <1>1, <1>4, <2>1, <2>2
  <2>4. QED BY <1>1, <1>5, <1>6, <1>7, <1>8, <2>3
<1>21. OneWriter'
  <2> SUFFICES ASSUME ~failed, ~early
               PROVE  /\ \A h \in DOMAIN rooms' : h # open' => rooms'[h].asked = rooms'[h].done
                      /\ open' = 0 => 1 .. edits' \subseteq stored'
                      /\ open' > 0 =>
                           /\ 1 .. edits' \subseteq rooms'[open'].doc
                           /\ (~rooms'[open'].dirty /\ rooms'[open'].asked = rooms'[open'].done) =>
                                 1 .. edits' \subseteq stored'
    BY <1>1 DEF OneWriter
  <2>1. /\ \A h \in DOMAIN rooms : rooms[h].asked = rooms[h].done
        /\ 1 .. edits \subseteq stored
        /\ 1 .. edits \subseteq loaded
    BY <1>0, <1>7 DEF Inv, OneWriter
  <2>2. 1 .. edits' \subseteq room.doc
    BY <1>1, <1>3, <1>4, <2>1, Edited
  <2>3. ~editing => room.asked = room.done /\ 1 .. edits' \subseteq stored'
    BY <1>1, <1>3, <1>4, <2>1
  <2>4. editing => room.asked # room.done
    BY <1>3, <1>4
  <2>5. QED BY <1>1, <1>5, <1>6, <1>7, <1>8, <1>9, <2>1, <2>2, <2>3, <2>4
<1>22. QED
  BY <1>14, <1>15, <1>16, <1>18, <1>19, <1>20, <1>21 DEF Inv

LEMMA WriteStep ==
  ASSUME Inv, NEW g \in DOMAIN rooms, Write(g) \/ SaveFails(g)
  PROVE  Inv'
<1>0. TypeOK /\ RoomOK(rooms[g]) /\ rooms[g] \in Room
  BY DEF Inv, Shape, RoomOK
<1>1. open = g \/ rooms[g].seats = {}
  BY DEF Inv, SeatedInOpenRoom
<1>2. \A c \in Conns \ refollowed :
         cur[c] = "on" <=> (open > 0 /\ c \in rooms[open].seats)
  BY DEF Inv, FollowedIsSeated
<1>3. /\ (~failed /\ ~early /\ open = g) =>
           /\ 1 .. edits \subseteq rooms[g].doc
           /\ (~rooms[g].dirty /\ rooms[g].asked = rooms[g].done) => 1 .. edits \subseteq stored
      /\ (~failed /\ ~early /\ open # g) => rooms[g].asked = rooms[g].done
  <2>1. g > 0
    BY RoomsAre DEF Inv
  <2>2. QED BY <2>1 DEF Inv, OneWriter
<1>4. rooms[g].asked \in Nat /\ rooms[g].done \in Nat
  BY <1>0 DEF Room
<1>5. CASE TimerFires(g)
  <2> DEFINE r == Persist(rooms[g])
  <2>1. /\ Put(g, r)
        /\ UNCHANGED <<stored, load, loaded, cur, old, editing, refollowed, failed, edits, faults>>
    BY <1>5 DEF TimerFires
  <2>2. /\ RoomOK(r) /\ r.doc = rooms[g].doc /\ r.seats = rooms[g].seats
        /\ r.done = rooms[g].done
        /\ r.asked = IF rooms[g].dirty THEN rooms[g].asked + 1 ELSE rooms[g].asked
    BY <1>0, PersistRoom DEF RoomOK
  <2> HIDE DEF r
  <2>3. r.asked = r.done => ~rooms[g].dirty /\ rooms[g].asked = rooms[g].done
    BY <1>0, <1>4, <2>2 DEF RoomOK
  <2>4. open # g => r.asked = rooms[g].asked
    BY <2>2 DEF Inv, DirtyHasReader
  <2>5. TwoOpenings'
    BY <2>1 DEF Inv, TwoOpenings
  <2>6. QED
    BY <1>0, <1>1, <1>2, <1>3, <2>1, <2>2, <2>3, <2>4, <2>5, PutStep DEF TypeOK
<1>6. CASE Encode(g)
  <2> DEFINE r == [rooms[g] EXCEPT !.writing = TRUE, !.carry = rooms[g].doc]
  <2>1. /\ Put(g, r) /\ rooms[g].asked > rooms[g].done
        /\ UNCHANGED <<stored, load, loaded, cur, old, editing, refollowed, failed, edits, faults>>
    BY <1>6 DEF Encode
  <2>2. /\ RoomOK(r) /\ r.doc = rooms[g].doc /\ r.seats = rooms[g].seats
        /\ r.dirty = rooms[g].dirty /\ r.done = rooms[g].done /\ r.asked = rooms[g].asked
    BY <1>0, <1>4, <2>1 DEF RoomOK, Room
  <2> HIDE DEF r
  <2>3. TwoOpenings'
    BY <2>1 DEF Inv, TwoOpenings
  <2>4. QED
    BY <1>0, <1>1, <1>2, <1>3, <1>4, <2>1, <2>2, <2>3, PutStep DEF TypeOK
<1>7. CASE Commit(g) \/ SaveFails(g)
  <2> DEFINE r == Written(rooms[g])
  <2>1. /\ Put(g, r)
        /\ UNCHANGED <<load, loaded, cur, old, editing, refollowed, edits>>
        /\ failed => failed'
    BY <1>7 DEF Commit, SaveFails
  <2>2. rooms[g].asked > rooms[g].done
    BY <1>0, <1>4, <1>7 DEF Commit, SaveFails, RoomOK
  <2>3. /\ RoomOK(r) /\ r.doc = rooms[g].doc /\ r.seats = rooms[g].seats
        /\ r.dirty = rooms[g].dirty /\ r.done = rooms[g].done + 1 /\ r.asked = rooms[g].asked
    BY <1>0, <2>2, WrittenRoom
  <2> HIDE DEF r
  <2>4. stored' \in SUBSET Edits /\ failed' \in BOOLEAN /\ faults' \in 0 .. MaxFaults
    <3>1. CASE Commit(g)
      BY <1>0, <3>1 DEF Commit, TypeOK, Room
    <3>2. CASE SaveFails(g)
      BY <1>0, <3>2, BoundsAssumption DEF SaveFails, TypeOK
    <3>3. QED BY <1>7, <3>1, <3>2
  <2>5. TwoOpenings'
    BY <2>1 DEF Inv, TwoOpenings
  <2>6. (~failed' /\ ~early) => open = g
    BY <1>3, <1>4, <2>1, <2>2
  <2>7. (~failed' /\ ~early /\ ~r.dirty /\ r.asked = r.done) => 1 .. edits' \subseteq stored'
    <3>1. CASE SaveFails(g)
      BY <3>1 DEF SaveFails
    <3>2. CASE Commit(g)
      <4>1. rooms[g].writing /\ stored' = rooms[g].carry
        BY <3>2 DEF Commit
      <4>2. (~r.dirty /\ r.asked = r.done) => rooms[g].carry = rooms[g].doc
        BY <1>0, <1>4, <2>3, <4>1 DEF RoomOK
      <4>3. QED BY <1>3, <2>1, <2>6, <4>1, <4>2
    <3>3. QED BY <1>7, <3>1, <3>2
  <2>8. QED
    BY <1>0, <1>1, <1>2, <1>3, <2>1, <2>3, <2>4, <2>5, <2>6, <2>7, PutStep DEF TypeOK
<1>8. QED BY <1>5, <1>6, <1>7 DEF Write

LEMMA Step == Inv /\ [Next]_vars => Inv'
<1> SUFFICES ASSUME Inv, [Next]_vars PROVE Inv'
  OBVIOUS
<1>1. CASE UNCHANGED vars
  <2>1. TypeOK' /\ TwoOpenings' /\ LoadClosed'
    BY <1>1 DEF vars, noteVars, Inv, Shape, TypeOK, TwoOpenings, LoadClosed
  <2>2. QED BY <1>1, <2>1, FrameStep DEF vars, noteVars
<1>2. QED BY <1>1, SocketStep, ServerEditStep, LoadStep, LoadDoneStep, WriteStep DEF Next

-----------------------------------------------------------------------------
\* The inductive invariant: one room at a time reads and, under the reserves of
\* EditsKept, writes.
THEOREM Invariant == Spec => []Inv
  BY Start, Step, PTL DEF Spec

\* TypeOK: rooms, loads and openings of docs.ts and dispatch.ts keep their
\* shape, for any sockets and bounds.
THEOREM TypeCorrect == Spec => []TypeOK
<1>1. Inv => TypeOK
  BY DEF Inv, Shape
<1>2. QED BY <1>1, Invariant, PTL

\* DirtyHasReader: a room docs.ts frees has asked for the write of all it holds.
THEOREM Dirty == Spec => []DirtyHasReader
<1>1. Inv => DirtyHasReader
  BY DEF Inv
<1>2. QED BY <1>1, Invariant, PTL

\* SeatedInOpenRoom: no reader sits in a room the map of docs.ts has forgotten.
THEOREM Seated == Spec => []SeatedInOpenRoom
<1>1. Inv => SeatedInOpenRoom
  BY DEF Inv
<1>2. QED BY <1>1, Invariant, PTL

\* FollowedIsSeated: follow and unfollow of dispatch.ts keep seats and follows
\* together, whatever openings were given up.
THEOREM Followed == Spec => []FollowedIsSeated
<1>1. Inv => FollowedIsSeated
  BY DEF Inv
<1>2. QED BY <1>1, Invariant, PTL

\* EditsKept: no edit accepted by docs.ts is lost between its debounced writes,
\* under the reserves the property states.
THEOREM Kept == Spec => []EditsKept
<1>1. Inv => EditsKept
  <2> SUFFICES ASSUME Inv, ~failed, ~early
               PROVE  1 .. edits \subseteq stored \union UNION {Coming(rooms[g]) : g \in DOMAIN rooms}
    BY DEF EditsKept
  <2>1. open \in Nat
    BY RoomsAre DEF Inv
  <2>2. CASE open = 0
    BY <2>2 DEF Inv, OneWriter
  <2>3. CASE open > 0
    <3>1. /\ open \in DOMAIN rooms /\ RoomOK(rooms[open])
          /\ 1 .. edits \subseteq rooms[open].doc
          /\ (~rooms[open].dirty /\ rooms[open].asked = rooms[open].done) =>
                1 .. edits \subseteq stored
      BY <2>3, OpenRoom
    <3> DEFINE r == rooms[open]
    <3>2. r.asked \in Nat /\ r.done \in Nat /\ r.done <= r.asked
      BY <3>1 DEF RoomOK, Room
    <3>3. CASE ~r.dirty /\ r.asked = r.done
      BY <3>1, <3>3
    <3>4. CASE r.dirty \/ r.asked # r.done
      <4>1. Coming(r) = r.doc
        BY <3>1, <3>2, <3>4 DEF Coming, RoomOK
      <4>2. QED BY <3>1, <4>1
    <3>5. QED BY <3>3, <3>4
  <2>4. QED BY <2>1, <2>2, <2>3
<1>2. QED BY <1>1, Invariant, PTL
=============================================================================
