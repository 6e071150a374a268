----------------------------- MODULE RoomsProofs -----------------------------
(* Proofs about the rooms of the hub, for any number of sockets, accounts, pages and
   readers.  PresenceRoom: whoever joins, leaves, goes silent or fades, the lists
   shown are the room.  PageSeat: a socket has the whole seat of a page or nothing,
   with the right its member has.  PlayRoom: followed once, a socket is left with no
   older board; followed again and again, it is still in the room it opened alone.

   The invariant of PlayRoom counts: the rooms opened are numbered one after the other,
   and no more than the openings that are over (RoomNumbers).  A socket whose link is
   open is owed nothing, or something is on its way to it (RoomDue), and it is in one
   view at a time (RoomBoards): without either, a push over could leave it behind. *)
EXTENDS Rooms, FiniteSetTheorems, TLAPS

-----------------------------------------------------------------------------
(* PresenceRoom *)

\* Everybody stands in one of four ways.
LEMMA MembersShown ==
  Members \in [Accounts -> {"active", "idle", "left", "none"}]
BY DEF Members, MembersOf

\* Whoever calls Unseat, the member fades when the last tab goes and not before.
LEMMA UnseatSound ==
  ASSUME ListsSound, NEW c \in Sockets, Unseat(c)
  PROVE  ListsSound'
<1>1. Owner \in [Sockets -> Accounts]
  BY PresenceAssumption
<1>2. /\ c \in seats /\ seats' = seats \ {c} /\ idle' = idle \ {c} /\ flush' /\ heard' = heard
      /\ departed' = IF \E d \in seats' : Owner[d] = Owner[c] THEN departed
                     ELSE departed \union {Owner[c]}
  BY DEF Unseat
<1>3. TypeOK'
  BY <1>1, <1>2 DEF ListsSound, TypeOK
<1>4. GoneHasNoTab'
  BY <1>2 DEF ListsSound, GoneHasNoTab
<1>5. PresenceShown'
  BY <1>2 DEF PresenceShown
<1>6. QED BY <1>3, <1>4, <1>5 DEF ListsSound

LEMMA Step == ListsSound /\ [Next]_vars => ListsSound'
<1> SUFFICES ASSUME ListsSound, [Next]_vars PROVE ListsSound'
  OBVIOUS
<1> USE PresenceAssumption
<1>1. ASSUME NEW c \in Sockets, Join(c) PROVE ListsSound'
  <2>1. TypeOK'
    BY <1>1 DEF ListsSound, TypeOK, Join
  <2>2. GoneHasNoTab'
    BY <1>1 DEF ListsSound, GoneHasNoTab, Join
  <2>3. PresenceShown'
    BY <1>1 DEF PresenceShown, Join
  <2>4. QED BY <2>1, <2>2, <2>3 DEF ListsSound
<1>2. ASSUME NEW c \in Sockets, Leave(c) \/ SweepSeat(c) PROVE ListsSound'
  BY <1>2, UnseatSound DEF Leave, SweepSeat
<1>3. ASSUME NEW c \in Sockets, Report(c) PROVE ListsSound'
  <2>1. TypeOK'
    BY <1>3 DEF ListsSound, TypeOK, Report
  <2>2. GoneHasNoTab'
    BY <1>3 DEF ListsSound, GoneHasNoTab, Report
  <2>3. PresenceShown'
    BY <1>3 DEF PresenceShown, Report
  <2>4. QED BY <2>1, <2>2, <2>3 DEF ListsSound
<1>4. ASSUME NEW a \in Accounts, SweepGone(a) PROVE ListsSound'
  <2>1. TypeOK'
    BY <1>4 DEF ListsSound, TypeOK, SweepGone
  <2>2. GoneHasNoTab'
    BY <1>4 DEF ListsSound, GoneHasNoTab, SweepGone
  <2>3. PresenceShown'
    BY <1>4 DEF PresenceShown, SweepGone
  <2>4. QED BY <2>1, <2>2, <2>3 DEF ListsSound
<1>5. ASSUME Broadcast PROVE ListsSound'
  <2>1. Members' = Members
    BY <1>5 DEF Broadcast, Members, MembersOf
  <2>2. TypeOK'
    BY <1>5, MembersShown DEF ListsSound, TypeOK, Broadcast
  <2>3. GoneHasNoTab'
    BY <1>5 DEF ListsSound, GoneHasNoTab, Broadcast
  <2>4. PresenceShown'
    BY <1>5, <2>1 DEF ListsSound, TypeOK, PresenceShown, Broadcast
  <2>5. QED BY <2>2, <2>3, <2>4 DEF ListsSound
<1>6. CASE UNCHANGED vars
  <2>1. Members' = Members
    BY <1>6 DEF vars, Members, MembersOf
  <2>2. QED
    BY <1>6, <2>1 DEF vars, ListsSound, TypeOK, PresenceShown, GoneHasNoTab
<1>7. QED BY <1>1, <1>2, <1>3, <1>4, <1>5, <1>6 DEF Next

\* ListsSound: presenceMembers, leave and sweep of presence.ts keep one line per member, merge
\* tabs, and schedule a broadcast on every change, whatever their order.
THEOREM Shown == Spec => []ListsSound
<1>1. Init => ListsSound
  BY PresenceAssumption DEF Init, ListsSound, TypeOK, PresenceShown, GoneHasNoTab, Nobody
<1>2. QED BY <1>1, Step, PTL DEF Spec
-----------------------------------------------------------------------------
(* PageSeat *)

\* What the model keeps of a seat and of its checks.
SeatKept ==
    /\ found \in [PageSockets -> Page!Levels]
    /\ page_follows \in [PageSockets -> Nat]
    /\ \A c \in PageSockets : at[c] = "doc" => /\ found[c] # "none"
                                          /\ c \in forwarded /\ c \in present
    /\ \A c \in PageSockets : page_topic[c] = "on" => at[c] = "idle"
    /\ \A c \in PageSockets : page_topic[c] # "off" => page_follows[c] > 0
    /\ crossed \in BOOLEAN /\ missed \in BOOLEAN
    /\ \A k \in checks : /\ DOMAIN k = {"socket", "n", "move", "level"}
                         /\ k.level \in Page!Levels \union {"unread"}

SeatChecked(c) == \E k \in checks : k.socket = c /\ k.n = page_follows[c]
SeatUpToDate ==
    ~crossed /\ ~missed =>
      /\ \A c \in PageSockets : at[c] = "doc" => found[c] = level[c]
      /\ \A k \in checks : k.level \in {"unread", level[k.socket]}
      /\ \A c \in listening : doc[c] = level[c] \/ SeatChecked(c)

SeatInv == Page!TypeOK /\ Page!SeatWhole /\ SeatKept /\ SeatUpToDate

LEMMA PageInitial == ASSUME Page!Init PROVE SeatInv
<1> USE DEF Page!Init, Page!Levels
<1>1. Page!TypeOK BY DEF Page!TypeOK
<1>2. Page!SeatWhole BY DEF Page!SeatWhole
<1>3. SeatKept BY DEF SeatKept
<1>4. SeatUpToDate BY DEF SeatUpToDate
<1>5. QED BY <1>1, <1>2, <1>3, <1>4 DEF SeatInv

LEMMA PageFollowSound == ASSUME SeatInv, NEW c \in PageSockets, Page!Follow(c) PROVE SeatInv'
<1> USE DEF Page!Levels
<1>1. Page!TypeOK' BY DEF SeatInv, Page!Follow, Page!TypeOK, SeatKept, Page!seat_vars, Page!ghosts
<1>2. Page!SeatWhole' BY DEF SeatInv, Page!Follow, Page!TypeOK, Page!SeatWhole, Page!seat_vars,
      Page!ghosts
<1>3. SeatKept' BY DEF SeatInv, Page!Follow, Page!TypeOK, SeatKept, Page!seat_vars, Page!ghosts
<1>4. SeatUpToDate' BY DEF SeatInv, Page!Follow, Page!TypeOK, Page!SeatWhole, SeatUpToDate,
      SeatChecked, Page!seat_vars, Page!ghosts
<1>5. QED BY <1>1, <1>2, <1>3, <1>4 DEF SeatInv

LEMMA PageReachSound == ASSUME SeatInv, NEW c \in PageSockets, Page!Reach(c) PROVE SeatInv'
<1> USE DEF Page!Levels
<1>1. Page!TypeOK' BY DEF SeatInv, Page!Reach, Page!TypeOK, SeatKept, Page!seat_vars, Page!ghosts
<1>2. Page!SeatWhole' BY DEF SeatInv, Page!Reach, Page!TypeOK, Page!SeatWhole, SeatKept,
      Page!seat_vars, Page!ghosts
<1>3. SeatKept' BY DEF SeatInv, Page!Reach, Page!TypeOK, SeatKept, Page!seat_vars, Page!ghosts
<1>4. SeatUpToDate' BY DEF SeatInv, Page!Reach, Page!TypeOK, Page!SeatWhole, SeatKept,
      SeatUpToDate, SeatChecked, Page!seat_vars, Page!ghosts
<1>5. QED BY <1>1, <1>2, <1>3, <1>4 DEF SeatInv

LEMMA PageOpenedSound == ASSUME SeatInv, NEW c \in PageSockets, Page!Opened(c) PROVE SeatInv'
<1> USE DEF Page!Levels, Page!Stop
<1>1. Page!TypeOK' BY DEF SeatInv, Page!Opened, Page!TypeOK, SeatKept, Page!seat_vars, Page!ghosts
<1>2. Page!SeatWhole'
  <2>1. CASE page_topic[c] = "opening"
    BY <2>1 DEF SeatInv, Page!Opened, Page!TypeOK, Page!SeatWhole, SeatKept, Page!seat_vars,
          Page!ghosts
  <2>2. CASE page_topic[c] # "opening"
    BY <2>2 DEF SeatInv, Page!Opened, Page!TypeOK, Page!SeatWhole, SeatKept, Page!seat_vars,
          Page!ghosts
  <2>3. QED BY <2>1, <2>2
<1>3. SeatKept' BY DEF SeatInv, Page!Opened, Page!TypeOK, SeatKept, Page!seat_vars, Page!ghosts
<1>4. SeatUpToDate' BY DEF SeatInv, Page!Opened, Page!TypeOK, Page!SeatWhole, SeatUpToDate,
      SeatChecked, Page!seat_vars, Page!ghosts
<1>5. QED BY <1>1, <1>2, <1>3, <1>4 DEF SeatInv

LEMMA PageDocFailsSound == ASSUME SeatInv, NEW c \in PageSockets, Page!DocFails(c) PROVE SeatInv'
<1> USE DEF Page!Levels
<1>1. Page!TypeOK' BY DEF SeatInv, Page!DocFails, Page!TypeOK, SeatKept, Page!seat_vars, Page!ghosts
<1>2. Page!SeatWhole' BY DEF SeatInv, Page!DocFails, Page!TypeOK, Page!SeatWhole, SeatKept,
      Page!seat_vars, Page!ghosts
<1>3. SeatKept' BY DEF SeatInv, Page!DocFails, Page!TypeOK, SeatKept, Page!seat_vars, Page!ghosts
<1>4. SeatUpToDate' BY DEF SeatInv, Page!DocFails, Page!TypeOK, Page!SeatWhole, SeatUpToDate,
      SeatChecked, Page!seat_vars, Page!ghosts
<1>5. QED BY <1>1, <1>2, <1>3, <1>4 DEF SeatInv

LEMMA PageUnfollowSound == ASSUME SeatInv, NEW c \in PageSockets, Page!Unfollow(c) PROVE SeatInv'
<1> USE DEF Page!Levels, Page!Stop
<1>1. Page!TypeOK' BY DEF SeatInv, Page!Unfollow, Page!TypeOK, SeatKept, Page!seat_vars, Page!ghosts
<1>2. Page!SeatWhole' BY DEF SeatInv, Page!Unfollow, Page!TypeOK, Page!SeatWhole, SeatKept,
      Page!seat_vars, Page!ghosts
<1>3. SeatKept' BY DEF SeatInv, Page!Unfollow, Page!TypeOK, SeatKept, Page!seat_vars, Page!ghosts
<1>4. SeatUpToDate' BY DEF SeatInv, Page!Unfollow, Page!TypeOK, Page!SeatWhole, SeatUpToDate,
      SeatChecked, Page!seat_vars, Page!ghosts
<1>5. QED BY <1>1, <1>2, <1>3, <1>4 DEF SeatInv

LEMMA PageMoveSound == ASSUME SeatInv, NEW c \in PageSockets, NEW lv \in Page!Levels, Page!Move(c,
      lv) PROVE SeatInv'
<1> USE DEF Page!Levels, Page!Told, Page!ghosts, Page!open_vars, Page!seat_vars
<1>1. \A k \in checks' : \/ k \in checks
                         \/ \E d \in listening :
                              k = [socket |-> d, n |-> page_follows[d], move |-> share_moves',
                                    level |-> "unread"]
  BY DEF Page!Move
<1>2. \A d \in listening : page_follows[d] \in 1 .. page_follows[d]
  BY DEF SeatInv, Page!TypeOK, SeatKept, Page!SeatWhole
<1>3. Page!TypeOK' BY <1>1, <1>2 DEF SeatInv, Page!Move, Page!TypeOK, SeatKept
<1>4. Page!SeatWhole' BY DEF SeatInv, Page!Move, Page!TypeOK, Page!SeatWhole
<1>5. SeatKept' BY <1>1 DEF SeatInv, Page!Move, Page!TypeOK, SeatKept
<1>6. SeatUpToDate'
  <2> SUFFICES ASSUME ~crossed', ~missed'
               PROVE  SeatUpToDate'
    BY DEF SeatUpToDate
  <2>1. checks = {} /\ \A d \in PageSockets : at[d] # "doc"
    BY DEF Page!Move
  <2>2. \A d \in listening' : SeatChecked(d)'
    <3> SUFFICES ASSUME NEW d \in listening PROVE SeatChecked(d)'
      BY DEF Page!Move
    <3> DEFINE k == [socket |-> d, n |-> page_follows[d], move |-> share_moves', level |-> "unread"]
    <3>1. k \in checks'
      BY DEF Page!Move
    <3>2. k.socket = d /\ k.n = page_follows'[d]
      BY DEF Page!Move
    <3> QED BY <3>1, <3>2 DEF SeatChecked
  <2>3. QED BY <1>1, <2>1, <2>2 DEF SeatUpToDate, Page!Move
<1>7. QED BY <1>3, <1>4, <1>5, <1>6 DEF SeatInv

LEMMA PageCheckSound == ASSUME SeatInv, NEW k \in checks, Page!Check(k) PROVE SeatInv'
<1> USE DEF Page!Levels, Page!ghosts, Page!open_vars, Page!seat_vars
<1> DEFINE new == [k EXCEPT !.level = level[k.socket]]
<1>1. /\ checks' = (checks \ {k}) \union {new}
      /\ new.socket = k.socket /\ new.n = k.n /\ new.level = level[k.socket]
      /\ DOMAIN new = {"socket", "n", "move", "level"}
  BY DEF SeatInv, Page!Check, SeatKept
<1>2. new.level \in Page!Levels
  BY <1>1 DEF SeatInv, Page!TypeOK
<1> HIDE DEF new
<1>3. Page!TypeOK' BY <1>1 DEF SeatInv, Page!Check, Page!TypeOK
<1>4. Page!SeatWhole' BY DEF SeatInv, Page!Check, Page!SeatWhole
<1>5. SeatKept' BY <1>1, <1>2 DEF SeatInv, Page!Check, SeatKept
<1>6. SeatUpToDate'
  <2>1. \A c \in PageSockets : SeatChecked(c) => SeatChecked(c)'
    BY <1>1 DEF Page!Check, SeatChecked
  <2>2. QED BY <1>1, <2>1 DEF SeatInv, Page!Check, Page!TypeOK, SeatUpToDate
<1>7. QED BY <1>3, <1>4, <1>5, <1>6 DEF SeatInv

LEMMA PageAnswerSound == ASSUME SeatInv, NEW k \in checks, Page!Answer(k) PROVE SeatInv'
<1> USE DEF Page!Levels, Page!Out, Page!Stop, Page!ghosts, Page!open_vars, Page!seat_vars
<1>1. k.level \in {"none", "read", "write"} /\ k.socket \in PageSockets
  BY DEF SeatInv, Page!Answer, SeatKept, Page!TypeOK
<1>2. Page!TypeOK' BY <1>1 DEF SeatInv, Page!Answer, Page!TypeOK
<1>3. Page!SeatWhole' BY <1>1 DEF SeatInv, Page!Answer, Page!TypeOK, Page!SeatWhole
<1>4. SeatKept' BY DEF SeatInv, Page!Answer, SeatKept, Page!SeatWhole, Page!TypeOK
<1>5. SeatUpToDate'
  <2>1. ASSUME NEW c \in listening', SeatChecked(c), ~SeatChecked(c)', ~crossed, ~missed
        PROVE  doc'[c] = level[c]
    <3>1. k.socket = c /\ k.n = page_follows[c]
      BY <2>1 DEF Page!Answer, SeatChecked
    <3>2. k.level = level[c] /\ c \in listening
      BY <2>1, <3>1 DEF SeatInv, SeatUpToDate, Page!Answer
    <3>3. QED BY <1>1, <3>1, <3>2 DEF SeatInv, Page!Answer, Page!TypeOK, Page!SeatWhole
  <2>2. ASSUME NEW c \in listening', doc[c] = level[c], ~crossed, ~missed
        PROVE  doc'[c] = level[c]
    BY <1>1, <2>2 DEF SeatInv, Page!Answer, Page!TypeOK, Page!SeatWhole, SeatUpToDate
  <2>3. QED BY <2>1, <2>2 DEF SeatInv, Page!Answer, SeatUpToDate
<1>6. QED BY <1>2, <1>3, <1>4, <1>5 DEF SeatInv

LEMMA PageCheckFailsSound == ASSUME SeatInv, NEW k \in checks, Page!CheckFails(k) PROVE SeatInv'
<1> USE DEF Page!Levels, Page!Out, Page!Stop, Page!ghosts, Page!open_vars, Page!seat_vars
<1>1. Page!TypeOK' BY DEF SeatInv, Page!CheckFails, Page!TypeOK
<1>2. Page!SeatWhole' BY DEF SeatInv, Page!CheckFails, Page!TypeOK, Page!SeatWhole
<1>3. SeatKept' BY DEF SeatInv, Page!CheckFails, SeatKept, Page!SeatWhole, Page!TypeOK
<1>4. SeatUpToDate'
  <2>1. \A c \in listening' : SeatChecked(c) => SeatChecked(c)'
    BY DEF SeatInv, Page!CheckFails, SeatChecked, Page!TypeOK
  <2>2. \A c \in listening' : c \in listening /\ doc'[c] = doc[c]
    BY DEF SeatInv, Page!CheckFails, Page!TypeOK
  <2>3. QED BY <2>1, <2>2 DEF SeatInv, Page!CheckFails, SeatUpToDate
<1>5. QED BY <1>1, <1>2, <1>3, <1>4 DEF SeatInv

\* A step of the page, whichever it is.
LEMMA PageStep == ASSUME SeatInv, Page!Next PROVE SeatInv'
<1>1. ASSUME NEW c \in PageSockets,
             \/ Page!Follow(c) \/ Page!Reach(c) \/ Page!Opened(c)
             \/ Page!DocFails(c) \/ Page!Unfollow(c)
      PROVE  SeatInv'
  BY <1>1, PageFollowSound, PageReachSound, PageOpenedSound, PageDocFailsSound, PageUnfollowSound
<1>2. ASSUME NEW c \in PageSockets, NEW lv \in Page!Levels, Page!Move(c, lv) PROVE SeatInv'
  BY <1>2, PageMoveSound
<1>3. ASSUME NEW k \in checks, Page!Check(k) \/ Page!Answer(k) \/ Page!CheckFails(k) PROVE SeatInv'
  BY <1>3, PageCheckSound, PageAnswerSound, PageCheckFailsSound
<1>4. QED BY <1>1, <1>2, <1>3 DEF Page!Next

\* A step elsewhere leaves the page as it is.
LEMMA PageRests == ASSUME SeatInv, UNCHANGED page_vars PROVE SeatInv'
  BY DEF page_vars, SeatInv, Page!TypeOK, Page!SeatWhole, SeatKept, SeatUpToDate, SeatChecked

\* SeatSound: openTopic of pages.ts seats a socket in the signals, the presence and the document of
\* its page together, stop takes all of it back, and the listener of the shares leaves it the right
\* its member has once no check is under way and none was overtaken.
THEOREM PageSeated == RoomsSpec => []SeatSound
<1>1. RoomsInit => SeatInv
  BY PageInitial DEF RoomsInit
<1>2. SeatInv /\ [RoomsNext]_all_vars => SeatInv'
  BY PageStep, PageRests DEF RoomsNext, OnTable, OnAgain, OnPage, OnReaders, all_vars
<1>3. SeatInv => SeatSound
  BY DEF SeatInv, SeatUpToDate, SeatSound, Page!SeatSound, Page!RightsTrue, Page!RightsAre,
         Page!Quiet, SeatChecked
<1>4. QED BY <1>1, <1>2, <1>3, PTL DEF RoomsSpec

-----------------------------------------------------------------------------
(* PlayRoom *)

\* What a scope of the room is assumed to be.
RoomAssumed(s) ==
    /\ s.versions \in Nat /\ s.follows \in Nat /\ s.faults \in Nat
    /\ IsFiniteSet(s.sockets)

RoomTopics(s) == [n : 0 .. s.follows, on : BOOLEAN, room : {0} \union Room(s)!Rooms]
RoomOpenings(s) == [socket : s.sockets, n : 1 .. s.follows]
RoomViews(s) == [room : {0} \union Room(s)!Rooms, to : SUBSET s.sockets, from : Nat]

\* Openings of a scope, those that are over, and the rooms they opened one after the other.
RoomPairs(s) == s.sockets \X (1 .. s.follows)
RoomJoined(s) ==
    {x \in RoomPairs(s) : x[2] <= follows[x[1]] /\ [socket |-> x[1], n |-> x[2]] \notin openings}
RoomNumbers(s) ==
    /\ Room(s)!Opened = 1 .. Cardinality(Room(s)!Opened)
    /\ Cardinality(Room(s)!Opened) <= Cardinality(RoomJoined(s))

\* What the model keeps of a game's room.
RoomGameOK(s) ==
    /\ status \in {"RUNNING", "DONE", "ABANDONED"}
    /\ version \in Nat /\ version <= s.versions
    /\ signals \in Nat /\ signals <= version + (IF status = "RUNNING" THEN 0 ELSE 1)
RoomLinksOK(s) ==
    /\ link \in [s.sockets -> {"open", "closing", "closed"}]
    /\ topic \in [s.sockets -> RoomTopics(s)]
    /\ openings \subseteq RoomOpenings(s)
    /\ follows \in [s.sockets -> 0 .. s.follows]
RoomStandsOK(s) ==
    /\ current \in {0} \union Room(s)!Rooms
    /\ members \in [Room(s)!Rooms -> SUBSET s.sockets]
RoomPushOK(s) ==
    /\ push \in [Room(s)!Rooms -> {"none", "idle", "load", "view"}]
    /\ queued \in [Room(s)!Rooms -> BOOLEAN] /\ failed \in [Room(s)!Rooms -> BOOLEAN]
RoomViewsOK(s) ==
    /\ \A w \in views : w \in RoomViews(s) /\ w.to # {} /\ w.from <= version
    /\ \A w \in views : w.room # 0 => push[w.room] = "view"
    /\ shown \in [s.sockets -> Nat] /\ \A c \in s.sockets : shown[c] <= version
    /\ stray \in [s.sockets -> BOOLEAN]
RoomTimerOK ==
    /\ away \in {"off", "armed"} /\ task \in {"none", "load", "stop"} /\ lost \in BOOLEAN
    /\ faults \in Nat
RoomShape(s) ==
    /\ RoomGameOK(s) /\ RoomLinksOK(s) /\ RoomStandsOK(s)
    /\ RoomPushOK(s) /\ RoomViewsOK(s) /\ RoomTimerOK

\* Who stands where: the room in use alone has readers, each of them followed it, and an opening
\* is for a topic that is not on yet.
RoomSeats(s) ==
    /\ current # 0 => /\ current \in Room(s)!Opened /\ members[current] # {}
                      /\ queued[current] => push[current] \in {"load", "view"}
    /\ \A r \in Room(s)!Rooms : r # current => members[r] = {}
    /\ Room(s)!MemberFollows
    /\ \A o \in openings : /\ o.n <= follows[o.socket]
                           /\ topic[o.socket].n = o.n => ~topic[o.socket].on
    /\ \A c \in s.sockets : /\ topic[c].n <= follows[c]
                            /\ topic[c].on => topic[c].n > 0 /\ topic[c].room # 0

\* A reader is owed nothing, or will be sent the board; unless a push was asked since, the boards
\* being read for the room are of the game as it is.
RoomDue(s, c) ==
    \/ signals > 0
    \/ push[current] = "load"
    \/ queued[current] \/ failed[current]
    \/ \E w \in views : w.room = current /\ c \in w.to
    \/ shown[c] = version \/ stray[c]
RoomBoards(s) ==
    /\ current # 0 => \A c \in members[current] : link[c] = "open" => RoomDue(s, c)
    /\ current # 0 /\ signals = 0 /\ ~queued[current] =>
         \A w \in views : w.room = current => w.from = version
    /\ \A r \in Room(s)!Rooms : failed[r] => push[r] \notin {"load", "view"}

RoomInv(s) ==
    /\ RoomShape(s) /\ RoomNumbers(s) /\ RoomSeats(s) /\ Room(s)!EmptyIsWatched
    /\ RoomBoards(s)

\* The rooms are numbered, as many as the openings a scope allows.
LEMMA RoomRange ==
  ASSUME NEW s, RoomAssumed(s)
  PROVE  /\ IsFiniteSet(RoomPairs(s))
         /\ Room(s)!Rooms = 1 .. Cardinality(RoomPairs(s)) /\ Cardinality(RoomPairs(s)) \in Nat
         /\ \A S : Room(s)!Cardinality(S) = Cardinality(S)
<1>1. \A S : Room(s)!Cardinality(S) = Cardinality(S)
  BY DEF Room!Cardinality, Cardinality
<1>2. IsFiniteSet(1 .. s.follows) /\ Cardinality(1 .. s.follows) = s.follows /\ s.follows \in Nat
  <2>1. s.follows \in Nat
    BY DEF RoomAssumed
  <2>2. IsFiniteSet(1 .. s.follows)
        /\ Cardinality(1 .. s.follows) = IF 1 > s.follows THEN 0 ELSE s.follows - 1 + 1
    BY <2>1, FS_Interval
  <2>3. QED BY <2>1, <2>2
<1>3. /\ IsFiniteSet(RoomPairs(s))
      /\ Cardinality(RoomPairs(s)) = Cardinality(s.sockets) * s.follows
  BY <1>2, FS_Product DEF RoomAssumed, RoomPairs
<1>4. Cardinality(RoomPairs(s)) \in Nat
  BY <1>3, FS_CardinalityType
<1>5. QED BY <1>1, <1>3, <1>4 DEF Room!Rooms

\* No room opened, openings over or not: the numbers stay.
LEMMA RoomNumbersKept ==
  ASSUME NEW s, RoomAssumed(s), RoomNumbers(s),
         Room(s)!Opened' = Room(s)!Opened, RoomJoined(s) \subseteq RoomJoined(s)'
  PROVE  RoomNumbers(s)'
<1>1. /\ IsFiniteSet(RoomJoined(s)') /\ Cardinality(RoomJoined(s)) <= Cardinality(RoomJoined(s)')
      /\ Cardinality(RoomJoined(s)) \in Nat /\ Cardinality(RoomJoined(s)') \in Nat
  <2>1. RoomJoined(s)' \subseteq RoomPairs(s)
    BY DEF RoomJoined
  <2>2. IsFiniteSet(RoomJoined(s)')
    BY <2>1, RoomRange, FS_Subset
  <2>3. IsFiniteSet(RoomJoined(s)) /\ Cardinality(RoomJoined(s)) <= Cardinality(RoomJoined(s)')
    BY <2>2, FS_Subset
  <2>4. QED BY <2>2, <2>3, FS_CardinalityType
<1>2. Cardinality(Room(s)!Opened) \in Nat
  <2>1. Room(s)!Opened \subseteq RoomPairs(s) \/ IsFiniteSet(Room(s)!Opened)
    <3>1. Room(s)!Opened \subseteq Room(s)!Rooms
      BY DEF Room!Opened
    <3>2. IsFiniteSet(Room(s)!Rooms)
      BY RoomRange, FS_Interval
    <3>3. QED BY <3>1, <3>2, FS_Subset
  <2>2. IsFiniteSet(Room(s)!Opened)
    BY <2>1, RoomRange, FS_Subset
  <2>3. QED BY <2>2, FS_CardinalityType
<1>3. Cardinality(Room(s)!Opened)' = Cardinality(Room(s)!Opened)
  OBVIOUS
<1>4. Cardinality(RoomJoined(s))' = Cardinality(RoomJoined(s)')
  OBVIOUS
<1>5. QED BY <1>1, <1>2, <1>3, <1>4 DEF RoomNumbers

\* At first nobody stands anywhere.
LEMMA RoomInitial == ASSUME NEW s, RoomAssumed(s), Room(s)!Init PROVE RoomInv(s)
<1> USE DEF Room!Init, RoomAssumed
<1>1. RoomShape(s)
  <2>1. RoomLinksOK(s)
    BY DEF RoomLinksOK, RoomTopics, Room!Off
  <2>2. RoomStandsOK(s) /\ RoomPushOK(s)
    BY DEF RoomStandsOK, RoomPushOK
  <2>3. RoomViewsOK(s)
    <3>1. /\ shown = [c \in s.sockets |-> 0] /\ views = {} /\ version = 0
          /\ stray = [c \in s.sockets |-> FALSE]
      OBVIOUS
    <3> HIDE DEF Room!Init, RoomAssumed
    <3>2. QED BY <3>1 DEF RoomViewsOK
  <2>4. RoomGameOK(s)
    <3>1. status = "RUNNING" /\ version = 0 /\ signals = 0 /\ s.versions \in Nat
      OBVIOUS
    <3> HIDE DEF Room!Init, RoomAssumed
    <3>2. QED BY <3>1 DEF RoomGameOK
  <2>5. RoomTimerOK
    BY DEF RoomTimerOK
  <2>6. QED BY <2>1, <2>2, <2>3, <2>4, <2>5 DEF RoomShape
<1>2. Room(s)!Opened = {}
  BY DEF Room!Opened
<1>3. RoomNumbers(s)
  <2>1. RoomJoined(s) = {}
    BY DEF RoomJoined, RoomPairs
  <2>2. QED BY <1>2, <2>1, FS_EmptySet DEF RoomNumbers
<1>4. RoomSeats(s)
  BY DEF RoomSeats, Room!MemberFollows, Room!Off
<1>5. Room(s)!EmptyIsWatched
  BY <1>2 DEF Room!EmptyIsWatched
<1>6. RoomBoards(s)
  BY DEF RoomBoards
<1>7. QED BY <1>1, <1>3, <1>4, <1>5, <1>6 DEF RoomInv

\* What a call of pushBoards does, and the end of a push.
LEMMA RoomPushBoards ==
  ASSUME NEW s, RoomPushOK(s), NEW r \in Room(s)!Rooms, Room(s)!PushBoards(r)
  PROVE  /\ RoomPushOK(s)'
         /\ Room(s)!Opened' = Room(s)!Opened \union {r}
         /\ \A q \in Room(s)!Rooms : q # r => push'[q] = push[q] /\ queued'[q] = queued[q]
         /\ push[r] \in {"load", "view"} => push'[r] = push[r] /\ queued'[r] = TRUE
         /\ push[r] \notin {"load", "view"} => push'[r] = "load" /\ queued'[r] = FALSE
         /\ \A q \in Room(s)!Rooms : q # r => failed'[q] = failed[q]
         /\ failed'[r] => failed[r] /\ push[r] \in {"load", "view"}
<1> USE DEF Room!PushBoards, RoomPushOK
<1>1. CASE push[r] \in {"load", "view"}
  BY <1>1 DEF Room!Opened
<1>2. CASE push[r] \notin {"load", "view"}
  BY <1>2 DEF Room!Opened
<1>3. QED BY <1>1, <1>2

LEMMA RoomPushOver ==
  ASSUME NEW s, RoomPushOK(s), NEW r \in Room(s)!Rooms, NEW bad \in BOOLEAN,
         push[r] \in {"load", "view"}, Room(s)!PushOver(r, bad)
  PROVE  /\ RoomPushOK(s)'
         /\ Room(s)!Opened' = Room(s)!Opened
         /\ \A q \in Room(s)!Rooms : q # r => push'[q] = push[q] /\ queued'[q] = queued[q]
         /\ queued[r] /\ members[r] # {} => push'[r] = "load" /\ queued'[r] = FALSE
         /\ ~(queued[r] /\ members[r] # {}) => push'[r] = "idle" /\ queued'[r] = queued[r]
         /\ \A q \in Room(s)!Rooms : q # r => failed'[q] = failed[q]
         /\ failed'[r] = (bad /\ ~(queued[r] /\ members[r] # {}))
<1> USE DEF Room!PushOver, RoomPushOK
<1>1. CASE queued[r] /\ members[r] # {}
  BY <1>1 DEF Room!Opened
<1>2. CASE ~(queued[r] /\ members[r] # {})
  BY <1>2 DEF Room!Opened
<1>3. QED BY <1>1, <1>2

\* A socket follows: it holds its place while the game is read.
LEMMA RoomFollowSound ==
  ASSUME NEW s, RoomAssumed(s), RoomInv(s), NEW c \in s.sockets, Room(s)!Follow(c)
  PROVE  RoomInv(s)'
<1>1. /\ link[c] = "open" /\ topic[c].on = FALSE /\ topic[c].n = 0 /\ follows[c] < s.follows
      /\ follows' = [follows EXCEPT ![c] = follows[c] + 1]
      /\ openings' = openings \union {[socket |-> c, n |-> follows[c] + 1]}
      /\ UNCHANGED <<status, version, signals, link, current, members, push, queued, failed,
                     views, shown, stray, away, task, lost, faults>>
  BY DEF Room!Follow, Room!seen_vars, Room!Off, RoomInv, RoomShape, RoomLinksOK, Room!game, Room!room_vars,
         Room!push_vars, Room!timer_vars
<1>2. /\ topic' = [topic EXCEPT ![c] = [n |-> follows[c] + 1, on |-> FALSE, room |-> 0]]
      /\ topic \in [s.sockets -> RoomTopics(s)] /\ follows \in [s.sockets -> 0 .. s.follows]
      /\ openings \subseteq RoomOpenings(s) /\ s.follows \in Nat
  <2>1. /\ topic \in [s.sockets -> RoomTopics(s)] /\ follows \in [s.sockets -> 0 .. s.follows]
        /\ openings \subseteq RoomOpenings(s) /\ s.follows \in Nat
    BY DEF RoomInv, RoomShape, RoomLinksOK, RoomAssumed
  <2>2. follows'[c] = follows[c] + 1
    BY <1>1, <2>1
  <2>3. topic' = [topic EXCEPT ![c] = [n |-> follows'[c], on |-> FALSE, room |-> 0]]
    BY DEF Room!Follow
  <2>4. QED BY <2>1, <2>2, <2>3
<1>3. RoomShape(s)'
  <2>1. RoomLinksOK(s)'
    BY <1>1, <1>2 DEF RoomInv, RoomShape, RoomLinksOK, RoomTopics, RoomOpenings
  <2>2. QED BY <1>1, <2>1 DEF RoomInv, RoomShape, RoomGameOK, RoomStandsOK, RoomPushOK,
                              RoomViewsOK, RoomTimerOK
<1>4. RoomNumbers(s)'
  <2>1. RoomJoined(s) \subseteq RoomJoined(s)'
    BY <1>1, <1>2 DEF RoomJoined, RoomPairs
  <2>2. Room(s)!Opened' = Room(s)!Opened
    BY <1>1 DEF Room!Opened
  <2>3. QED BY <2>1, <2>2, RoomNumbersKept DEF RoomInv
<1>5. RoomSeats(s)'
  <2>1. /\ \A d \in s.sockets : d # c => topic'[d] = topic[d] /\ follows'[d] = follows[d]
        /\ topic'[c].n = follows[c] + 1 /\ ~topic'[c].on /\ follows'[c] = follows[c] + 1
    BY <1>1, <1>2
  <2>2. members \in [Room(s)!Rooms -> SUBSET s.sockets]
    BY DEF RoomInv, RoomShape, RoomStandsOK
  <2>3. Room(s)!MemberFollows'
    BY <1>1, <2>1, <2>2 DEF RoomInv, RoomSeats, Room!MemberFollows, Room!Opened
  <2>4. \A o \in openings' : /\ o.n <= follows'[o.socket]
                             /\ topic'[o.socket].n = o.n => ~topic'[o.socket].on
    BY <1>1, <1>2, <2>1 DEF RoomInv, RoomSeats, RoomOpenings
  <2>5. \A d \in s.sockets : /\ topic'[d].n <= follows'[d]
                             /\ topic'[d].on => topic'[d].n > 0 /\ topic'[d].room # 0
    BY <1>1, <1>2, <2>1 DEF RoomInv, RoomSeats
  <2>6. QED BY <1>1, <2>3, <2>4, <2>5 DEF RoomInv, RoomSeats, Room!Opened
<1>6. Room(s)!EmptyIsWatched'
  BY <1>1 DEF RoomInv, Room!EmptyIsWatched, Room!Opened
<1>7. RoomBoards(s)'
  BY <1>1 DEF RoomInv, RoomBoards, RoomDue
<1>8. QED BY <1>3, <1>4, <1>5, <1>6, <1>7 DEF RoomInv

\* A socket out of the game's topic, by its own leave or by its close.
LEMMA RoomUnfollowSound ==
  ASSUME NEW s, RoomAssumed(s), RoomInv(s), NEW c \in s.sockets, Room(s)!Unfollow(c),
         link' \in [s.sockets -> {"open", "closing", "closed"}],
         \A d \in s.sockets : link'[d] = "open" => link[d] = "open"
  PROVE  RoomInv(s)'
<1>0. /\ topic \in [s.sockets -> RoomTopics(s)] /\ follows \in [s.sockets -> 0 .. s.follows]
      /\ members \in [Room(s)!Rooms -> SUBSET s.sockets] /\ openings \subseteq RoomOpenings(s)
      /\ current \in {0} \union Room(s)!Rooms /\ lost \in BOOLEAN
  BY DEF RoomInv, RoomShape, RoomLinksOK, RoomStandsOK, RoomTimerOK
<1>1. /\ topic' = [topic EXCEPT ![c] = [n |-> 0, on |-> FALSE, room |-> 0]]
      /\ UNCHANGED <<status, version, signals, openings, follows, push, queued, failed,
                     views, shown, stray, task, faults>>
  BY DEF Room!Unfollow, Room!seen_vars, Room!Off, Room!StopRoom, Room!game, Room!push_vars, Room!timer_vars
<1>2. /\ topic' \in [s.sockets -> RoomTopics(s)]
      /\ \A d \in s.sockets : d # c => topic'[d] = topic[d]
      /\ topic'[c].n = 0 /\ topic'[c].on = FALSE /\ topic'[c].room = 0
  BY <1>0, <1>1 DEF RoomTopics, RoomAssumed
<1>3. \/ /\ ~topic[c].on /\ UNCHANGED <<current, members, away, lost>>
      \/ /\ topic[c].on /\ topic[c].room \in Room(s)!Rooms
         /\ members' = [members EXCEPT ![topic[c].room] = members[topic[c].room] \ {c}]
         /\ IF members'[topic[c].room] = {} THEN away' = "armed" /\ lost' = FALSE
            ELSE UNCHANGED <<away, lost>>
         /\ current' = IF members'[topic[c].room] = {} /\ current = topic[c].room
                       THEN 0 ELSE current
  <2>1. CASE ~topic[c].on
    BY <2>1 DEF Room!Unfollow, Room!room_vars, Room!timer_vars
  <2>2. CASE topic[c].on
    <3>1. topic[c].room \in Room(s)!Rooms
      BY <1>0, <2>2 DEF RoomInv, RoomSeats, RoomTopics
    <3>2. QED BY <2>2, <3>1 DEF Room!Unfollow, Room!StopRoom
  <2>3. QED BY <2>1, <2>2
<1>4. /\ members' \in [Room(s)!Rooms -> SUBSET s.sockets] /\ current' \in {0, current}
      /\ current' # 0 => members'[current'] \subseteq members[current]
      /\ current' # 0 => c \notin members'[current'] /\ members'[current'] # {}
      /\ \A r \in Room(s)!Rooms : r # current' => members'[r] = {}
      /\ current' = 0 => \/ away' = "armed"
                         \/ current = 0 /\ UNCHANGED <<away, lost>>
  <2>0. /\ \A r \in Room(s)!Rooms : r # current => members[r] = {}
        /\ current # 0 => members[current] # {} /\ current \in Room(s)!Rooms
        /\ current # 0 => \A d \in members[current] : topic[d].on /\ topic[d].room = current
        /\ 0 \notin Room(s)!Rooms
    BY <1>0 DEF RoomInv, RoomSeats, Room!MemberFollows, Room!Rooms
  <2>1. CASE ~topic[c].on /\ UNCHANGED <<current, members, away, lost>>
    BY <1>0, <2>0, <2>1
  <2>2. CASE topic[c].on /\ topic[c].room \in Room(s)!Rooms /\ current = topic[c].room
    BY <1>0, <1>3, <2>0, <2>2
  <2>3. CASE topic[c].on /\ topic[c].room \in Room(s)!Rooms /\ current # topic[c].room
    BY <1>0, <1>3, <2>0, <2>3
  <2>4. QED BY <1>3, <2>1, <2>2, <2>3
<1>5. RoomShape(s)'
  <2>1. RoomLinksOK(s)'
    BY <1>1, <1>2 DEF RoomInv, RoomShape, RoomLinksOK
  <2>2. RoomStandsOK(s)'
    BY <1>0, <1>4 DEF RoomStandsOK
  <2>3. RoomTimerOK'
    BY <1>1, <1>3 DEF RoomInv, RoomShape, RoomTimerOK
  <2>4. QED BY <1>1, <2>1, <2>2, <2>3 DEF RoomInv, RoomShape, RoomGameOK, RoomPushOK, RoomViewsOK
<1>6. RoomNumbers(s)'
  <2>1. RoomJoined(s) \subseteq RoomJoined(s)' /\ Room(s)!Opened' = Room(s)!Opened
    BY <1>1 DEF RoomJoined, RoomPairs, Room!Opened
  <2>2. QED BY <2>1, RoomNumbersKept DEF RoomInv
<1>7. RoomSeats(s)'
  <2>1. Room(s)!MemberFollows'
    BY <1>0, <1>2, <1>4 DEF RoomInv, RoomSeats, Room!MemberFollows
  <2>2. /\ \A o \in openings' : /\ o.n <= follows'[o.socket]
                                /\ topic'[o.socket].n = o.n => ~topic'[o.socket].on
        /\ \A d \in s.sockets : /\ topic'[d].n <= follows'[d]
                                /\ topic'[d].on => topic'[d].n > 0 /\ topic'[d].room # 0
    BY <1>0, <1>1, <1>2 DEF RoomInv, RoomSeats, RoomOpenings
  <2>3. current' # 0 => /\ current' \in Room(s)!Opened'
                        /\ queued'[current'] => push'[current'] \in {"load", "view"}
    BY <1>1, <1>4 DEF RoomInv, RoomSeats, Room!Opened
  <2>4. QED BY <1>4, <2>1, <2>2, <2>3 DEF RoomSeats
<1>8. Room(s)!EmptyIsWatched'
  BY <1>1, <1>4 DEF RoomInv, Room!EmptyIsWatched, Room!Opened
<1>9. RoomBoards(s)'
  <2>1. current' # 0 => current' = current
    BY <1>4
  <2>2. current' # 0 => \A d \in members'[current'] : link'[d] = "open" => RoomDue(s, d)'
    <3> SUFFICES ASSUME current' # 0, NEW d \in members'[current'], link'[d] = "open"
                 PROVE  RoomDue(s, d)'
      OBVIOUS
    <3>1. d \in members[current] /\ d \in s.sockets /\ current # 0 /\ current' = current
      BY <1>0, <1>4, <2>1
    <3>2. RoomDue(s, d)
      BY <3>1 DEF RoomInv, RoomBoards
    <3>3. QED BY <1>1, <3>1, <3>2 DEF RoomDue
  <2>3. QED BY <1>1, <2>1, <2>2 DEF RoomInv, RoomBoards
<1>10. QED BY <1>5, <1>6, <1>7, <1>8, <1>9 DEF RoomInv

\* A step that leaves who follows, who stands where and what is pushed as they are.
LEMMA RoomRests ==
  ASSUME NEW s, RoomAssumed(s), RoomInv(s),
         UNCHANGED <<topic, openings, follows, current, members, push, queued, failed, views,
                     shown, stray>>,
         link' \in [s.sockets -> {"open", "closing", "closed"}],
         \A d \in s.sockets : link'[d] = "open" => link[d] = "open",
         RoomGameOK(s)', RoomTimerOK', Room(s)!EmptyIsWatched',
         \/ version' = version /\ signals' >= signals
         \/ version' = version + 1 /\ signals' > 0
  PROVE  RoomInv(s)'
<1>1. RoomShape(s)'
  <2>1. version \in Nat /\ version' \in Nat /\ version <= version'
    BY DEF RoomInv, RoomShape, RoomGameOK
  <2>2. RoomViewsOK(s)'
    <3>1. /\ \A w \in views : /\ w.from \in Nat /\ w.from <= version
                              /\ w \in RoomViews(s) /\ w.to # {}
          /\ \A c \in s.sockets : shown[c] \in Nat /\ shown[c] <= version
      BY DEF RoomInv, RoomShape, RoomViewsOK, RoomViews
    <3>2. /\ \A w \in views : w.from <= version'
          /\ \A c \in s.sockets : shown[c] <= version'
      BY <2>1, <3>1
    <3>3. QED BY <3>1, <3>2 DEF RoomInv, RoomShape, RoomViewsOK, RoomViews
  <2>3. QED BY <2>2 DEF RoomInv, RoomShape, RoomLinksOK, RoomStandsOK, RoomPushOK
<1>2. RoomNumbers(s)'
  <2>1. RoomJoined(s) \subseteq RoomJoined(s)' /\ Room(s)!Opened' = Room(s)!Opened
    BY DEF RoomJoined, Room!Opened
  <2>2. QED BY <2>1, RoomNumbersKept DEF RoomInv
<1>3. RoomSeats(s)'
  BY DEF RoomInv, RoomSeats, Room!MemberFollows, Room!Opened
<1>4. RoomBoards(s)'
  <2>1. RoomBoards(s) /\ signals \in Nat /\ signals' \in Nat
    BY DEF RoomInv, RoomShape, RoomGameOK
  <2>2. current' # 0 => \A d \in members'[current'] : link'[d] = "open" => RoomDue(s, d)'
    <3> SUFFICES ASSUME current # 0, NEW d \in members[current], link'[d] = "open"
                 PROVE  RoomDue(s, d)'
      OBVIOUS
    <3>1. d \in s.sockets
      BY DEF RoomInv, RoomShape, RoomStandsOK
    <3>2. RoomDue(s, d)
      BY <2>1, <3>1 DEF RoomBoards
    <3>3. QED BY <2>1, <3>2 DEF RoomDue
  <2>3. current' # 0 /\ signals' = 0 /\ ~queued'[current'] =>
          \A w \in views' : w.room = current' => w.from = version'
    BY <2>1 DEF RoomBoards
  <2>4. \A r \in Room(s)!Rooms : failed'[r] => push'[r] \notin {"load", "view"}
    BY <2>1 DEF RoomBoards
  <2>5. QED BY <2>2, <2>3, <2>4 DEF RoomBoards
<1>5. QED BY <1>1, <1>2, <1>3, <1>4 DEF RoomInv

\* The steps of the game and of its away timer.
LEMMA RoomGameSound ==
  ASSUME NEW s, RoomAssumed(s), RoomInv(s), s.players \subseteq s.accounts,
         \/ Room(s)!Change \/ Room(s)!End \/ Room(s)!Fire
         \/ Room(s)!Check \/ Room(s)!Abandon \/ Room(s)!TaskFails
  PROVE  RoomInv(s)'
<1>0. /\ RoomGameOK(s) /\ RoomTimerOK /\ Room(s)!EmptyIsWatched
      /\ link \in [s.sockets -> {"open", "closing", "closed"}]
  BY DEF RoomInv, RoomShape, RoomLinksOK
<1> USE DEF Room!game, Room!link_vars, Room!room_vars, Room!push_vars, Room!timer_vars,
            Room!seen_vars
<1>1. UNCHANGED <<topic, openings, follows, current, members, push, queued, failed, views, shown,
                  stray, link>>
  BY DEF Room!Change, Room!End, Room!Fire, Room!Check, Room!Abandon, Room!TaskFails
<1>2. /\ RoomGameOK(s)'
      /\ \/ version' = version /\ signals' >= signals
         \/ version' = version + 1 /\ signals' > 0
  <2>1. CASE Room(s)!Change
    BY <1>0, <2>1 DEF RoomGameOK, RoomAssumed, Room!Change
  <2>2. CASE Room(s)!End \/ Room(s)!Abandon
    <3>1. version' = version /\ s.versions \in Nat
      BY <2>2 DEF Room!End, Room!Abandon, RoomAssumed
    <3>2. /\ status' \in {"RUNNING", "DONE", "ABANDONED"}
          /\ \/ status' = status /\ signals' = signals
             \/ status = "RUNNING" /\ status' # "RUNNING" /\ signals' = signals + 1
      BY <1>0, <2>2 DEF RoomGameOK, Room!End, Room!Abandon
    <3>3. QED BY <1>0, <3>1, <3>2 DEF RoomGameOK
  <2>3. CASE Room(s)!Fire \/ Room(s)!Check \/ Room(s)!TaskFails
    <3>1. status' = status /\ version' = version /\ signals' = signals
      BY <2>3 DEF Room!Fire, Room!Check, Room!TaskFails
    <3>2. QED BY <1>0, <3>1 DEF RoomGameOK
  <2>4. QED BY <2>1, <2>2, <2>3
<1>3. RoomTimerOK'
  <2>1. CASE Room(s)!Change \/ Room(s)!End \/ Room(s)!Fire
    BY <1>0, <2>1 DEF RoomTimerOK, Room!Change, Room!End, Room!Fire
  <2>2. CASE Room(s)!Check \/ Room(s)!Abandon
    BY <1>0, <2>2 DEF RoomTimerOK, Room!Check, Room!Abandon
  <2>3. CASE Room(s)!TaskFails
    BY <1>0, <2>3 DEF RoomTimerOK, Room!TaskFails, Room!MayFail
  <2>4. QED BY <2>1, <2>2, <2>3
<1>4. Room(s)!EmptyIsWatched'
  <2>1. Room(s)!Opened' = Room(s)!Opened
    BY <1>1 DEF Room!Opened
  <2>2. CASE Room(s)!Check
    <3>1. current = 0 => s.players \intersect Room(s)!ConnectedAccounts = {}
      BY DEF Room!ConnectedAccounts, Room!ConnectedSockets
    <3>2. QED BY <1>0, <1>1, <2>1, <2>2, <3>1 DEF Room!EmptyIsWatched, Room!Check
  <2>3. CASE Room(s)!Change \/ Room(s)!End \/ Room(s)!Fire
    BY <1>0, <1>1, <2>1, <2>3 DEF Room!EmptyIsWatched, Room!Change, Room!End, Room!Fire
  <2>4. CASE Room(s)!Abandon \/ Room(s)!TaskFails
    BY <1>0, <1>1, <2>1, <2>4 DEF Room!EmptyIsWatched, Room!Abandon, Room!TaskFails
  <2>5. QED BY <2>2, <2>3, <2>4
<1>5. QED
  BY <1>0, <1>1, <1>2, <1>3, <1>4, RoomRests

\* The steps of a socket.
LEMMA RoomSocketSound ==
  ASSUME NEW s, RoomAssumed(s), RoomInv(s), NEW c \in s.sockets,
         Room(s)!Follow(c) \/ Room(s)!Leave(c) \/ Room(s)!Drop(c) \/ Room(s)!Closed(c)
  PROVE  RoomInv(s)'
<1>0. /\ RoomGameOK(s) /\ RoomTimerOK /\ Room(s)!EmptyIsWatched
      /\ link \in [s.sockets -> {"open", "closing", "closed"}]
  BY DEF RoomInv, RoomShape, RoomLinksOK
<1>1. CASE Room(s)!Follow(c)
  BY <1>1, RoomFollowSound
<1>2. CASE Room(s)!Leave(c)
  BY <1>0, <1>2, RoomUnfollowSound DEF Room!Leave
<1>3. ASSUME /\ UNCHANGED <<topic, openings, follows, current, members, push, queued, failed, views,
                             shown, stray, status, version, signals, away, task, lost, faults>>
             /\ link' = [link EXCEPT ![c] = "closing"] \/ link' = [link EXCEPT ![c] = "closed"]
      PROVE  RoomInv(s)'
  <2>1. /\ link' \in [s.sockets -> {"open", "closing", "closed"}]
        /\ \A d \in s.sockets : link'[d] = "open" => link[d] = "open"
    BY <1>0, <1>3
  <2>2. RoomGameOK(s)' /\ RoomTimerOK' /\ Room(s)!EmptyIsWatched'
    BY <1>0, <1>3 DEF RoomGameOK, RoomTimerOK, Room!EmptyIsWatched, Room!Opened
  <2>3. signals' >= signals
    BY <1>0, <1>3 DEF RoomGameOK
  <2>4. /\ UNCHANGED <<topic, openings, follows, current, members, push, queued, failed, views,
                       shown, stray>>
        /\ version' = version
    BY <1>3
  <2>5. QED BY <2>1, <2>2, <2>3, <2>4, RoomRests
<1>4. ASSUME Room(s)!Unfollow(c), link' = [link EXCEPT ![c] = "closed"] PROVE RoomInv(s)'
  <2>1. /\ link' \in [s.sockets -> {"open", "closing", "closed"}]
        /\ \A d \in s.sockets : link'[d] = "open" => link[d] = "open"
    BY <1>0, <1>4
  <2>2. QED BY <1>4, <2>1, RoomUnfollowSound
<1>5. CASE Room(s)!Drop(c)
  BY <1>3, <1>5 DEF Room!Drop, Room!game, Room!room_vars, Room!push_vars, Room!seen_vars,
                    Room!timer_vars
<1>6. CASE Room(s)!Closed(c)
  BY <1>3, <1>4, <1>6 DEF Room!Closed, Room!game, Room!room_vars, Room!push_vars,
                          Room!seen_vars, Room!timer_vars
<1>7. QED BY <1>1, <1>2, <1>5, <1>6

\* The game is not read: the place goes.
LEMMA RoomRefuseSound ==
  ASSUME NEW s, RoomAssumed(s), RoomInv(s), NEW o \in openings, Room(s)!Refuse(o)
  PROVE  RoomInv(s)'
<1>0. /\ topic \in [s.sockets -> RoomTopics(s)] /\ openings \subseteq RoomOpenings(s)
      /\ members \in [Room(s)!Rooms -> SUBSET s.sockets]
      /\ o.socket \in s.sockets /\ o.n \in 1 .. s.follows /\ o.n <= follows[o.socket]
      /\ topic[o.socket].n = o.n => ~topic[o.socket].on
  BY DEF RoomInv, RoomShape, RoomLinksOK, RoomStandsOK, RoomSeats, RoomOpenings
<1>1. /\ openings' = openings \ {o} /\ faults' = faults + 1
      /\ UNCHANGED <<status, version, signals, link, follows, current, members, push, queued,
                     failed, views, shown, stray, away, task, lost>>
      /\ \/ topic' = topic
         \/ /\ topic[o.socket].n = o.n
            /\ topic' = [topic EXCEPT ![o.socket] = [n |-> 0, on |-> FALSE, room |-> 0]]
  BY DEF Room!Refuse, Room!MayFail, Room!Off, Room!game, Room!room_vars, Room!push_vars,
         Room!seen_vars, Room!timer_vars
<1>2. /\ topic' \in [s.sockets -> RoomTopics(s)]
      /\ \A d \in s.sockets : \/ topic'[d] = topic[d]
                              \/ ~topic[d].on /\ topic'[d].on = FALSE /\ topic'[d].n = 0
  <2>1. CASE topic' = topic
    BY <1>0, <2>1
  <2>2. CASE /\ ~topic[o.socket].on
             /\ topic' = [topic EXCEPT ![o.socket] = [n |-> 0, on |-> FALSE, room |-> 0]]
    <3>1. [n |-> 0, on |-> FALSE, room |-> 0] \in RoomTopics(s)
      BY DEF RoomTopics, RoomAssumed
    <3>2. \A d \in s.sockets : d # o.socket => topic'[d] = topic[d]
      BY <1>0, <2>2
    <3>3. topic'[o.socket].on = FALSE /\ topic'[o.socket].n = 0
      BY <1>0, <2>2
    <3>4. QED BY <1>0, <2>2, <3>1, <3>2, <3>3
  <2>3. QED BY <1>0, <1>1, <2>1, <2>2
<1>3. RoomShape(s)'
  <2>1. RoomLinksOK(s)'
    BY <1>1, <1>2 DEF RoomInv, RoomShape, RoomLinksOK
  <2>2. RoomTimerOK'
    BY <1>1 DEF RoomInv, RoomShape, RoomTimerOK
  <2>3. QED BY <1>1, <2>1, <2>2 DEF RoomInv, RoomShape, RoomGameOK, RoomStandsOK, RoomPushOK,
                                   RoomViewsOK
<1>4. RoomNumbers(s)'
  <2>1. RoomJoined(s) \subseteq RoomJoined(s)' /\ Room(s)!Opened' = Room(s)!Opened
    BY <1>1 DEF RoomJoined, Room!Opened
  <2>2. QED BY <2>1, RoomNumbersKept DEF RoomInv
<1>5. RoomSeats(s)'
  <2>1. Room(s)!MemberFollows'
    BY <1>0, <1>1, <1>2 DEF RoomInv, RoomSeats, Room!MemberFollows, Room!Opened
  <2>2. /\ \A p \in openings' : /\ p.n <= follows'[p.socket]
                                /\ topic'[p.socket].n = p.n => ~topic'[p.socket].on
        /\ \A d \in s.sockets : /\ topic'[d].n <= follows'[d]
                                /\ topic'[d].on => topic'[d].n > 0 /\ topic'[d].room # 0
    <3>1. \A d \in s.sockets : follows[d] \in Nat
      BY DEF RoomInv, RoomShape, RoomLinksOK, RoomAssumed
    <3>2. QED BY <1>0, <1>1, <1>2, <3>1 DEF RoomInv, RoomSeats, RoomOpenings
  <2>3. QED BY <1>1, <2>1, <2>2 DEF RoomInv, RoomSeats, Room!Opened
<1>6. Room(s)!EmptyIsWatched'
  BY <1>1 DEF RoomInv, Room!EmptyIsWatched, Room!Opened
<1>7. RoomBoards(s)'
  BY <1>1 DEF RoomInv, RoomBoards, RoomDue
<1>8. QED BY <1>3, <1>4, <1>5, <1>6, <1>7 DEF RoomInv

\* The room a socket enters: the one in use, or a new one that no push ever served.
LEMMA RoomEntered ==
  ASSUME NEW s, RoomAssumed(s), RoomInv(s), NEW o \in openings,
         openings' = openings \ {o}, follows' = follows,
         NEW r, r = IF current # 0 THEN current ELSE Cardinality(Room(s)!Opened) + 1
  PROVE  /\ r \in Room(s)!Rooms /\ r # 0
         /\ current = 0 => push[r] = "none"
         /\ Room(s)!Opened' = Room(s)!Opened \union {r} => RoomNumbers(s)'
<1> DEFINE k == Cardinality(Room(s)!Opened)
           j == Cardinality(RoomJoined(s))
           x == <<o.socket, o.n>>
<1>1. /\ x \in RoomPairs(s) /\ x \notin RoomJoined(s) /\ x \in RoomJoined(s)'
      /\ RoomJoined(s) \subseteq RoomJoined(s)'
      /\ RoomJoined(s) \subseteq RoomPairs(s) /\ RoomJoined(s)' \subseteq RoomPairs(s)
  <2>1. o.socket \in s.sockets /\ o.n \in 1 .. s.follows /\ o.n <= follows[o.socket]
        /\ o = [socket |-> o.socket, n |-> o.n]
    BY DEF RoomInv, RoomShape, RoomLinksOK, RoomSeats, RoomOpenings
  <2>2. x[1] = o.socket /\ x[2] = o.n /\ x \in RoomPairs(s)
    BY <2>1 DEF RoomPairs
  <2>3. x \notin RoomJoined(s) /\ x \in RoomJoined(s)'
    BY <2>1, <2>2 DEF RoomJoined
  <2>4. QED BY <2>2, <2>3 DEF RoomJoined
<1> HIDE DEF x
<1>2. /\ IsFiniteSet(RoomJoined(s)) /\ j \in Nat
      /\ j + 1 <= Cardinality(RoomJoined(s)')
      /\ Cardinality(RoomJoined(s)') <= Cardinality(RoomPairs(s))
      /\ Cardinality(RoomJoined(s)') \in Nat
  <2>1. IsFiniteSet(RoomPairs(s))
    BY RoomRange
  <2>2. IsFiniteSet(RoomJoined(s)) /\ IsFiniteSet(RoomJoined(s)')
        /\ Cardinality(RoomJoined(s)') <= Cardinality(RoomPairs(s))
    BY <1>1, <2>1, FS_Subset
  <2>3. IsFiniteSet(RoomJoined(s) \union {x}) /\ Cardinality(RoomJoined(s) \union {x}) = j + 1
    BY <1>1, <2>2, FS_AddElement
  <2>4. Cardinality(RoomJoined(s) \union {x}) <= Cardinality(RoomJoined(s)')
    BY <1>1, <2>2, FS_Subset
  <2>5. j \in Nat /\ Cardinality(RoomJoined(s)') \in Nat
    BY <2>2, FS_CardinalityType
  <2>6. QED BY <2>2, <2>3, <2>4, <2>5
<1>3. Room(s)!Rooms = 1 .. Cardinality(RoomPairs(s)) /\ Cardinality(RoomPairs(s)) \in Nat
  BY RoomRange
<1>4. Room(s)!Opened = 1 .. k /\ k <= j /\ k \in Nat
  <2>1. IsFiniteSet(Room(s)!Opened)
    <3>1. Room(s)!Opened \subseteq Room(s)!Rooms
      BY DEF Room!Opened
    <3>2. IsFiniteSet(Room(s)!Rooms)
      BY <1>3, FS_Interval
    <3>3. QED BY <3>1, <3>2, FS_Subset
  <2>2. QED BY <2>1, FS_CardinalityType DEF RoomInv, RoomNumbers
<1> HIDE DEF k, j
<1>5. CASE current # 0
  <2>1. r \in Room(s)!Opened /\ r \in Room(s)!Rooms
    BY <1>5 DEF RoomInv, RoomSeats, Room!Opened
  <2>2. Room(s)!Opened' = Room(s)!Opened \union {r} => RoomNumbers(s)'
    BY <1>1, <2>1, RoomNumbersKept DEF RoomInv
  <2>3. QED BY <1>3, <1>5, <2>1, <2>2
<1>6. CASE current = 0
  <2>1. r = k + 1
    BY <1>6 DEF k
  <2>2. r \in Room(s)!Rooms /\ r # 0 /\ r \notin Room(s)!Opened
    BY <1>2, <1>3, <1>4, <2>1
  <2>3. ASSUME Room(s)!Opened' = Room(s)!Opened \union {r} PROVE RoomNumbers(s)'
    <3>1. Room(s)!Opened' = 1 .. r
      BY <1>4, <2>1, <2>3
    <3>2. Cardinality(Room(s)!Opened') = r
      BY <1>4, <2>1, <3>1, FS_Interval
    <3>3. QED BY <1>2, <1>4, <2>1, <3>1, <3>2 DEF RoomNumbers
  <2>4. QED BY <1>6, <2>2, <2>3 DEF Room!Opened
<1>7. QED BY <1>5, <1>6

\* The game is read: the socket enters its room, or leaves it at once.
LEMMA RoomJoinSound ==
  ASSUME NEW s, RoomAssumed(s), RoomInv(s), NEW o \in openings, Room(s)!Join(o)
  PROVE  RoomInv(s)'
<1>0. /\ topic \in [s.sockets -> RoomTopics(s)] /\ openings \subseteq RoomOpenings(s)
      /\ members \in [Room(s)!Rooms -> SUBSET s.sockets] /\ RoomPushOK(s)
      /\ o.socket \in s.sockets /\ o.n \in 1 .. s.follows /\ o.n <= follows[o.socket]
      /\ o = [socket |-> o.socket, n |-> o.n] /\ s.follows \in Nat
  BY DEF RoomInv, RoomShape, RoomLinksOK, RoomStandsOK, RoomSeats, RoomOpenings, RoomAssumed
<1>1. PICK r : /\ r = IF current # 0 THEN current ELSE Cardinality(Room(s)!Opened) + 1
               /\ Room(s)!PushBoards(r)
               /\ \/ /\ topic[o.socket].n = o.n
                     /\ topic' = [topic EXCEPT ![o.socket] = [n |-> o.n, on |-> TRUE, room |-> r]]
                     /\ members' = [members EXCEPT ![r] = members[r] \union {o.socket}]
                     /\ current' = r /\ away' = "off"
                  \/ /\ topic' = topic
                     /\ members' = [members EXCEPT ![r] = members[r] \ {o.socket}]
                     /\ current' = IF members'[r] = {} THEN 0 ELSE r
                     /\ away' = IF members'[r] = {} THEN "armed" ELSE "off"
  <2>1. Room(s)!Cardinality(Room(s)!Opened) = Cardinality(Room(s)!Opened)
    BY RoomRange
  <2>2. QED BY <2>1 DEF Room!Join
<1>2. /\ openings' = openings \ {o} /\ lost' = FALSE
      /\ UNCHANGED <<status, version, signals, link, follows, views, shown, stray, task, faults>>
  BY DEF Room!Join, Room!game, Room!seen_vars
<1>3. /\ r \in Room(s)!Rooms /\ r # 0 /\ (current # 0 => r = current)
      /\ current = 0 => push[r] = "none"
      /\ Room(s)!Opened' = Room(s)!Opened \union {r} => RoomNumbers(s)'
  BY <1>1, <1>2, RoomEntered
<1>4. /\ RoomPushOK(s)'
      /\ Room(s)!Opened' = Room(s)!Opened \union {r}
      /\ \A q \in Room(s)!Rooms : q # r => push'[q] = push[q] /\ queued'[q] = queued[q]
      /\ push[r] \in {"load", "view"} => push'[r] = push[r] /\ queued'[r] = TRUE
      /\ push[r] \notin {"load", "view"} => push'[r] = "load" /\ queued'[r] = FALSE
      /\ \A q \in Room(s)!Rooms : q # r => failed'[q] = failed[q]
      /\ failed'[r] => failed[r] /\ push[r] \in {"load", "view"}
  BY <1>0, <1>1, <1>3, RoomPushBoards
<1>5. \A q \in Room(s)!Rooms : q # r => members[q] = {}
  <2>1. \A q \in Room(s)!Rooms : q # current => members[q] = {}
    BY DEF RoomInv, RoomSeats
  <2>2. 0 \notin Room(s)!Rooms
    BY RoomRange
  <2>3. QED BY <1>3, <2>1, <2>2
<1>6. current = 0 => members[r] = {}
  <2>1. r \in Room(s)!Rooms /\ r # 0
    BY <1>3
  <2>2. \A q \in Room(s)!Rooms : q # current => members[q] = {}
    BY DEF RoomInv, RoomSeats
  <2>3. QED BY <2>1, <2>2
<1>7. /\ topic' \in [s.sockets -> RoomTopics(s)]
      /\ \A d \in s.sockets : d # o.socket => topic'[d] = topic[d]
      /\ \/ topic'[o.socket] = topic[o.socket]
         \/ /\ topic[o.socket].n = o.n /\ topic'[o.socket].n = o.n
            /\ topic'[o.socket].on = TRUE /\ topic'[o.socket].room = r
  <2>1. [n |-> o.n, on |-> TRUE, room |-> r] \in RoomTopics(s)
    BY <1>0, <1>3 DEF RoomTopics
  <2>2. CASE topic' = topic
    BY <1>0, <2>2
  <2>3. CASE /\ topic[o.socket].n = o.n
             /\ topic' = [topic EXCEPT ![o.socket] = [n |-> o.n, on |-> TRUE, room |-> r]]
    BY <1>0, <2>1, <2>3
  <2>4. QED BY <1>1, <2>2, <2>3
<1>8. /\ members' \in [Room(s)!Rooms -> SUBSET s.sockets] /\ current' \in {0, r}
      /\ \A q \in Room(s)!Rooms : q # current' => members'[q] = {}
      /\ current' # 0 => members'[r] # {}
      /\ \A d \in members'[r] : \/ /\ d \in members[r] /\ topic'[d] = topic[d]
                                \/ topic'[d].on = TRUE /\ topic'[d].room = r
      /\ current' = 0 => away' = "armed"
      /\ away' \in {"off", "armed"}
  <2>1. CASE /\ topic[o.socket].n = o.n
             /\ topic' = [topic EXCEPT ![o.socket] = [n |-> o.n, on |-> TRUE, room |-> r]]
             /\ members' = [members EXCEPT ![r] = members[r] \union {o.socket}]
             /\ current' = r /\ away' = "off"
    BY <1>0, <1>3, <1>5, <1>7, <2>1
  <2>2. CASE /\ topic' = topic
             /\ members' = [members EXCEPT ![r] = members[r] \ {o.socket}]
             /\ current' = IF members'[r] = {} THEN 0 ELSE r
             /\ away' = IF members'[r] = {} THEN "armed" ELSE "off"
    BY <1>0, <1>3, <1>5, <2>2
  <2>3. QED BY <1>1, <2>1, <2>2
<1>9. RoomShape(s)'
  <2>1. RoomLinksOK(s)'
    BY <1>0, <1>2, <1>7 DEF RoomInv, RoomShape, RoomLinksOK
  <2>2. RoomStandsOK(s)'
    BY <1>3, <1>8 DEF RoomStandsOK
  <2>3. RoomTimerOK'
    BY <1>2, <1>8 DEF RoomInv, RoomShape, RoomTimerOK
  <2>4. RoomViewsOK(s)'
    <3>1. \A w \in views : w.room # 0 => w.room \in Room(s)!Rooms /\ push[w.room] = "view"
      BY DEF RoomInv, RoomShape, RoomViewsOK, RoomViews
    <3>2. \A w \in views : w.room # 0 => push'[w.room] = "view"
      BY <1>4, <3>1
    <3>3. QED BY <1>2, <3>2 DEF RoomInv, RoomShape, RoomViewsOK, RoomViews
  <2>5. QED BY <1>2, <1>4, <2>1, <2>2, <2>3, <2>4 DEF RoomInv, RoomShape, RoomGameOK
<1>10. RoomSeats(s)'
  <2>1. Room(s)!MemberFollows'
    <3>1. current' # 0 => \A d \in members[r] : topic[d].on /\ topic[d].room = r
      BY <1>3, <1>6 DEF RoomInv, RoomSeats, Room!MemberFollows
    <3>2. QED BY <1>8, <3>1 DEF Room!MemberFollows
  <2>2. \A p \in openings' : /\ p.n <= follows'[p.socket]
                             /\ topic'[p.socket].n = p.n => ~topic'[p.socket].on
    <3> SUFFICES ASSUME NEW p \in openings'
                 PROVE  /\ p.n <= follows[p.socket]
                        /\ topic'[p.socket].n = p.n => ~topic'[p.socket].on
      BY <1>2
    <3>1. /\ p \in openings /\ p # o /\ p.n <= follows[p.socket]
          /\ topic[p.socket].n = p.n => ~topic[p.socket].on
          /\ p = [socket |-> p.socket, n |-> p.n] /\ p.socket \in s.sockets
      BY <1>0, <1>2 DEF RoomInv, RoomSeats, RoomOpenings
    <3>2. p.socket = o.socket => p.n # o.n
      BY <1>0, <3>1
    <3>3. QED BY <1>7, <3>1, <3>2
  <2>3. \A d \in s.sockets : /\ topic'[d].n <= follows'[d]
                             /\ topic'[d].on => topic'[d].n > 0 /\ topic'[d].room # 0
    BY <1>0, <1>2, <1>3, <1>7 DEF RoomInv, RoomSeats
  <2>4. queued'[r] => push'[r] \in {"load", "view"}
    BY <1>4
  <2>5. QED BY <1>3, <1>4, <1>8, <2>1, <2>2, <2>3, <2>4 DEF RoomSeats
<1>11. Room(s)!EmptyIsWatched'
  BY <1>8 DEF Room!EmptyIsWatched
<1>12. RoomBoards(s)'
  <2>1. current' # 0 => \A d \in members'[current'] : RoomDue(s, d)'
    BY <1>4, <1>8 DEF RoomDue
  <2>2. ASSUME current' # 0, ~queued'[current'] PROVE \A w \in views' : w.room # current'
    <3>1. current' = r /\ push'[r] = "load"
      BY <1>4, <1>8, <2>2
    <3>2. \A w \in views' : w.room # 0 => push'[w.room] = "view"
      BY <1>9 DEF RoomShape, RoomViewsOK
    <3>3. QED BY <1>3, <3>1, <3>2
  <2>3. \A q \in Room(s)!Rooms : failed'[q] => push'[q] \notin {"load", "view"}
    BY <1>4 DEF RoomInv, RoomBoards
  <2>4. QED BY <2>1, <2>2, <2>3 DEF RoomBoards
<1>13. QED BY <1>3, <1>4, <1>9, <1>10, <1>11, <1>12 DEF RoomInv

\* A signal is delivered: the room in use is pushed, or will be.
LEMMA RoomDeliverSound ==
  ASSUME NEW s, RoomAssumed(s), RoomInv(s), Room(s)!Deliver
  PROVE  RoomInv(s)'
<1>0. /\ UNCHANGED <<status, version, topic, openings, follows, current, members, link, views,
                     shown, stray, away, task, lost, faults>>
      /\ signals > 0 /\ signals' = signals - 1
      /\ current \in {0} \union Room(s)!Rooms /\ members \in [Room(s)!Rooms -> SUBSET s.sockets]
      /\ RoomPushOK(s) /\ (current # 0 => current \in Room(s)!Opened)
  BY DEF Room!Deliver, Room!game, Room!link_vars, Room!room_vars, Room!timer_vars,
         Room!seen_vars, RoomInv, RoomShape, RoomStandsOK, RoomSeats
<1>1. /\ RoomPushOK(s)' /\ Room(s)!Opened' = Room(s)!Opened
      /\ \A q \in Room(s)!Rooms : q # current => push'[q] = push[q] /\ queued'[q] = queued[q]
      /\ current # 0 =>
           /\ push[current] \in {"load", "view"} => push'[current] = push[current]
                                                    /\ queued'[current] = TRUE
           /\ push[current] \notin {"load", "view"} => push'[current] = "load"
                                                       /\ queued'[current] = FALSE
           /\ failed'[current] => failed[current] /\ push[current] \in {"load", "view"}
      /\ \A q \in Room(s)!Rooms : q # current => failed'[q] = failed[q]
  <2>1. CASE current = 0
    <3>1. UNCHANGED <<push, queued, failed>>
      BY <2>1 DEF Room!Deliver, Room!push_vars
    <3>2. QED BY <1>0, <2>1, <3>1 DEF RoomPushOK, Room!Opened
  <2>2. CASE current # 0
    <3>1. Room(s)!PushBoards(current) /\ current \in Room(s)!Rooms
      BY <1>0, <2>2 DEF Room!Deliver
    <3>2. /\ RoomPushOK(s)' /\ Room(s)!Opened' = Room(s)!Opened \union {current}
          /\ \A q \in Room(s)!Rooms :
               q # current => push'[q] = push[q] /\ queued'[q] = queued[q]
          /\ push[current] \in {"load", "view"} => push'[current] = push[current]
                                                   /\ queued'[current] = TRUE
          /\ push[current] \notin {"load", "view"} => push'[current] = "load"
                                                      /\ queued'[current] = FALSE
          /\ \A q \in Room(s)!Rooms : q # current => failed'[q] = failed[q]
          /\ failed'[current] => failed[current] /\ push[current] \in {"load", "view"}
      BY <1>0, <3>1, RoomPushBoards
    <3>3. QED BY <1>0, <2>2, <3>2
  <2>3. QED BY <2>1, <2>2
<1>2. RoomShape(s)'
  <2>1. RoomGameOK(s)'
    BY <1>0 DEF RoomInv, RoomShape, RoomGameOK
  <2>2. RoomViewsOK(s)'
    <3>1. \A w \in views : w.room # 0 => w.room \in Room(s)!Rooms /\ push[w.room] = "view"
      BY DEF RoomInv, RoomShape, RoomViewsOK, RoomViews
    <3>2. \A w \in views : w.room # 0 => push'[w.room] = "view"
      BY <1>1, <3>1
    <3>3. QED BY <1>0, <3>2 DEF RoomInv, RoomShape, RoomViewsOK, RoomViews
  <2>3. QED BY <1>0, <1>1, <2>1, <2>2 DEF RoomInv, RoomShape, RoomLinksOK, RoomStandsOK, RoomTimerOK
<1>3. RoomNumbers(s)'
  <2>1. RoomJoined(s) \subseteq RoomJoined(s)'
    BY <1>0 DEF RoomJoined
  <2>2. QED BY <1>1, <2>1, RoomNumbersKept DEF RoomInv
<1>4. RoomSeats(s)'
  BY <1>0, <1>1 DEF RoomInv, RoomSeats, Room!MemberFollows
<1>5. Room(s)!EmptyIsWatched'
  BY <1>0, <1>1 DEF RoomInv, Room!EmptyIsWatched
<1>6. RoomBoards(s)'
  <2>1. current' # 0 => \A d \in members'[current'] : RoomDue(s, d)'
    BY <1>0, <1>1 DEF RoomDue
  <2>2. ASSUME current # 0, ~queued'[current] PROVE \A w \in views' : w.room # current
    <3>1. push'[current] = "load"
      BY <1>1, <2>2
    <3>2. \A w \in views' : w.room # 0 => push'[w.room] = "view"
      BY <1>2 DEF RoomShape, RoomViewsOK
    <3>3. QED BY <2>2, <3>1, <3>2
  <2>3. \A q \in Room(s)!Rooms : failed'[q] => push'[q] \notin {"load", "view"}
    <3> SUFFICES ASSUME NEW q \in Room(s)!Rooms, failed'[q]
                 PROVE  push'[q] \notin {"load", "view"}
      OBVIOUS
    <3>1. failed[q] => push[q] \notin {"load", "view"}
      BY DEF RoomInv, RoomBoards
    <3>2. CASE q # current
      BY <1>1, <3>1, <3>2
    <3>3. CASE q = current
      <4>1. current # 0
        BY <3>3, RoomRange
      <4>2. QED BY <1>1, <3>1, <3>3, <4>1
    <3>4. QED BY <3>2, <3>3
  <2>4. QED BY <1>0, <2>1, <2>2, <2>3 DEF RoomBoards
<1>7. QED BY <1>2, <1>3, <1>4, <1>5, <1>6 DEF RoomInv

\* Who stands where, after a step of the push of one room.
LEMMA RoomSeatsPushed ==
  ASSUME NEW s, RoomSeats(s), RoomStandsOK(s), RoomPushOK(s), NEW r \in Room(s)!Rooms,
         Room(s)!Opened' = Room(s)!Opened,
         UNCHANGED <<topic, openings, follows, current, members>>,
         \A q \in Room(s)!Rooms : q # r => push'[q] = push[q] /\ queued'[q] = queued[q],
         queued'[r] => push'[r] \in {"load", "view"} \/ members[r] = {}
  PROVE  RoomSeats(s)'
<1>1. current # 0 => /\ current \in Room(s)!Rooms /\ members[current] # {}
                     /\ queued'[current] => push'[current] \in {"load", "view"}
  BY DEF RoomSeats, RoomStandsOK
<1>2. QED BY <1>1 DEF RoomSeats, Room!MemberFollows

\* The views of a push are asked, one per account.
LEMMA RoomLoadSound ==
  ASSUME NEW s, RoomAssumed(s), RoomInv(s), s.owner \in [s.sockets -> s.accounts],
         NEW r \in Room(s)!Rooms, Room(s)!Load(r)
  PROVE  RoomInv(s)'
<1>0. /\ UNCHANGED <<status, version, signals, topic, openings, follows, current, members, link,
                     shown, stray, away, task, lost, faults>>
      /\ members \in [Room(s)!Rooms -> SUBSET s.sockets] /\ push[r] = "load"
      /\ RoomPushOK(s) /\ RoomSeats(s) /\ RoomStandsOK(s) /\ version \in Nat
      /\ r # 0
  <2>1. 0 \notin Room(s)!Rooms
    BY RoomRange
  <2>2. QED BY <2>1 DEF Room!Load, Room!game, Room!link_vars, Room!room_vars, Room!timer_vars,
                        Room!seen_vars,
                        RoomInv, RoomShape, RoomStandsOK, RoomGameOK
<1> DEFINE mine(a) == {c \in members[r] : s.owner[c] = a}
           view(a) == [room |-> r, to |-> mine(a), from |-> version]
<1>1. /\ \A w \in views' : w \in views \/ \E a \in s.accounts : w = view(a) /\ mine(a) # {}
      /\ \A w \in views : w \in views'
      /\ \A c \in members[r] : view(s.owner[c]) \in views'
  <2>1. views' = views \union {view(a) : a \in {s.owner[c] : c \in members[r]}}
    BY DEF Room!Load
  <2>2. \A a \in {s.owner[c] : c \in members[r]} : a \in s.accounts /\ mine(a) # {}
    BY <1>0
  <2> HIDE DEF view, mine
  <2>3. QED BY <2>1, <2>2
<1>2. \A a : view(a).room = r /\ view(a).to = mine(a) /\ view(a).from = version
  OBVIOUS
<1>3. \A a : mine(a) \subseteq members[r] /\ \A c \in mine(a) : s.owner[c] = a
  OBVIOUS
<1>4. \A a : view(a) \in RoomViews(s)
  BY <1>0 DEF RoomViews
<1> HIDE DEF view, mine
<1>5. /\ RoomPushOK(s)' /\ Room(s)!Opened' = Room(s)!Opened
      /\ \A q \in Room(s)!Rooms : q # r => push'[q] = push[q] /\ queued'[q] = queued[q]
      /\ members[r] # {} => push'[r] = "view" /\ UNCHANGED <<queued, failed>>
      /\ members[r] = {} => views' = views /\ push'[r] = "idle"
      /\ \A q \in Room(s)!Rooms : q # r => failed'[q] = failed[q]
  <2>1. CASE members[r] = {}
    <3>1. {s.owner[c] : c \in members[r]} = {}
      BY <2>1
    <3>2. Room(s)!PushOver(r, FALSE) /\ views' = views
      BY <3>1 DEF Room!Load
    <3>3. QED BY <1>0, <2>1, <3>2, RoomPushOver
  <2>2. CASE members[r] # {}
    <3>1. {s.owner[c] : c \in members[r]} # {}
      BY <2>2
    <3>2. push' = [push EXCEPT ![r] = "view"] /\ UNCHANGED <<queued, failed>>
      BY <3>1 DEF Room!Load
    <3>3. QED BY <1>0, <2>2, <3>2 DEF RoomPushOK, Room!Opened
  <2>3. QED BY <2>1, <2>2
<1>6. \A w \in views : /\ w \in RoomViews(s) /\ w.to # {} /\ w.from \in Nat /\ w.from <= version
                       /\ w.room # 0 => w.room \in Room(s)!Rooms /\ push[w.room] = "view"
  BY DEF RoomInv, RoomShape, RoomViewsOK, RoomViews
<1>7. RoomShape(s)'
  <2>1. RoomViewsOK(s)'
    <3>1. \A w \in views' : w \in RoomViews(s) /\ w.to # {} /\ w.from <= version
      BY <1>0, <1>1, <1>2, <1>4, <1>6
    <3>2. \A w \in views' : w.room # 0 => push'[w.room] = "view"
      <4> SUFFICES ASSUME NEW w \in views', w.room # 0 PROVE push'[w.room] = "view"
        OBVIOUS
      <4>1. CASE w \in views
        BY <1>0, <1>5, <1>6, <4>1
      <4>2. CASE \E a \in s.accounts : w = view(a) /\ mine(a) # {}
        BY <1>2, <1>3, <1>5, <4>2
      <4>3. QED BY <1>1, <4>1, <4>2
    <3>3. QED BY <1>0, <3>1, <3>2 DEF RoomInv, RoomShape, RoomViewsOK, RoomViews
  <2>2. QED BY <1>0, <1>5, <2>1 DEF RoomInv, RoomShape, RoomGameOK, RoomLinksOK, RoomStandsOK,
                                    RoomTimerOK
<1>8. RoomNumbers(s)'
  <2>1. RoomJoined(s) \subseteq RoomJoined(s)'
    BY <1>0 DEF RoomJoined
  <2>2. QED BY <1>5, <2>1, RoomNumbersKept DEF RoomInv
<1>9. RoomSeats(s)'
  BY <1>0, <1>5, RoomSeatsPushed
<1>10. Room(s)!EmptyIsWatched'
  BY <1>0, <1>5 DEF RoomInv, Room!EmptyIsWatched
<1>11. RoomBoards(s)'
  <2>0. RoomBoards(s) /\ (current # 0 => current \in Room(s)!Rooms)
    BY <1>0 DEF RoomInv, RoomStandsOK
  <2>1. current # r => members[r] = {}
    BY <1>0 DEF RoomSeats
  <2>2. \A w \in views : w.room # r
    BY <1>0, <1>6
  <2>3. ASSUME current # 0, NEW c \in members[current], link[c] = "open"
        PROVE  RoomDue(s, c)'
    <3>1. CASE current = r
      <4>1. view(s.owner[c]) \in views' /\ c \in view(s.owner[c]).to
        BY <1>1, <1>2, <2>3, <3>1 DEF mine
      <4>2. QED BY <1>0, <1>2, <3>1, <4>1 DEF RoomDue
    <3>2. CASE current # r
      <4>1. RoomDue(s, c)
        BY <2>0, <2>3 DEF RoomBoards
      <4>2. QED BY <1>0, <1>5, <2>0, <2>1, <2>3, <3>2, <4>1 DEF RoomDue
    <3>3. QED BY <3>1, <3>2
  <2>4. ASSUME current # 0, signals = 0, ~queued'[current],
               NEW w \in views', w.room = current
        PROVE  w.from = version
    <3>1. CASE w \in views
      <4>1. current # r
        BY <2>2, <2>4, <3>1
      <4>2. ~queued[current]
        BY <1>5, <2>0, <2>4, <4>1
      <4>3. QED BY <2>0, <2>4, <3>1, <4>2 DEF RoomBoards
    <3>2. CASE w \notin views
      BY <1>1, <1>2, <3>2
    <3>3. QED BY <3>1, <3>2
  <2>5. ASSUME NEW q \in Room(s)!Rooms, failed'[q] PROVE push'[q] \notin {"load", "view"}
    <3>1. failed[q] => push[q] \notin {"load", "view"}
      BY <2>0 DEF RoomBoards
    <3>2. CASE q # r
      BY <1>5, <2>5, <3>1, <3>2
    <3>3. CASE q = r
      BY <1>0, <1>5, <2>5, <3>1, <3>3
    <3>4. QED BY <3>2, <3>3
  <2>6. QED BY <1>0, <2>3, <2>4, <2>5 DEF RoomBoards
<1>12. QED BY <1>7, <1>8, <1>9, <1>10, <1>11 DEF RoomInv

\* A push that reads no game owes the failure.
LEMMA RoomLoadFailsSound ==
  ASSUME NEW s, RoomAssumed(s), RoomInv(s), NEW r \in Room(s)!Rooms, Room(s)!LoadFails(r)
  PROVE  RoomInv(s)'
<1>0. /\ UNCHANGED <<status, version, signals, topic, openings, follows, current, members, link,
                     shown, stray, views, away, task, lost>>
      /\ push[r] = "load" /\ faults' = faults + 1 /\ faults \in Nat
      /\ RoomPushOK(s) /\ RoomSeats(s) /\ RoomStandsOK(s)
  BY DEF Room!LoadFails, Room!MayFail, Room!game, Room!link_vars, Room!room_vars, Room!timer_vars,
         Room!seen_vars, RoomInv, RoomShape, RoomTimerOK
<1>1. /\ RoomPushOK(s)' /\ Room(s)!Opened' = Room(s)!Opened
      /\ \A q \in Room(s)!Rooms : q # r => push'[q] = push[q] /\ queued'[q] = queued[q]
      /\ queued[r] /\ members[r] # {} => push'[r] = "load" /\ queued'[r] = FALSE
      /\ ~(queued[r] /\ members[r] # {}) => push'[r] = "idle" /\ queued'[r] = queued[r]
      /\ \A q \in Room(s)!Rooms : q # r => failed'[q] = failed[q]
      /\ failed'[r] = (TRUE /\ ~(queued[r] /\ members[r] # {}))
  <2>1. Room(s)!PushOver(r, TRUE)
    BY DEF Room!LoadFails
  <2>2. QED BY <1>0, <2>1, RoomPushOver
<1>2. RoomShape(s)'
  <2>1. \A w \in views : w.room # 0 => push'[w.room] = "view"
    <3>1. \A w \in views : w.room # 0 => w.room \in Room(s)!Rooms /\ push[w.room] = "view"
      BY DEF RoomInv, RoomShape, RoomViewsOK, RoomViews
    <3>2. QED BY <1>0, <1>1, <3>1
  <2>2. RoomViewsOK(s)'
    BY <1>0, <2>1 DEF RoomInv, RoomShape, RoomViewsOK, RoomViews
  <2>3. RoomTimerOK'
    BY <1>0 DEF RoomInv, RoomShape, RoomTimerOK
  <2>4. QED BY <1>0, <1>1, <2>2, <2>3 DEF RoomInv, RoomShape, RoomGameOK, RoomLinksOK, RoomStandsOK
<1>3. RoomNumbers(s)'
  <2>1. RoomJoined(s) \subseteq RoomJoined(s)'
    BY <1>0 DEF RoomJoined
  <2>2. QED BY <1>1, <2>1, RoomNumbersKept DEF RoomInv
<1>4. RoomSeats(s)'
  BY <1>0, <1>1, RoomSeatsPushed
<1>5. Room(s)!EmptyIsWatched'
  BY <1>0, <1>1 DEF RoomInv, Room!EmptyIsWatched
<1>6. RoomBoards(s)'
  <2>0. RoomBoards(s) /\ (current # 0 => current \in Room(s)!Rooms)
    BY <1>0 DEF RoomInv, RoomStandsOK
  <2>1. \A w \in views : w.room # r
    <3>1. \A w \in views : w.room # 0 => push[w.room] = "view"
      BY DEF RoomInv, RoomShape, RoomViewsOK
    <3>2. r # 0
      BY RoomRange
    <3>3. QED BY <1>0, <3>1, <3>2
  <2>2. ASSUME current # 0, NEW c \in members[current], link[c] = "open"
        PROVE  RoomDue(s, c)'
    <3>1. CASE current = r
      BY <1>0, <1>1, <2>2, <3>1 DEF RoomDue
    <3>2. CASE current # r
      <4>1. RoomDue(s, c)
        BY <2>0, <2>2 DEF RoomBoards
      <4>2. QED BY <1>0, <1>1, <2>0, <2>2, <3>2, <4>1 DEF RoomDue
    <3>3. QED BY <3>1, <3>2
  <2>3. ASSUME current # 0, signals = 0, ~queued'[current],
               NEW w \in views, w.room = current
        PROVE  w.from = version
    <3>1. current # r /\ ~queued[current]
      BY <1>1, <2>0, <2>1, <2>3
    <3>2. QED BY <2>0, <2>3, <3>1 DEF RoomBoards
  <2>4. ASSUME NEW q \in Room(s)!Rooms, failed'[q] PROVE push'[q] \notin {"load", "view"}
    <3>1. failed[q] => push[q] \notin {"load", "view"}
      BY <2>0 DEF RoomBoards
    <3>2. QED BY <1>1, <2>4, <3>1
  <2>5. QED BY <1>0, <2>2, <2>3, <2>4 DEF RoomBoards
<1>7. QED BY <1>2, <1>3, <1>4, <1>5, <1>6 DEF RoomInv

\* A view is sent, and the push may be over with it.
LEMMA RoomSendSound ==
  ASSUME NEW s, RoomAssumed(s), RoomInv(s), NEW w \in views, Room(s)!Send(w)
  PROVE  RoomInv(s)'
<1>0. /\ UNCHANGED <<status, version, signals, topic, openings, follows, current, members, link,
                     away, task, lost, faults>>
      /\ views' = views \ {w} /\ version \in Nat
      /\ RoomPushOK(s) /\ RoomSeats(s) /\ RoomStandsOK(s)
  BY DEF Room!Send, Room!game, Room!link_vars, Room!room_vars, Room!timer_vars,
         Room!seen_vars, RoomInv, RoomShape, RoomGameOK
<1>1. \A x \in views : /\ x \in RoomViews(s) /\ x.to # {} /\ x.from \in Nat /\ x.from <= version
                       /\ x.room # 0 => x.room \in Room(s)!Rooms /\ push[x.room] = "view"
  BY DEF RoomInv, RoomShape, RoomViewsOK, RoomViews
<1>2. PICK v \in w.from .. version :
        /\ shown' = [c \in s.sockets |-> IF c \in w.to /\ link[c] = "open" THEN v ELSE shown[c]]
        /\ stray' = [c \in s.sockets |-> IF c \in w.to /\ link[c] = "open"
                                         THEN w.room # current /\ v < version ELSE stray[c]]
  BY DEF Room!Send
<1>3. v \in Nat /\ v <= version /\ (w.from = version => v = version)
  BY <1>0, <1>1, <1>2
<1>4. /\ RoomPushOK(s)' /\ Room(s)!Opened' = Room(s)!Opened
      /\ \A x \in views' : x.room # 0 => push'[x.room] = "view"
      /\ \A q \in Room(s)!Rooms :
           \/ push'[q] = push[q] /\ queued'[q] = queued[q] /\ failed'[q] = failed[q]
           \/ /\ push[q] = "view" /\ failed'[q] = FALSE
              /\ queued[q] /\ members[q] # {} => push'[q] = "load"
              /\ queued'[q] => members[q] = {}
              /\ \A x \in views' : x.room # q
  <2>1. CASE w.room # 0 /\ ~\E x \in views' : x.room = w.room
    <3>1. Room(s)!PushOver(w.room, FALSE) /\ w.room \in Room(s)!Rooms /\ push[w.room] = "view"
      BY <1>1, <2>1 DEF Room!Send
    <3>2. /\ RoomPushOK(s)' /\ Room(s)!Opened' = Room(s)!Opened
          /\ \A q \in Room(s)!Rooms : q # w.room => push'[q] = push[q] /\ queued'[q] = queued[q]
          /\ queued[w.room] /\ members[w.room] # {} =>
               push'[w.room] = "load" /\ queued'[w.room] = FALSE
          /\ ~(queued[w.room] /\ members[w.room] # {}) =>
               push'[w.room] = "idle" /\ queued'[w.room] = queued[w.room]
          /\ \A q \in Room(s)!Rooms : q # w.room => failed'[q] = failed[q]
          /\ failed'[w.room] = (FALSE /\ ~(queued[w.room] /\ members[w.room] # {}))
      BY <1>0, <3>1, RoomPushOver
    <3>3. \A x \in views' : x.room # 0 => push'[x.room] = "view"
      BY <1>0, <1>1, <2>1, <3>2
    <3>4. QED BY <2>1, <3>1, <3>2, <3>3
  <2>2. CASE ~(w.room # 0 /\ ~\E x \in views' : x.room = w.room)
    <3>1. UNCHANGED <<push, queued, failed>>
      BY <2>2 DEF Room!Send, Room!push_vars
    <3>2. QED BY <1>0, <1>1, <3>1 DEF RoomPushOK, Room!Opened
  <2>3. QED BY <2>1, <2>2
<1>5. RoomShape(s)'
  <2>1. shown' \in [s.sockets -> Nat] /\ \A c \in s.sockets : shown'[c] <= version
    BY <1>2, <1>3 DEF RoomInv, RoomShape, RoomViewsOK
  <2>2. RoomViewsOK(s)'
    <3>1. stray' \in [s.sockets -> BOOLEAN]
      BY <1>2 DEF RoomInv, RoomShape, RoomViewsOK
    <3>2. QED BY <1>0, <1>1, <1>4, <2>1, <3>1 DEF RoomViewsOK, RoomViews
  <2>3. QED BY <1>0, <1>4, <2>2 DEF RoomInv, RoomShape, RoomGameOK, RoomLinksOK, RoomStandsOK,
                                    RoomTimerOK
<1>6. RoomNumbers(s)'
  <2>1. RoomJoined(s) \subseteq RoomJoined(s)'
    BY <1>0 DEF RoomJoined
  <2>2. QED BY <1>4, <2>1, RoomNumbersKept DEF RoomInv
<1>7. RoomSeats(s)'
  <2>1. current # 0 => /\ current \in Room(s)!Rooms /\ members[current] # {}
                       /\ queued'[current] => push'[current] \in {"load", "view"}
    BY <1>0, <1>4 DEF RoomSeats, RoomStandsOK
  <2>2. QED BY <1>0, <1>4, <2>1 DEF RoomSeats, Room!MemberFollows
<1>8. Room(s)!EmptyIsWatched'
  BY <1>0, <1>4 DEF RoomInv, Room!EmptyIsWatched
<1>9. RoomBoards(s)'
  <2>0. RoomBoards(s) /\ (current # 0 => current \in Room(s)!Rooms)
    BY <1>0 DEF RoomInv, RoomStandsOK
  <2>1. ASSUME current # 0, NEW c \in members[current], link[c] = "open" PROVE RoomDue(s, c)'
    <3>1. RoomDue(s, c) /\ c \in s.sockets /\ current \in Room(s)!Rooms
      BY <1>0, <2>0, <2>1 DEF RoomBoards, RoomStandsOK
    <3>2. CASE signals > 0
      BY <1>0, <3>2 DEF RoomDue
    <3>3. CASE push[current] = "load"
      BY <1>0, <1>4, <3>1, <3>3 DEF RoomDue
    <3>4. CASE queued[current]
      BY <1>0, <1>4, <2>1, <3>1, <3>4 DEF RoomDue
    <3>5. CASE failed[current]
      <4>1. push[current] # "view"
        BY <2>0, <3>1, <3>5 DEF RoomBoards
      <4>2. failed'[current]
        BY <1>4, <3>1, <3>5, <4>1
      <4>3. QED BY <1>0, <4>2 DEF RoomDue
    <3>6. CASE c \in w.to /\ (w.room # current \/ w.from = version)
      <4>1. shown'[c] = v /\ stray'[c] = (w.room # current /\ v < version)
        BY <1>2, <2>1, <3>1, <3>6
      <4>2. v = version \/ v < version
        BY <1>0, <1>3
      <4>3. v < version => w.room # current
        BY <1>0, <1>3, <3>6
      <4>4. shown'[c] = version \/ stray'[c]
        BY <4>1, <4>2, <4>3, Zenon
      <4>5. QED BY <1>0, <4>4 DEF RoomDue
    <3>7. CASE c \in w.to /\ w.room = current /\ w.from # version
      <4>1. signals # 0 \/ queued[current]
        BY <2>0, <2>1, <3>7 DEF RoomBoards
      <4>2. signals \in Nat
        BY DEF RoomInv, RoomShape, RoomGameOK
      <4>3. QED BY <3>2, <3>4, <4>1, <4>2
    <3>8. CASE c \notin w.to
      <4>1. shown'[c] = shown[c] /\ stray'[c] = stray[c]
        BY <1>2, <3>1, <3>8
      <4>2. \A x \in views : c \in x.to => x \in views'
        BY <1>0, <3>8
      <4>3. QED BY <1>0, <3>1, <3>2, <3>3, <3>4, <3>5, <4>1, <4>2 DEF RoomDue
    <3>9. QED BY <3>6, <3>7, <3>8
  <2>2. ASSUME current # 0, signals = 0, ~queued'[current],
               NEW x \in views', x.room = current
        PROVE  x.from = version
    <3>1. ~queued[current] /\ x \in views
      BY <1>0, <1>4, <2>0, <2>2
    <3>2. QED BY <2>0, <2>2, <3>1 DEF RoomBoards
  <2>3. ASSUME NEW q \in Room(s)!Rooms, failed'[q] PROVE push'[q] \notin {"load", "view"}
    <3>1. failed[q] => push[q] \notin {"load", "view"}
      BY <2>0 DEF RoomBoards
    <3>2. QED BY <1>4, <2>3, <3>1
  <2>4. QED BY <1>0, <2>1, <2>2, <2>3 DEF RoomBoards
<1>10. QED BY <1>5, <1>6, <1>7, <1>8, <1>9 DEF RoomInv

\* A view fails: the push gives up on the others.
LEMMA RoomViewFailsSound ==
  ASSUME NEW s, RoomAssumed(s), RoomInv(s), NEW w \in views, Room(s)!ViewFails(w)
  PROVE  RoomInv(s)'
<1>0. /\ UNCHANGED <<status, version, signals, topic, openings, follows, current, members, link,
                     shown, stray, away, task, lost>>
      /\ w.room # 0 /\ faults' = faults + 1 /\ faults \in Nat
      /\ views' = {IF x.room = w.room THEN [x EXCEPT !.room = 0] ELSE x : x \in views \ {w}}
      /\ Room(s)!PushOver(w.room, TRUE)
      /\ RoomPushOK(s) /\ RoomSeats(s) /\ RoomStandsOK(s)
  BY DEF Room!ViewFails, Room!MayFail, Room!game, Room!link_vars, Room!room_vars, Room!timer_vars,
         Room!seen_vars, RoomInv, RoomShape, RoomTimerOK
<1>1. \A x \in views : /\ x \in RoomViews(s) /\ x.to # {} /\ x.from <= version
                       /\ x.room # 0 => x.room \in Room(s)!Rooms /\ push[x.room] = "view"
  BY DEF RoomInv, RoomShape, RoomViewsOK, RoomViews
<1>2. /\ RoomPushOK(s)' /\ Room(s)!Opened' = Room(s)!Opened
      /\ \A q \in Room(s)!Rooms : q # w.room => push'[q] = push[q] /\ queued'[q] = queued[q]
      /\ queued[w.room] /\ members[w.room] # {} =>
           push'[w.room] = "load" /\ queued'[w.room] = FALSE
      /\ ~(queued[w.room] /\ members[w.room] # {}) =>
           push'[w.room] = "idle" /\ queued'[w.room] = queued[w.room]
      /\ \A q \in Room(s)!Rooms : q # w.room => failed'[q] = failed[q]
      /\ failed'[w.room] = (TRUE /\ ~(queued[w.room] /\ members[w.room] # {}))
  BY <1>0, <1>1, RoomPushOver
<1>3. \A x \in views' : /\ x \in RoomViews(s) /\ x.to # {} /\ x.from <= version
                        /\ x.room # 0 => push'[x.room] = "view"
  <2> SUFFICES ASSUME NEW x \in views'
               PROVE  /\ x \in RoomViews(s) /\ x.to # {} /\ x.from <= version
                      /\ x.room # 0 => push'[x.room] = "view"
    OBVIOUS
  <2>1. PICK y \in views : x = IF y.room = w.room THEN [y EXCEPT !.room = 0] ELSE y
    BY <1>0
  <2>2. CASE y.room = w.room
    <3>1. x \in RoomViews(s) /\ x.to = y.to /\ x.from = y.from /\ x.room = 0
      BY <1>1, <2>1, <2>2 DEF RoomViews
    <3>2. QED BY <1>1, <3>1
  <2>3. CASE y.room # w.room
    BY <1>1, <1>2, <2>1, <2>3
  <2>4. QED BY <2>2, <2>3
<1>4. RoomShape(s)'
  <2>1. RoomViewsOK(s)'
    BY <1>0, <1>3 DEF RoomInv, RoomShape, RoomViewsOK, RoomViews
  <2>2. RoomTimerOK'
    BY <1>0 DEF RoomInv, RoomShape, RoomTimerOK
  <2>3. QED BY <1>0, <1>2, <2>1, <2>2 DEF RoomInv, RoomShape, RoomGameOK, RoomLinksOK, RoomStandsOK
<1>5. RoomNumbers(s)'
  <2>1. RoomJoined(s) \subseteq RoomJoined(s)'
    BY <1>0 DEF RoomJoined
  <2>2. QED BY <1>2, <2>1, RoomNumbersKept DEF RoomInv
<1>6. RoomSeats(s)'
  BY <1>0, <1>1, <1>2, RoomSeatsPushed
<1>7. Room(s)!EmptyIsWatched'
  BY <1>0, <1>2 DEF RoomInv, Room!EmptyIsWatched
<1>8. RoomBoards(s)'
  <2>0. RoomBoards(s) /\ (current # 0 => current \in Room(s)!Rooms) /\ w.room \in Room(s)!Rooms
    BY <1>0, <1>1 DEF RoomInv, RoomStandsOK
  <2>1. /\ \A x \in views : x.room # w.room => x \in views'
        /\ \A x \in views' : x.room # 0 => x \in views /\ x.room # w.room
    <3>1. ASSUME NEW x \in views, x.room # w.room PROVE x \in views'
      BY <1>0, <3>1
    <3>2. ASSUME NEW x \in views', x.room # 0 PROVE x \in views /\ x.room # w.room
      <4>1. PICK y \in views : x = IF y.room = w.room THEN [y EXCEPT !.room = 0] ELSE y
        BY <1>0
      <4>2. CASE y.room = w.room
        <5>1. x = [y EXCEPT !.room = 0] /\ y \in RoomViews(s)
          BY <1>1, <4>1, <4>2
        <5>2. x.room = 0
          BY <5>1 DEF RoomViews
        <5>3. QED BY <3>2, <5>2
      <4>3. CASE y.room # w.room
        BY <4>1, <4>3
      <4>4. QED BY <4>2, <4>3
    <3>3. QED BY <3>1, <3>2
  <2>2. ASSUME current # 0, NEW c \in members[current], link[c] = "open"
        PROVE  RoomDue(s, c)'
    <3>1. CASE current = w.room
      BY <1>0, <1>2, <2>2, <3>1 DEF RoomDue
    <3>2. CASE current # w.room
      <4>1. RoomDue(s, c)
        BY <2>0, <2>2 DEF RoomBoards
      <4>2. push'[current] = push[current] /\ queued'[current] = queued[current]
            /\ failed'[current] = failed[current]
        BY <1>2, <2>0, <2>2, <3>2
      <4>3. QED BY <1>0, <2>1, <3>2, <4>1, <4>2 DEF RoomDue
    <3>3. QED BY <3>1, <3>2
  <2>3. ASSUME current # 0, signals = 0, ~queued'[current],
               NEW x \in views', x.room = current
        PROVE  x.from = version
    <3>1. x \in views /\ current # w.room
      BY <2>1, <2>3
    <3>2. ~queued[current]
      BY <1>2, <2>0, <2>3, <3>1
    <3>3. QED BY <2>0, <2>3, <3>1, <3>2 DEF RoomBoards
  <2>4. ASSUME NEW q \in Room(s)!Rooms, failed'[q] PROVE push'[q] \notin {"load", "view"}
    <3>1. failed[q] => push[q] \notin {"load", "view"}
      BY <2>0 DEF RoomBoards
    <3>2. QED BY <1>2, <2>4, <3>1
  <2>5. QED BY <1>0, <2>2, <2>3, <2>4 DEF RoomBoards
<1>9. QED BY <1>4, <1>5, <1>6, <1>7, <1>8 DEF RoomInv

\* A step of the room, whichever it is, and a step elsewhere.
LEMMA RoomStep ==
  ASSUME NEW s, RoomAssumed(s), RoomInv(s), s.owner \in [s.sockets -> s.accounts],
         s.players \subseteq s.accounts, Room(s)!Next
  PROVE  RoomInv(s)'
<1>1. ASSUME NEW c \in s.sockets,
             Room(s)!Follow(c) \/ Room(s)!Leave(c) \/ Room(s)!Drop(c) \/ Room(s)!Closed(c)
      PROVE  RoomInv(s)'
  BY <1>1, RoomSocketSound
<1>2. ASSUME NEW o \in openings, Room(s)!Join(o) \/ Room(s)!Refuse(o) PROVE RoomInv(s)'
  BY <1>2, RoomJoinSound, RoomRefuseSound
<1>3. ASSUME NEW r \in Room(s)!Rooms, Room(s)!Load(r) \/ Room(s)!LoadFails(r) PROVE RoomInv(s)'
  BY <1>3, RoomLoadSound, RoomLoadFailsSound
<1>4. ASSUME NEW w \in views, Room(s)!Send(w) \/ Room(s)!ViewFails(w) PROVE RoomInv(s)'
  BY <1>4, RoomSendSound, RoomViewFailsSound
<1>5. CASE Room(s)!Deliver
  BY <1>5, RoomDeliverSound
<1>6. CASE \/ Room(s)!Change \/ Room(s)!End \/ Room(s)!Fire
           \/ Room(s)!Check \/ Room(s)!Abandon \/ Room(s)!TaskFails
  BY <1>6, RoomGameSound
<1>7. QED BY <1>1, <1>2, <1>3, <1>4, <1>5, <1>6 DEF Room!Next

\* A step elsewhere leaves the room as it is.
LEMMA RoomElsewhere ==
  ASSUME NEW s, RoomAssumed(s), RoomInv(s), UNCHANGED table_vars PROVE RoomInv(s)'
<1> USE DEF table_vars
<1>1. RoomGameOK(s)' /\ RoomTimerOK' /\ Room(s)!EmptyIsWatched'
  BY DEF RoomInv, RoomShape, RoomGameOK, RoomTimerOK, Room!EmptyIsWatched, Room!Opened
<1>2. link \in [s.sockets -> {"open", "closing", "closed"}] /\ signals \in Nat
  BY DEF RoomInv, RoomShape, RoomLinksOK, RoomGameOK
<1>3. /\ UNCHANGED <<topic, openings, follows, current, members, push, queued, failed, views,
                     shown, stray>>
      /\ link' = link /\ version' = version /\ signals' = signals
  OBVIOUS
<1>4. QED BY <1>1, <1>2, <1>3, RoomRests

\* What the parts of the invariant make of the properties.
LEMMA RoomMeans ==
  ASSUME NEW s, RoomAssumed(s), RoomInv(s)
  PROVE  Room(s)!RoomSound
<1>1. Room(s)!TypeOK
  <2>1. /\ status \in {"RUNNING", "DONE", "ABANDONED"} /\ version \in 0 .. s.versions
        /\ signals \in 0 .. (s.versions + 1) /\ version \in Nat
    BY DEF RoomInv, RoomShape, RoomGameOK, RoomAssumed
  <2>2. /\ \A w \in views : w.to # {} /\ w.from \in 0 .. version
                            /\ (w.room # 0 => push[w.room] = "view")
        /\ shown \in [s.sockets -> 0 .. version] /\ stray \in [s.sockets -> BOOLEAN]
    BY <2>1 DEF RoomInv, RoomShape, RoomViewsOK, RoomViews
  <2>3. /\ link \in [s.sockets -> {"open", "closing", "closed"}]
        /\ topic \in [s.sockets ->
                        [n : 0 .. s.follows, on : BOOLEAN, room : {0} \union Room(s)!Rooms]]
        /\ openings \subseteq [socket : s.sockets, n : 1 .. s.follows]
    BY DEF RoomInv, RoomShape, RoomLinksOK, RoomTopics, RoomOpenings
  <2>4. QED BY <2>1, <2>2, <2>3 DEF Room!TypeOK, RoomInv, RoomShape, RoomStandsOK, RoomPushOK,
                                    RoomTimerOK
<1>2. Room(s)!NewestShown
  <2> SUFFICES ASSUME current # 0, push[current] = "idle", signals = 0, ~failed[current],
                      NEW c \in members[current], link[c] = "open"
               PROVE  shown[c] = version \/ stray[c]
    BY DEF Room!NewestShown
  <2>1. RoomDue(s, c) /\ (queued[current] => push[current] \in {"load", "view"})
    BY DEF RoomInv, RoomBoards, RoomSeats
  <2>2. \A w \in views : w.room # current
    BY DEF RoomInv, RoomShape, RoomViewsOK
  <2>3. QED BY <2>1, <2>2 DEF RoomDue
<1>3. QED BY <1>1, <1>2 DEF RoomInv, RoomSeats, Room!RoomSound

\* The room in hand, by the kind of the topic: its scope is fixed for good.
RoomHeld == IF kind = "again" THEN RoomInv(AgainScope) ELSE RoomInv(TableScope)

LEMMA RoomScopes ==
  /\ RoomAssumed(TableScope) /\ RoomAssumed(AgainScope)
  /\ TableScope.owner \in [TableScope.sockets -> TableScope.accounts]
  /\ AgainScope.owner \in [AgainScope.sockets -> AgainScope.accounts]
  /\ TableScope.players \subseteq TableScope.accounts
  /\ AgainScope.players \subseteq AgainScope.accounts
<1>1. \A s, S : Room(s)!IsFiniteSet(S) <=> IsFiniteSet(S)
  BY DEF Room!IsFiniteSet, IsFiniteSet
<1>2. QED BY <1>1, RoomsAssumption DEF Room!RoomAssumption, RoomAssumed

\* RoomSound: whatever a socket follows, leaves or loses while the game is read, and whatever query
\* fails, joinPlayRoom of PlayRoomService.ts seats it in the room in use alone, an empty room has
\* its away timer, and pushBoards, with one push in flight and one queued behind it, leaves
\* nobody an older board once a push went through: what a failed push leaves behind the next
\* signal makes up for, a board of a push that gave up or of a closed room may come after it.
THEOREM Pushed == RoomsSpec => []RoomSound
<1>1. RoomsInit => RoomHeld
  BY RoomScopes, RoomInitial DEF RoomsInit, RoomHeld
<1>2. RoomHeld /\ [RoomsNext]_all_vars => RoomHeld'
  <2> SUFFICES ASSUME RoomHeld, [RoomsNext]_all_vars PROVE RoomHeld'
    OBVIOUS
  <2>1. kind' = kind
    BY DEF RoomsNext, OnTable, OnAgain, OnPage, OnReaders, all_vars
  <2>2. CASE OnTable /\ Room(TableScope)!Next
    BY <2>1, <2>2, RoomScopes, RoomStep DEF OnTable, RoomHeld
  <2>3. CASE OnAgain /\ Room(AgainScope)!Next
    BY <2>1, <2>3, RoomScopes, RoomStep DEF OnAgain, RoomHeld
  <2>4. CASE UNCHANGED table_vars
    BY <2>1, <2>4, RoomScopes, RoomElsewhere DEF RoomHeld
  <2>5. QED BY <2>2, <2>3, <2>4 DEF RoomsNext, OnPage, OnReaders, all_vars
<1>3. RoomHeld => RoomSound
  BY RoomScopes, RoomMeans DEF RoomHeld, RoomSound
<1>4. QED BY <1>1, <1>2, <1>3, PTL DEF RoomsSpec
=============================================================================
