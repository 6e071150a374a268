----------------------------- MODULE SharedDoc ------------------------------
(***************************************************************************)
(* A page edited by several sockets: the room that holds the document in   *)
(* memory while someone reads it, the debounced writes to the database,    *)
(* the load that opens a room and the wait that frees it.                  *)
(*                                                                         *)
(* The process runs one callback at a time up to its next await, and then  *)
(* every continuation whose promise is settled: each action is such a run. *)
(* The writes of a room form a chain of promises; who waits for the chain  *)
(* waits for the writes asked so far, not for those asked later.  A room   *)
(* freed while its chain still runs is forgotten by the map of rooms but   *)
(* goes on writing, hence a sequence of rooms and the index of the open    *)
(* one.  A write replaces the whole stored state.                          *)
(*                                                                         *)
(* A document is the set of the edits it holds.  Rights, carets and the    *)
(* moves of the page's shares are left out.                                *)
(***************************************************************************)
EXTENDS Naturals, Sequences, FiniteSets

CONSTANTS
    Conns,      \* sockets
    MaxEdits,   \* bound: edits
    MaxRooms,   \* bound: rooms opened
    MaxFaults   \* bound: loads and writes that fail

ASSUME BoundsAssumption ==
    MaxEdits \in Nat /\ MaxRooms \in Nat /\ MaxFaults \in Nat

VARIABLES
    stored,     \* edits in the database
    rooms,      \* rooms opened so far, oldest first
    open,       \* index of the room in the map, 0 for none
    load,       \* load under way: none, asked, read
    loaded,     \* edits it read
    cur,        \* what each socket does of the topic it follows
    old,        \* an opening each socket gave up, still under way
    editing,    \* a server edit waits for the load
    \* History and bounds
    refollowed, \* sockets that followed again before giving up was over
    early,      \* a room was freed with a write still to come
    failed,     \* a write failed or was refused
    edits, faults

noteVars == <<refollowed, early, failed, edits, faults>>
vars     == <<stored, rooms, open, load, loaded, cur, old, editing, noteVars>>

-----------------------------------------------------------------------------
Edits == 1 .. MaxEdits

Room ==
    [doc : SUBSET Edits, seats : SUBSET Conns, dirty : BOOLEAN, timer : BOOLEAN,
     asked : Nat, done : Nat, writing : BOOLEAN, carry : SUBSET Edits, waits : SUBSET Nat]

TypeOK ==
    /\ stored \subseteq Edits
    /\ rooms \in Seq(Room)
    /\ open \in 0 .. Len(rooms)
    /\ load \in {"none", "asked", "read"}
    /\ loaded \subseteq Edits
    /\ cur \in [Conns -> {"off", "checking", "waiting", "on"}]
    /\ old \in [Conns -> {"off", "checking", "waiting"}]
    /\ editing \in BOOLEAN
    /\ refollowed \subseteq Conns
    /\ early \in BOOLEAN
    /\ failed \in BOOLEAN
    /\ edits \in 0 .. MaxEdits
    /\ faults \in 0 .. MaxFaults

Init ==
    /\ stored = {}
    /\ rooms = <<>>
    /\ open = 0
    /\ load = "none"
    /\ loaded = {}
    /\ cur = [c \in Conns |-> "off"]
    /\ old = [c \in Conns |-> "off"]
    /\ editing = FALSE
    /\ refollowed = {}
    /\ early = FALSE
    /\ failed = FALSE
    /\ edits = 0
    /\ faults = 0

-----------------------------------------------------------------------------
(* What a run does to a room.                                              *)

\* Mutant of Persist: a write under way is taken for the write asked.
PersistOnce(r) ==
    IF r.asked > r.done
      THEN [r EXCEPT !.dirty = FALSE, !.timer = FALSE]
      ELSE [r EXCEPT !.dirty = FALSE, !.timer = FALSE, !.asked = IF r.dirty THEN @ + 1 ELSE @]

\* A document with something to write has one more write in its chain.
Persist(r) ==
    [r EXCEPT !.dirty = FALSE, !.timer = FALSE, !.asked = IF r.dirty THEN @ + 1 ELSE @]

\* Mutant of Schedule: no timer while a write is under way.
ScheduleIdle(r, e) ==
    [r EXCEPT !.doc = @ \union {e}, !.dirty = TRUE, !.timer = (r.asked = r.done)]

\* An edit applied, its write debounced.
Schedule(r, e) == [r EXCEPT !.doc = @ \union {e}, !.dirty = TRUE, !.timer = TRUE]

\* The caller goes on once the writes asked so far are over.
Await(r) == [r EXCEPT !.waits = @ \union {r.asked}]

\* A server edit: written at once, and the room freed if nobody reads it.
EditDoc(r, e) == Await(Persist(Schedule(r, e)))

\* Mutant of LeaveDoc: the last one out frees the room and writes nothing.
LeaveDocUnwritten(r, leavers) ==
    LET left == [r EXCEPT !.seats = @ \ leavers]
    IN  IF leavers = {} \/ left.seats # {} THEN left ELSE Await(left)

\* The last one out has the document written, then the room freed.
LeaveDoc(r, leavers) ==
    LET left == [r EXCEPT !.seats = @ \ leavers]
    IN  IF leavers = {} \/ left.seats # {} THEN left ELSE Await(Persist(left))

\* Mutant of IsFreed: whether somebody sat down meanwhile is not looked at.
IsFreedBlindly(r) == \E n \in r.waits : n <= r.done

\* A caller goes on and finds nobody seated.
IsFreed(r) == r.seats = {} /\ \E n \in r.waits : n <= r.done

Resume(r) == [r EXCEPT !.waits = {n \in r.waits : n > r.done}]

\* The room g becomes r; the callers whose writes are over go on at once.
Put(g, r) ==
    LET frees == open = g /\ IsFreed(r)
    IN  /\ rooms' = [rooms EXCEPT ![g] = Resume(r)]
        /\ open' = IF frees THEN 0 ELSE open
        /\ early' = (early \/ (frees /\ r.asked > r.done))

-----------------------------------------------------------------------------
(* Sockets.                                                                *)

\* Follow: the access to the page is read first.
Follow(c) ==
    /\ cur[c] = "off"
    /\ cur' = [cur EXCEPT ![c] = "checking"]
    /\ refollowed' = IF old[c] = "off" THEN refollowed ELSE refollowed \union {c}
    /\ UNCHANGED <<stored, rooms, open, load, loaded, old, editing, early, failed, edits, faults>>

\* Unfollow, or a socket that closes, while opening: the opening goes on and
\* stops what it opened.  One at a time for each socket.
GiveUp(c) ==
    /\ cur[c] \in {"checking", "waiting"}
    /\ old[c] = "off"
    /\ old' = [old EXCEPT ![c] = cur[c]]
    /\ cur' = [cur EXCEPT ![c] = "off"]
    /\ UNCHANGED <<stored, rooms, open, load, loaded, editing, noteVars>>

\* Mutant of Unfollow: the topic is kept under a name nothing looks for.
UnfollowKeeps(c) ==
    /\ cur[c] = "on"
    /\ cur' = [cur EXCEPT ![c] = "stopped"]
    /\ UNCHANGED <<stored, rooms, open, load, loaded, old, editing, noteVars>>

\* Unfollow once opened: its seat goes, if it still has one.
Unfollow(c) ==
    /\ cur[c] = "on"
    /\ cur' = [cur EXCEPT ![c] = "off"]
    /\ IF open > 0 /\ c \in rooms[open].seats
         THEN Put(open, LeaveDoc(rooms[open], {c}))
         ELSE UNCHANGED <<rooms, open, early>>
    /\ UNCHANGED <<stored, load, loaded, old, editing, refollowed, failed, edits, faults>>

\* Access granted: seated if the room is there, else waiting for its load.
Granted(c) ==
    /\ cur[c] = "checking"
    /\ IF open > 0
         THEN /\ cur' = [cur EXCEPT ![c] = "on"]
              /\ Put(open, [rooms[open] EXCEPT !.seats = @ \union {c}])
              /\ load' = load
         ELSE /\ cur' = [cur EXCEPT ![c] = "waiting"]
              /\ load' = IF load = "none" THEN "asked" ELSE load
              /\ UNCHANGED <<rooms, open, early>>
    /\ UNCHANGED <<stored, loaded, old, editing, refollowed, failed, edits, faults>>

\* Mutant of GrantedLate: what was opened for nobody is not stopped.
GrantedLateSeated(c) ==
    /\ old[c] = "checking"
    /\ IF open > 0
         THEN /\ old' = [old EXCEPT ![c] = "off"]
              /\ Put(open, [rooms[open] EXCEPT !.seats = @ \union {c}])
              /\ load' = load
         ELSE /\ old' = [old EXCEPT ![c] = "waiting"]
              /\ load' = IF load = "none" THEN "asked" ELSE load
              /\ UNCHANGED <<rooms, open, early>>
    /\ UNCHANGED <<stored, loaded, cur, editing, refollowed, failed, edits, faults>>

\* The same for an opening given up: it takes the seat of its socket, finds the
\* topic is not its own any more, and leaves.
GrantedLate(c) ==
    /\ old[c] = "checking"
    /\ IF open > 0
         THEN /\ old' = [old EXCEPT ![c] = "off"]
              /\ Put(open, LeaveDoc(rooms[open], {c}))
              /\ load' = load
         ELSE /\ old' = [old EXCEPT ![c] = "waiting"]
              /\ load' = IF load = "none" THEN "asked" ELSE load
              /\ UNCHANGED <<rooms, open, early>>
    /\ UNCHANGED <<stored, loaded, cur, editing, refollowed, failed, edits, faults>>

\* Access refused, for the opening under way or the one given up.
Refused(c) ==
    /\ \/ cur[c] = "checking" /\ cur' = [cur EXCEPT ![c] = "off"] /\ old' = old
       \/ old[c] = "checking" /\ old' = [old EXCEPT ![c] = "off"] /\ cur' = cur
    /\ UNCHANGED <<stored, rooms, open, load, loaded, editing, noteVars>>

\* A change from a seated socket.
DocUpdate(c) ==
    /\ open > 0
    /\ c \in rooms[open].seats
    /\ edits < MaxEdits
    /\ edits' = edits + 1
    /\ Put(open, Schedule(rooms[open], edits + 1))
    /\ UNCHANGED <<stored, load, loaded, cur, old, editing, refollowed, failed, faults>>

\* A change from the server: a version of the page brought back.
ServerEdit ==
    /\ edits < MaxEdits
    /\ ~editing
    /\ IF open > 0
         THEN /\ edits' = edits + 1
              /\ Put(open, EditDoc(rooms[open], edits + 1))
              /\ UNCHANGED <<load, editing>>
         ELSE /\ editing' = TRUE
              /\ load' = IF load = "none" THEN "asked" ELSE load
              /\ UNCHANGED <<rooms, open, early, edits>>
    /\ UNCHANGED <<stored, loaded, cur, old, refollowed, failed, faults>>

-----------------------------------------------------------------------------
(* The load.                                                               *)

LoadRead ==
    /\ load = "asked"
    /\ load' = "read"
    /\ loaded' = stored
    /\ UNCHANGED <<stored, rooms, open, cur, old, editing, noteVars>>

\* Everyone who waits is seated, the server edit applied, and then the openings
\* given up leave, their socket's seat with them.
LoadDone ==
    /\ load = "read"
    /\ Len(rooms) < MaxRooms
    /\ editing => edits < MaxEdits
    /\ LET waiting == {c \in Conns : cur[c] = "waiting"}
           leavers == {c \in Conns : old[c] = "waiting"}
           fresh   == [doc |-> loaded, seats |-> waiting \union leavers,
                       dirty |-> FALSE, timer |-> FALSE, asked |-> 0, done |-> 0,
                       writing |-> FALSE, carry |-> {}, waits |-> {}]
           edited  == IF editing THEN EditDoc(fresh, edits + 1) ELSE fresh
           room    == LeaveDoc(edited, leavers)
       IN  /\ rooms' = Append(rooms, Resume(room))
           /\ open' = IF IsFreed(room) THEN 0 ELSE Len(rooms) + 1
           /\ cur' = [c \in Conns |-> IF c \in waiting THEN "on" ELSE cur[c]]
           /\ old' = [c \in Conns |-> IF c \in leavers THEN "off" ELSE old[c]]
           /\ edits' = IF editing THEN edits + 1 ELSE edits
    /\ editing' = FALSE
    /\ load' = "none"
    /\ loaded' = {}
    /\ UNCHANGED <<stored, refollowed, early, failed, faults>>

\* Whoever waits for it fails with it.
LoadFails ==
    /\ load = "asked"
    /\ faults < MaxFaults
    /\ faults' = faults + 1
    /\ load' = "none"
    /\ cur' = [c \in Conns |-> IF cur[c] = "waiting" THEN "off" ELSE cur[c]]
    /\ old' = [c \in Conns |-> IF old[c] = "waiting" THEN "off" ELSE old[c]]
    /\ editing' = FALSE
    /\ UNCHANGED <<stored, rooms, open, loaded, refollowed, early, failed, edits>>

-----------------------------------------------------------------------------
(* The writes, of the open room or of a room freed meanwhile.              *)

TimerFires(g) ==
    /\ rooms[g].timer
    /\ Put(g, Persist(rooms[g]))
    /\ UNCHANGED <<stored, load, loaded, cur, old, editing, refollowed, failed, edits, faults>>

\* The next write of the chain has read what it needs and encodes the document.
Encode(g) ==
    /\ rooms[g].asked > rooms[g].done
    /\ ~rooms[g].writing
    /\ Put(g, [rooms[g] EXCEPT !.writing = TRUE, !.carry = rooms[g].doc])
    /\ UNCHANGED <<stored, load, loaded, cur, old, editing, refollowed, failed, edits, faults>>

Written(r) == [r EXCEPT !.writing = FALSE, !.carry = {}, !.done = @ + 1]

\* The whole state is replaced.
Commit(g) ==
    /\ rooms[g].writing
    /\ stored' = rooms[g].carry
    /\ Put(g, Written(rooms[g]))
    /\ UNCHANGED <<load, loaded, cur, old, editing, refollowed, failed, edits, faults>>

\* A write that fails, or is refused by the check of the document, is over all
\* the same: nothing asks for it again.
SaveFails(g) ==
    /\ rooms[g].asked > rooms[g].done
    /\ faults < MaxFaults
    /\ faults' = faults + 1
    /\ failed' = TRUE
    /\ Put(g, Written(rooms[g]))
    /\ UNCHANGED <<stored, load, loaded, cur, old, editing, refollowed, edits>>

-----------------------------------------------------------------------------
Socket(c) ==
    \/ Follow(c) \/ GiveUp(c) \/ Unfollow(c) \/ Granted(c) \/ GrantedLate(c)
    \/ Refused(c) \/ DocUpdate(c)

Write(g) == TimerFires(g) \/ Encode(g) \/ Commit(g)

Next ==
    \/ \E c \in Conns : Socket(c)
    \/ ServerEdit
    \/ LoadRead \/ LoadDone \/ LoadFails
    \/ \E g \in DOMAIN rooms : Write(g) \/ SaveFails(g)

\* Timers fire, reads and writes end.
Fairness ==
    /\ WF_vars(LoadRead)
    /\ WF_vars(LoadDone)
    /\ \A g \in 1 .. MaxRooms : WF_vars(g \in DOMAIN rooms /\ Write(g))

Spec == Init /\ [][Next]_vars
FairSpec == Spec /\ Fairness

-----------------------------------------------------------------------------
(* Properties.                                                             *)

\* A room nobody reads has asked for the write of everything it holds: it is
\* freed on that understanding (docs.ts leaveDoc, editDoc, unloadIfAlone).
DirtyHasReader ==
    \A g \in DOMAIN rooms : rooms[g].dirty => (open = g /\ rooms[g].seats # {})

\* Nobody sits in a room the map has forgotten, where their edits would be
\* refused (docs.ts seatOf), although a room is freed long after its last
\* reader left and another may have come since.
SeatedInOpenRoom ==
    \A g \in DOMAIN rooms : rooms[g].seats # {} => open = g

\* A socket holds a seat exactly when it follows the page, an opening it gave
\* up or a load it shared notwithstanding; but for a socket that followed again
\* before the opening it gave up was over (dispatch.ts follow, unfollow).
FollowedIsSeated ==
    \A c \in Conns \ refollowed :
        cur[c] = "on" <=> (open > 0 /\ c \in rooms[open].seats)

\* What the writes still to come will store.
Coming(r) ==
    IF r.dirty \/ r.asked - r.done > (IF r.writing THEN 1 ELSE 0) THEN r.doc ELSE r.carry

\* Every edit accepted is stored or about to be, as long as no write fails and
\* no room is freed ahead of its own writes (docs.ts persist, schedule).
EditsKept ==
    (~failed /\ ~early) =>
        1 .. edits \subseteq stored \union UNION {Coming(rooms[g]) : g \in DOMAIN rooms}

\* Every edit accepted is stored in the end, under the same reserves
\* (docs.ts schedule: debounced write, never later than the cap).
EditStored ==
    \A e \in Edits : (e <= edits) ~> (e \in stored \/ failed \/ early)

\* One write at a time (comment of docs.ts persist): no two writes of the page
\* are under way together, of a room and of the room that replaced it.
OneWriteAtATime ==
    Cardinality({g \in DOMAIN rooms : rooms[g].writing}) <= 1
=============================================================================
