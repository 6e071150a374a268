-------------------------------- MODULE Rooms --------------------------------
(* The rooms of the hub side by side: a topic has one kind for good, so a behaviour
   is the life of one room: the table of a game read by several accounts, the same
   read again and again, a page, or the presence of a page.  The other rooms are at
   rest.  A component keeps its own constants: a room of a game takes them from its
   scope, so that two scopes of it share one module and its proofs. *)
EXTENDS PresenceRoom

CONSTANTS TableScope, AgainScope,   \* constants of PlayRoom: followed once, or again and again
          PageSockets, PageMoves, PageFollows, PageFaults   \* constants of PageSeat

VARIABLES
    kind,
    status, version, signals, link, topic, openings, follows, current, members,
    push, queued, failed, views, shown, stray, away, task, lost, faults,
    level, page_topic, at, found, forwarded, present, doc, listening, checks,
    page_follows, share_moves, page_faults, crossed, missed

Room(s) == INSTANCE PlayRoom WITH
    Sockets <- s.sockets, Accounts <- s.accounts, Players <- s.players, Owner <- s.owner,
    MaxVersion <- s.versions, MaxFollow <- s.follows, MaxFaults <- s.faults
Page == INSTANCE PageSeat WITH
    Sockets <- PageSockets, MaxMoves <- PageMoves, MaxFollow <- PageFollows, MaxFaults <- PageFaults,
    topic <- page_topic, follows <- page_follows, moves <- share_moves, faults <- page_faults

ASSUME RoomsAssumption ==
    /\ Room(TableScope)!RoomAssumption /\ Room(AgainScope)!RoomAssumption
    /\ Page!PageSeatAssumption

table_vars == <<status, version, signals, link, topic, openings, follows, current, members,
                push, queued, failed, views, shown, stray, away, task, lost, faults>>
page_vars == <<level, page_topic, at, found, forwarded, present, doc, listening, checks,
               page_follows, share_moves, page_faults, crossed, missed>>
all_vars == <<kind, table_vars, page_vars, vars>>
OnTable == kind = "table" /\ UNCHANGED <<kind, page_vars, vars>>
OnAgain == kind = "again" /\ UNCHANGED <<kind, page_vars, vars>>
OnPage == kind = "page" /\ UNCHANGED <<kind, table_vars, vars>>
OnReaders == kind = "readers" /\ UNCHANGED <<kind, table_vars, page_vars>>

RoomsInit ==
    /\ kind \in {"table", "again", "page", "readers"}
    /\ IF kind = "again" THEN Room(AgainScope)!Init ELSE Room(TableScope)!Init
    /\ Page!Init /\ Init
    /\ kind # "page" => \A c \in PageSockets : level[c] = "read"
RoomsNext == \/ OnTable /\ Room(TableScope)!Next
             \/ OnAgain /\ Room(AgainScope)!Next
             \/ OnPage /\ Page!Next
             \/ OnReaders /\ Next
RoomsSpec == RoomsInit /\ [][RoomsNext]_all_vars

(* What PlayRoom and PageSeat state (PresenceRoom: ListsSound).  A tab that follows again before
   its first opening is over may lose its seat (FollowedIsMember), and then its boards. *)
RoomSound == IF kind = "again" THEN Room(AgainScope)!RoomSound ELSE Room(TableScope)!RoomSound
SeatSound == Page!SeatSound
=============================================================================
