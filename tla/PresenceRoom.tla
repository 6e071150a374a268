---------------------------- MODULE PresenceRoom ----------------------------
(* Who stands in one topic (a game's room, a page): the sockets seated in it,
   the members just gone, and the broadcast that a burst of changes shares.
   Any socket may take its seat or leave it at any moment, as PlayRoom and the
   pages make them do.  A room with no seat and nobody just gone is the same as
   no room. *)
EXTENDS Naturals, FiniteSets

CONSTANTS Sockets, Accounts,
          Owner,        \* account of a socket
          MaxMoves      \* bound: joins, leaves and reports

ASSUME PresenceAssumption == Owner \in [Sockets -> Accounts] /\ MaxMoves \in Nat

VARIABLES seats,     \* sockets seated
          idle,      \* those that reported no activity
          departed,  \* accounts gone and still shown
          flush,     \* a broadcast is due
          heard,     \* socket -> the last broadcast it was sent
          moves

vars == <<seats, idle, departed, flush, heard, moves>>

(* One member per account, tabs merged: any active tab wins, gone only when no
   tab remains. *)
MembersOf(ss, away, gone) ==
    [a \in Accounts |-> IF \E c \in ss \ away : Owner[c] = a THEN "active"
                        ELSE IF \E c \in ss : Owner[c] = a THEN "idle"
                        ELSE IF a \in gone THEN "left" ELSE "none"]

Members == MembersOf(seats, idle, departed)
Nobody == [a \in Accounts |-> "none"]

Init ==
    /\ seats = {} /\ idle = {} /\ departed = {} /\ flush = FALSE
    /\ heard = [c \in Sockets |-> Nobody] /\ moves = 0

Bound == moves < MaxMoves /\ moves' = moves + 1

(* joinPresence *)
Join(c) ==
    /\ Bound
    /\ seats' = seats \union {c} /\ idle' = idle \ {c}
    /\ departed' = departed \ {Owner[c]} /\ flush' = TRUE
    /\ UNCHANGED heard

(* leave: faded once the last tab goes. *)
UnseatUnsaid(c) ==
    /\ c \in seats
    /\ seats' = seats \ {c} /\ idle' = idle \ {c}
    /\ UNCHANGED <<departed, flush, heard>>
Unseat(c) ==
    /\ c \in seats
    /\ seats' = seats \ {c} /\ idle' = idle \ {c} /\ flush' = TRUE
    /\ departed' = IF \E d \in seats' : Owner[d] = Owner[c] THEN departed
                   ELSE departed \union {Owner[c]}
    /\ UNCHANGED heard

Leave(c) == Bound /\ Unseat(c)
SweepSeat(c) == Bound /\ Unseat(c)   \* silent for too long

(* presenceSet: the seat is the authorisation. *)
Report(c) ==
    /\ Bound /\ c \in seats
    /\ idle' = IF c \in idle THEN idle \ {c} ELSE idle \union {c}
    /\ flush' = TRUE
    /\ UNCHANGED <<seats, departed, heard>>

(* sweep: a departure is shown for a while. *)
SweepGone(a) ==
    /\ a \in departed /\ departed' = departed \ {a} /\ flush' = TRUE
    /\ UNCHANGED <<seats, idle, heard, moves>>

Broadcast ==
    /\ flush /\ flush' = FALSE
    /\ heard' = [c \in Sockets |-> IF c \in seats THEN Members ELSE heard[c]]
    /\ UNCHANGED <<seats, idle, departed, moves>>

Next ==
    \/ \E c \in Sockets : Join(c) \/ Leave(c) \/ SweepSeat(c) \/ Report(c)
    \/ \E a \in Accounts : SweepGone(a)
    \/ Broadcast

(* Both timers go off again and again. *)
Fairness == WF_vars(Broadcast) /\ \A a \in Accounts : WF_vars(SweepGone(a))
Spec == Init /\ [][Next]_vars /\ Fairness

-----------------------------------------------------------------------------
TypeOK ==
    /\ idle \subseteq seats /\ seats \subseteq Sockets /\ departed \subseteq Accounts
    /\ flush \in BOOLEAN /\ heard \in [Sockets -> [Accounts -> {"active", "idle", "left", "none"}]]

(* With no broadcast due, every seat was sent the room as it is: each join,
   leave, report and sweep schedules one. *)
PresenceShown == ~flush => \A c \in seats : heard[c] = Members

(* Nobody is among the departed while one of their tabs is seated. *)
GoneHasNoTab == \A c \in seats : Owner[c] \notin departed

(* Whoever left is in the end off every list, or back in the room: a reader who
   stays seated does not see them leave for ever. *)
SeesLeaving(c, a) == c \in seats /\ heard[c][a] = "left"
GoneFades == \A a \in Accounts, c \in Sockets : []<>~SeesLeaving(c, a)

\* The lists shown in a topic: everybody seated, nobody called gone who has a tab there.
ListsSound ==
    /\ TypeOK
    /\ PresenceShown
    /\ GoneHasNoTab
=============================================================================
