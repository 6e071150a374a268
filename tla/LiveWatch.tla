------------------------------ MODULE LiveWatch -----------------------------
(***************************************************************************)
(* One live of a Twitch channel and the instances that may watch it.  Each *)
(* instance passes again and again: it takes or keeps the lease, or drops  *)
(* its watch; reads the live; starts, keeps or drops its watch; polls the  *)
(* stream.  The platform's signals and polls start the live and arm the    *)
(* timer that ends it, while members move it by hand.                      *)
(*                                                                         *)
(* A pass lists the live while it is open, with two exceptions: announced, *)
(* it is listed around its planned start only; and a list is cut at a      *)
(* number of lives.  A member whose session stopped carries the live no    *)
(* more until this instance's watch of it closes.                          *)
(*                                                                         *)
(* The lease is a Redis key with a deadline: its time is left out, it may  *)
(* be lost at any moment.  `faults' bounds what goes wrong: signals and    *)
(* answers lost, sessions given up, a pass that finds no seat or no single *)
(* channel to watch with, a lease lost, Redis away, crashes.  A signal     *)
(* waits less than the minutes of grace.                                   *)
(***************************************************************************)
EXTENDS Naturals, Sequences, FiniteSets

CONSTANTS
    Instances,
    Holders,        \* members of the live with a linked seat
    MaxLists,       \* bound: times the live comes in or out of the list
    MaxFlips,       \* bound: times the stream starts or stops
    MaxHand,        \* bound: moves asked by hand
    MaxFaults       \* bound: faults

FlipsAssumption == MaxFlips \in Nat

VARIABLES
    status,     \* of the live
    stream,     \* whether the channel streams, as the platform knows it
    out,        \* what keeps the live out of the list: its window, the cap
    lease,      \* who holds the watching lease
    watch,      \* the watch of each instance
    refused,    \* members whose session stopped, for each instance
    pass,       \* where the pass of each instance is
    poll,       \* the poll of each instance: none, asked, or its answer
    signals,    \* signals on their way to each instance
    moves,      \* moves under way: who, to what, from which status read
    told,       \* times each status was written, each time with its notices
    left        \* what may still happen

vars == <<status, stream, out, lease, watch, refused, pass, poll, signals, moves, told, left>>

Statuses == {"ANNOUNCED", "LIVE", "ENDED", "CANCELLED"}
Open == {"ANNOUNCED", "LIVE"}
Reasons == {"window", "cap"}
NoWatch == [on |-> FALSE, holder |-> "nobody", status |-> "ENDED", stopped |-> FALSE,
            offline |-> FALSE]
Started(h, s) == [on |-> TRUE, holder |-> h, status |-> s, stopped |-> FALSE, offline |-> FALSE]
Movers == Instances \union {"hand"}

TypeOK ==
    /\ status \in Statuses
    /\ stream \in BOOLEAN
    /\ lease \in Instances \union {"none", "dead"}
    /\ out \subseteq Reasons
    /\ watch \in [Instances -> [on : BOOLEAN, holder : Holders \union {"nobody"},
                               status : Statuses, stopped : BOOLEAN, offline : BOOLEAN]]
    /\ \A i \in Instances : /\ watch[i].offline \/ watch[i].stopped => watch[i].on
                            /\ watch[i].on => watch[i].holder \in Holders
    /\ refused \in [Instances -> SUBSET Holders]
    /\ pass \in [Instances -> {"rest", "leased", "unlisted"} \union Open]
    /\ poll \in [Instances -> {"none", "asked", "online", "offline"}]
    /\ signals \in [Instances -> Seq({"online", "offline"})]
    /\ \A i \in Instances : Len(signals[i]) <= MaxFlips
    /\ moves \subseteq [by : Movers, to : Statuses, saw : Statuses \union {"unread"}]
    /\ told \in [Statuses -> Nat]

Init ==
    /\ status = "ANNOUNCED"
    /\ stream = FALSE
    /\ out = {"window"}
    /\ lease = "none"
    /\ watch = [i \in Instances |-> NoWatch]
    /\ refused = [i \in Instances |-> {}]
    /\ pass = [i \in Instances |-> "rest"]
    /\ poll = [i \in Instances |-> "none"]
    /\ signals = [i \in Instances |-> <<>>]
    /\ moves = {}
    /\ told = [s \in Statuses |-> 0]
    /\ left = [flips |-> MaxFlips, lists |-> MaxLists, hand |-> MaxHand, faults |-> MaxFaults]

Fault == left.faults > 0 /\ left' = [left EXCEPT !.faults = @ - 1]

----------------------------------------------------------------------------
(* Moves of the live: its status is read, then written only from there *)

Allowed == [s \in Statuses |->
    CASE s = "ANNOUNCED" -> {"LIVE", "CANCELLED"}
      [] s = "LIVE" -> {"ENDED"}
      [] OTHER -> {}]

Ask(by, to) == moves' = moves \union {[by |-> by, to |-> to, saw |-> "unread"]}

MoveByHand(to) ==
    /\ left.hand > 0
    /\ left' = [left EXCEPT !.hand = @ - 1]
    /\ Ask("hand", to)
    /\ UNCHANGED <<status, stream, out, lease, watch, refused, pass, poll, signals, told>>

MoveRead(m) ==
    /\ m.saw = "unread"
    /\ moves' = (moves \ {m}) \union
                  (IF m.to \in Allowed[status] THEN {[m EXCEPT !.saw = status]} ELSE {})
    /\ UNCHANGED <<status, stream, out, lease, watch, refused, pass, poll, signals, told, left>>

\* Mutant: written whatever the status became.
FromAnywhere(m) == TRUE
FromThere(m) == status = m.saw

MoveWrite(m) ==
    /\ m.saw # "unread"
    /\ moves' = moves \ {m}
    /\ IF FromThere(m)
         THEN status' = m.to /\ told' = [told EXCEPT ![m.to] = @ + 1]
         ELSE UNCHANGED <<status, told>>
    /\ UNCHANGED <<stream, out, lease, watch, refused, pass, poll, signals, left>>

----------------------------------------------------------------------------
(* The passes of an instance *)

HoldLease(i) ==
    /\ pass[i] = "rest"
    /\ lease \in {"none", i}
    /\ lease' = i
    /\ pass' = [pass EXCEPT ![i] = "leased"]
    /\ UNCHANGED <<status, stream, out, watch, refused, poll, signals, moves, told, left>>

\* Without Redis every instance believes it is the only one.
HoldBlindly(i) ==
    /\ pass[i] = "rest"
    /\ Fault
    /\ pass' = [pass EXCEPT ![i] = "leased"]
    /\ UNCHANGED <<status, stream, out, lease, watch, refused, poll, signals, moves, told>>

Released(i) == [watch[i] EXCEPT !.on = FALSE, !.holder = "nobody", !.stopped = FALSE,
                                !.offline = FALSE]

\* A tick that finds the lease with another, even while an earlier pass is under way.
ReleaseWatches(i) ==
    /\ lease \notin {"none", i}
    /\ watch[i].on
    /\ watch' = [watch EXCEPT ![i] = Released(i)]
    /\ signals' = [signals EXCEPT ![i] = <<>>]
    /\ UNCHANGED <<status, stream, out, lease, refused, pass, poll, moves, told, left>>

\* The planned start nears or passes, newer lives fill the list or leave it.
ListChanges ==
    /\ left.lists > 0
    /\ left' = [left EXCEPT !.lists = @ - 1]
    /\ \E r \in Reasons : out' = IF r \in out THEN out \ {r} ELSE out \union {r}
    /\ UNCHANGED <<status, stream, lease, watch, refused, pass, poll, signals, moves, told>>

Listed ==
    /\ status \in Open
    /\ "cap" \notin out
    /\ status = "ANNOUNCED" => "window" \notin out

ReadLives(i) ==
    /\ pass[i] = "leased"
    /\ pass' = [pass EXCEPT ![i] = IF Listed THEN status ELSE "unlisted"]
    /\ UNCHANGED <<status, stream, out, lease, watch, refused, poll, signals, moves, told, left>>

\* Not listed: the watch there is closes, and who was refused with it.
CloseWatch(i) ==
    /\ pass[i] = "unlisted"
    /\ watch' = [watch EXCEPT ![i] = Released(i)]
    /\ refused' = [refused EXCEPT ![i] = IF watch[i].on THEN {} ELSE @]
    /\ signals' = [signals EXCEPT ![i] = <<>>]
    /\ pass' = [pass EXCEPT ![i] = "rest"]
    /\ UNCHANGED <<status, stream, out, lease, poll, moves, told, left>>

KeepWatch(i) ==
    /\ pass[i] \in Open
    /\ watch[i].on /\ ~watch[i].stopped
    /\ watch' = [watch EXCEPT ![i].status = pass[i]]
    /\ poll' = [poll EXCEPT ![i] = IF @ = "none" THEN "asked" ELSE @]
    /\ pass' = [pass EXCEPT ![i] = "rest"]
    /\ UNCHANGED <<status, stream, out, lease, refused, signals, moves, told, left>>

\* Who is not asked to carry the live: the member whose session stopped joins them.
Refused(i) == IF watch[i].stopped THEN refused[i] \union {watch[i].holder} ELSE refused[i]

\* No watch, or one whose session stopped: another member carries it, if one is left and
\* the pass can read their seat.
StartWatch(i) ==
    /\ pass[i] \in Open
    /\ ~watch[i].on \/ watch[i].stopped
    /\ refused' = [refused EXCEPT ![i] = Refused(i)]
    /\ \/ \E h \in Holders \ Refused(i) :
            watch' = [watch EXCEPT ![i] = Started(h, pass[i])] /\ UNCHANGED left
       \/ Holders = Refused(i) /\ watch' = [watch EXCEPT ![i] = Released(i)] /\ UNCHANGED left
       \/ Holders # Refused(i) /\ watch' = [watch EXCEPT ![i] = Released(i)] /\ Fault
    /\ pass' = [pass EXCEPT ![i] = "rest"]
    /\ UNCHANGED <<status, stream, out, lease, poll, signals, moves, told>>

----------------------------------------------------------------------------
(* Signals, polls, and the timer of the end.  A poll answers for the watch *)
(* that asked, which may have been dropped since: its status is kept.      *)

Online(i) ==
    /\ watch' = [watch EXCEPT ![i].offline = FALSE]
    /\ Ask(i, "LIVE")

Offline(i) ==
    /\ watch' = [watch EXCEPT ![i].offline = watch[i].on]
    /\ UNCHANGED moves

StreamFlips ==
    /\ left.flips > 0
    /\ stream' = ~stream
    /\ \E heard \in SUBSET {i \in Instances : watch[i].on /\ ~watch[i].stopped} :
         /\ signals' = [i \in Instances |->
              IF i \in heard THEN Append(signals[i], IF stream THEN "offline" ELSE "online")
                             ELSE signals[i]]
         /\ LET lost == Cardinality({i \in Instances : watch[i].on /\ ~watch[i].stopped} \ heard) IN
              /\ left.faults >= lost
              /\ left' = [left EXCEPT !.flips = @ - 1, !.faults = @ - lost]
    /\ UNCHANGED <<status, out, lease, watch, refused, pass, poll, moves, told>>

HandleSignal(i) ==
    /\ signals[i] # <<>>
    /\ IF Head(signals[i]) = "online" THEN Online(i) ELSE Offline(i)
    /\ signals' = [signals EXCEPT ![i] = Tail(@)]
    /\ UNCHANGED <<status, stream, out, lease, refused, pass, poll, told, left>>

PollStream(i) ==
    /\ poll[i] = "asked"
    /\ \/ poll' = [poll EXCEPT ![i] = IF stream THEN "online" ELSE "offline"] /\ UNCHANGED left
       \/ poll' = [poll EXCEPT ![i] = "none"] /\ Fault
    /\ UNCHANGED <<status, stream, out, lease, watch, refused, pass, signals, moves, told>>

\* Mutant: a poll never arms the end.
EndsNever(i) == FALSE
PollEnds(i) == watch[i].status = "LIVE" /\ ~watch[i].offline
PollStarts(i) == watch[i].status = "ANNOUNCED"

FollowStream(i) ==
    /\ \/ poll[i] = "online" /\ PollStarts(i) /\ Online(i)
       \/ poll[i] = "offline" /\ PollEnds(i) /\ Offline(i)
       \/ poll[i] = "online" /\ ~PollStarts(i) /\ UNCHANGED <<watch, moves>>
       \/ poll[i] = "offline" /\ ~PollEnds(i) /\ UNCHANGED <<watch, moves>>
    /\ poll' = [poll EXCEPT ![i] = "none"]
    /\ UNCHANGED <<status, stream, out, lease, refused, pass, signals, told, left>>

OfflineEnds(i) ==
    /\ watch[i].offline
    /\ signals[i] = <<>>
    /\ watch' = [watch EXCEPT ![i].offline = FALSE]
    /\ Ask(i, "ENDED")
    /\ UNCHANGED <<status, stream, out, lease, refused, pass, poll, signals, told, left>>

----------------------------------------------------------------------------
(* Faults *)

SessionStops(i) ==
    /\ watch[i].on /\ ~watch[i].stopped
    /\ Fault
    /\ watch' = [watch EXCEPT ![i].stopped = TRUE]
    /\ signals' = [signals EXCEPT ![i] = <<>>]
    /\ UNCHANGED <<status, stream, out, lease, refused, pass, poll, moves, told>>

LeaseExpires ==
    /\ lease # "none"
    /\ IF lease = "dead" THEN UNCHANGED left ELSE Fault
    /\ lease' = "none"
    /\ UNCHANGED <<status, stream, out, watch, refused, pass, poll, signals, moves, told>>

\* A process that comes back has another identity: the lease it held waits for its deadline.
Crash(i) ==
    /\ Fault
    /\ refused' = [refused EXCEPT ![i] = {}]
    /\ watch' = [watch EXCEPT ![i] = NoWatch]
    /\ pass' = [pass EXCEPT ![i] = "rest"]
    /\ poll' = [poll EXCEPT ![i] = "none"]
    /\ signals' = [signals EXCEPT ![i] = <<>>]
    /\ moves' = {m \in moves : m.by # i}
    /\ lease' = IF lease = i THEN "dead" ELSE lease
    /\ UNCHANGED <<status, stream, out, told>>

Pass(i) ==
    \/ HoldLease(i) \/ ReadLives(i)
    \/ CloseWatch(i) \/ KeepWatch(i) \/ StartWatch(i)

Follow(i) == PollStream(i) \/ FollowStream(i)

Next ==
    \/ \E to \in {"LIVE", "ENDED", "CANCELLED"} : MoveByHand(to)
    \/ \E m \in moves : MoveRead(m) \/ MoveWrite(m)
    \/ \E i \in Instances :
         \/ Pass(i) \/ HoldBlindly(i) \/ ReleaseWatches(i)
         \/ HandleSignal(i) \/ Follow(i) \/ OfflineEnds(i)
         \/ SessionStops(i) \/ Crash(i)
    \/ StreamFlips
    \/ ListChanges
    \/ LeaseExpires

Spec == Init /\ [][Next]_vars

(* The interval comes back, requests and queries are answered, a lease     *)
(* nobody renews expires.                                                  *)
FairSpec ==
    /\ Spec
    /\ WF_vars(\E m \in moves : MoveRead(m))
    /\ WF_vars(\E m \in moves : MoveWrite(m))
    /\ WF_vars(lease = "dead" /\ LeaseExpires)
    /\ \A i \in Instances :
         /\ WF_vars(Pass(i))
         /\ WF_vars(ReleaseWatches(i))
         /\ WF_vars(HandleSignal(i))
         /\ WF_vars(Follow(i))
         /\ WF_vars(OfflineEnds(i))

----------------------------------------------------------------------------
(* Properties *)

\* Whatever signals, polls, timers, instances and members ask at once, the live starts and ends
\* at most once, with the notices of each, and an ended or cancelled live never moves again.
MovesOnce ==
    /\ \A s \in Statuses : told[s] <= 1
    /\ told["ENDED"] + told["CANCELLED"] <= 1
    /\ told["ENDED"] <= told["LIVE"]

\* What a pass needs to watch: the live in its list, and a member whose session never stopped.
Watchable == Listed /\ \E h \in Holders : \A i \in Instances : h \notin Refused(i)

\* followStream: "the start or end a lost signal missed".  A stream that is off for good ends
\* its live, whatever signals and answers were lost, sessions stopped, leases lost, processes
\* restarted, as long as the live is listed and a member is left to carry it.
EndMissed == ~stream /\ status = "LIVE" /\ Watchable
EndIsNoticed == []<>~EndMissed

\* Likewise a stream that is on for good starts its announced live.
StartMissed == stream /\ status = "ANNOUNCED" /\ Watchable
StartIsNoticed == []<>~StartMissed

\* With several instances, only the one holding the lease watches in the end: a watch kept or
\* started by a pass that lost the lease is dropped.
Alone == \A i \in Instances : watch[i].on => lease \in {"none", i}
OneWatches == <>[]Alone

\* Says LiveWatcher.handleSignal: "A short cut never ends the live".  A stream that is on again
\* when the grace is over is not ended.
ShortCutSpared == [][\A i \in Instances : OfflineEnds(i) => ~stream]_vars

\* Whatever goes wrong, a live is moved once and its watches are those its passes could have left.
WatchSound ==
    /\ TypeOK
    /\ MovesOnce

\* The watch comes right by its polls alone, whatever signals, answers and leases were lost: one
\* instance watches in the end, a session that stopped is taken over by another member, and no
\* end or start stays missed while the live is listed and a member is left to carry it.
WatchSettles ==
    /\ OneWatches
    /\ EndIsNoticed
    /\ StartIsNoticed
=============================================================================
