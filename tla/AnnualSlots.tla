---------------------------- MODULE AnnualSlots ----------------------------
(***************************************************************************)
(* A series of annual review slots: moderators take a slot or are placed   *)
(* on one by a responsable, who moves and cancels them; the roll-call of   *)
(* those who were placed is answered; the card of the series says who      *)
(* holds what, the task of a moderator whether they still have to choose.  *)
(* The slots nobody took go when everyone said they come, or on request,   *)
(* and move with the hours of the series.  Others write the same records:  *)
(* a task is ticked by hand, entries of the calendar are removed and       *)
(* dragged to another hour, a member is moved on a roll-call.              *)
(*                                                                         *)
(* No request holds anything: each query that writes is a step, and other  *)
(* requests come between two of them; a query may fail, and the request    *)
(* stops there.  Slots are numbered as they are created.                   *)
(*                                                                         *)
(* Left out: opening the series, members and teams that change, the card   *)
(* edited on its own page, removing or editing the band of the series, and *)
(* the form that edits a whole entry: it gives a slot the kind of its      *)
(* model (CalendarService.ts:1335), the one of the band, and the slot is   *)
(* one no more.                                                            *)
(***************************************************************************)
EXTENDS Naturals, FiniteSets, Sequences

CONSTANTS
    Moderators,
    Nobody,
    Hours,          \* when a slot may be, the first ones offered at first
    Opened,
    Calls,          \* requests in flight at once
    Requests,       \* kinds of requests made; "fail": a query may fail
    MaxSlots,       \* bound: slots ever created
    MaxRequests     \* bound: requests made, and queries that fail

NobodyAssumption == Nobody \notin Moderators
HoursAssumption == Opened \in Nat /\ 1 .. Opened \subseteq Hours
BoundsAssumption == MaxSlots \in Nat /\ Opened <= MaxSlots /\ MaxRequests \in Nat

VARIABLES
    slot,       \* slots: whether there, hour, holder, roll-call, answers to it
    task,       \* task of each moderator
    card,       \* hours and holders the card shows
    call,       \* where each request is
    made,       \* requests made, and queries that failed
    apart,      \* history: moderators whose task was ticked by hand, whose slot was removed, or
                \* a request about whom failed on the way, since a request settled them
    behind      \* history: the slots changed by hand or a request failed since the card was written

vars == <<slot, task, card, call, made, apart, behind>>

Idle == [at |-> "idle"]
Quiet == \A c \in Calls : call[c] = Idle
Answers == {"none", "pending", "present", "absent"}
There(s) == s \in DOMAIN slot /\ slot[s].on
HeldBy(m) == {s \in DOMAIN slot : slot[s].on /\ slot[s].holder = m}
OpenSlots == HeldBy(Nobody)
TakenSlots == {s \in DOMAIN slot : slot[s].on /\ slot[s].holder # Nobody}
Taken == {<<slot[s].hour, slot[s].holder>> : s \in TakenSlots}

TypeOK ==
    /\ \A s \in DOMAIN slot :
         /\ slot[s].hour \in Hours /\ slot[s].holder \in Moderators \union {Nobody}
         /\ slot[s].roll \in BOOLEAN /\ slot[s].answer \in [Moderators -> Answers]
    /\ task \in [Moderators -> {"todo", "done"}]
    /\ card \subseteq Hours \X Moderators
    /\ made <= MaxRequests
    /\ apart \subseteq Moderators /\ behind \in BOOLEAN

NoAnswer == [m \in Moderators |-> "none"]
Empty(h) == [on |-> TRUE, hour |-> h, holder |-> Nobody, roll |-> FALSE, answer |-> NoAnswer]
Gone(s) == [Empty(slot[s].hour) EXCEPT !.on = FALSE]

Init ==
    /\ slot = [s \in 1 .. Opened |-> Empty(s)]
    /\ task = [m \in Moderators |-> "todo"]
    /\ card = {}
    /\ call = [c \in Calls |-> Idle]
    /\ made = 0
    /\ apart = {}
    /\ behind = FALSE

Counts == made < MaxRequests /\ made' = made + 1

Ask(c, kind, step) ==
    /\ call[c] = Idle
    /\ kind \in Requests
    /\ Counts
    /\ call' = [call EXCEPT ![c] = step]

Moves(c, step) ==
    /\ call' = [call EXCEPT ![c] = step]
    /\ UNCHANGED made

Goes(c, step) == Moves(c, step) /\ UNCHANGED <<apart, behind>>

\* What a request has yet to bring in line with the slots it wrote: task, card.
Unsettled(k) ==
    \/ k.at \in {"held", "free", "name"} /\ k.last # "todo"
    \/ k.at \in {"card", "write", "todo"} /\ k.last = "todo"
Unwritten(k) ==
    \/ k.at \in {"held", "free", "name", "convene", "row"} /\ k.last # "todo"
    \/ k.at \in {"card", "write"}

\* A query throws: nothing of the request is taken back, and the rest of it never comes.
Throws(c) ==
    /\ call' = [call EXCEPT ![c] = Idle]
    /\ apart' = IF Unsettled(call[c]) THEN apart \union {call[c].who} ELSE apart
    /\ behind' = (behind \/ Unwritten(call[c]))

Fail(c) ==
    /\ "fail" \in Requests
    /\ call[c] # Idle
    /\ Counts
    /\ Throws(c)
    /\ UNCHANGED <<slot, task, card>>

----------------------------------------------------------------------------
(* Taking, placing, moving: a slot is given *)

\* What is known of a request on a slot and its moderator: the slot the series is found by,
\* whether they are placed, what comes last.
About(at, s, m, placed, last, from, held) ==
    [at |-> at, slot |-> s, who |-> m, placed |-> placed, last |-> last, from |-> from,
     held |-> held, now |-> s, taken |-> {}]

TakeSlot(c, s, m) ==
    /\ s \in OpenSlots
    /\ Ask(c, "take", About("claim", s, m, FALSE, "complete", s, {}))
    /\ UNCHANGED <<slot, task, card, apart, behind>>

PlaceSlot(c, s, m) ==
    /\ s \in OpenSlots
    /\ Ask(c, "place", About("claim", s, m, TRUE, "complete", s, {}))
    /\ UNCHANGED <<slot, task, card, apart, behind>>

MoveSlot(c, s, t) ==
    /\ s \in TakenSlots
    /\ t \in OpenSlots
    /\ Ask(c, "move", About("claim", t, slot[s].holder, TRUE, "over", s, {}))
    /\ UNCHANGED <<slot, task, card, apart, behind>>

Wins(s) == There(s) /\ slot[s].holder = Nobody

\* Two moderators on one slot: only the first write wins.
Claim(c) ==
    LET s == call[c].slot IN
    /\ call[c].at = "claim"
    /\ IF Wins(s)
         THEN /\ slot' = [slot EXCEPT ![s].holder = call[c].who]
              /\ Goes(c, [call[c] EXCEPT !.at = "held"])
         ELSE /\ Goes(c, Idle)
              /\ UNCHANGED slot
    /\ UNCHANGED <<task, card>>

\* Mutant: the other slots are not looked for.
OthersNone(c) == {}
Others(c) == HeldBy(call[c].who) \ {call[c].slot}

FindHeld(c) ==
    /\ call[c].at = "held"
    /\ Goes(c, [call[c] EXCEPT !.at = "free", !.held = Others(c)])
    /\ UNCHANGED <<slot, task, card>>

\* A slot is freed whoever holds it by then: first those asked, then its name and its roll-call.
ClearRoster(c) ==
    /\ call[c].at = "free"
    /\ \E s \in call[c].held :
         /\ slot' = IF There(s) THEN [slot EXCEPT ![s].answer = NoAnswer] ELSE slot
         /\ Goes(c, [call[c] EXCEPT !.at = "name", !.now = s])
    /\ UNCHANGED <<task, card>>

\* A slot that is gone makes the request throw.
ClearName(c) ==
    LET k == call[c] IN
    /\ k.at = "name"
    /\ IF There(k.now)
         THEN /\ slot' = [slot EXCEPT ![k.now].holder = Nobody, ![k.now].roll = FALSE]
              /\ Goes(c, [k EXCEPT !.at = IF k.last = "todo" THEN "card" ELSE "free",
                                   !.held = @ \ {k.now}])
         ELSE Throws(c) /\ UNCHANGED <<slot, made>>
    /\ UNCHANGED <<task, card>>

TaskDone(c) ==
    LET k == call[c] IN
    /\ k.at = "free" /\ k.held = {}
    /\ task' = [task EXCEPT ![k.who] = "done"]
    /\ apart' = apart \ {k.who}
    /\ Moves(c, [k EXCEPT !.at = IF k.placed THEN "convene" ELSE "card"])
    /\ UNCHANGED <<slot, card, behind>>

\* The one who was placed has to answer.
Convene(c) ==
    LET s == call[c].slot IN
    /\ call[c].at = "convene"
    /\ IF There(s)
         THEN /\ slot' = [slot EXCEPT ![s].roll = TRUE]
              /\ Goes(c, [call[c] EXCEPT !.at = "row"])
         ELSE Throws(c) /\ UNCHANGED <<slot, made>>
    /\ UNCHANGED <<task, card>>

SyncRoster(c) ==
    LET k == call[c] IN
    /\ k.at = "row"
    /\ IF There(k.slot)
         THEN /\ slot' = [slot EXCEPT ![k.slot].answer[k.who] = IF @ = "none" THEN "pending" ELSE @]
              /\ Goes(c, [k EXCEPT !.at = "card"])
         ELSE Throws(c) /\ UNCHANGED <<slot, made>>
    /\ UNCHANGED <<task, card>>

----------------------------------------------------------------------------
(* The card, and what follows it *)

Last(k) ==
    CASE k.last = "over" -> Idle
      [] k.last = "complete" -> [at |-> "complete", slot |-> k.slot]
      [] k.last = "todo" -> [k EXCEPT !.at = "todo"]

\* A slot that is gone leaves the card as it is.
ReadCard(c) ==
    LET k == call[c] IN
    /\ k.at = "card"
    /\ IF There(k.from)
         THEN Goes(c, [k EXCEPT !.at = "write", !.taken = Taken])
         ELSE Moves(c, Last(k)) /\ behind' = TRUE /\ UNCHANGED apart
    /\ UNCHANGED <<slot, task, card>>

SyncSeriesMeeting(c) ==
    /\ call[c].at = "write"
    /\ card' = call[c].taken
    /\ behind' = FALSE
    /\ Moves(c, Last(call[c]))
    /\ UNCHANGED <<slot, task, apart>>

CancelSlot(c, s) ==
    /\ s \in TakenSlots
    /\ Ask(c, "cancel", About("free", s, slot[s].holder, FALSE, "todo", s, {s}))
    /\ UNCHANGED <<slot, task, card, apart, behind>>

\* Who is left with another slot, after a request that failed, is asked to choose all the same.
TaskTodo(c) ==
    LET m == call[c].who IN
    /\ call[c].at = "todo"
    /\ task' = [task EXCEPT ![m] = "todo"]
    /\ apart' = IF HeldBy(m) = {} THEN apart \ {m} ELSE apart
    /\ Moves(c, Idle)
    /\ UNCHANGED <<slot, card, behind>>

RespondToRollCall(c, s, m) ==
    /\ There(s) /\ slot[s].answer[m] # "none"
    /\ \E answer \in {"present", "absent"} : slot' = [slot EXCEPT ![s].answer[m] = answer]
    /\ Ask(c, "answer", [at |-> "complete", slot |-> s])
    /\ UNCHANGED <<task, card, apart, behind>>

----------------------------------------------------------------------------
(* The slots nobody took *)

Present(m) ==
    \E s \in HeldBy(m) : slot[s].roll => slot[s].answer[m] = "present"

CloseSeriesIfComplete(c) ==
    /\ call[c].at = "complete"
    /\ Goes(c, IF There(call[c].slot) /\ \A m \in Moderators : Present(m)
               THEN [at |-> "list"] ELSE Idle)
    /\ UNCHANGED <<slot, task, card>>

RemoveOpenSlots(c) ==
    /\ Ask(c, "remove", [at |-> "list"])
    /\ UNCHANGED <<slot, task, card, apart, behind>>

ListOpenSlots(c) ==
    /\ call[c].at = "list"
    /\ Goes(c, [at |-> "delete", gone |-> OpenSlots, wanted |-> {}])
    /\ UNCHANGED <<slot, task, card>>

\* Free slots outside the new hours go, hours without a slot get one.
ReshapeSeries(c) ==
    \E wanted \in SUBSET Hours \ {{}} :
      /\ Ask(c, "reshape", [at |-> "delete",
           gone |-> {s \in OpenSlots : slot[s].hour \notin wanted},
           wanted |-> wanted \ {slot[s].hour : s \in {t \in DOMAIN slot : slot[t].on}}])
      /\ UNCHANGED <<slot, task, card, apart, behind>>

Without(gone) == [s \in DOMAIN slot |-> IF s \in gone THEN Gone(s) ELSE slot[s]]

\* The slots read are deleted by their numbers, whoever took them since.
DeleteSlots(c) ==
    /\ call[c].at = "delete"
    /\ slot' = Without(call[c].gone)
    /\ Goes(c, [at |-> "create", wanted |-> call[c].wanted])
    /\ UNCHANGED <<task, card>>

CreateSlot(c) ==
    /\ call[c].at = "create"
    /\ IF call[c].wanted = {} \/ Len(slot) = MaxSlots
         THEN /\ Goes(c, Idle)
              /\ UNCHANGED slot
         ELSE \E h \in call[c].wanted :
                /\ slot' = Append(slot, Empty(h))
                /\ Goes(c, [call[c] EXCEPT !.wanted = @ \ {h}])
    /\ UNCHANGED <<task, card>>

----------------------------------------------------------------------------
(* What others write *)

\* A moderator ticks their task, or who may edit it puts it in another column.
SetTaskDone(c, m) ==
    /\ Ask(c, "tick", Idle)
    /\ \E to \in {"todo", "done"} \ {task[m]} : task' = [task EXCEPT ![m] = to]
    /\ apart' = apart \union {m}
    /\ UNCHANGED <<slot, card, behind>>

\* Entries go, taken or not: neither task nor card is told.
RemoveEntries(c, S) ==
    /\ S # {} /\ \A s \in S : There(s)
    /\ Ask(c, "drop", Idle)
    /\ slot' = Without(S)
    /\ apart' = apart \union {slot[s].holder : s \in S \intersect TakenSlots}
    /\ behind' = (behind \/ S \intersect TakenSlots # {})
    /\ UNCHANGED <<task, card>>

MoveEntry(c, s) ==
    /\ There(s)
    /\ Ask(c, "drag", Idle)
    /\ \E h \in Hours : slot' = [slot EXCEPT ![s].hour = h]
    /\ behind' = (behind \/ s \in TakenSlots)
    /\ UNCHANGED <<task, card, apart>>

MoveOnRollCall(c, s, m) ==
    /\ There(s) /\ slot[s].answer[m] # "none"
    /\ Ask(c, "column", Idle)
    /\ \E answer \in Answers \ {"none"} : slot' = [slot EXCEPT ![s].answer[m] = answer]
    /\ UNCHANGED <<task, card, apart, behind>>

Next ==
    \E c \in Calls :
      \/ \E s \in DOMAIN slot :
           \/ \E m \in Moderators :
                \/ TakeSlot(c, s, m) \/ PlaceSlot(c, s, m)
                \/ RespondToRollCall(c, s, m) \/ MoveOnRollCall(c, s, m)
           \/ \E t \in DOMAIN slot : MoveSlot(c, s, t)
           \/ CancelSlot(c, s) \/ MoveEntry(c, s)
      \/ Claim(c) \/ FindHeld(c) \/ ClearRoster(c) \/ ClearName(c) \/ TaskDone(c)
      \/ Convene(c) \/ SyncRoster(c) \/ ReadCard(c) \/ SyncSeriesMeeting(c) \/ TaskTodo(c)
      \/ CloseSeriesIfComplete(c) \/ RemoveOpenSlots(c) \/ ListOpenSlots(c)
      \/ ReshapeSeries(c) \/ DeleteSlots(c) \/ CreateSlot(c)
      \/ \E m \in Moderators : SetTaskDone(c, m)
      \/ \E S \in SUBSET DOMAIN slot : RemoveEntries(c, S)
      \/ Fail(c)

Spec == Init /\ [][Next]_vars

----------------------------------------------------------------------------
(* Properties *)

HolderKept ==
    \A s \in DOMAIN slot :
      slot[s].holder # Nobody => slot'[s].holder \in {slot[s].holder, Nobody}
\* Two moderators on one slot: the holder of a slot is never replaced, only freed.
NeverReplaced == [][HolderKept]_vars

\* Whoever takes, is placed, moves or cancels at the same time, once every request is over a
\* moderator holds one slot of the series at most: for two requests that cross over two slots.
\* With a third, freeing a slot that is gone throws, and another stays held.
AtMostOne == Quiet => \A m \in Moderators : Cardinality(HeldBy(m)) <= 1

\* One request after the other, failed or not, a moderator holds one slot at most and their task is
\* done exactly while they hold one, from the request that settled them, a slot given or a last
\* one cancelled, until their task is ticked by hand, their slot removed from the calendar, or
\* a request about them fails between the slot and the task: what such a failure left, two slots
\* held or a task that says otherwise, the next slot given puts right.
TaskFollows ==
    Quiet => \A m \in Moderators \ apart :
               Cardinality(HeldBy(m)) <= 1 /\ (task[m] = "done" <=> HeldBy(m) # {})

\* One request after the other, wherever it fails, who is asked whether they come holds that slot,
\* and a slot that changes hands carries no answer of who held it before.
AnswersTrue ==
    \A s \in DOMAIN slot, m \in Moderators :
      slot[s].answer[m] # "none" => slot[s].roll /\ slot[s].holder = m

\* Says syncSeriesMeeting: "Bring the card of the Réunions page up to date: who holds which slot".
\* One request after the other the card shows the slots that are taken, unless one was removed or
\* dragged, or a request failed before it wrote the card, since the card was written.
CardTrue == Quiet /\ ~behind => card = Taken

\* Says giveSlot: "One slot per series, freed once the new one holds".  A moderator whose requests
\* took a slot holds one when they are over.
DoneHolds == Quiet => \A m \in Moderators : task[m] = "done" => HeldBy(m) # {}

\* Says removeOpenSlotsOf: "Remove the slots of a series that nobody took".
TakenStays ==
    [][\A s \in DOMAIN slot : slot[s].on /\ ~slot'[s].on => slot[s].holder = Nobody]_vars

\* Slots, tasks, answers and card tell one story, a moderator holding one slot at most.
SlotsSound ==
    /\ TypeOK
    /\ TaskFollows
    /\ AnswersTrue
    /\ CardTrue
=============================================================================
