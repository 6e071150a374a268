---------------------------- MODULE PushDelivery ----------------------------
(***************************************************************************)
(* The pushes of fresh notifications: one job sends a batch of them to     *)
(* every device of their recipients, and the queue runs it again while a   *)
(* push service asks to come back.  Each push is a promise of its own:     *)
(* sent, then its line written, then the device forgotten if it is gone.   *)
(* The job fails as soon as one of them throws, because its device is gone *)
(* or because a query fails; the others go on, beside the run that follows *)
(* it.                                                                     *)
(*                                                                         *)
(* Devices come, go and change hands meanwhile.  A device is the row of a  *)
(* browser's address, numbered as it is created: a change of hands keeps   *)
(* the row, and the lines of a row that is removed forget it.              *)
(***************************************************************************)
EXTENDS Naturals, FiniteSets

CONSTANTS
    Members, Browsers, Notes,
    MaxAttempts,    \* runs of a job before it is given up
    MaxBusy,        \* bound: answers that ask to come back
    MaxRefused,     \* bound: answers that refuse for good
    MaxSaves,       \* bound: devices recorded or handed over
    MaxRemoved,     \* bound: devices removed by their members
    MaxThrows,      \* bound: queries of a push that fail
    MaxCrashes      \* bound: processes that die

BoundsAssumption ==
    /\ MaxAttempts \in Nat \ {0}
    /\ IsFiniteSet(Browsers)
    /\ {MaxBusy, MaxRefused, MaxSaves, MaxRemoved, MaxThrows, MaxCrashes}
         \subseteq Nat

VARIABLES
    device,     \* row of each browser: number (0 without) and member
    rows,       \* rows created so far
    gone,       \* browsers whose address is dead
    note,       \* recipient and state of each notification
    line,       \* status of the line of a notification and a row
    job,        \* state of the job, runs started, runs that failed, whether a push asks to come back
    pushes,     \* pushes under way, of any run
    shown,      \* history: copies shown by each browser
    cut,        \* history: runs that a crash ended, that a throw ended, devices removed
    left        \* what may still happen

vars == <<device, rows, gone, note, line, job, pushes, shown, cut, left>>

Rows == 1 .. Cardinality(Browsers) + MaxSaves
Numbers == CHOOSE f \in [Browsers -> 1 .. Cardinality(Browsers)] :
             \A b, c \in Browsers : b # c => f[b] # f[c]
NoRow == [row |-> 0, member |-> CHOOSE m \in Members : TRUE]
Settled == {"sent", "expired"}
Outcomes == {"sent", "expired", "retry", "failed"}

TypeOK ==
    /\ device \in [Browsers -> [row : Rows \union {0}, member : Members]]
    /\ rows \in 0 .. Cardinality(Rows)
    /\ note \in [Notes -> [to : Members, state : {"unread", "read"}]]
    /\ line \in [Notes \X Rows -> Outcomes \union {"none"}]
    /\ job.state \in {"none", "waiting", "active", "inline", "done", "failed"}
    /\ job.failed <= MaxAttempts
    /\ \A p \in pushes : p.phase \in Outcomes \union {"sending", "forget"}

Init ==
    /\ \E owner \in [Browsers -> Members] :
         device = [b \in Browsers |-> [row |-> Numbers[b], member |-> owner[b]]]
    /\ rows = Cardinality(Browsers)
    /\ gone = {}
    /\ note \in [Notes -> [to : Members, state : {"unread"}]]
    /\ line = [x \in Notes \X Rows |-> "none"]
    /\ job = [state |-> "none", run |-> 0, failed |-> 0, retry |-> FALSE]
    /\ pushes = {}
    /\ shown = [x \in Notes \X Browsers |-> 0]
    /\ cut = [crash |-> 0, throw |-> 0, remove |-> 0]
    /\ left = [busy |-> MaxBusy, refused |-> MaxRefused, save |-> MaxSaves,
               remove |-> MaxRemoved, throw |-> MaxThrows, crash |-> MaxCrashes]

Spend(what) ==
    /\ left[what] > 0
    /\ left' = [left EXCEPT ![what] = @ - 1]

----------------------------------------------------------------------------
(* The job *)

\* Mutant: the lines already written are not looked at.
DueAlways(n, r) == TRUE
Due(n, r) == line[<<n, r>>] \notin Settled

\* The pushes a run still owes, as it reads them.
Owed(run) ==
    {[run |-> run, note |-> x[1], row |-> device[x[2]].row, browser |-> x[2], phase |-> "sending"] :
       x \in {y \in Notes \X Browsers :
                /\ note[y[1]].state = "unread"
                /\ device[y[2]].row # 0 /\ device[y[2]].member = note[y[1]].to
                /\ Due(y[1], device[y[2]].row)}}

Started(state) ==
    /\ job' = [job EXCEPT !.state = state, !.run = @ + 1, !.retry = FALSE]
    /\ pushes' = pushes \union Owed(job.run + 1)

\* Fresh notifications go to the queue; without one, they are sent at once, in this process.
QueuePushes ==
    /\ job.state = "none"
    /\ \/ /\ job' = [job EXCEPT !.state = "waiting"]
          /\ UNCHANGED pushes
       \/ Started("inline")
    /\ UNCHANGED <<device, rows, gone, note, line, shown, cut, left>>

DeliverPushes ==
    /\ job.state = "waiting"
    /\ Started("active")
    /\ UNCHANGED <<device, rows, gone, note, line, shown, cut, left>>

\* The queue runs a failed job again, up to its attempts; nothing runs an inline one again.
Failed ==
    [job EXCEPT !.failed = @ + 1,
                !.state = IF job.state = "active" /\ job.failed + 1 < MaxAttempts
                            THEN "waiting" ELSE "failed"]

\* Mutant: pushes that should come back are not counted.
RetryForgotten == job.retry /\ FALSE
RetryAsked == job.retry

\* Every push of the run is over.
RunEnds ==
    /\ job.state \in {"active", "inline"}
    /\ \A p \in pushes : p.run # job.run
    /\ job' = IF RetryAsked THEN Failed ELSE [job EXCEPT !.state = "done"]
    /\ UNCHANGED <<device, rows, gone, note, line, pushes, shown, cut, left>>

----------------------------------------------------------------------------
(* One push *)

Stepped(p, phase) == (pushes \ {p}) \union {[p EXCEPT !.phase = phase]}

\* The push service answers.
SendPush(p) ==
    /\ p.phase = "sending"
    /\ \/ /\ p.browser \notin gone
          /\ shown' = [shown EXCEPT ![<<p.note, p.browser>>] = @ + 1]
          /\ pushes' = Stepped(p, "sent")
          /\ UNCHANGED left
       \/ /\ p.browser \in gone
          /\ pushes' = Stepped(p, "expired")
          /\ UNCHANGED <<shown, left>>
       \/ /\ Spend("busy")
          /\ pushes' = Stepped(p, "retry")
          /\ UNCHANGED shown
       \/ /\ Spend("refused")
          /\ pushes' = Stepped(p, "failed")
          /\ UNCHANGED shown
    /\ UNCHANGED <<device, rows, gone, note, line, job, cut>>

Known(p) == \E b \in Browsers : device[b].row = p.row

Status(p) == IF p.phase = "retry" THEN "failed" ELSE p.phase

Cut(what) == cut' = [cut EXCEPT ![what] = @ + 1]

\* A push throws, and its run with it if it is under way.
Throws(p) ==
    /\ pushes' = pushes \ {p}
    /\ IF p.run = job.run /\ job.state \in {"active", "inline"}
         THEN job' = Failed /\ Cut("throw")
         ELSE UNCHANGED <<job, cut>>

Written(p) == line' = [line EXCEPT ![<<p.note, p.row>>] = Status(p)]

\* The line refuses a row that is no more.
WriteLine(p) ==
    /\ p.phase \in Outcomes
    /\ IF Known(p)
         THEN /\ Written(p)
              /\ job' = IF p.run = job.run /\ p.phase = "retry"
                          THEN [job EXCEPT !.retry = TRUE] ELSE job
              /\ pushes' = IF p.phase = "expired" THEN Stepped(p, "forget") ELSE pushes \ {p}
              /\ UNCHANGED cut
         ELSE /\ Throws(p)
              /\ UNCHANGED line
    /\ UNCHANGED <<device, rows, gone, note, shown, left>>

\* A query fails: the line's, or what follows it, the date of a copy sent or the removal of the
\* device that is gone.
QueryFails(p) ==
    /\ p.phase \in Outcomes \union {"forget"}
    /\ Spend("throw")
    /\ Throws(p)
    /\ \/ UNCHANGED line
       \/ p.phase = "sent" /\ Known(p) /\ Written(p)
    /\ UNCHANGED <<device, rows, gone, note, shown>>

\* Lines of a removed row lose it, and are found by nobody.
Without(r) == [x \in Notes \X Rows |-> IF x[2] = r THEN "none" ELSE line[x]]

Remove(b) ==
    /\ device' = [device EXCEPT ![b] = NoRow]
    /\ line' = Without(device[b].row)

ForgetGone(p) ==
    /\ p.phase = "forget"
    /\ pushes' = pushes \ {p}
    /\ IF Known(p)
         THEN Remove(p.browser)
         ELSE UNCHANGED <<device, line>>
    /\ UNCHANGED <<rows, gone, note, job, shown, cut, left>>

----------------------------------------------------------------------------
(* Members and their devices *)

\* A browser handed to another member keeps its row.
SavePushSubscription(b, m) ==
    /\ Spend("save")
    /\ b \notin gone
    /\ IF device[b].row = 0
         THEN /\ rows' = rows + 1
              /\ device' = [device EXCEPT ![b] = [row |-> rows + 1, member |-> m]]
         ELSE /\ device' = [device EXCEPT ![b].member = m]
              /\ UNCHANGED rows
    /\ UNCHANGED <<gone, note, line, job, pushes, shown, cut>>

\* From the settings, from the browser, or with the session it was recorded in.
RemovePushSubscription(b) ==
    /\ Spend("remove")
    /\ device[b].row # 0
    /\ Remove(b)
    /\ Cut("remove")
    /\ UNCHANGED <<rows, gone, note, job, pushes, shown>>

\* The browser drops its address without a word.
AddressDies(b) ==
    /\ Spend("remove")
    /\ gone' = gone \union {b}
    /\ UNCHANGED <<device, rows, note, line, job, pushes, shown, cut>>

MarkRead(n) ==
    /\ note[n].state = "unread"
    /\ note' = [note EXCEPT ![n].state = "read"]
    /\ UNCHANGED <<device, rows, gone, line, job, pushes, shown, cut, left>>

\* The queue outlives the process and finds the job stalled.
Crash ==
    /\ Spend("crash")
    /\ job.state \in {"active", "inline"} \/ pushes # {}
    /\ pushes' = {}
    /\ Cut("crash")
    /\ job' = [job EXCEPT !.state = IF @ = "active" THEN "waiting"
                                    ELSE IF @ = "inline" THEN "failed" ELSE @]
    /\ UNCHANGED <<device, rows, gone, note, line, shown>>

Work ==
    \/ DeliverPushes \/ RunEnds
    \/ \E p \in pushes : SendPush(p) \/ WriteLine(p) \/ ForgetGone(p)

Next ==
    \/ QueuePushes \/ Work \/ \E p \in pushes : QueryFails(p)
    \/ \E b \in Browsers :
         \/ RemovePushSubscription(b) \/ AddressDies(b)
         \/ \E m \in Members : SavePushSubscription(b, m)
    \/ \E n \in Notes : MarkRead(n)
    \/ Crash

Spec == Init /\ [][Next]_vars

\* A worker listens, and a push service answers each request.
FairSpec == Spec /\ WF_vars(Work)

----------------------------------------------------------------------------
(* Properties *)

\* Says deliverPushes: "Push fresh notifications to every device of their recipients, once per
\* device".  A browser shows one copy of a notification, and one more at most for each run that a
\* crash or a throw ended, between a copy and its line or beside the pushes that go on, and for
\* each device removed: retries alone never send twice.
SentOnce ==
    \A n \in Notes, b \in Browsers : shown[<<n, b>>] <= 1 + cut.crash + cut.throw + cut.remove

SettledLine ==
    \A n \in Notes, b \in Browsers :
      LET r == device[b].row IN
      (r # 0 /\ device'[b].row = r /\ line[<<n, r>>] \in Settled) => line'[<<n, r>>] = line[<<n, r>>]
\* Says DeliveryService of the sent and the expired: "Outcomes that close a delivery for good".
\* While its device is known, a settled line stays as it is, through retries and crashes, as long
\* as no run ended on a throw: a push that goes on beside the next run may write over it.
SettledStays == [][cut.throw = 0 => SettledLine]_vars

\* The journal is true: a push whose line says sent was shown, one whose line says expired went
\* to a dead address.
JournalTrue ==
    \A n \in Notes, b \in Browsers :
      device[b].row # 0 =>
        /\ line[<<n, device[b].row>>] = "sent" => shown[<<n, b>>] > 0
        /\ line[<<n, device[b].row>>] = "expired" => b \in gone

Waits(n, b, r) ==
    /\ job.state = "waiting"
    /\ note[n].state = "unread"
    /\ device[b] = [row |-> r, member |-> note[n].to]
Served(n, b, r) ==
    \/ shown[<<n, b>>] > 0
    \/ note[n].state = "read"
    \/ b \in gone
    \/ device[b] # [row |-> r, member |-> note[n].to]

\* As long as the push services ask to come back fewer times than the job has attempts, a queued
\* notification is shown by every device of its recipient, unless it is read, or the device dies,
\* is removed or changes hands, first.
Reaches == \A n \in Notes, b \in Browsers, r \in Rows : Waits(n, b, r) ~> Served(n, b, r)

\* A notification is shown once by each device and the journal says what became of it.
DeliverySound ==
    /\ TypeOK
    /\ SentOnce
    /\ JournalTrue
=============================================================================
