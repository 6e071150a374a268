---------------------------- MODULE LivePresence ----------------------------
(***************************************************************************)
(* The Mod View of one live: while its tabs beat, a member has an open     *)
(* presence, and moderates in stretches (stints) that follow it; another   *)
(* may follow them (focus).  Beats of the tabs, the member's own stop, the *)
(* sweep of silent presences and the end of the live touch the same rows:  *)
(* a beat holds a lock of its member, the sweep, the stops and the end     *)
(* hold none and write by identifier what they read before.                *)
(*                                                                         *)
(* Rows are sequences, in the order they were created; `to' is 0 while a   *)
(* row is open.  Times are counted in beats.  What a beat adds up (visible *)
(* and active seconds) and who may count time are left out.                *)
(***************************************************************************)
EXTENDS Naturals, Sequences, FiniteSets

CONSTANTS
    Members,
    Calls,          \* requests, sweeps and ends in flight at once
    Stale,          \* silence tolerated
    MaxTime,        \* bound: last moment of the clock
    MaxBeats,       \* bound: beats sent
    MaxStops,       \* bound: stops asked by a member
    MaxFocuses,     \* bound: focuses asked
    MaxFailures     \* bound: calls cut short by a crash or a refused query

TimesAssumption ==
    /\ Stale \in Nat /\ MaxTime \in Nat \ {0}
    /\ {MaxBeats, MaxStops, MaxFocuses, MaxFailures} \subseteq Nat

VARIABLES
    status,     \* of the live: "LIVE" or "ENDED"
    now,
    presence,   \* presences of each member
    stint,      \* stretches of each member
    focus,      \* focuses of the live
    heard,      \* history: latest beat counted of each member
    left,       \* what may still be asked
    call        \* where each call is

vars == <<status, now, presence, stint, focus, heard, left, call>>

Idle == [kind |-> "idle"]
Running(rows) == {i \in DOMAIN rows : rows[i].to = 0}
IsStale(beat, t) == t > beat + Stale
Later(s, t) == IF s > t THEN s ELSE t

TypeOK ==
    /\ status \in {"LIVE", "ENDED"}
    /\ now \in 1 .. MaxTime
    /\ presence \in [Members -> Seq([from : 1 .. now, beat : 1 .. now, to : 0 .. now])]
    /\ stint \in [Members -> Seq([from : 1 .. now, to : 0 .. now])]
    /\ focus \in Seq([watcher : Members, target : Members, to : 0 .. now])
    /\ heard \in [Members -> 0 .. now]

Init ==
    /\ status = "LIVE"
    /\ now = 1
    /\ presence = [m \in Members |-> <<>>]
    /\ stint = [m \in Members |-> <<>>]
    /\ focus = <<>>
    /\ heard = [m \in Members |-> 0]
    /\ left = [beat |-> MaxBeats, stop |-> MaxStops, focus |-> MaxFocuses, fail |-> MaxFailures]
    /\ call = [c \in Calls |-> Idle]

----------------------------------------------------------------------------
(* Stopping stretches: the open ones of a member are read, then written at *)
(* the moment the member left, never before their start.  One call may     *)
(* have several members to stop, each on rows of their own: it takes them  *)
(* one after the other, in any order, then goes on with `next'.            *)

Stops(todo, next) ==
    IF todo = {} THEN next ELSE [kind |-> "stops", todo |-> todo, next |-> next]

StopRead(c) ==
    /\ call[c].kind = "stops"
    /\ \E t \in call[c].todo :
         call' = [call EXCEPT ![c] =
                    [kind |-> "write", stop |-> t, ids |-> Running(stint[t.who]),
                     then |-> Stops(@.todo \ {t}, @.next)]]
    /\ UNCHANGED <<status, now, presence, stint, focus, heard, left>>

\* Mutant: the moment the member left, whenever the stretch began.
StoppedAtAny(s, t) == [s EXCEPT !.to = t]
StoppedAt(s, t) == [s EXCEPT !.to = Later(s.from, t)]

StopWrite(c) ==
    /\ call[c].kind = "write"
    /\ LET m == call[c].stop.who IN
         stint' = [stint EXCEPT ![m] = [i \in DOMAIN @ |->
                     IF i \in call[c].ids THEN StoppedAt(@[i], call[c].stop.at) ELSE @[i]]]
    /\ call' = [call EXCEPT ![c] = @.then]
    /\ UNCHANGED <<status, now, presence, focus, heard, left>>

EnsureStint(c) ==
    /\ call[c].kind = "ensure"
    /\ LET m == call[c].who IN
         stint' = IF Running(stint[m]) = {}
                    THEN [stint EXCEPT ![m] = Append(@, [from |-> now, to |-> 0])]
                    ELSE stint
    /\ call' = [call EXCEPT ![c] = Idle]
    /\ UNCHANGED <<status, now, presence, focus, heard, left>>

StopStint(m) ==
    /\ left.stop > 0
    /\ left' = [left EXCEPT !.stop = @ - 1]
    /\ stint' = [stint EXCEPT ![m] = [i \in DOMAIN @ |->
                   IF @[i].to = 0 THEN [@[i] EXCEPT !.to = now] ELSE @[i]]]
    /\ UNCHANGED <<status, now, presence, focus, heard, call>>

----------------------------------------------------------------------------
(* Beats *)

BeginBeat(c, m) ==
    /\ call[c] = Idle
    /\ status = "LIVE"
    /\ left.beat > 0
    /\ now + Stale + 1 <= MaxTime        \* a silence may still be seen after it
    /\ left' = [left EXCEPT !.beat = @ - 1]
    /\ \E closing \in BOOLEAN :
         call' = [call EXCEPT ![c] = [kind |-> "beat", who |-> m, at |-> now, closing |-> closing]]
    /\ UNCHANGED <<status, now, presence, stint, focus, heard>>

Newest(rows) == {i \in Running(rows) : \A j \in Running(rows) : rows[j].from <= rows[i].from}
Hear(b) == heard' = [heard EXCEPT ![b.who] = Later(@, b.at)]

BeatKnown(c) ==
    LET b == call[c] IN
    /\ b.kind = "beat"
    /\ \E i \in Newest(presence[b.who]) :
         /\ ~IsStale(presence[b.who][i].beat, b.at)
         /\ presence' = [presence EXCEPT ![b.who][i].beat = b.at,
                                         ![b.who][i].to = IF b.closing THEN b.at ELSE 0]
    /\ call' = [call EXCEPT ![c] =
                  IF b.closing THEN Stops({[who |-> b.who, at |-> b.at]}, Idle) ELSE Idle]
    /\ Hear(b)
    /\ UNCHANGED <<status, now, stint, focus, left>>

\* A first beat, or one after a long silence, which closes the old presence where it stopped.
BeatNew(c) ==
    LET b == call[c]
        old == Newest(presence[b.who])
        Silent(p, i) == IF i \in old THEN [p EXCEPT !.to = p.beat] ELSE p IN
    /\ b.kind = "beat"
    /\ \A i \in old : IsStale(presence[b.who][i].beat, b.at)
    /\ presence' = [presence EXCEPT ![b.who] =
                      [i \in DOMAIN @ |-> Silent(@[i], i)]
                        \o (IF b.closing THEN <<>> ELSE <<[from |-> b.at, beat |-> b.at, to |-> 0]>>)]
    /\ call' = [call EXCEPT ![c] =
                  Stops({[who |-> b.who, at |-> presence[b.who][i].beat] : i \in old},
                        IF b.closing THEN Idle ELSE [kind |-> "ensure", who |-> b.who])]
    /\ Hear(b)
    /\ UNCHANGED <<status, now, stint, focus, left>>

----------------------------------------------------------------------------
(* The sweep of silent presences *)

SilentRows == {r \in Members \X (1 .. MaxBeats) :
                 /\ r[2] \in Running(presence[r[1]])
                 /\ IsStale(presence[r[1]][r[2]].beat, now)}

SweepRead(c) ==
    /\ call[c] = Idle
    /\ SilentRows # {}
    /\ call' = [call EXCEPT ![c] =
                  [kind |-> "sweep",
                   rows |-> {[who |-> r[1], id |-> r[2], at |-> presence[r[1]][r[2]].beat] : r \in SilentRows}]]
    /\ UNCHANGED <<status, now, presence, stint, focus, heard, left>>

SweepClose(c) ==
    /\ call[c].kind = "sweep"
    /\ presence' = [m \in Members |-> [i \in DOMAIN presence[m] |->
         LET hit == {r \in call[c].rows : r.who = m /\ r.id = i} IN
         IF hit = {} THEN presence[m][i]
                     ELSE [presence[m][i] EXCEPT !.to = (CHOOSE r \in hit : TRUE).at]]]
    /\ call' = [call EXCEPT ![c] =
                  Stops({[who |-> r.who, at |-> r.at] : r \in call[c].rows}, Idle)]
    /\ UNCHANGED <<status, now, stint, focus, heard, left>>

----------------------------------------------------------------------------
(* The end of the live: stretches first, then presences, then focuses *)

EndLive(c) ==
    /\ call[c] = Idle
    /\ status = "LIVE"
    /\ status' = "ENDED"
    /\ call' = [call EXCEPT ![c] = [kind |-> "ended"]]
    /\ UNCHANGED <<now, presence, stint, focus, heard, left>>

CloseLiveStints(c) ==
    /\ call[c].kind = "ended"
    /\ call' = [call EXCEPT ![c] =
                  [kind |-> "beats", at |-> now, who |-> {m \in Members : Running(stint[m]) # {}}]]
    /\ UNCHANGED <<status, now, presence, stint, focus, heard, left>>

Beats(m) == {presence[m][i].beat : i \in DOMAIN presence[m]}
LastOf(S) == CHOOSE t \in S : \A u \in S : u <= t
LeftAt(m, t) == IF Beats(m) # {} /\ IsStale(LastOf(Beats(m)), t) THEN LastOf(Beats(m)) ELSE t

ReadBeats(c) ==
    /\ call[c].kind = "beats"
    /\ call' = [call EXCEPT ![c] =
                  Stops({[who |-> m, at |-> LeftAt(m, @.at)] : m \in @.who}, [kind |-> "presences"])]
    /\ UNCHANGED <<status, now, presence, stint, focus, heard, left>>

ClosePresences(c) ==
    /\ call[c].kind = "presences"
    /\ presence' = [m \in Members |-> [i \in DOMAIN presence[m] |->
                      IF presence[m][i].to = 0 THEN [presence[m][i] EXCEPT !.to = now]
                                               ELSE presence[m][i]]]
    /\ call' = [call EXCEPT ![c] = [kind |-> "focuses", at |-> now]]
    /\ UNCHANGED <<status, now, stint, focus, heard, left>>

EndFocuses(rows, t) == [i \in DOMAIN focus |->
    IF focus[i].to = 0 /\ i \in rows THEN [focus[i] EXCEPT !.to = t] ELSE focus[i]]

CloseFocuses(c) ==
    /\ call[c].kind = "focuses"
    /\ focus' = EndFocuses(DOMAIN focus, call[c].at)
    /\ call' = [call EXCEPT ![c] = Idle]
    /\ UNCHANGED <<status, now, presence, stint, heard, left>>

----------------------------------------------------------------------------
(* Focuses: the checks of a start read the presences, its transaction ends *)
(* the rows it sees open and creates one.                                  *)

Connected(m) == \E i \in Running(presence[m]) : ~IsStale(presence[m][i].beat, now)

StartFocus(c, w, t) ==
    /\ call[c] = Idle
    /\ left.focus > 0
    /\ w # t
    /\ Connected(t)
    /\ left' = [left EXCEPT !.focus = @ - 1]
    /\ call' = [call EXCEPT ![c] = [kind |-> "focus", watcher |-> w, target |-> t]]
    /\ UNCHANGED <<status, now, presence, stint, focus, heard>>

SeeFocuses(c) ==
    /\ call[c].kind = "focus"
    /\ call' = [call EXCEPT ![c] =
                  [kind |-> "swap", watcher |-> @.watcher, target |-> @.target,
                   ids |-> {i \in Running(focus) : focus[i].watcher = @.watcher}]]
    /\ UNCHANGED <<status, now, presence, stint, focus, heard, left>>

SwapFocus(c) ==
    /\ call[c].kind = "swap"
    /\ focus' = Append([i \in DOMAIN focus |->
                          IF i \in call[c].ids /\ focus[i].to = 0
                            THEN [focus[i] EXCEPT !.to = now] ELSE focus[i]],
                       [watcher |-> call[c].watcher, target |-> call[c].target, to |-> 0])
    /\ call' = [call EXCEPT ![c] = Idle]
    /\ UNCHANGED <<status, now, presence, stint, heard, left>>

StopFocus(w) ==
    /\ \E i \in Running(focus) : focus[i].watcher = w
    /\ focus' = EndFocuses({i \in DOMAIN focus : focus[i].watcher = w}, now)
    /\ UNCHANGED <<status, now, presence, stint, heard, left, call>>

----------------------------------------------------------------------------
\* A call stops where it is: the process dies, or a query is refused and nobody retries.
Fail(c) ==
    /\ call[c] # Idle
    /\ left.fail > 0
    /\ left' = [left EXCEPT !.fail = @ - 1]
    /\ call' = [call EXCEPT ![c] = Idle]
    /\ UNCHANGED <<status, now, presence, stint, focus, heard>>

Tick ==
    /\ now < MaxTime
    /\ now' = now + 1
    /\ UNCHANGED <<status, presence, stint, focus, heard, left, call>>

Advance(c) ==
    \/ BeatKnown(c) \/ BeatNew(c)
    \/ StopRead(c) \/ StopWrite(c) \/ EnsureStint(c)
    \/ SweepClose(c)
    \/ CloseLiveStints(c) \/ ReadBeats(c) \/ ClosePresences(c) \/ CloseFocuses(c)
    \/ SeeFocuses(c) \/ SwapFocus(c)

Next ==
    \/ \E c \in Calls, m \in Members : BeginBeat(c, m)
    \/ \E m \in Members : StopStint(m)
    \/ \E c \in Calls : SweepRead(c)
    \/ \E c \in Calls : EndLive(c)
    \/ \E c \in Calls, w, t \in Members : StartFocus(c, w, t)
    \/ \E w \in Members : StopFocus(w)
    \/ \E c \in Calls : Advance(c)
    \/ \E c \in Calls : Fail(c)
    \/ Tick

Spec == Init /\ [][Next]_vars

(* The clock runs, a call in flight goes on, and the sweep comes back at   *)
(* every tick of the watcher (setInterval).                                *)
FairSpec ==
    /\ Spec
    /\ WF_vars(Tick)
    /\ \A c \in Calls : WF_vars(Advance(c)) /\ WF_vars(SweepRead(c))

----------------------------------------------------------------------------
(* Properties *)

\* The stretches of a member follow one another: at most one is open, the last, none ends
\* before it began, and none runs into the next one, whoever stopped it and however late the
\* stop was written (ensureStint: "Two tabs never open two stretches"; stopStintAt: "A stretch
\* never ends before it began"; foldStints adds them up without looking for overlaps).
StretchesApart ==
    \A m \in Members : \A i \in DOMAIN stint[m] :
      /\ stint[m][i].to # 0 => stint[m][i].from <= stint[m][i].to
      /\ \A j \in DOMAIN stint[m] :
           i < j => stint[m][i].to # 0 /\ stint[m][i].to <= stint[m][j].from

\* Several tabs of a member beat one presence: two are never open at once.
OnePresence == \A m \in Members : \A i, j \in Running(presence[m]) : i = j

EndsWhereLeft ==
    \A m \in Members : \A i \in Running(stint[m]) :
      stint'[m][i].to # 0 /\ left'.stop = left.stop
        => stint'[m][i].to <= Later(stint[m][i].from, heard[m] + Stale)
\* A stretch that something else than the member stops never counts a silence: its end is at
\* most the tolerated silence after the latest beat counted by then (closeLiveStints: "a member
\* who left the Mod View before the end stops where they left, not when the live ended").
StopsWhereLeft == [][EndsWhereLeft]_vars

\* A presence nobody beats is closed in the end, crashes of the calls that should have closed
\* it included.
StaysOpen(m, i) == i \in Running(presence[m])
SilenceCloses == \A m \in Members : \A i \in 1 .. MaxBeats : []<>~StaysOpen(m, i)

\* Says PresenceService.beatPresence: "Moderating follows the presence".  With no call in
\* flight and no stop asked by the member, an open presence moderates.
ModeratingFollows ==
    (\A c \in Calls : call[c] = Idle) =>
      \A m \in Members : Running(presence[m]) # {} => Running(stint[m]) # {}

\* Says PresenceService.sweepStalePresences: "Close presences whose tab went silent".  The
\* sweep never closes one whose latest beat is recent.
SweepsSilentOnly ==
    [][\A c \in Calls, m \in Members : \A i \in Running(presence[m]) :
         SweepClose(c) /\ presence'[m][i].to # 0 => IsStale(presence[m][i].beat, now)]_vars

\* Says ModStintService.closeLiveStints: "End every stretch of a live that closed".  Once the
\* live is over, no call is in flight and no presence is left for the sweep to close, nothing
\* would ever stop a stretch: none may run.
EndStopsStretches ==
    /\ status = "ENDED"
    /\ \A c \in Calls : call[c] = Idle
    /\ \A m \in Members : Running(presence[m]) = {}
    => \A m \in Members : Running(stint[m]) = {}

\* Says FocusService.startFocus: "One Focus at a time per follower and live".
OneFocus == \A w \in Members :
    Cardinality({i \in Running(focus) : focus[i].watcher = w}) <= 1

\* However beats, stops, sweeps and ends cross, a member has one open presence, and stretches that
\* do not overlap.
PresencesSound ==
    /\ TypeOK
    /\ StretchesApart
    /\ OnePresence
=============================================================================
