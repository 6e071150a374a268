-------------------------------- MODULE Lives --------------------------------
(* What follows a live, side by side: the watch of one instance or of several, the
   session that hears a channel, the Mod View of one member or of several.  A
   behaviour is the life of one of them, the others are at rest: what one expects
   of another is in its own module.  A component that is looked at in two scopes
   takes its constants from the scope, so that both share one module and its proofs. *)
EXTENDS EventSubSession

CONSTANTS
    WatchScope, WatchesScope,   \* constants of LiveWatch: moves by hand, or two instances
    ViewScope, ViewsScope       \* constants of LivePresence: one member, or several

VARIABLES
    part,
    status, stream, out, lease, watch, refused, pass, poll, signals, moves, written,
    watch_left,
    view, now, presence, stint, focus, beaten, view_left, call

Watch(s) == INSTANCE LiveWatch WITH
    Instances <- s.instances, Holders <- s.holders, MaxLists <- s.lists, MaxFlips <- s.flips,
    MaxHand <- s.hand, MaxFaults <- s.faults,
    told <- written, left <- watch_left
View(s) == INSTANCE LivePresence WITH
    Members <- s.members, Calls <- s.calls, Stale <- s.stale, MaxTime <- s.time,
    MaxBeats <- s.beats, MaxStops <- s.stops, MaxFocuses <- s.focuses, MaxFailures <- s.failures,
    status <- view, heard <- beaten, left <- view_left

ASSUME LivesAssumption ==
    /\ Watch(WatchScope)!FlipsAssumption /\ Watch(WatchesScope)!FlipsAssumption
    /\ View(ViewScope)!TimesAssumption /\ View(ViewsScope)!TimesAssumption

watch_vars == <<status, stream, out, lease, watch, refused, pass, poll, signals, moves, written,
    watch_left>>
view_vars == <<view, now, presence, stint, focus, beaten, view_left, call>>
all_vars == <<part, watch_vars, vars, view_vars>>

On(p) == part = p /\ UNCHANGED part
OnWatch == On("watch") /\ UNCHANGED <<vars, view_vars>>
OnWatches == On("watches") /\ UNCHANGED <<vars, view_vars>>
OnSession == On("session") /\ UNCHANGED <<watch_vars, view_vars>>
OnView == On("view") /\ UNCHANGED <<watch_vars, vars>>
OnViews == On("views") /\ UNCHANGED <<watch_vars, vars>>

LivesInit ==
    /\ part \in {"watch", "watches", "session", "view", "views"}
    /\ IF part = "watches" THEN Watch(WatchesScope)!Init ELSE Watch(WatchScope)!Init
    /\ Init
    /\ IF part = "views" THEN View(ViewsScope)!Init ELSE View(ViewScope)!Init
LivesNext == \/ OnWatch /\ Watch(WatchScope)!Next
             \/ OnWatches /\ Watch(WatchesScope)!Next
             \/ OnSession /\ Next
             \/ OnView /\ View(ViewScope)!Next
             \/ OnViews /\ View(ViewsScope)!Next

FairWatch ==
    /\ WF_all_vars(OnWatch /\ \E m \in moves : Watch(WatchScope)!MoveRead(m))
    /\ WF_all_vars(OnWatch /\ \E m \in moves : Watch(WatchScope)!MoveWrite(m))
    /\ WF_all_vars(OnWatch /\ lease = "dead" /\ Watch(WatchScope)!LeaseExpires)
    /\ \A i \in WatchScope.instances :
         /\ WF_all_vars(OnWatch /\ Watch(WatchScope)!Pass(i))
         /\ WF_all_vars(OnWatch /\ Watch(WatchScope)!ReleaseWatches(i))
         /\ WF_all_vars(OnWatch /\ Watch(WatchScope)!HandleSignal(i))
         /\ WF_all_vars(OnWatch /\ Watch(WatchScope)!Follow(i))
         /\ WF_all_vars(OnWatch /\ Watch(WatchScope)!OfflineEnds(i))
FairWatches ==
    /\ WF_all_vars(OnWatches /\ lease = "dead" /\ Watch(WatchesScope)!LeaseExpires)
    /\ \A i \in WatchesScope.instances :
         /\ WF_all_vars(OnWatches /\ Watch(WatchesScope)!Pass(i))
         /\ WF_all_vars(OnWatches /\ Watch(WatchesScope)!ReleaseWatches(i))
FairSession ==
    /\ WF_all_vars(OnSession /\ \E s \in Sockets : Welcome(s))
    /\ WF_all_vars(OnSession /\ \E s \in Sockets : Subscribed(s))
    /\ WF_all_vars(OnSession /\ SilenceNoticed)
    /\ WF_all_vars(OnSession /\ RetryFires)
LivesSpec == LivesInit /\ [][LivesNext]_all_vars /\ FairWatch /\ FairWatches /\ FairSession

(* What LiveWatch and LivePresence state (EventSubSession: SessionSound, and HearsAgain
   for its part). *)
WatchSound ==
    IF part = "watches" THEN Watch(WatchesScope)!WatchSound ELSE Watch(WatchScope)!WatchSound
WatchSettles ==
    /\ []<>(part = "watch" => ~Watch(WatchScope)!EndMissed)
    /\ []<>(part = "watch" => ~Watch(WatchScope)!StartMissed)
    /\ <>[](part = "watches" => Watch(WatchesScope)!Alone)
SessionHears == <>[](part = "session" => Hearing)
PresencesSound ==
    IF part = "views" THEN View(ViewsScope)!PresencesSound ELSE View(ViewScope)!PresencesSound
=============================================================================
