-------------------------- MODULE EventSubSession ---------------------------
(***************************************************************************)
(* The session that hears a Twitch channel for one live: a WebSocket, the  *)
(* one that is to replace it when Twitch asks, a watchdog of silence, a    *)
(* retry, and what the Mod Views were told of the link.  LiveWatch starts  *)
(* and stops sessions; this module is the inside of one.                   *)
(*                                                                         *)
(* Every handler runs to its end, except the one of a welcome, which waits *)
(* for the subscriptions.  Sockets are numbered as they are created, 0 is  *)
(* none.  A socket says nothing any more once it is closed by this side.   *)
(***************************************************************************)
EXTENDS Naturals, Sequences, FiniteSets, SequencesExt

CONSTANTS
    MaxSockets,     \* bound: sockets created
    MaxLosses,      \* bound: sockets closed by the other side, or gone silent
    MaxAsked,       \* bound: reconnections and revocations Twitch sends
    MaxNotes,       \* bound: notifications sent
    SeenLimit,      \* notifications remembered
    Window,         \* latest notifications Twitch may deliver again
    EarlySilence    \* whether a socket may go silent before its welcome

ASSUME SocketsAssumption == MaxSockets \in Nat \ {0}
ASSUME BoundsAssumption == MaxLosses \in Nat /\ MaxAsked \in Nat /\ MaxNotes \in Nat
ASSUME SeenAssumption == SeenLimit \in Nat \ {0} /\ Window \in 0 .. SeenLimit

VARIABLES
    sock,       \* state of each socket
    previous,   \* the socket each was to replace
    cur,        \* this.socket
    pending,    \* socket opened on a reconnect
    waiting,    \* sockets whose welcome waits for the subscriptions
    heard,      \* sockets with subscriptions
    watchdog, retry, stopped,
    state,      \* last state told
    seen,       \* notifications remembered, oldest first
    told,       \* times each notification was told
    left        \* what may still happen

link  == <<sock, previous, cur, pending>>
clock == <<watchdog, retry>>
notes == <<seen, told>>
vars  == <<link, waiting, heard, clock, stopped, state, notes, left>>

Sockets == 1 .. MaxSockets
Sent == MaxNotes - left.notes

TypeOK ==
    /\ sock \in [Sockets -> {"unused", "opening", "up", "mute", "closed"}]
    /\ previous \in [Sockets -> 0 .. MaxSockets]
    /\ cur \in 0 .. MaxSockets /\ pending \in 0 .. MaxSockets
    /\ waiting \subseteq Sockets /\ heard \subseteq Sockets
    /\ watchdog \in BOOLEAN /\ retry \in BOOLEAN /\ stopped \in BOOLEAN
    /\ state \in {"connecting", "connected", "disconnected"}
    /\ Len(seen) <= SeenLimit
    /\ told \in [1 .. MaxNotes -> Nat]

Init ==
    /\ sock = [s \in Sockets |-> IF s = 1 THEN "opening" ELSE "unused"]
    /\ previous = [s \in Sockets |-> 0]
    /\ cur = 1 /\ pending = 0
    /\ waiting = {} /\ heard = {}
    /\ watchdog = FALSE /\ retry = FALSE /\ stopped = FALSE
    /\ state = "connecting"
    /\ seen = <<>> /\ told = [n \in 1 .. MaxNotes |-> 0]
    /\ left = [losses |-> MaxLosses, asked |-> MaxAsked, notes |-> MaxNotes]

Spend(what) == left[what] > 0 /\ left' = [left EXCEPT ![what] = @ - 1]

\* A frame counts if its socket is the current one, or is to replace it.
Listens(s) == sock[s] \in {"opening", "up"} /\ cur \in {s, previous[s]}

Shut(S) == [s \in Sockets |-> IF s \in S THEN "closed" ELSE sock[s]]
NextSocket(n) == sock[n] = "unused" /\ \A s \in 1 .. n - 1 : sock[s] # "unused"

ClearTimers == watchdog' = FALSE /\ retry' = FALSE
ShutSockets == sock' = Shut({cur, pending} \ {0})

Stop ==
    /\ stopped' = TRUE
    /\ ClearTimers
    /\ ShutSockets
    /\ cur' = 0 /\ pending' = 0

\* Mutant: a retry is only asked once the socket was connected.
RetryOfConnected == retry' = (retry \/ (~stopped /\ state = "connected"))
ScheduleRetry == retry' = (retry \/ ~stopped)

----------------------------------------------------------------------------
(* Frames *)

Welcome(s) ==
    /\ sock[s] = "opening"
    /\ IF Listens(s)
         THEN /\ watchdog' = TRUE
              /\ IF pending = s
                   THEN /\ cur' = s /\ pending' = 0
                        /\ sock' = [Shut({previous[s]} \ {0}) EXCEPT ![s] = "up"]
                        /\ heard' = heard \union {s}
                        /\ state' = "connected"
                        /\ UNCHANGED waiting
                   ELSE /\ sock' = [sock EXCEPT ![s] = "up"]
                        /\ waiting' = waiting \union {s}
                        /\ UNCHANGED <<cur, pending, heard, state>>
         ELSE /\ sock' = [sock EXCEPT ![s] = "up"]
              /\ UNCHANGED <<cur, pending, waiting, heard, watchdog, state>>
    /\ UNCHANGED <<previous, retry, stopped, notes, left>>

\* The session is refused everywhere when its seat is gone or its socket closed.
Subscribed(s) ==
    /\ s \in waiting
    /\ waiting' = waiting \ {s}
    /\ \/ heard' = heard \union {s} /\ UNCHANGED <<link, clock, stopped>>
       \/ sock[s] = "closed" /\ Stop /\ UNCHANGED <<previous, heard>>
    /\ state' = "connected"
    /\ UNCHANGED <<notes, left>>

SeatRefused(s) ==
    /\ s \in waiting
    /\ Spend("asked")
    /\ waiting' = waiting \ {s}
    /\ Stop
    /\ state' = "connected"     \* said after the stop said "disconnected"
    /\ UNCHANGED <<previous, heard, notes>>

\* Twitch asks once per socket.
ReconnectAsked(s) ==
    /\ sock[s] = "up" /\ Listens(s)
    /\ \A n \in Sockets : previous[n] # s
    /\ Spend("asked")
    /\ watchdog' = TRUE
    /\ \E n \in Sockets :
         /\ NextSocket(n)
         /\ sock' = [sock EXCEPT ![n] = "opening"]
         /\ previous' = [previous EXCEPT ![n] = cur]
         /\ pending' = n
    /\ UNCHANGED <<cur, waiting, heard, retry, stopped, state, notes>>

Revoked(s) ==
    /\ sock[s] = "up" /\ Listens(s)
    /\ Spend("asked")
    /\ Stop
    /\ state' = "disconnected"
    /\ UNCHANGED <<previous, waiting, heard, notes>>

\* Mutant: once full, nothing more is remembered.
RememberLast(n) == seen' = IF Len(seen) < SeenLimit THEN Append(seen, n) ELSE seen
Remember(n) == seen' = IF Len(seen) < SeenLimit THEN Append(seen, n) ELSE Append(Tail(seen), n)

Notified(s) ==
    /\ sock[s] = "up" /\ Listens(s)
    /\ watchdog' = TRUE
    /\ \E n \in 1 .. Sent + 1 :
         /\ n + Window > Sent
         /\ IF n > Sent THEN Spend("notes") ELSE UNCHANGED left
         /\ IF Contains(seen, n)
              THEN UNCHANGED notes
              ELSE Remember(n) /\ told' = [told EXCEPT ![n] = @ + 1]
    /\ UNCHANGED <<link, waiting, heard, retry, stopped, state>>

----------------------------------------------------------------------------
(* Ends of a socket, silence, retries *)

SocketCloses(s) ==
    /\ sock[s] \in {"opening", "up"}
    /\ Spend("losses")
    /\ sock' = Shut({s})
    /\ IF cur = s /\ ~stopped
         THEN state' = "disconnected" /\ ScheduleRetry
         ELSE UNCHANGED <<state, retry>>
    /\ UNCHANGED <<previous, cur, pending, waiting, heard, watchdog, stopped, notes>>

FallsSilent(s) ==
    /\ sock[s] = "up" \/ (EarlySilence /\ sock[s] = "opening")
    /\ Spend("losses")
    /\ sock' = [sock EXCEPT ![s] = "mute"]
    /\ UNCHANGED <<previous, cur, pending, waiting, heard, clock, stopped, state, notes>>

\* A socket that is up speaks within the keepalive window.
SilenceNoticed ==
    /\ watchdog
    /\ \A s \in Sockets : sock[s] = "up" => ~Listens(s)
    /\ watchdog' = FALSE
    /\ sock' = Shut({cur} \ {0})
    /\ cur' = 0
    /\ state' = "disconnected"
    /\ ScheduleRetry
    /\ UNCHANGED <<previous, pending, waiting, heard, stopped, notes, left>>

RetryFires ==
    /\ retry
    /\ retry' = FALSE
    /\ stopped' = FALSE
    /\ \E n \in Sockets :
         /\ NextSocket(n)
         /\ sock' = [sock EXCEPT ![n] = "opening"]
         /\ cur' = n
    /\ state' = "connecting"
    /\ UNCHANGED <<previous, pending, waiting, heard, watchdog, notes, left>>

\* The watcher lets the live go.
StopAsked ==
    /\ Spend("asked")
    /\ Stop
    /\ state' = "disconnected"
    /\ UNCHANGED <<previous, waiting, heard, notes>>

Next ==
    \/ \E s \in Sockets :
         \/ Welcome(s) \/ Subscribed(s) \/ SeatRefused(s)
         \/ ReconnectAsked(s) \/ Revoked(s) \/ Notified(s)
         \/ SocketCloses(s) \/ FallsSilent(s)
    \/ SilenceNoticed
    \/ RetryFires
    \/ StopAsked

Spec == Init /\ [][Next]_vars

(* Twitch welcomes a socket that opens, queries are answered, timers fire. *)
FairSpec ==
    /\ Spec
    /\ WF_vars(\E s \in Sockets : Welcome(s))
    /\ WF_vars(\E s \in Sockets : Subscribed(s))
    /\ WF_vars(SilenceNoticed)
    /\ WF_vars(RetryFires)

----------------------------------------------------------------------------
(* Properties *)

\* A session that was stopped, by the watcher, a revocation or a refusal, whatever was under way,
\* has no socket, no watchdog and no retry: nothing may wake it up again.
StoppedIsQuiet == stopped => cur = 0 /\ pending = 0 /\ ~watchdog /\ ~retry

\* A notification delivered again, by the same socket or by the one that replaces it, is told once.
ToldOnce == \A n \in 1 .. MaxNotes : told[n] <= 1

\* Sockets closed, silent, replaced or never welcomed: in the end the session hears its channel
\* again, or was stopped.
Hearing == stopped \/ (cur # 0 /\ sock[cur] = "up" /\ cur \in heard)
HearsAgain == <>[]Hearing

\* Says EventSubSession.watch: "Silence past the keepalive window means a dead socket".  A
\* current socket that went silent is given up.
SilenceHeals == \A s \in Sockets : cur = s /\ sock[s] = "mute" ~> cur # s

\* Says LiveWatcher.announceConnection: "Tell every open Mod View of a live how the platform link
\* stands".  A stopped session is not said to be connected.
ToldAsIs == stopped => state # "connected"

\* Says EventSubSession.stop: "Close the session".  No socket of a stopped session stays open.
StopCloses == stopped => \A s \in Sockets : sock[s] \in {"unused", "closed"}

\* Whatever socket replaces another, a notification is told once and a stopped session says and
\* starts nothing.
SessionSound ==
    /\ TypeOK
    /\ StoppedIsQuiet
    /\ ToldOnce
=============================================================================
