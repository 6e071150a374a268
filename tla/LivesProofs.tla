----------------------------- MODULE LivesProofs -----------------------------
(* Proofs about what follows a live.  EventSubSession: for any number of sockets,
   losses, requests of Twitch and notifications, and any window no larger than what
   is remembered.  LiveWatch: for any number of instances, flips of the stream,
   moves by hand and faults.  LivePresence: for any number of members, calls, beats,
   stops, focuses and failures, and any silence tolerated. *)
EXTENDS Lives, SequenceTheorems, WellFoundedInduction, TLAPS

-----------------------------------------------------------------------------
(* EventSubSession *)

Opened(s) == sock[s] \in {"opening", "up", "mute"}

\* A socket that replaces none is the current one, as long as it is open: a retry finds the
\* current socket closed, or one that replaced another.
LinksOK ==
    /\ \A s \in Sockets : previous[s] = 0 /\ Opened(s) => s = cur
    /\ retry => cur = 0 \/ sock[cur] = "closed" \/ previous[cur] # 0
    /\ pending # 0 => previous[pending] # 0

\* Notifications are told in the order they are sent, and the latest are remembered.
NotesOK ==
    /\ left \in [losses : Nat, asked : Nat, notes : Nat]
    /\ left.notes <= MaxNotes
    /\ seen \in Seq(Nat)
    /\ Len(seen) = IF Sent < SeenLimit THEN Sent ELSE SeenLimit
    /\ \A i \in 1 .. Len(seen) : seen[i] = Sent - Len(seen) + i
    /\ \A n \in 1 .. MaxNotes : told[n] = IF n <= Sent THEN 1 ELSE 0

SessionInv == TypeOK /\ LinksOK /\ StoppedIsQuiet /\ NotesOK

LEMMA SocketsNat == Sockets \subseteq Nat \ {0} /\ 0 \notin Sockets
                    /\ 0 .. MaxSockets = Sockets \union {0}
BY SocketsAssumption DEF Sockets

\* Nobody listens to a session that has no current socket: whoever listens is that socket, or
\* replaces one.
LEMMA ListensTo ==
  ASSUME TypeOK, LinksOK, NEW s \in Sockets, Listens(s)
  PROVE  cur # 0
BY SocketsNat DEF LinksOK, Listens, Opened, TypeOK

\* Stopping shuts the current socket and the one to come: no socket is left that replaces none.
LEMMA StopSound ==
  ASSUME TypeOK, LinksOK, Stop, previous' = previous
  PROVE  /\ sock' \in [Sockets -> {"unused", "opening", "up", "mute", "closed"}]
         /\ cur' \in 0 .. MaxSockets /\ pending' \in 0 .. MaxSockets
         /\ watchdog' \in BOOLEAN /\ retry' \in BOOLEAN /\ stopped' \in BOOLEAN
         /\ LinksOK' /\ StoppedIsQuiet'
<1> USE SocketsNat
<1>1. /\ cur' = 0 /\ pending' = 0 /\ ~watchdog' /\ ~retry' /\ stopped'
      /\ watchdog' \in BOOLEAN /\ retry' \in BOOLEAN /\ stopped' \in BOOLEAN
  BY DEF Stop, ClearTimers
<1>2. sock' = [s \in Sockets |-> IF s \in {cur, pending} \ {0} THEN "closed" ELSE sock[s]]
  BY DEF Stop, ShutSockets, Shut
<1>3. sock' \in [Sockets -> {"unused", "opening", "up", "mute", "closed"}]
  BY <1>2 DEF TypeOK
<1>4. \A s \in Sockets : ~(previous[s] = 0 /\ Opened(s)')
  BY <1>2 DEF LinksOK, Opened, TypeOK
<1>5. LinksOK'
  BY <1>1, <1>4 DEF LinksOK
<1>6. QED BY <1>1, <1>3, <1>5 DEF StoppedIsQuiet

\* Notes that nothing touches.
LEMMA NotesKept ==
  ASSUME NotesOK, UNCHANGED notes, UNCHANGED left \/ Spend("asked") \/ Spend("losses")
  PROVE  NotesOK'
<1>1. left' \in [losses : Nat, asked : Nat, notes : Nat] /\ left'.notes = left.notes
  BY DEF NotesOK, Spend
<1>2. Sent' = Sent
  BY <1>1 DEF Sent
<1>3. seen' = seen /\ told' = told
  BY DEF notes
<1>4. QED BY <1>1, <1>2, <1>3 DEF NotesOK

\* What is sent anew is told, and takes the place of the oldest.
LEMMA NotesTold ==
  ASSUME TypeOK, NotesOK, Spend("notes"), Remember(Sent + 1),
         told' = [told EXCEPT ![Sent + 1] = @ + 1], Sent + 1 \in 1 .. MaxNotes
  PROVE  NotesOK' /\ Len(seen') <= SeenLimit /\ told' \in [1 .. MaxNotes -> Nat]
<1> USE BoundsAssumption, SeenAssumption
<1>1. left' \in [losses : Nat, asked : Nat, notes : Nat] /\ left'.notes = left.notes - 1
  <2>1. left \in [losses : Nat, asked : Nat, notes : Nat]
    BY DEF NotesOK
  <2>2. left.notes > 0 /\ left' = [left EXCEPT !.notes = left.notes - 1]
    BY DEF Spend
  <2>3. left.notes - 1 \in Nat
    BY <2>1, <2>2
  <2>4. QED BY <2>1, <2>2, <2>3
<1>2. Sent \in Nat /\ Sent' = Sent + 1
  <2>1. left.notes \in Nat /\ left.notes <= MaxNotes
    BY DEF NotesOK
  <2>2. Sent = MaxNotes - left.notes /\ Sent' = MaxNotes - left'.notes
    BY DEF Sent
  <2>3. QED BY <1>1, <2>1, <2>2
<1> DEFINE n == Sent
<1>3. CASE Len(seen) < SeenLimit
  <2>1. seen' = Append(seen, n + 1) /\ Len(seen) = n
    BY <1>2, <1>3 DEF Remember, NotesOK
  <2>2. n \in Nat /\ seen \in Seq(Nat)
    BY <1>2 DEF NotesOK
  <2>3. seen' \in Seq(Nat) /\ Len(seen') = n + 1
    <3> HIDE DEF n
    <3>1. QED BY <2>1, <2>2
  <2>4. \A i \in 1 .. n : seen[i] = i
    <3>1. \A i \in 1 .. Len(seen) : seen[i] = Sent - Len(seen) + i
      BY DEF NotesOK
    <3>2. QED BY <2>1, <2>2, <3>1
  <2>5. \A i \in 1 .. n + 1 : seen'[i] = i
    <3> HIDE DEF n
    <3>1. seen'[n + 1] = n + 1
      BY <2>1, <2>2
    <3>2. ASSUME NEW i \in 1 .. n PROVE seen'[i] = i
      <4>1. seen'[i] = seen[i]
        BY <2>1, <2>2
      <4>2. QED BY <2>4, <4>1
    <3>3. QED BY <2>2, <3>1, <3>2
  <2>6. \A m \in 1 .. MaxNotes : told'[m] = IF m <= n + 1 THEN 1 ELSE 0
    BY <1>2 DEF NotesOK, TypeOK
  <2>7. told' \in [1 .. MaxNotes -> Nat]
    BY DEF TypeOK
  <2>8. Sent' = n + 1 /\ n + 1 <= SeenLimit
    BY <1>2, <1>3, <2>1, <2>2
  <2> HIDE DEF n
  <2>9. left'.notes <= MaxNotes
    BY <1>1 DEF NotesOK
  <2>10. Len(seen') = IF Sent' < SeenLimit THEN Sent' ELSE SeenLimit
    BY <2>2, <2>3, <2>8
  <2>11. \A i \in 1 .. Len(seen') : seen'[i] = Sent' - Len(seen') + i
    BY <2>2, <2>3, <2>5, <2>8
  <2>12. \A m \in 1 .. MaxNotes : told'[m] = IF m <= Sent' THEN 1 ELSE 0
    BY <2>6, <2>8
  <2>13. NotesOK'
    BY <1>1, <2>3, <2>9, <2>10, <2>11, <2>12 DEF NotesOK
  <2>14. Len(seen') <= SeenLimit
    BY <2>2, <2>3, <2>8
  <2>15. QED BY <2>7, <2>13, <2>14
<1>4. CASE ~(Len(seen) < SeenLimit)
  <2>1. seen' = Append(Tail(seen), n + 1) /\ Len(seen) = SeenLimit /\ SeenLimit <= n
    BY <1>2, <1>4 DEF Remember, NotesOK
  <2>2. seen' \in Seq(Nat) /\ Len(seen') = SeenLimit
    BY <1>2, <2>1 DEF NotesOK
  <2>3. \A i \in 1 .. SeenLimit : seen'[i] = n + 1 - SeenLimit + i
    <3>1. seen \in Seq(Nat) /\ seen # <<>> /\ Len(Tail(seen)) = SeenLimit - 1
          /\ Tail(seen) \in Seq(Nat)
      BY <2>1 DEF NotesOK
    <3>2. \A i \in 1 .. SeenLimit - 1 : Tail(seen)[i] = seen[i + 1]
      BY <2>1, <3>1
    <3>3. \A i \in 1 .. SeenLimit : seen[i] = n - SeenLimit + i
      BY <2>1 DEF NotesOK
    <3>4. ASSUME NEW i \in 1 .. SeenLimit - 1 PROVE seen'[i] = n + 1 - SeenLimit + i
      <4>1. seen'[i] = Tail(seen)[i]
        BY <1>2, <2>1, <3>1
      <4>2. i + 1 \in 1 .. SeenLimit
        OBVIOUS
      <4>3. seen'[i] = n - SeenLimit + (i + 1)
        BY <3>2, <3>3, <4>1, <4>2
      <4>4. QED BY <1>2, <4>3
    <3>5. seen'[SeenLimit] = n + 1
      BY <1>2, <2>1, <3>1
    <3>6. QED BY <1>2, <3>4, <3>5
  <2>4. \A m \in 1 .. MaxNotes : told'[m] = IF m <= n + 1 THEN 1 ELSE 0
    BY <1>2 DEF NotesOK, TypeOK
  <2>5. told' \in [1 .. MaxNotes -> Nat]
    BY DEF TypeOK
  <2> HIDE DEF n
  <2>6. n \in Nat /\ Sent' = n + 1 /\ SeenLimit <= n
    BY <1>2, <2>1 DEF n
  <2>7. left'.notes <= MaxNotes
    BY <1>1 DEF NotesOK
  <2>8. Len(seen') = IF Sent' < SeenLimit THEN Sent' ELSE SeenLimit
    BY <2>2, <2>6
  <2>9. \A i \in 1 .. Len(seen') : seen'[i] = Sent' - Len(seen') + i
    BY <2>2, <2>3, <2>6
  <2>10. \A m \in 1 .. MaxNotes : told'[m] = IF m <= Sent' THEN 1 ELSE 0
    BY <2>4, <2>6
  <2>11. NotesOK'
    BY <1>1, <2>2, <2>7, <2>8, <2>9, <2>10 DEF NotesOK
  <2>12. QED BY <2>2, <2>5, <2>11
<1>5. QED BY <1>3, <1>4

\* A notification delivered again within the window is one remembered.
LEMMA NotesSeen ==
  ASSUME NotesOK, NEW n \in 1 .. Sent, n + Window > Sent
  PROVE  Contains(seen, n)
<1> USE SeenAssumption, BoundsAssumption
<1>1. Sent \in Nat
  BY DEF NotesOK, Sent
<1> DEFINE i == n - Sent + Len(seen)
<1>2. Len(seen) \in Nat /\ Len(seen) = IF Sent < SeenLimit THEN Sent ELSE SeenLimit
  BY <1>1 DEF NotesOK
<1>3. i \in 1 .. Len(seen)
  BY <1>1, <1>2
<1>4. seen[i] = Sent - Len(seen) + i
  BY <1>3 DEF NotesOK
<1>5. Sent - Len(seen) + i = n
  BY <1>1, <1>2
<1>6. seen[i] = n
  BY <1>4, <1>5, Zenon
<1> HIDE DEF i
<1>7. QED BY <1>3, <1>6 DEF Contains

-----------------------------------------------------------------------------
\* SessionStep by step.

LEMMA WelcomeSound ==
  ASSUME SessionInv, NEW s \in Sockets, Welcome(s)
  PROVE  SessionInv'
<1> USE SocketsNat
<1>0. TypeOK /\ LinksOK /\ StoppedIsQuiet /\ NotesOK /\ sock[s] = "opening"
  BY DEF SessionInv, Welcome
<1>1. UNCHANGED <<previous, retry, stopped, notes, left>>
  BY DEF Welcome
<1>2. NotesOK' /\ Len(seen') <= SeenLimit /\ told' \in [1 .. MaxNotes -> Nat]
  BY <1>0, <1>1, NotesKept DEF notes, TypeOK
<1>3. CASE Listens(s) /\ pending = s
  <2>1. /\ watchdog' = TRUE /\ cur' = s /\ pending' = 0 /\ heard' = heard \union {s}
        /\ sock' = [Shut({previous[s]} \ {0}) EXCEPT ![s] = "up"] /\ state' = "connected"
        /\ waiting' = waiting
    BY <1>3 DEF Welcome
  <2>2. sock' = [d \in Sockets |-> IF d = s THEN "up" ELSE IF d \in {previous[s]} \ {0}
                                   THEN "closed" ELSE sock[d]]
    BY <2>1 DEF Shut
  <2>3. previous[s] # 0 /\ cur \in {s, previous[s]} /\ cur # 0 /\ ~stopped
    BY <1>0, <1>3, ListensTo DEF LinksOK, Listens, StoppedIsQuiet
  <2>4. LinksOK'
    <3>1. ASSUME NEW d \in Sockets, previous[d] = 0, Opened(d)' PROVE FALSE
      <4>1. d # s /\ d # previous[s] /\ Opened(d)
        BY <2>2, <2>3, <3>1 DEF Opened
      <4>2. d = cur
        BY <1>0, <3>1, <4>1 DEF LinksOK
      <4>3. QED BY <2>3, <4>1, <4>2
    <3>2. QED BY <1>1, <2>1, <2>3, <3>1 DEF LinksOK
  <2>5. StoppedIsQuiet'
    BY <1>1, <2>3 DEF StoppedIsQuiet
  <2>6. TypeOK'
    <3>1. sock' \in [Sockets -> {"unused", "opening", "up", "mute", "closed"}]
      BY <1>0, <2>2 DEF TypeOK
    <3>2. cur' \in 0 .. MaxSockets /\ pending' \in 0 .. MaxSockets
      BY <2>1
    <3>3. heard' \subseteq Sockets /\ waiting' \subseteq Sockets /\ watchdog' \in BOOLEAN
          /\ state' \in {"connecting", "connected", "disconnected"}
      BY <1>0, <2>1 DEF TypeOK
    <3>4. QED BY <1>0, <1>1, <1>2, <3>1, <3>2, <3>3 DEF TypeOK
  <2>7. QED BY <1>2, <2>4, <2>5, <2>6 DEF SessionInv
<1>4. CASE ~(Listens(s) /\ pending = s)
  <2>1. /\ sock' = [sock EXCEPT ![s] = "up"] /\ UNCHANGED <<cur, pending, heard, state>>
        /\ waiting' \in {waiting, waiting \union {s}}
        /\ watchdog' = watchdog \/ (watchdog' = TRUE /\ Listens(s))
    BY <1>4 DEF Welcome
  <2>2. TypeOK'
    BY <1>0, <1>1, <1>2, <2>1 DEF TypeOK
  <2>3. LinksOK'
    BY <1>0, <1>1, <2>1 DEF LinksOK, Opened, TypeOK
  <2>4. StoppedIsQuiet'
    BY <1>0, <1>1, <2>1, ListensTo DEF StoppedIsQuiet
  <2>5. QED BY <1>2, <2>2, <2>3, <2>4 DEF SessionInv
<1>5. QED BY <1>3, <1>4

\* A stop, whoever asks for it, and what is said then.
LEMMA StopInv ==
  ASSUME SessionInv, Stop, UNCHANGED <<previous, notes>>, heard' = heard,
         waiting' \subseteq waiting,
         state' \in {"connected", "disconnected"}, UNCHANGED left \/ Spend("asked")
  PROVE  SessionInv'
<1>1. TypeOK /\ LinksOK /\ NotesOK
  BY DEF SessionInv
<1>2. NotesOK' /\ Len(seen') <= SeenLimit /\ told' \in [1 .. MaxNotes -> Nat]
  BY <1>1, NotesKept DEF notes, TypeOK
<1>3. TypeOK'
  BY <1>1, <1>2, StopSound DEF TypeOK
<1>4. QED BY <1>1, <1>2, <1>3, StopSound DEF SessionInv

LEMMA SessionStep == SessionInv /\ [Next]_vars => SessionInv'
<1> SUFFICES ASSUME SessionInv, [Next]_vars PROVE SessionInv'
  OBVIOUS
<1> USE SocketsNat
<1>0. TypeOK /\ LinksOK /\ StoppedIsQuiet /\ NotesOK
  BY DEF SessionInv
<1>1. ASSUME NEW s \in Sockets, Welcome(s) PROVE SessionInv'
  BY <1>1, WelcomeSound
<1>2. ASSUME NEW s \in Sockets, Subscribed(s) PROVE SessionInv'
  <2>1. /\ waiting' = waiting \ {s} /\ state' = "connected" /\ UNCHANGED <<notes, left>>
        /\ s \in waiting
    BY <1>2 DEF Subscribed
  <2>2. CASE heard' = heard \union {s} /\ UNCHANGED <<link, clock, stopped>>
    <3>1. NotesOK' /\ Len(seen') <= SeenLimit /\ told' \in [1 .. MaxNotes -> Nat]
      BY <1>0, <2>1, NotesKept DEF notes, TypeOK
    <3>2. UNCHANGED <<sock, previous, cur, pending, watchdog, retry, stopped>>
      BY <2>2 DEF link, clock
    <3>3. TypeOK'
      BY <1>0, <2>1, <2>2, <3>1, <3>2 DEF TypeOK
    <3>4. LinksOK' /\ StoppedIsQuiet'
      BY <1>0, <3>2 DEF LinksOK, Opened, StoppedIsQuiet
    <3>5. QED BY <3>1, <3>3, <3>4 DEF SessionInv
  <2>3. CASE Stop /\ UNCHANGED <<previous, heard>>
    BY <2>1, <2>3, StopInv
  <2>4. QED BY <1>2, <2>2, <2>3 DEF Subscribed
<1>3. ASSUME NEW s \in Sockets, SeatRefused(s) PROVE SessionInv'
  BY <1>3, StopInv DEF SeatRefused
<1>4. ASSUME NEW s \in Sockets, ReconnectAsked(s) PROVE SessionInv'
  <2>1. /\ Listens(s) /\ Spend("asked") /\ watchdog' = TRUE
        /\ UNCHANGED <<cur, waiting, heard, retry, stopped, state, notes>>
    BY <1>4 DEF ReconnectAsked
  <2>2. PICK n \in Sockets : /\ NextSocket(n) /\ sock' = [sock EXCEPT ![n] = "opening"]
                             /\ previous' = [previous EXCEPT ![n] = cur] /\ pending' = n
    BY <1>4 DEF ReconnectAsked
  <2>3. cur # 0
    BY <1>0, <2>1, ListensTo
  <2>4. NotesOK' /\ Len(seen') <= SeenLimit /\ told' \in [1 .. MaxNotes -> Nat]
    BY <1>0, <2>1, NotesKept DEF notes, TypeOK
  <2>5. TypeOK'
    BY <1>0, <2>1, <2>2, <2>4 DEF TypeOK
  <2>6. LinksOK'
    <3>1. sock[n] = "unused"
      BY <2>2 DEF NextSocket
    <3>2. \A d \in Sockets : previous'[d] = 0 /\ Opened(d)' => d = cur
      BY <1>0, <2>2, <2>3 DEF LinksOK, Opened, TypeOK
    <3>3. retry => sock'[cur] = "closed" \/ previous'[cur] # 0
      <4>1. cur \in Sockets
        BY <1>0, <2>3 DEF TypeOK
      <4>2. QED BY <1>0, <2>2, <2>3, <4>1 DEF LinksOK, TypeOK
    <3>4. previous'[n] # 0
      BY <1>0, <2>2, <2>3 DEF TypeOK
    <3>5. QED BY <2>1, <2>2, <3>2, <3>3, <3>4 DEF LinksOK
  <2>7. StoppedIsQuiet'
    BY <1>0, <2>1, <2>3 DEF StoppedIsQuiet
  <2>8. QED BY <2>4, <2>5, <2>6, <2>7 DEF SessionInv
<1>5. ASSUME NEW s \in Sockets, Revoked(s) PROVE SessionInv'
  BY <1>5, StopInv DEF Revoked
<1>6. ASSUME NEW s \in Sockets, Notified(s) PROVE SessionInv'
  <2>1. /\ Listens(s) /\ watchdog' = TRUE
        /\ UNCHANGED <<sock, previous, cur, pending, waiting, heard, retry, stopped, state>>
    BY <1>6 DEF Notified, link
  <2>2. cur # 0 /\ ~stopped
    BY <1>0, <2>1, ListensTo DEF StoppedIsQuiet
  <2>3. NotesOK' /\ Len(seen') <= SeenLimit /\ told' \in [1 .. MaxNotes -> Nat]
    <3>1. PICK n \in 1 .. Sent + 1 :
            /\ n + Window > Sent
            /\ IF n > Sent THEN Spend("notes") ELSE UNCHANGED left
            /\ IF Contains(seen, n) THEN UNCHANGED notes
               ELSE Remember(n) /\ told' = [told EXCEPT ![n] = @ + 1]
      BY <1>6 DEF Notified
    <3>2. Sent \in Nat
      BY <1>0, BoundsAssumption DEF NotesOK, Sent
    <3>3. CASE n > Sent
      <4>1. n = Sent + 1 /\ Spend("notes")
        BY <3>1, <3>2, <3>3
      <4>2. ~Contains(seen, n)
        BY <1>0, <3>2, <4>1 DEF Contains, NotesOK
      <4>3. Sent + 1 \in 1 .. MaxNotes
        BY <1>0, <3>2, <4>1, BoundsAssumption DEF Spend, NotesOK, Sent
      <4>4. QED BY <1>0, <3>1, <4>1, <4>2, <4>3, NotesTold
    <3>4. CASE ~(n > Sent)
      <4>1. n \in 1 .. Sent
        BY <3>2, <3>4
      <4>2. UNCHANGED left /\ UNCHANGED notes
        BY <1>0, <3>1, <3>4, <4>1, NotesSeen
      <4>3. QED BY <1>0, <4>2, NotesKept DEF notes, TypeOK
    <3>5. QED BY <3>3, <3>4
  <2>4. TypeOK'
    BY <1>0, <2>1, <2>3 DEF TypeOK
  <2>5. LinksOK' /\ StoppedIsQuiet'
    BY <1>0, <2>1, <2>2 DEF LinksOK, Opened, StoppedIsQuiet
  <2>6. QED BY <2>3, <2>4, <2>5 DEF SessionInv
<1>7. ASSUME NEW s \in Sockets, SocketCloses(s) PROVE SessionInv'
  <2>1. /\ Spend("losses") /\ sock' = [d \in Sockets |-> IF d \in {s} THEN "closed" ELSE sock[d]]
        /\ UNCHANGED <<previous, cur, pending, waiting, heard, watchdog, stopped, notes>>
    BY <1>7 DEF SocketCloses, Shut
  <2>2. \/ cur = s /\ ~stopped /\ state' = "disconnected" /\ retry' \in BOOLEAN
        \/ UNCHANGED <<state, retry>>
    BY <1>7 DEF SocketCloses, ScheduleRetry
  <2>3. NotesOK' /\ Len(seen') <= SeenLimit /\ told' \in [1 .. MaxNotes -> Nat]
    BY <1>0, <2>1, NotesKept DEF notes, TypeOK
  <2>4. TypeOK'
    BY <1>0, <2>1, <2>2, <2>3 DEF TypeOK
  <2>5. LinksOK'
    BY <1>0, <2>1, <2>2 DEF LinksOK, Opened, TypeOK
  <2>6. StoppedIsQuiet'
    BY <1>0, <2>1, <2>2 DEF StoppedIsQuiet
  <2>7. QED BY <2>3, <2>4, <2>5, <2>6 DEF SessionInv
<1>8. ASSUME NEW s \in Sockets, FallsSilent(s) PROVE SessionInv'
  <2>1. /\ Spend("losses") /\ sock' = [sock EXCEPT ![s] = "mute"] /\ sock[s] \in {"up", "opening"}
        /\ UNCHANGED <<previous, cur, pending, waiting, heard>>
        /\ UNCHANGED <<watchdog, retry, stopped, state, notes>>
    BY <1>8 DEF FallsSilent, clock
  <2>2. NotesOK' /\ Len(seen') <= SeenLimit /\ told' \in [1 .. MaxNotes -> Nat]
    BY <1>0, <2>1, NotesKept DEF notes, TypeOK
  <2>3. TypeOK'
    BY <1>0, <2>1, <2>2 DEF TypeOK
  <2>4. LinksOK' /\ StoppedIsQuiet'
    BY <1>0, <2>1 DEF LinksOK, Opened, TypeOK, StoppedIsQuiet
  <2>5. QED BY <2>2, <2>3, <2>4 DEF SessionInv
<1>9. CASE SilenceNoticed
  <2>1. /\ watchdog /\ watchdog' = FALSE /\ cur' = 0 /\ state' = "disconnected"
        /\ sock' = [d \in Sockets |-> IF d \in {cur} \ {0} THEN "closed" ELSE sock[d]]
        /\ UNCHANGED <<previous, pending, waiting, heard, stopped, notes, left>>
        /\ retry' = (retry \/ ~stopped)
    BY <1>9 DEF SilenceNoticed, Shut, ScheduleRetry
  <2>2. NotesOK' /\ Len(seen') <= SeenLimit /\ told' \in [1 .. MaxNotes -> Nat]
    BY <1>0, <2>1, NotesKept DEF notes, TypeOK
  <2>3. TypeOK'
    <3>1. sock' \in [Sockets -> {"unused", "opening", "up", "mute", "closed"}]
      BY <1>0, <2>1 DEF TypeOK
    <3>2. retry' \in BOOLEAN
      BY <2>1, Zenon
    <3>3. QED BY <1>0, <2>1, <2>2, <3>1, <3>2 DEF TypeOK
  <2>4. LinksOK'
    BY <1>0, <2>1 DEF LinksOK, Opened, TypeOK
  <2>5. StoppedIsQuiet'
    BY <1>0, <2>1 DEF StoppedIsQuiet
  <2>6. QED BY <2>2, <2>3, <2>4, <2>5 DEF SessionInv
<1>10. CASE RetryFires
  <2>1. /\ retry /\ retry' = FALSE /\ stopped' = FALSE /\ state' = "connecting"
        /\ UNCHANGED <<previous, pending, waiting, heard, watchdog, notes, left>>
    BY <1>10 DEF RetryFires
  <2>2. PICK n \in Sockets : sock' = [sock EXCEPT ![n] = "opening"] /\ cur' = n
    BY <1>10 DEF RetryFires
  <2>3. NotesOK' /\ Len(seen') <= SeenLimit /\ told' \in [1 .. MaxNotes -> Nat]
    BY <1>0, <2>1, NotesKept DEF notes, TypeOK
  <2>4. TypeOK'
    BY <1>0, <2>1, <2>2, <2>3 DEF TypeOK
  <2>5. LinksOK'
    <3>1. ASSUME NEW d \in Sockets, previous[d] = 0, Opened(d)', d # n PROVE FALSE
      <4>1. Opened(d)
        BY <1>0, <2>2, <3>1 DEF Opened, TypeOK
      <4>2. d = cur
        BY <1>0, <3>1, <4>1 DEF LinksOK
      <4>3. QED BY <1>0, <2>1, <3>1, <4>1, <4>2 DEF LinksOK, Opened
    <3>2. QED BY <1>0, <2>1, <2>2, <3>1 DEF LinksOK
  <2>6. StoppedIsQuiet'
    BY <2>1 DEF StoppedIsQuiet
  <2>7. QED BY <2>3, <2>4, <2>5, <2>6 DEF SessionInv
<1>11. CASE StopAsked
  BY <1>11, StopInv DEF StopAsked
<1>12. CASE UNCHANGED vars
  <2>1. /\ UNCHANGED <<sock, previous, cur, pending, waiting, heard, watchdog, retry, stopped,
                       state, notes, left>>
    BY <1>12 DEF vars, link, clock
  <2>2. NotesOK' /\ Len(seen') <= SeenLimit /\ told' \in [1 .. MaxNotes -> Nat]
    BY <1>0, <2>1, NotesKept DEF notes, TypeOK
  <2>3. QED BY <1>0, <2>1, <2>2 DEF SessionInv, TypeOK, LinksOK, Opened, StoppedIsQuiet
<1>13. QED BY <1>1, <1>2, <1>3, <1>4, <1>5, <1>6, <1>7, <1>8, <1>9, <1>10, <1>11, <1>12 DEF Next

LEMMA SessionInitial == Init => SessionInv
<1> SUFFICES ASSUME Init PROVE SessionInv
  OBVIOUS
<1> USE SocketsNat, SocketsAssumption, BoundsAssumption, SeenAssumption
<1>1. TypeOK /\ StoppedIsQuiet
  <2>1. 1 \in Sockets
    BY DEF Sockets
  <2>2. /\ sock \in [Sockets -> {"unused", "opening", "up", "mute", "closed"}]
        /\ previous \in [Sockets -> 0 .. MaxSockets]
        /\ told \in [1 .. MaxNotes -> Nat] /\ Len(seen) <= SeenLimit
    BY DEF Init
  <2>3. QED BY <2>1, <2>2 DEF Init, TypeOK, StoppedIsQuiet
<1>2. LinksOK
  BY DEF Init, LinksOK, Opened, Sockets
<1>3. left = [losses |-> MaxLosses, asked |-> MaxAsked, notes |-> MaxNotes] /\ Sent = 0
  BY DEF Init, Sent
<1>4. NotesOK
  BY <1>3 DEF Init, NotesOK
<1>5. QED BY <1>1, <1>2, <1>4 DEF SessionInv

\* The inductive invariant: a socket that replaces none is the current one while it is open, and
\* what is remembered are the latest notifications, each told once.
THEOREM SessionInvariant == Spec => []SessionInv
<1>1. QED BY SessionStep, SessionInitial, PTL DEF Spec

\* SessionSound: whatever sockets close, fall silent or replace one another, EventSubSession tells
\* a notification once and a session it stopped has no socket, watchdog nor retry to wake it up.
THEOREM SessionHolds == Spec => []SessionSound
<1>1. SessionInv => SessionSound
  <2> SUFFICES ASSUME SessionInv PROVE SessionSound
    OBVIOUS
  <2>1. TypeOK /\ StoppedIsQuiet
    BY DEF SessionInv
  <2>2. ToldOnce
    BY DEF SessionInv, NotesOK, ToldOnce
  <2>3. QED BY <2>1, <2>2 DEF SessionSound
<1>2. QED BY <1>1, SessionInvariant, PTL

-----------------------------------------------------------------------------
(* LiveWatch, in any scope *)

\* The moves of a live.
WatchMoves(s) ==
    [by : Watch(s)!Movers, to : Watch(s)!Statuses, saw : Watch(s)!Statuses \union {"unread"}]
USE DEF WatchMoves

\* What was written is what the status went through.
WatchHistory ==
    /\ written["ANNOUNCED"] = 0
    /\ written["LIVE"] = IF status \in {"LIVE", "ENDED"} THEN 1 ELSE 0
    /\ written["ENDED"] = IF status = "ENDED" THEN 1 ELSE 0
    /\ written["CANCELLED"] = IF status = "CANCELLED" THEN 1 ELSE 0
\* A move that has read the status goes where that status may go.
WatchMovesAllowed(s) == \A m \in moves : m.saw # "unread" => m.to \in Watch(s)!Allowed[m.saw]
\* Each flip of the stream is signalled once.
WatchBounded(s) ==
    /\ DOMAIN watch_left = {"flips", "lists", "hand", "faults"} /\ watch_left.flips \in Nat
    /\ \A i \in s.instances : Len(signals[i]) + watch_left.flips <= s.flips

WatchInv(s) == Watch(s)!TypeOK /\ WatchHistory /\ WatchMovesAllowed(s) /\ WatchBounded(s)

WatchWays(s) ==
    /\ Watch(s)!Allowed["ANNOUNCED"] = {"LIVE", "CANCELLED"}
    /\ Watch(s)!Allowed["LIVE"] = {"ENDED"}
    /\ Watch(s)!Allowed["ENDED"] = {} /\ Watch(s)!Allowed["CANCELLED"] = {}

LEMMA WatchAllowedWays == ASSUME NEW s PROVE WatchWays(s)
  BY DEF WatchWays, Watch!Allowed, Watch!Statuses

LEMMA NoSignals == <<>> \in Seq({"online", "offline"}) /\ Len(<<>>) = 0
  OBVIOUS

\* The watches of an instance.
WatchRecords(s) == [on : BOOLEAN, holder : s.holders \union {"nobody"},
                    status : Watch(s)!Statuses, stopped : BOOLEAN, offline : BOOLEAN]
\* A watch under way has a member who carries it; only such a one ends the live.
WatchKept(s, w) ==
    \A i \in s.instances : /\ w[i].offline \/ w[i].stopped => w[i].on
                           /\ w[i].on => w[i].holder \in s.holders
USE DEF WatchKept

LEMMA WatchInitial == ASSUME NEW s, s.flips \in Nat, Watch(s)!Init PROVE WatchInv(s)
<1> USE DEF Watch!Init, Watch!Statuses
<1>1. Watch(s)!TypeOK
  <2>1. /\ watch \in [s.instances -> WatchRecords(s)] /\ WatchKept(s, watch)
        /\ refused \in [s.instances -> SUBSET s.holders]
        /\ out \subseteq Watch(s)!Reasons
    BY DEF Watch!NoWatch, WatchRecords, Watch!Reasons
  <2>2. /\ signals \in [s.instances -> Seq({"online", "offline"})]
        /\ \A i \in s.instances : Len(signals[i]) <= s.flips
    BY NoSignals
  <2>3. /\ poll \in [s.instances -> {"none", "asked", "online", "offline"}]
        /\ pass \in [s.instances -> {"rest", "leased", "unlisted"} \union Watch(s)!Open]
        /\ written \in [Watch(s)!Statuses -> Nat]
    OBVIOUS
  <2>4. QED BY <2>1, <2>2, <2>3 DEF Watch!TypeOK, WatchRecords
<1>2. WatchHistory BY DEF WatchHistory
<1>3. WatchMovesAllowed(s) BY DEF WatchMovesAllowed
<1>4. WatchBounded(s) BY DEF WatchBounded
<1>5. QED BY <1>1, <1>2, <1>3, <1>4 DEF WatchInv

\* Steps that leave the live, its moves and its signals alone.
LEMMA WatchHandSound ==
  ASSUME NEW s, s.flips \in Nat, WatchInv(s), NEW to \in {"LIVE", "ENDED", "CANCELLED"},
         Watch(s)!MoveByHand(to)
  PROVE  WatchInv(s)'
<1> USE DEF Watch!MoveByHand, Watch!Ask, WatchInv
<1> DEFINE m == [by |-> "hand", to |-> to, saw |-> "unread"]
<1>0. m \in WatchMoves(s) /\ m.saw = "unread"
  BY DEF Watch!Movers, Watch!Statuses
<1> HIDE DEF m
<1>1. Watch(s)!TypeOK' BY <1>0 DEF Watch!TypeOK, m
<1>2. WatchHistory' BY DEF WatchHistory
<1>3. WatchMovesAllowed(s)' BY <1>0 DEF WatchMovesAllowed, m
<1>4. WatchBounded(s)' BY DEF WatchBounded
<1>5. QED BY <1>1, <1>2, <1>3, <1>4

LEMMA WatchReadSound ==
  ASSUME NEW s, s.flips \in Nat, WatchInv(s), NEW m \in moves, Watch(s)!MoveRead(m)
  PROVE  WatchInv(s)'
<1> USE DEF Watch!MoveRead, WatchInv
<1> DEFINE r == [m EXCEPT !.saw = status]
<1>0. /\ r \in WatchMoves(s)
      /\ r.saw = status /\ r.to = m.to
      /\ moves' = (moves \ {m}) \union (IF m.to \in Watch(s)!Allowed[status] THEN {r} ELSE {})
  BY DEF Watch!TypeOK
<1> HIDE DEF r
<1>1. Watch(s)!TypeOK' BY <1>0 DEF Watch!TypeOK
<1>2. WatchHistory' BY DEF WatchHistory
<1>3. WatchMovesAllowed(s)' BY <1>0 DEF WatchMovesAllowed
<1>4. WatchBounded(s)' BY DEF WatchBounded
<1>5. QED BY <1>1, <1>2, <1>3, <1>4

LEMMA WatchWriteSound ==
  ASSUME NEW s, s.flips \in Nat, WatchInv(s), NEW m \in moves, Watch(s)!MoveWrite(m)
  PROVE  WatchInv(s)'
<1> USE DEF Watch!MoveWrite, WatchInv
<1>0. m.to \in Watch(s)!Statuses /\ m.saw \in Watch(s)!Statuses /\ m.to \in Watch(s)!Allowed[m.saw]
  BY DEF Watch!TypeOK, WatchMovesAllowed
<1>1. Watch(s)!TypeOK'
  <2>1. written \in [Watch(s)!Statuses -> Nat] /\ status \in Watch(s)!Statuses
    BY DEF Watch!TypeOK
  <2>2. written' = written \/ written' = [written EXCEPT ![m.to] = @ + 1]
    OBVIOUS
  <2>3. written' \in [Watch(s)!Statuses -> Nat]
    BY <1>0, <2>1, <2>2
  <2>4. status' \in Watch(s)!Statuses /\ moves' \subseteq moves
    BY <1>0, <2>1
  <2>5. QED BY <2>3, <2>4 DEF Watch!TypeOK
<1>2. WatchHistory'
  <2>1. CASE status = m.saw
    <3>1. status' = m.to /\ written' = [written EXCEPT ![m.to] = @ + 1]
      BY <2>1 DEF Watch!FromThere
    <3>2. \/ status = "ANNOUNCED" /\ m.to \in {"LIVE", "CANCELLED"}
          \/ status = "LIVE" /\ m.to = "ENDED"
      BY <1>0, <2>1, WatchAllowedWays DEF WatchWays, Watch!Statuses
    <3>3. QED BY <3>1, <3>2 DEF WatchHistory, Watch!TypeOK, Watch!Statuses
  <2>2. CASE status # m.saw
    BY <2>2 DEF Watch!FromThere, WatchHistory
  <2>3. QED BY <2>1, <2>2
<1>3. WatchMovesAllowed(s)' BY DEF WatchMovesAllowed
<1>4. WatchBounded(s)' BY DEF WatchBounded
<1>5. QED BY <1>1, <1>2, <1>3, <1>4

\* Signals dropped are signals bounded.
LEMMA WatchSignalsDropped ==
  ASSUME NEW s, s.flips \in Nat, Watch(s)!TypeOK, WatchBounded(s), NEW i \in s.instances,
         signals' = [signals EXCEPT ![i] = <<>>]
  PROVE  /\ signals' \in [s.instances -> Seq({"online", "offline"})]
         /\ \A j \in s.instances : Len(signals'[j]) <= s.flips
                                   /\ Len(signals'[j]) + watch_left.flips <= s.flips
<1>1. signals' \in [s.instances -> Seq({"online", "offline"})]
  BY NoSignals DEF Watch!TypeOK
<1>2. \A j \in s.instances : Len(signals'[j]) = IF j = i THEN 0 ELSE Len(signals[j])
  BY NoSignals DEF Watch!TypeOK
<1>3. \A j \in s.instances : Len(signals[j]) \in Nat
  BY DEF Watch!TypeOK
<1>4. QED BY <1>1, <1>2, <1>3 DEF Watch!TypeOK, WatchBounded

\* Steps of one instance.
LEMMA WatchPassSound == ASSUME NEW s, s.flips \in Nat, WatchInv(s), NEW i \in s.instances,
                          Watch(s)!Pass(i) \/ Watch(s)!HoldBlindly(i)
                          \/ Watch(s)!ReleaseWatches(i) \/ Watch(s)!SessionStops(i)
                   PROVE  WatchInv(s)'
<1> USE DEF WatchInv
<1>1. /\ UNCHANGED <<status, stream, out, moves, written>>
      /\ DOMAIN watch_left' = DOMAIN watch_left /\ watch_left'.flips = watch_left.flips
      /\ signals' = signals \/ signals' = [signals EXCEPT ![i] = <<>>]
  BY DEF Watch!Pass, Watch!HoldLease, Watch!ReadLives, Watch!CloseWatch, Watch!KeepWatch,
        Watch!StartWatch, Watch!HoldBlindly,
         Watch!ReleaseWatches, Watch!SessionStops, Watch!Fault, WatchBounded
<1>2. Watch(s)!TypeOK'
  <2>1. /\ lease' \in s.instances \union {"none", "dead"}
        /\ pass' \in [s.instances -> {"rest", "leased", "unlisted"} \union Watch(s)!Open]
    <3>1. /\ lease \in s.instances \union {"none", "dead"} /\ status \in Watch(s)!Statuses
          /\ pass \in [s.instances -> {"rest", "leased", "unlisted"} \union Watch(s)!Open]
      BY DEF Watch!TypeOK
    <3>2. /\ lease' = lease \/ lease' = i
          /\ \/ pass' = pass
             \/ \E q \in {"leased", "rest", "unlisted"} \union Watch(s)!Open :
                  pass' = [pass EXCEPT ![i] = q]
      BY DEF Watch!Pass, Watch!HoldLease, Watch!ReadLives, Watch!CloseWatch, Watch!KeepWatch,
             Watch!StartWatch, Watch!HoldBlindly, Watch!ReleaseWatches, Watch!SessionStops,
             Watch!Listed
    <3>3. QED BY <3>1, <3>2
  <2>2. poll' \in [s.instances -> {"none", "asked", "online", "offline"}]
    BY DEF Watch!TypeOK, Watch!Pass, Watch!HoldLease, Watch!ReadLives, Watch!CloseWatch,
          Watch!KeepWatch, Watch!StartWatch, Watch!HoldBlindly,
         Watch!ReleaseWatches, Watch!SessionStops
  <2>3. watch' \in [s.instances -> WatchRecords(s)] /\ WatchKept(s, watch')
    <3>1. watch \in [s.instances -> WatchRecords(s)] /\ watch[i] \in WatchRecords(s)
          /\ WatchKept(s, watch)
      BY DEF Watch!TypeOK, WatchRecords
    <3>2. CASE watch' = watch
      BY <3>1, <3>2 DEF Watch!TypeOK
    <3>3. CASE watch' = [watch EXCEPT ![i] = Watch(s)!Released(i)]
      BY <3>1, <3>3 DEF Watch!TypeOK, Watch!Released, WatchRecords
    <3>4. CASE pass[i] \in Watch(s)!Open /\ watch' = [watch EXCEPT ![i].status = pass[i]]
      BY <3>1, <3>4 DEF Watch!TypeOK, WatchRecords, Watch!Open, Watch!Statuses
    <3>5. ASSUME NEW h \in s.holders, pass[i] \in Watch(s)!Open,
                 watch' = [watch EXCEPT ![i] = Watch(s)!Started(h, pass[i])]
          PROVE  watch' \in [s.instances -> WatchRecords(s)] /\ WatchKept(s, watch')
      BY <3>1, <3>5 DEF Watch!TypeOK, WatchRecords, Watch!Started, Watch!Open, Watch!Statuses
    <3>6. CASE watch[i].on /\ watch' = [watch EXCEPT ![i].stopped = TRUE]
      BY <3>1, <3>6 DEF Watch!TypeOK, WatchRecords
    <3>7. QED
      BY <3>2, <3>3, <3>4, <3>5, <3>6
         DEF Watch!Pass, Watch!HoldLease, Watch!ReadLives, Watch!CloseWatch, Watch!KeepWatch,
               Watch!StartWatch, Watch!HoldBlindly,
             Watch!ReleaseWatches, Watch!SessionStops
  <2>4. /\ signals' \in [s.instances -> Seq({"online", "offline"})]
        /\ \A j \in s.instances : Len(signals'[j]) <= s.flips
    BY <1>1, WatchSignalsDropped DEF Watch!TypeOK, WatchBounded
  <2>5. refused' \in [s.instances -> SUBSET s.holders]
    <3>1. refused \in [s.instances -> SUBSET s.holders]
          /\ Watch(s)!Refused(i) \subseteq s.holders
      BY DEF Watch!TypeOK, Watch!Refused
    <3>2. \/ refused' = refused
          \/ \E S \in {{}, refused[i], Watch(s)!Refused(i)} :
                refused' = [refused EXCEPT ![i] = S]
      BY DEF Watch!Pass, Watch!HoldLease, Watch!ReadLives, Watch!CloseWatch, Watch!KeepWatch,
             Watch!StartWatch, Watch!HoldBlindly, Watch!ReleaseWatches, Watch!SessionStops
    <3>3. QED BY <3>1, <3>2
  <2>6. QED BY <1>1, <2>1, <2>2, <2>3, <2>4, <2>5 DEF Watch!TypeOK, WatchRecords
<1>3. WatchHistory' BY <1>1 DEF WatchHistory
<1>4. WatchMovesAllowed(s)' BY <1>1 DEF WatchMovesAllowed
<1>5. WatchBounded(s)' BY <1>1, WatchSignalsDropped DEF WatchBounded, Watch!TypeOK
<1>6. QED BY <1>2, <1>3, <1>4, <1>5

\* What an instance asks.
LEMMA WatchAskSound ==
  ASSUME NEW s, s.flips \in Nat, WatchInv(s), NEW i \in s.instances, NEW to \in Watch(s)!Statuses,
         Watch(s)!Ask(i, to)
  PROVE  /\ moves' \subseteq WatchMoves(s)
         /\ \A m \in moves' : m.saw # "unread" => m.to \in Watch(s)!Allowed[m.saw]
<1> DEFINE m == [by |-> i, to |-> to, saw |-> "unread"]
<1>1. m \in WatchMoves(s) /\ m.saw = "unread"
  BY DEF Watch!Movers
<1>2. moves' = moves \union {m}
  BY DEF Watch!Ask
<1> HIDE DEF m
<1>3. QED BY <1>1, <1>2 DEF WatchInv, Watch!TypeOK, WatchMovesAllowed

LEMMA WatchArmSound ==
  ASSUME NEW s, s.flips \in Nat, WatchInv(s), NEW i \in s.instances,
         Watch(s)!Online(i) \/ Watch(s)!Offline(i) \/ UNCHANGED <<watch, moves>>
  PROVE  /\ watch' \in [s.instances -> WatchRecords(s)]
         /\ WatchKept(s, watch')
         /\ moves' \subseteq WatchMoves(s)
         /\ \A m \in moves' : m.saw # "unread" => m.to \in Watch(s)!Allowed[m.saw]
<1>1. /\ watch' \in [s.instances -> WatchRecords(s)]
      /\ WatchKept(s, watch')
  <2>1. watch \in [s.instances -> WatchRecords(s)] /\ watch[i] \in WatchRecords(s)
        /\ WatchKept(s, watch)
    BY DEF WatchInv, Watch!TypeOK, WatchRecords
  <2>2. \/ watch' = watch
        \/ watch' = [watch EXCEPT ![i] = [watch[i] EXCEPT !.offline = FALSE]]
        \/ watch' = [watch EXCEPT ![i] = [watch[i] EXCEPT !.offline = watch[i].on]]
    BY <2>1 DEF Watch!Online, Watch!Offline
  <2>3. CASE watch' = watch
    BY <2>1, <2>3
  <2>4. CASE watch' = [watch EXCEPT ![i] = [watch[i] EXCEPT !.offline = FALSE]]
    BY <2>1, <2>4 DEF WatchRecords
  <2>5. CASE watch' = [watch EXCEPT ![i] = [watch[i] EXCEPT !.offline = watch[i].on]]
    BY <2>1, <2>5 DEF WatchRecords
  <2>6. QED BY <2>2, <2>3, <2>4, <2>5
<1>2. CASE Watch(s)!Ask(i, "LIVE")
  BY <1>1, <1>2, WatchAskSound DEF Watch!Statuses
<1>3. CASE UNCHANGED moves
  BY <1>1, <1>3 DEF WatchInv, Watch!TypeOK, WatchMovesAllowed
<1>4. QED BY <1>2, <1>3 DEF Watch!Online, Watch!Offline

LEMMA WatchSignalSound ==
  ASSUME NEW s, s.flips \in Nat, WatchInv(s), NEW i \in s.instances, Watch(s)!HandleSignal(i)
  PROVE  WatchInv(s)'
<1> USE DEF Watch!HandleSignal
<1>1. /\ watch' \in [s.instances -> WatchRecords(s)]
      /\ WatchKept(s, watch')
      /\ moves' \subseteq WatchMoves(s)
      /\ \A m \in moves' : m.saw # "unread" => m.to \in Watch(s)!Allowed[m.saw]
  BY WatchArmSound
<1>2. /\ signals[i] \in Seq({"online", "offline"}) /\ signals[i] # <<>>
      /\ Tail(signals[i]) \in Seq({"online", "offline"})
      /\ Len(Tail(signals[i])) = Len(signals[i]) - 1 /\ Len(signals[i]) \in Nat
  BY DEF WatchInv, Watch!TypeOK
<1>3. /\ signals' \in [s.instances -> Seq({"online", "offline"})]
      /\ \A j \in s.instances : Len(signals'[j]) <= Len(signals[j]) /\ Len(signals'[j]) \in Nat
                              /\ Len(signals[j]) \in Nat
  BY <1>2 DEF WatchInv, Watch!TypeOK
<1>4. Watch(s)!TypeOK' BY <1>1, <1>3 DEF WatchInv, Watch!TypeOK, WatchRecords
<1>5. WatchHistory' BY DEF WatchInv, WatchHistory
<1>6. WatchMovesAllowed(s)' BY <1>1 DEF WatchMovesAllowed
<1>7. WatchBounded(s)' BY <1>3 DEF WatchInv, WatchBounded
<1>8. QED BY <1>4, <1>5, <1>6, <1>7 DEF WatchInv

LEMMA WatchPollSound ==
  ASSUME NEW s, s.flips \in Nat, WatchInv(s), NEW i \in s.instances, Watch(s)!Follow(i)
  PROVE  WatchInv(s)'
<1>1. /\ watch' \in [s.instances -> WatchRecords(s)]
      /\ WatchKept(s, watch')
      /\ moves' \subseteq WatchMoves(s)
      /\ \A m \in moves' : m.saw # "unread" => m.to \in Watch(s)!Allowed[m.saw]
  BY WatchArmSound DEF Watch!Follow, Watch!PollStream, Watch!FollowStream
<1>2. /\ UNCHANGED <<status, stream, out, lease, refused, pass, signals, written>>
      /\ poll' \in [s.instances -> {"none", "asked", "online", "offline"}]
      /\ DOMAIN watch_left' = DOMAIN watch_left /\ watch_left'.flips = watch_left.flips
  <2>1. /\ poll \in [s.instances -> {"none", "asked", "online", "offline"}]
        /\ DOMAIN watch_left = {"flips", "lists", "hand", "faults"}
    BY DEF WatchInv, Watch!TypeOK, WatchBounded
  <2>2. CASE Watch(s)!PollStream(i)
    BY <2>1, <2>2 DEF Watch!Fault, Watch!PollStream
  <2>3. CASE Watch(s)!FollowStream(i)
    BY <2>1, <2>3 DEF Watch!FollowStream
  <2>4. QED BY <2>2, <2>3 DEF Watch!Follow
<1>3. Watch(s)!TypeOK' BY <1>1, <1>2 DEF WatchInv, Watch!TypeOK, WatchRecords
<1>4. WatchHistory' BY <1>2 DEF WatchInv, WatchHistory
<1>5. WatchMovesAllowed(s)' BY <1>1 DEF WatchMovesAllowed
<1>6. WatchBounded(s)' BY <1>2 DEF WatchInv, WatchBounded
<1>7. QED BY <1>3, <1>4, <1>5, <1>6 DEF WatchInv

LEMMA WatchEndSound ==
  ASSUME NEW s, s.flips \in Nat, WatchInv(s), NEW i \in s.instances, Watch(s)!OfflineEnds(i)
  PROVE  WatchInv(s)'
<1> USE DEF Watch!OfflineEnds
<1>1. /\ moves' \subseteq WatchMoves(s)
      /\ \A m \in moves' : m.saw # "unread" => m.to \in Watch(s)!Allowed[m.saw]
  BY WatchAskSound DEF Watch!Statuses
<1>2. /\ watch' \in [s.instances -> WatchRecords(s)]
      /\ WatchKept(s, watch')
  <2>1. /\ watch \in [s.instances -> WatchRecords(s)]
        /\ WatchKept(s, watch)
    BY DEF WatchInv, Watch!TypeOK, WatchRecords
  <2> DEFINE over == [watch[i] EXCEPT !.offline = FALSE]
  <2>2. /\ over \in WatchRecords(s) /\ over.offline = FALSE
        /\ over.on = watch[i].on /\ over.stopped = watch[i].stopped
        /\ over.holder = watch[i].holder
    BY <2>1 DEF WatchRecords
  <2>3. watch' = [watch EXCEPT ![i] = over]
    OBVIOUS
  <2> HIDE DEF over
  <2>4. QED BY <2>1, <2>2, <2>3
<1>3. Watch(s)!TypeOK' BY <1>1, <1>2 DEF WatchInv, Watch!TypeOK, WatchRecords
<1>4. WatchHistory' BY DEF WatchInv, WatchHistory
<1>5. WatchMovesAllowed(s)' BY <1>1 DEF WatchMovesAllowed
<1>6. WatchBounded(s)' BY DEF WatchInv, WatchBounded
<1>7. QED BY <1>3, <1>4, <1>5, <1>6 DEF WatchInv

LEMMA WatchFlipSound ==
  ASSUME NEW s, s.flips \in Nat, WatchInv(s), Watch(s)!StreamFlips
  PROVE  WatchInv(s)'
<1> USE DEF Watch!StreamFlips
<1> DEFINE sign == IF stream THEN "offline" ELSE "online"
<1>1. PICK hearers \in SUBSET s.instances :
        signals' = [i \in s.instances |->
                      IF i \in hearers THEN Append(signals[i], sign) ELSE signals[i]]
  OBVIOUS
<1>0. sign \in {"online", "offline"}
  OBVIOUS
<1> HIDE DEF sign
<1>2. ASSUME NEW i \in s.instances
      PROVE  /\ signals'[i] \in Seq({"online", "offline"}) /\ Len(signals[i]) \in Nat
             /\ Len(signals'[i]) \in Nat /\ Len(signals'[i]) <= Len(signals[i]) + 1
  <2>1. signals[i] \in Seq({"online", "offline"})
    BY DEF WatchInv, Watch!TypeOK
  <2>2. QED BY <1>0, <1>1, <2>1
<1>3. /\ DOMAIN watch_left' = DOMAIN watch_left /\ watch_left.flips \in Nat
         /\ watch_left'.flips \in Nat
      /\ watch_left'.flips = watch_left.flips - 1
  BY DEF WatchInv, WatchBounded
<1>4. WatchBounded(s)'
  <2>1. \A i \in s.instances : Len(signals[i]) + watch_left.flips <= s.flips
    BY DEF WatchInv, WatchBounded
  <2>2. \A i \in s.instances : Len(signals'[i]) + watch_left'.flips <= s.flips
    BY <1>2, <1>3, <2>1
  <2>3. QED BY <1>3, <2>2 DEF WatchInv, WatchBounded
<1>5. signals' \in [s.instances -> Seq({"online", "offline"})]
  BY <1>1, <1>2
<1>6. \A i \in s.instances : Len(signals'[i]) <= s.flips
  <2>1. \A i \in s.instances : Len(signals'[i]) + watch_left'.flips <= s.flips
    BY <1>4 DEF WatchBounded
  <2>2. ASSUME NEW i \in s.instances PROVE Len(signals'[i]) <= s.flips
    <3>1. Len(signals'[i]) \in Nat /\ Len(signals'[i]) + watch_left'.flips <= s.flips
      BY <1>2, <2>1
    <3>2. watch_left'.flips \in Nat
      BY <1>3
    <3>3. QED BY <3>1, <3>2
  <2>3. QED BY <2>2
<1>7. Watch(s)!TypeOK' BY <1>5, <1>6 DEF WatchInv, Watch!TypeOK
<1>8. WatchHistory' BY DEF WatchInv, WatchHistory
<1>9. WatchMovesAllowed(s)' BY DEF WatchInv, WatchMovesAllowed
<1>10. QED BY <1>4, <1>7, <1>8, <1>9 DEF WatchInv

LEMMA WatchLeaseSound ==
  ASSUME NEW s, s.flips \in Nat, WatchInv(s), Watch(s)!LeaseExpires
  PROVE  WatchInv(s)'
<1> USE DEF Watch!LeaseExpires, Watch!Fault
<1>1. Watch(s)!TypeOK' BY DEF WatchInv, Watch!TypeOK
<1>2. WatchHistory' BY DEF WatchInv, WatchHistory
<1>3. WatchMovesAllowed(s)' BY DEF WatchInv, WatchMovesAllowed
<1>4. WatchBounded(s)' BY DEF WatchInv, WatchBounded
<1>5. QED BY <1>1, <1>2, <1>3, <1>4 DEF WatchInv

LEMMA WatchListSound ==
  ASSUME NEW s, s.flips \in Nat, WatchInv(s), Watch(s)!ListChanges
  PROVE  WatchInv(s)'
<1> USE DEF Watch!ListChanges
<1>1. Watch(s)!TypeOK' BY DEF WatchInv, Watch!TypeOK
<1>2. WatchHistory' BY DEF WatchInv, WatchHistory
<1>3. WatchMovesAllowed(s)' BY DEF WatchInv, WatchMovesAllowed
<1>4. WatchBounded(s)' BY DEF WatchInv, WatchBounded
<1>5. QED BY <1>1, <1>2, <1>3, <1>4 DEF WatchInv

LEMMA WatchCrashSound ==
  ASSUME NEW s, s.flips \in Nat, WatchInv(s), NEW i \in s.instances, Watch(s)!Crash(i)
  PROVE  WatchInv(s)'
<1> USE DEF Watch!Crash, Watch!Fault
<1>1. /\ watch' \in [s.instances -> WatchRecords(s)]
      /\ WatchKept(s, watch')
  BY DEF WatchInv, Watch!TypeOK, WatchRecords, Watch!NoWatch, Watch!Statuses
<1>2. /\ signals' \in [s.instances -> Seq({"online", "offline"})]
      /\ \A j \in s.instances : Len(signals'[j]) <= s.flips
                                /\ Len(signals'[j]) + watch_left.flips <= s.flips
  BY WatchSignalsDropped DEF WatchInv
<1>3. Watch(s)!TypeOK' BY <1>1, <1>2 DEF WatchInv, Watch!TypeOK, WatchRecords
<1>4. WatchHistory' BY DEF WatchInv, WatchHistory
<1>5. WatchMovesAllowed(s)' BY DEF WatchInv, WatchMovesAllowed
<1>6. WatchBounded(s)' BY <1>2 DEF WatchInv, WatchBounded
<1>7. QED BY <1>3, <1>4, <1>5, <1>6 DEF WatchInv

\* A step of the watch, whichever it is.
LEMMA WatchStep == ASSUME NEW s, s.flips \in Nat, WatchInv(s), Watch(s)!Next PROVE WatchInv(s)'
<1>1. CASE \E to \in {"LIVE", "ENDED", "CANCELLED"} : Watch(s)!MoveByHand(to)
  BY <1>1, WatchHandSound
<1>2. CASE \E m \in moves : Watch(s)!MoveRead(m) \/ Watch(s)!MoveWrite(m)
  BY <1>2, WatchReadSound, WatchWriteSound
<1>3. ASSUME NEW i \in s.instances,
             \/ Watch(s)!Pass(i) \/ Watch(s)!HoldBlindly(i) \/ Watch(s)!ReleaseWatches(i)
             \/ Watch(s)!HandleSignal(i) \/ Watch(s)!Follow(i) \/ Watch(s)!OfflineEnds(i)
             \/ Watch(s)!SessionStops(i) \/ Watch(s)!Crash(i)
      PROVE  WatchInv(s)'
  BY <1>3, WatchPassSound, WatchSignalSound, WatchPollSound, WatchEndSound, WatchCrashSound
<1>4. CASE Watch(s)!StreamFlips
  BY <1>4, WatchFlipSound
<1>5. CASE Watch(s)!LeaseExpires
  BY <1>5, WatchLeaseSound
<1>6. CASE Watch(s)!ListChanges
  BY <1>6, WatchListSound
<1>7. QED BY <1>1, <1>2, <1>3, <1>4, <1>5, <1>6 DEF Watch!Next

\* A step elsewhere leaves the watch as it is.
LEMMA WatchRests == ASSUME NEW s, WatchInv(s), UNCHANGED watch_vars PROVE WatchInv(s)'
  BY DEF watch_vars, WatchInv, Watch!TypeOK, WatchHistory, WatchMovesAllowed, WatchBounded

\* The watch is one of the two that are looked at, for good.
WatchHolds == IF part = "watches" THEN WatchInv(WatchesScope) ELSE WatchInv(WatchScope)

\* WatchSound: however signals, polls, timers, hands, lost leases and crashes cross on any number
\* of instances, setLiveStatus writes each status of a live once, from where it may come, and its
\* notices go with it.
THEOREM Watched == LivesSpec => []WatchSound
<1> USE LivesAssumption DEF Watch!FlipsAssumption
<1>1. LivesInit => WatchHolds
  BY WatchInitial DEF LivesInit, WatchHolds
<1>2. WatchHolds /\ [LivesNext]_all_vars => WatchHolds'
  <2> SUFFICES ASSUME WatchHolds, [LivesNext]_all_vars PROVE WatchHolds'
    OBVIOUS
  <2>1. CASE OnWatch /\ Watch(WatchScope)!Next
    BY <2>1, WatchStep DEF OnWatch, On, WatchHolds
  <2>2. CASE OnWatches /\ Watch(WatchesScope)!Next
    BY <2>2, WatchStep DEF OnWatches, On, WatchHolds
  <2>3. CASE UNCHANGED <<part, watch_vars>>
    BY <2>3, WatchRests DEF WatchHolds
  <2>4. QED
    BY <2>1, <2>2, <2>3 DEF LivesNext, OnSession, OnView, OnViews, On, all_vars
<1>3. WatchHolds => WatchSound
  <2>1. ASSUME NEW s, WatchInv(s) PROVE Watch(s)!WatchSound
    <3>1. status \in Watch(s)!Statuses
      BY <2>1 DEF WatchInv, Watch!TypeOK
    <3>2. QED
      BY <2>1, <3>1 DEF WatchInv, Watch!WatchSound, Watch!MovesOnce, WatchHistory, Watch!Statuses
  <2>2. QED BY <2>1 DEF WatchHolds, WatchSound
<1>4. QED BY <1>1, <1>2, <1>3, PTL DEF LivesSpec

-----------------------------------------------------------------------------
(* LivePresence, in any scope *)

\* What rows and calls are made of, by a moment.
PresenceRows(t) == [from : 1 .. t, beat : 1 .. t, to : 0 .. t]
StintRows(t) == [from : 1 .. t, to : 0 .. t]
ViewFocusRows(s, t) == [watcher : s.members, target : s.members, to : 0 .. t]
ViewDepartures(s, t) == [who : s.members, at : 1 .. t]
ViewEnds(s) == {View(s)!Idle, [kind |-> "presences"]} \union [kind : {"ensure"}, who : s.members]
ViewAfters(s, t) ==
    ViewEnds(s) \union [kind : {"stops"}, todo : SUBSET ViewDepartures(s, t), next : ViewEnds(s)]
ViewWorking(s, t) ==
    UNION {ViewAfters(s, t),
           [kind : {"write"}, stop : ViewDepartures(s, t), ids : SUBSET Nat,
            then : ViewAfters(s, t)],
           [kind : {"beat"}, who : s.members, at : 1 .. t, closing : BOOLEAN],
           [kind : {"sweep"}, rows : SUBSET [who : s.members, id : Nat, at : 1 .. t]],
           [kind : {"ended"}],
           [kind : {"beats"}, at : 1 .. t, who : SUBSET s.members],
           [kind : {"focuses"}, at : 1 .. t],
           [kind : {"focus"}, watcher : s.members, target : s.members],
           [kind : {"swap"}, watcher : s.members, target : s.members, ids : SUBSET Nat]}
ViewCallsOK(s) == call \in [s.calls -> ViewWorking(s, now)]
\* A stop about to be written comes before whatever began after the stretches it read.
ViewStopsInOrder(s) ==
    \A c \in s.calls : call[c].kind = "write" =>
      \A i \in call[c].ids, j \in DOMAIN stint[call[c].stop.who] :
        i < j => call[c].stop.at <= stint[call[c].stop.who][j].from

ViewShape(s) == View(s)!TypeOK /\ ViewCallsOK(s)
ViewInv(s) == ViewShape(s) /\ View(s)!StretchesApart /\ ViewStopsInOrder(s) /\ View(s)!OnePresence

\* Sequences

LEMMA SequenceParts ==
  ASSUME NEW S, NEW q \in Seq(S)
  PROVE  /\ Len(q) \in Nat /\ DOMAIN q = 1 .. Len(q) /\ \A i \in DOMAIN q : q[i] \in S /\ i \in Nat
  OBVIOUS

\* A sequence rewritten item by item.
LEMMA SequenceMapped ==
  ASSUME NEW S, NEW T, NEW q \in Seq(T), NEW f, f = [i \in DOMAIN q |-> f[i]],
         \A i \in DOMAIN q : f[i] \in S
  PROVE  f \in Seq(S) /\ DOMAIN f = DOMAIN q
<1>1. DOMAIN q = 1 .. Len(q) /\ Len(q) \in Nat
  OBVIOUS
<1>2. f \in [1 .. Len(q) -> S]
  BY <1>1
<1>3. QED BY <1>1, <1>2, SeqDef

LEMMA SequencesWider == ASSUME NEW S, NEW T, S \subseteq T PROVE Seq(S) \subseteq Seq(T)
  OBVIOUS

\* A row created after the others.
LEMMA SequenceAppended ==
  ASSUME NEW S, NEW q \in Seq(S), NEW e \in S
  PROVE  /\ Append(q, e) \in Seq(S) /\ DOMAIN Append(q, e) = DOMAIN q \union {Len(q) + 1}
         /\ \A i \in DOMAIN q : i < Len(q) + 1 /\ Append(q, e)[i] = q[i]
         /\ Append(q, e)[Len(q) + 1] = e
  OBVIOUS

LEMMA SequencesJoined ==
  ASSUME NEW S, NEW q \in Seq(S), NEW r \in Seq(S)
  PROVE  /\ Len(q) \in Nat /\ DOMAIN q = 1 .. Len(q)
         /\ DOMAIN (q \o r) = 1 .. Len(q) + Len(r)
         /\ \A i \in 1 .. Len(q) : (q \o r)[i] = q[i]
         /\ \A i \in 1 .. Len(r) : (q \o r)[Len(q) + i] = r[i]
  OBVIOUS

\* The latest of some moments.
LEMMA ViewLatest ==
  ASSUME NEW s, NEW t \in Nat, NEW S, S \subseteq 1 .. t, S # {}
  PROVE  View(s)!LastOf(S) \in S
<1> DEFINE R == OpToRel(<, Nat)
           T == {n \in Nat : \A u \in S : u <= n}
<1>1. IsWellFoundedOn(R, Nat)
  BY NatLessThanWellFounded
<1>2. T \subseteq Nat /\ T # {}
  BY t \in T
<1>3. PICK x \in T : \A y \in T : ~(<<y, x>> \in R)
  BY <1>1, <1>2, WFMin
<1>4. \A y \in T : ~(y < x)
  BY <1>3 DEF OpToRel
<1>5. x \in S
  <2> SUFFICES ASSUME x \notin S PROVE FALSE
    OBVIOUS
  <2>1. PICK u \in S : TRUE
    OBVIOUS
  <2>2. x - 1 \in Nat /\ \A v \in S : v <= x - 1
    BY <2>1
  <2>3. QED BY <1>4, <2>2
<1>6. QED BY <1>5 DEF View!LastOf

\* Calls

\* What each kind of call holds.
LEMMA ViewCallHolds ==
  ASSUME NEW s, NEW t \in Nat, NEW k \in ViewWorking(s, t)
  PROVE  /\ k.kind = "stops" => k.todo \subseteq ViewDepartures(s, t) /\ k.next \in ViewEnds(s)
         /\ k.kind = "write" => k.stop \in ViewDepartures(s, t) /\ k.ids \subseteq Nat
            /\ k.then \in ViewAfters(s, t)
         /\ k.kind = "beat" => k.who \in s.members /\ k.at \in 1 .. t /\ k.closing \in BOOLEAN
         /\ k.kind = "ensure" => k.who \in s.members
         /\ k.kind = "sweep" => k.rows \subseteq [who : s.members, id : Nat, at : 1 .. t]
         /\ k.kind = "beats" => k.at \in 1 .. t /\ k.who \subseteq s.members
         /\ k.kind = "focuses" => k.at \in 1 .. t
         /\ k.kind = "focus" => k.watcher \in s.members /\ k.target \in s.members
         /\ k.kind = "swap" => k.watcher \in s.members /\ k.target \in s.members
<1> USE DEF ViewWorking, ViewAfters, ViewEnds, View!Idle
<1>1. k.kind = "stops" => k.todo \subseteq ViewDepartures(s, t) /\ k.next \in ViewEnds(s)
  OBVIOUS
<1>2. k.kind = "write" => k.stop \in ViewDepartures(s, t) /\ k.ids \subseteq Nat
      /\ k.then \in ViewAfters(s, t)
  OBVIOUS
<1>3. k.kind = "beat" => k.who \in s.members /\ k.at \in 1 .. t /\ k.closing \in BOOLEAN
  OBVIOUS
<1>4. k.kind = "ensure" => k.who \in s.members
  OBVIOUS
<1>5. k.kind = "sweep" => k.rows \subseteq [who : s.members, id : Nat, at : 1 .. t]
  OBVIOUS
<1>6. k.kind = "beats" => k.at \in 1 .. t /\ k.who \subseteq s.members
  OBVIOUS
<1>7. k.kind = "focuses" => k.at \in 1 .. t
  OBVIOUS
<1>8. k.kind = "focus" => k.watcher \in s.members /\ k.target \in s.members
  OBVIOUS
<1>9. k.kind = "swap" => k.watcher \in s.members /\ k.target \in s.members
  OBVIOUS
<1>10. QED BY <1>1, <1>2, <1>3, <1>4, <1>5, <1>6, <1>7, <1>8, <1>9

\* What a call goes on with is a call.
LEMMA ViewStops ==
  ASSUME NEW s, NEW t, NEW todo \in SUBSET ViewDepartures(s, t), NEW next \in ViewEnds(s)
  PROVE  /\ View(s)!Stops(todo, next) \in ViewAfters(s, t)
            /\ View(s)!Stops(todo, next) \in ViewWorking(s, t)
         /\ View(s)!Stops(todo, next).kind # "write"
  BY DEF View!Stops, ViewAfters, ViewWorking, ViewEnds, View!Idle

\* A call that goes on with anything but a write leaves the stops in order.
LEMMA ViewCallGoes ==
  ASSUME NEW s, ViewCallsOK(s), NEW c \in s.calls, NEW k \in ViewWorking(s, now),
         call' = [call EXCEPT ![c] = k], now' = now,
         k.kind # "write", ViewStopsInOrder(s), UNCHANGED stint
  PROVE  ViewCallsOK(s)' /\ ViewStopsInOrder(s)'
<1>1. ViewCallsOK(s)'
  BY DEF ViewCallsOK
<1>2. \A d \in s.calls : call'[d].kind = "write" => call'[d] = call[d]
  BY DEF ViewCallsOK
<1>3. ViewStopsInOrder(s)'
  BY <1>2 DEF ViewStopsInOrder
<1>4. QED BY <1>1, <1>3

\* The rows of the model are those of the types.
LEMMA ViewTyped ==
  ASSUME NEW s, View(s)!TimesAssumption, ViewShape(s)
  PROVE  /\ now \in Nat \ {0} /\ now \in 1 .. now
         /\ \A m \in s.members : presence[m] \in Seq(PresenceRows(now))
                                 /\ stint[m] \in Seq(StintRows(now))
         /\ focus \in Seq(ViewFocusRows(s, now))
         /\ \A c \in s.calls : call[c] \in ViewWorking(s, now)
<1>1. now \in 1 .. s.time
  BY DEF ViewShape, View!TypeOK
<1>2. now \in Nat \ {0} /\ now \in 1 .. now
  BY <1>1 DEF View!TimesAssumption
<1>3. /\ presence \in [s.members -> Seq(PresenceRows(now))]
         /\ stint \in [s.members -> Seq(StintRows(now))]
      /\ focus \in Seq(ViewFocusRows(s, now))
  BY DEF ViewShape, View!TypeOK, PresenceRows, StintRows, ViewFocusRows
<1>4. QED BY <1>2, <1>3 DEF ViewShape, ViewCallsOK

\* Steps that write no stretch keep them apart.
LEMMA ViewStretchesKept ==
  ASSUME NEW s, View(s)!StretchesApart, UNCHANGED stint
  PROVE  View(s)!StretchesApart'
  BY DEF View!StretchesApart
LEMMA ViewPresencesKept ==
  ASSUME NEW s, View(s)!OnePresence, UNCHANGED presence
  PROVE  View(s)!OnePresence'
  BY DEF View!OnePresence, View!Running

\* Stops of stretches

\* The stretches read as open are the last of their member: nothing began after them.
LEMMA ViewStopReadSound ==
  ASSUME NEW s, View(s)!TimesAssumption, ViewInv(s), NEW c \in s.calls, View(s)!StopRead(c)
  PROVE  ViewInv(s)'
<1>1. PICK t \in call[c].todo :
        call' = [call EXCEPT ![c] =
                   [kind |-> "write", stop |-> t, ids |-> View(s)!Running(stint[t.who]),
                    then |-> View(s)!Stops(call[c].todo \ {t}, call[c].next)]]
  BY DEF View!StopRead
<1>2. call[c] \in ViewWorking(s, now) /\ now \in Nat
  BY ViewTyped DEF ViewInv
<1>3. call[c].todo \subseteq ViewDepartures(s, now) /\ call[c].next \in ViewEnds(s)
  BY <1>2, ViewCallHolds DEF View!StopRead
<1>4. t \in ViewDepartures(s, now) /\ t.who \in s.members
  BY <1>3 DEF ViewDepartures
<1>5. View(s)!Stops(call[c].todo \ {t}, call[c].next) \in ViewAfters(s, now)
  BY <1>3, ViewStops
<1>6. View(s)!Running(stint[t.who]) \subseteq Nat
  <2>1. stint[t.who] \in Seq(StintRows(now))
    BY <1>4, ViewTyped DEF ViewInv
  <2>2. QED BY <2>1 DEF View!Running
<1> DEFINE k == [kind |-> "write", stop |-> t, ids |-> View(s)!Running(stint[t.who]),
                 then |-> View(s)!Stops(call[c].todo \ {t}, call[c].next)]
<1>7. k \in ViewWorking(s, now)
  BY <1>4, <1>5, <1>6 DEF ViewWorking
<1>8. k.kind = "write" /\ k.stop = t /\ k.ids = View(s)!Running(stint[t.who])
      /\ call' = [call EXCEPT ![c] = k]
  BY <1>1
<1> HIDE DEF k
<1>9. ViewShape(s)'
  <2>1. ViewCallsOK(s)'
    BY <1>7, <1>8 DEF ViewInv, ViewShape, ViewCallsOK, View!StopRead
  <2>2. QED BY <2>1 DEF ViewInv, ViewShape, View!TypeOK, View!StopRead
<1>10. ViewStopsInOrder(s)'
  <2>1. \A d \in s.calls : call'[d] = IF d = c THEN k ELSE call[d]
    BY <1>8 DEF ViewInv, ViewShape, ViewCallsOK
  <2>2. \A i \in View(s)!Running(stint[t.who]), j \in DOMAIN stint[t.who] : ~(i < j)
    BY <1>4 DEF ViewInv, View!StretchesApart, View!Running
  <2>3. stint' = stint
    BY DEF View!StopRead
  <2>4. ASSUME NEW d \in s.calls, call'[d].kind = "write",
               NEW i \in call'[d].ids, NEW j \in DOMAIN stint'[call'[d].stop.who], i < j
        PROVE  call'[d].stop.at <= stint'[call'[d].stop.who][j].from
    BY <1>8, <2>1, <2>2, <2>3, <2>4 DEF ViewInv, ViewStopsInOrder
  <2>5. QED BY <2>4 DEF ViewStopsInOrder
<1>11. View(s)!StretchesApart' /\ View(s)!OnePresence'
  BY ViewStretchesKept, ViewPresencesKept DEF ViewInv, View!StopRead
<1>12. QED BY <1>9, <1>10, <1>11 DEF ViewInv

\* Stretches stopped, at a moment no later than what began after.
LEMMA ViewStopWriteSound ==
  ASSUME NEW s, View(s)!TimesAssumption, ViewInv(s), NEW c \in s.calls, View(s)!StopWrite(c)
  PROVE  ViewInv(s)'
<1> DEFINE m == call[c].stop.who
           at == call[c].stop.at
           ids == call[c].ids
           q == stint[m]
           f == [i \in DOMAIN q |-> IF i \in ids THEN View(s)!StoppedAt(q[i], at) ELSE q[i]]
<1>1. call[c] \in ViewWorking(s, now) /\ now \in Nat /\ call[c].kind = "write"
  BY ViewTyped DEF ViewInv, View!StopWrite
<1>2. m \in s.members /\ at \in 1 .. now /\ call[c].then \in ViewAfters(s, now)
  BY <1>1, ViewCallHolds DEF ViewDepartures
<1>3. q \in Seq(StintRows(now))
  BY <1>2, ViewTyped DEF ViewInv
<1>4. stint' = [stint EXCEPT ![m] = f] /\ stint \in [s.members -> Seq(StintRows(now))]
  BY DEF View!StopWrite, ViewInv, ViewShape, View!TypeOK, StintRows
<1>5. ASSUME NEW i \in DOMAIN q
      PROVE  /\ f[i] \in StintRows(now) /\ f[i].from = q[i].from /\ q[i] \in StintRows(now)
             /\ f[i] = q[i] \/ (i \in ids /\ f[i].to = View(s)!Later(q[i].from, at))
  <2>1. q[i] \in StintRows(now)
    BY <1>3
  <2>2. q[i].from \in 1 .. now /\ View(s)!Later(q[i].from, at) \in 1 .. now
    BY <1>1, <1>2, <2>1 DEF StintRows, View!Later
  <2>3. CASE i \in ids
    <3>1. f[i] = [q[i] EXCEPT !.to = View(s)!Later(q[i].from, at)]
      BY <2>3 DEF View!StoppedAt
    <3> HIDE DEF f, q, at
    <3>2. QED BY <1>1, <2>1, <2>2, <2>3, <3>1 DEF StintRows
  <2>4. CASE i \notin ids
    BY <2>1, <2>4
  <2>5. QED BY <2>3, <2>4
<1>6. f \in Seq(StintRows(now)) /\ DOMAIN f = DOMAIN q
  <2> HIDE DEF q, ids, at
  <2>1. f = [i \in DOMAIN q |-> f[i]]
    OBVIOUS
  <2>2. \A i \in DOMAIN q : f[i] \in StintRows(now)
    BY <1>5
  <2> HIDE DEF f
  <2>3. QED BY <1>3, <2>1, <2>2, SequenceMapped
<1>7. stint'[m] = f /\ \A n \in s.members : n # m => stint'[n] = stint[n]
  BY <1>2, <1>4
<1> HIDE DEF f
<1>8. ViewShape(s)'
  <2>1. stint' \in [s.members -> Seq(StintRows(now))]
    BY <1>2, <1>4, <1>6
  <2>2. ViewCallsOK(s)'
    <3>1. call[c].then \in ViewWorking(s, now) /\ call' = [call EXCEPT ![c] = call[c].then]
          /\ now' = now
      BY <1>2 DEF ViewWorking, View!StopWrite
    <3>2. QED BY <3>1 DEF ViewInv, ViewShape, ViewCallsOK
  <2>3. QED BY <2>1, <2>2 DEF ViewInv, ViewShape, View!TypeOK, View!StopWrite, StintRows
<1>9. View(s)!StretchesApart'
  <2>1. ASSUME NEW i \in DOMAIN f
        PROVE  /\ f[i].to # 0 => f[i].from <= f[i].to
               /\ \A j \in DOMAIN f : i < j => f[i].to # 0 /\ f[i].to <= f[j].from
    <3>1. /\ q[i].to # 0 => q[i].from <= q[i].to
          /\ \A j \in DOMAIN q : i < j => q[i].to # 0 /\ q[i].to <= q[j].from
      BY <1>2, <1>6 DEF ViewInv, View!StretchesApart
    <3>2. CASE f[i] = q[i]
      BY <1>5, <1>6, <3>1, <3>2
    <3>3. CASE i \in ids /\ f[i].to = View(s)!Later(q[i].from, at)
      <4>1. \A j \in DOMAIN q : i < j => at <= q[j].from
        BY <1>1, <3>3 DEF ViewInv, ViewStopsInOrder
      <4>2. q[i].from \in 1 .. now /\ f[i].from = q[i].from
        BY <1>5, <1>6 DEF StintRows
      <4>3. q[i].from <= f[i].to /\ f[i].to # 0
        BY <1>2, <3>3, <4>2 DEF View!Later
      <4>4. ASSUME NEW j \in DOMAIN q, i < j PROVE f[i].to <= f[j].from
        <5>1. q[i].to # 0 /\ q[i].to <= q[j].from /\ q[i].from <= q[i].to /\ at <= q[j].from
          BY <3>1, <4>1, <4>4
        <5>2. f[j].from = q[j].from /\ q[j] \in StintRows(now) /\ q[i] \in StintRows(now)
          BY <1>5, <1>6, <4>4
        <5>3. f[j].from = q[j].from /\ q[j].from \in Nat /\ q[i].to \in Nat
          BY <1>1, <5>2 DEF StintRows
        <5>4. QED BY <1>2, <3>3, <4>2, <5>1, <5>3 DEF View!Later
      <4>5. f[i].to # 0 => f[i].from <= f[i].to
        BY <4>2, <4>3
      <4>6. \A j \in DOMAIN f : i < j => f[i].to # 0 /\ f[i].to <= f[j].from
        BY <1>6, <4>3, <4>4
      <4>7. QED BY <4>5, <4>6
    <3>4. QED BY <1>5, <1>6, <3>2, <3>3
  <2>2. QED BY <1>7, <2>1 DEF ViewInv, View!StretchesApart
<1>10. ViewStopsInOrder(s)'
  <2>1. call[c].then.kind # "write"
    BY <1>2 DEF ViewAfters, ViewEnds, View!Idle
  <2>2. ASSUME NEW d \in s.calls, call'[d].kind = "write"
        PROVE  call'[d] = call[d] /\ call[d].stop.who \in s.members
    BY <2>1, <2>2, ViewTyped, ViewCallHolds DEF ViewInv, View!StopWrite, ViewShape, ViewCallsOK,
          ViewDepartures
  <2>3. \A n \in s.members : /\ DOMAIN stint'[n] = DOMAIN stint[n]
                           /\ \A j \in DOMAIN stint[n] : stint'[n][j].from = stint[n][j].from
    BY <1>5, <1>6, <1>7
  <2>4. QED BY <2>2, <2>3 DEF ViewInv, ViewStopsInOrder
<1>11. View(s)!OnePresence'
  BY ViewPresencesKept DEF ViewInv, View!StopWrite
<1>12. QED BY <1>8, <1>9, <1>10, <1>11 DEF ViewInv

\* A member's own stretches: one begun after the others, or the open one stopped now.
LEMMA ViewEnsureSound ==
  ASSUME NEW s, View(s)!TimesAssumption, ViewInv(s), NEW c \in s.calls, View(s)!EnsureStint(c)
  PROVE  ViewInv(s)'
<1> DEFINE m == call[c].who
           q == stint[m]
           e == [from |-> now, to |-> 0]
<1>1. call[c] \in ViewWorking(s, now) /\ now \in Nat \ {0} /\ now \in 1 .. now
      /\ call[c].kind = "ensure"
  BY ViewTyped DEF ViewInv, View!EnsureStint
<1>2. m \in s.members
  BY <1>1, ViewCallHolds
<1>3. q \in Seq(StintRows(now)) /\ e \in StintRows(now)
  <2>1. q \in Seq(StintRows(now))
    BY <1>2, ViewTyped DEF ViewInv
  <2>2. e \in StintRows(now)
    BY <1>1 DEF StintRows
  <2>3. QED BY <2>1, <2>2
<1>4. ViewCallsOK(s)'
  BY DEF View!EnsureStint, ViewInv, ViewShape, ViewCallsOK, ViewWorking, ViewAfters, ViewEnds
<1>5. CASE View(s)!Running(q) # {}
  <2>1. stint' = stint
    BY <1>5 DEF View!EnsureStint
  <2>2. ViewStopsInOrder(s)'
    BY <2>1 DEF View!EnsureStint, ViewInv, ViewShape, ViewCallsOK, ViewStopsInOrder, View!Idle
  <2>3. QED
    BY <1>4, <2>1, <2>2, ViewStretchesKept, ViewPresencesKept DEF ViewInv, View!EnsureStint,
          ViewShape, View!TypeOK
<1>6. CASE View(s)!Running(q) = {}
  <2>1. stint' = [stint EXCEPT ![m] = Append(q, e)] /\ stint \in [s.members -> Seq(StintRows(now))]
    BY <1>6 DEF View!EnsureStint, ViewInv, ViewShape, View!TypeOK, StintRows
  <2>2. stint'[m] = Append(q, e) /\ \A n \in s.members : n # m => stint'[n] = stint[n]
    BY <1>2, <2>1
  <2> DEFINE f == Append(q, e)
  <2>3. /\ f \in Seq(StintRows(now)) /\ DOMAIN f = DOMAIN q \union {Len(q) + 1}
        /\ \A i \in DOMAIN q : i < Len(q) + 1 /\ f[i] = q[i]
        /\ f[Len(q) + 1] = e /\ Len(q) \in Nat /\ DOMAIN q = 1 .. Len(q)
    BY <1>3, SequenceAppended
  <2> HIDE DEF f
  <2>4. ViewShape(s)'
    <3>1. stint' \in [s.members -> Seq(StintRows(now))]
      BY <1>2, <2>1, <2>3 DEF f
    <3>2. QED BY <1>4, <3>1 DEF ViewInv, ViewShape, View!TypeOK, View!EnsureStint, StintRows
  <2>5. \A i \in DOMAIN q : /\ q[i].from \in 1 .. now /\ q[i].to \in 0 .. now /\ q[i].to # 0
    <3>1. \A i \in DOMAIN q : q[i] \in StintRows(now)
      BY <1>3
    <3>2. QED BY <1>6, <3>1 DEF StintRows, View!Running
  <2>6. View(s)!StretchesApart'
    <3>1. ASSUME NEW i \in DOMAIN f
          PROVE  /\ f[i].to # 0 => f[i].from <= f[i].to
                 /\ \A j \in DOMAIN f : i < j => f[i].to # 0 /\ f[i].to <= f[j].from
      <4>1. CASE i \in DOMAIN q
        <5>1. /\ q[i].to # 0 => q[i].from <= q[i].to
              /\ \A j \in DOMAIN q : i < j => q[i].to # 0 /\ q[i].to <= q[j].from
          BY <1>2, <4>1 DEF ViewInv, View!StretchesApart
        <5>2. q[i].to <= now
          BY <1>1, <2>5, <4>1
        <5>3. f[i] = q[i] /\ i < Len(q) + 1
          BY <2>3, <4>1
        <5>4. ASSUME NEW j \in DOMAIN f, i < j PROVE f[i].to # 0 /\ f[i].to <= f[j].from
          <6>1. CASE j \in DOMAIN q
            BY <2>3, <5>1, <5>3, <5>4, <6>1
          <6>2. CASE j = Len(q) + 1
            <7>1. f[j].from = now
              BY <2>3, <6>2
            <7>2. QED BY <2>5, <4>1, <5>2, <5>3, <7>1
          <6>3. QED BY <2>3, <5>4, <6>1, <6>2
        <5>5. f[i].to # 0 => f[i].from <= f[i].to
          BY <5>1, <5>3
        <5>6. QED BY <5>4, <5>5
      <4>2. CASE i = Len(q) + 1
        BY <2>3, <4>2
      <4>3. QED BY <2>3, <4>1, <4>2
    <3>2. QED BY <2>2, <3>1 DEF ViewInv, View!StretchesApart, f
  <2>7. ViewStopsInOrder(s)'
    <3>1. ASSUME NEW d \in s.calls, call'[d].kind = "write"
          PROVE  call'[d] = call[d] /\ call[d].stop.who \in s.members
                 /\ call[d].stop.at \in 1 .. now
      BY <1>1, <3>1, ViewTyped, ViewCallHolds DEF ViewInv, View!EnsureStint, ViewShape,
            ViewCallsOK, ViewDepartures, View!Idle
    <3>2. ASSUME NEW d \in s.calls, call'[d].kind = "write",
                 NEW i \in call'[d].ids, NEW j \in DOMAIN stint'[call'[d].stop.who], i < j
          PROVE  call'[d].stop.at <= stint'[call'[d].stop.who][j].from
      <4>1. CASE call[d].stop.who = m /\ j = Len(q) + 1
        <5>1. stint'[call'[d].stop.who][j].from = now
          <6>1. stint'[m] = f
            BY <2>2 DEF f
          <6>2. f[j].from = now
            BY <2>3, <4>1
          <6>3. QED BY <3>1, <3>2, <4>1, <6>1, <6>2
        <5>2. call'[d].stop.at \in 1 .. now
          BY <3>1, <3>2
        <5>3. QED BY <1>1, <5>1, <5>2
      <4>2. CASE j \in DOMAIN stint[call[d].stop.who]
                 /\ stint'[call[d].stop.who][j] = stint[call[d].stop.who][j]
        BY <3>1, <3>2, <4>2 DEF ViewInv, ViewStopsInOrder
      <4>3. \/ call[d].stop.who = m /\ j = Len(q) + 1
            \/ /\ j \in DOMAIN stint[call[d].stop.who]
               /\ stint'[call[d].stop.who][j] = stint[call[d].stop.who][j]
        <5>1. stint'[m] = f /\ call'[d] = call[d] /\ call[d].stop.who \in s.members
          BY <2>2, <3>1, <3>2 DEF f
        <5>2. CASE call[d].stop.who = m
          BY <2>3, <3>2, <5>1, <5>2
        <5>3. CASE call[d].stop.who # m
          BY <2>2, <3>2, <5>1, <5>3
        <5>4. QED BY <5>2, <5>3
      <4>4. QED BY <4>1, <4>2, <4>3
    <3>3. QED BY <3>2 DEF ViewStopsInOrder
  <2>8. View(s)!OnePresence'
    BY ViewPresencesKept DEF ViewInv, View!EnsureStint
  <2>9. QED BY <2>4, <2>6, <2>7, <2>8 DEF ViewInv
<1>7. QED BY <1>5, <1>6

\* The member's own stop.
LEMMA ViewStopStintSound ==
  ASSUME NEW s, View(s)!TimesAssumption, ViewInv(s), NEW m \in s.members, View(s)!StopStint(m)
  PROVE  ViewInv(s)'
<1> DEFINE q == stint[m]
           f == [i \in DOMAIN q |-> IF q[i].to = 0 THEN [q[i] EXCEPT !.to = now] ELSE q[i]]
<1>1. now \in Nat \ {0} /\ now \in 1 .. now /\ q \in Seq(StintRows(now))
  BY ViewTyped DEF ViewInv
<1>2. stint' = [stint EXCEPT ![m] = f] /\ stint \in [s.members -> Seq(StintRows(now))]
  BY DEF View!StopStint, ViewInv, ViewShape, View!TypeOK, StintRows
<1>3. ASSUME NEW i \in DOMAIN q
      PROVE  /\ f[i] \in StintRows(now) /\ f[i].from = q[i].from /\ q[i] \in StintRows(now)
             /\ f[i] = q[i] \/ (q[i].to = 0 /\ f[i].to = now)
  <2>1. q[i] \in StintRows(now)
    BY <1>1
  <2>2. CASE q[i].to = 0
    <3>1. f[i] = [q[i] EXCEPT !.to = now]
      BY <2>2
    <3> HIDE DEF f, q
    <3>2. now \in 0 .. now
      BY <1>1
    <3>3. f[i] \in StintRows(now) /\ f[i].from = q[i].from /\ f[i].to = now
      BY <2>1, <3>1, <3>2 DEF StintRows
    <3>4. QED BY <2>1, <2>2, <3>3
  <2>3. CASE q[i].to # 0
    BY <2>1, <2>3
  <2>4. QED BY <2>2, <2>3
<1>4. f \in Seq(StintRows(now)) /\ DOMAIN f = DOMAIN q
  <2> HIDE DEF q
  <2>1. f = [i \in DOMAIN q |-> f[i]]
    OBVIOUS
  <2>2. \A i \in DOMAIN q : f[i] \in StintRows(now)
    BY <1>3
  <2> HIDE DEF f
  <2>3. QED BY <1>1, <2>1, <2>2, SequenceMapped
<1>5. stint'[m] = f /\ \A n \in s.members : n # m => stint'[n] = stint[n]
  BY <1>2
<1> HIDE DEF f
<1>6. ViewShape(s)'
  <2>1. stint' \in [s.members -> Seq(StintRows(now))]
    BY <1>2, <1>4
  <2>2. QED BY <2>1 DEF ViewInv, ViewShape, View!TypeOK, View!StopStint, StintRows, ViewCallsOK
<1>7. View(s)!StretchesApart'
  <2>1. ASSUME NEW i \in DOMAIN f
        PROVE  /\ f[i].to # 0 => f[i].from <= f[i].to
               /\ \A j \in DOMAIN f : i < j => f[i].to # 0 /\ f[i].to <= f[j].from
    <3>1. /\ q[i].to # 0 => q[i].from <= q[i].to
          /\ \A j \in DOMAIN q : i < j => q[i].to # 0 /\ q[i].to <= q[j].from
      BY <1>4 DEF ViewInv, View!StretchesApart
    <3>2. CASE f[i] = q[i]
      BY <1>3, <1>4, <3>1, <3>2
    <3>3. CASE q[i].to = 0 /\ f[i].to = now
      BY <1>1, <1>3, <1>4, <3>1, <3>3 DEF StintRows
    <3>4. QED BY <1>3, <1>4, <3>2, <3>3
  <2>2. QED BY <1>5, <2>1 DEF ViewInv, View!StretchesApart
<1>8. ViewStopsInOrder(s)'
  <2>1. ASSUME NEW d \in s.calls, call[d].kind = "write" PROVE call[d].stop.who \in s.members
    BY <2>1, <1>1, ViewTyped, ViewCallHolds DEF ViewInv, ViewDepartures
  <2>2. \A n \in s.members : /\ DOMAIN stint'[n] = DOMAIN stint[n]
                           /\ \A j \in DOMAIN stint[n] : stint'[n][j].from = stint[n][j].from
    BY <1>3, <1>4, <1>5
  <2>3. call' = call
    BY DEF View!StopStint
  <2>4. QED BY <2>1, <2>2, <2>3 DEF ViewInv, ViewStopsInOrder
<1>9. View(s)!OnePresence'
  BY ViewPresencesKept DEF ViewInv, View!StopStint
<1>10. QED BY <1>6, <1>7, <1>8, <1>9 DEF ViewInv

\* Beats

LEMMA ViewBeginSound ==
  ASSUME NEW s, View(s)!TimesAssumption, ViewInv(s), NEW c \in s.calls, NEW m \in s.members,
         View(s)!BeginBeat(c, m)
  PROVE  ViewInv(s)'
<1>1. now \in 1 .. now
  BY ViewTyped DEF ViewInv
<1>2. PICK closing \in BOOLEAN :
        call' = [call EXCEPT ![c] = [kind |-> "beat", who |-> m, at |-> now, closing |-> closing]]
  BY DEF View!BeginBeat
<1> DEFINE k == [kind |-> "beat", who |-> m, at |-> now, closing |-> closing]
<1>3. k \in ViewWorking(s, now) /\ k.kind # "write"
  BY <1>1 DEF ViewWorking
<1> HIDE DEF k
<1>4. ViewCallsOK(s)' /\ ViewStopsInOrder(s)'
  <2>1. call' = [call EXCEPT ![c] = k] /\ now' = now /\ UNCHANGED stint
    BY <1>2 DEF View!BeginBeat, k
  <2>2. QED BY <1>3, <2>1, ViewCallGoes DEF ViewInv, ViewShape
<1>5. ViewShape(s)'
  BY <1>4 DEF ViewInv, ViewShape, View!TypeOK, View!BeginBeat
<1>6. QED BY <1>4, <1>5, ViewStretchesKept, ViewPresencesKept DEF ViewInv, View!BeginBeat

\* What a beat leaves to its call.
LEMMA ViewBeatGoes ==
  ASSUME NEW s, View(s)!TimesAssumption, ViewInv(s), NEW c \in s.calls,
         NEW k \in ViewAfters(s, now), k.kind # "write",
         call' = [call EXCEPT ![c] = k], UNCHANGED <<view, now, stint, focus, view_left>>,
         NEW m \in s.members, NEW at \in 1 .. now,
         beaten' = [beaten EXCEPT ![m] = View(s)!Later(@, at)],
         presence' \in [s.members -> Seq(PresenceRows(now))], View(s)!OnePresence'
  PROVE  ViewInv(s)'
<1>1. ViewCallsOK(s)' /\ ViewStopsInOrder(s)'
  BY ViewCallGoes DEF ViewInv, ViewShape, ViewWorking
<1>2. beaten' \in [s.members -> 0 .. now]
  <2>1. beaten \in [s.members -> 0 .. now] /\ beaten[m] \in 0 .. now
    BY DEF ViewInv, ViewShape, View!TypeOK
  <2>2. View(s)!Later(beaten[m], at) \in 0 .. now
    BY <2>1 DEF View!Later
  <2>3. beaten' = [beaten EXCEPT ![m] = View(s)!Later(beaten[m], at)]
    OBVIOUS
  <2>4. QED BY <2>1, <2>2, <2>3
<1>3. ViewShape(s)'
  BY <1>1, <1>2 DEF ViewInv, ViewShape, View!TypeOK, PresenceRows
<1>4. QED BY <1>1, <1>3, ViewStretchesKept DEF ViewInv

\* The row a beat of the presence that is open writes, among those of its member.
ViewBeatsRow(q, f, i, at) ==
    /\ DOMAIN f = DOMAIN q /\ f[i].beat = at
    /\ \A j \in DOMAIN f : j # i => f[j] = q[j]
LEMMA ViewBeatKnownRow ==
  ASSUME NEW s, View(s)!TimesAssumption, ViewInv(s), NEW c \in s.calls, View(s)!BeatKnown(c)
  PROVE  \E i \in View(s)!Running(presence[call[c].who]), f \in Seq(PresenceRows(now)) :
           /\ presence' = [presence EXCEPT ![call[c].who] = f]
           /\ ViewBeatsRow(presence[call[c].who], f, i, call[c].at)
<1> DEFINE m == call[c].who
           at == call[c].at
           q == presence[m]
           to == IF call[c].closing THEN at ELSE 0
<1>1. call[c] \in ViewWorking(s, now) /\ now \in Nat \ {0} /\ call[c].kind = "beat"
  BY ViewTyped DEF ViewInv, View!BeatKnown
<1>2. m \in s.members /\ at \in 1 .. now /\ call[c].closing \in BOOLEAN
  BY <1>1, ViewCallHolds
<1>3. q \in Seq(PresenceRows(now)) /\ presence \in [s.members -> Seq(PresenceRows(now))]
  BY <1>2, ViewTyped DEF ViewInv, ViewShape, View!TypeOK, PresenceRows
<1>4. PICK i \in View(s)!Newest(q) :
           presence' = [presence EXCEPT ![m][i].beat = at, ![m][i].to = to]
  BY DEF View!BeatKnown
<1> DEFINE f == [q EXCEPT ![i] = [from |-> q[i].from, beat |-> at, to |-> to]]
<1>5. i \in DOMAIN q /\ q[i].to = 0 /\ q[i] \in PresenceRows(now)
  BY <1>3, <1>4 DEF View!Newest, View!Running
<1>6. presence' = [presence EXCEPT ![m] = f]
  <2> DEFINE q1 == [q EXCEPT ![i] = [q[i] EXCEPT !.beat = at]]
             q2 == [q1 EXCEPT ![i] = [q1[i] EXCEPT !.to = to]]
  <2>1. q2[i] = [from |-> q[i].from, beat |-> at, to |-> to]
    <3> HIDE DEF q, at, to
    <3>1. q1[i] = [q[i] EXCEPT !.beat = at] /\ i \in DOMAIN q1
      BY <1>5
    <3> HIDE DEF q1
    <3>2. q2[i] = [q1[i] EXCEPT !.to = to]
      BY <3>1
    <3>3. QED BY <1>5, <3>1, <3>2 DEF PresenceRows
  <2>2. q2 = f
    <3> HIDE DEF q, at, to
    <3>1. q2 = [q EXCEPT ![i] = q2[i]]
      BY <1>5
    <3> HIDE DEF q2
    <3>2. QED BY <2>1, <3>1
  <2>3. presence' = [presence EXCEPT ![m] = q2]
    <3> HIDE DEF at, to
    <3>1. presence' = [[presence EXCEPT ![m] = q1]
                         EXCEPT ![m] = [q1 EXCEPT ![i] = [q1[i] EXCEPT !.to = to]]]
      BY <1>2, <1>3, <1>4
    <3> HIDE DEF q1
    <3>2. QED BY <1>2, <1>3, <3>1
  <2>4. QED BY <2>2, <2>3
<1>7. f \in Seq(PresenceRows(now)) /\ DOMAIN f = DOMAIN q
      /\ \A j \in DOMAIN q : j # i => f[j] = q[j]
  <2>1. [from |-> q[i].from, beat |-> at, to |-> to] \in PresenceRows(now)
    BY <1>2, <1>5 DEF PresenceRows
  <2>2. QED BY <1>3, <1>5, <2>1
<1>8. f[i].beat = at /\ i \in View(s)!Running(q)
  BY <1>5 DEF View!Running
<1>9. QED
  <2> HIDE DEF f, to
  <2>1. /\ i \in View(s)!Running(presence[call[c].who]) /\ f \in Seq(PresenceRows(now))
        /\ presence' = [presence EXCEPT ![call[c].who] = f]
        /\ ViewBeatsRow(presence[call[c].who], f, i, call[c].at)
    BY <1>6, <1>7, <1>8 DEF ViewBeatsRow
  <2> HIDE DEF m, at, q
  <2>2. QED BY <2>1

\* A beat of the presence that is open.
LEMMA ViewBeatKnownSound ==
  ASSUME NEW s, View(s)!TimesAssumption, ViewInv(s), NEW c \in s.calls, View(s)!BeatKnown(c)
  PROVE  ViewInv(s)'
<1> DEFINE m == call[c].who
           at == call[c].at
           q == presence[m]
           k == IF call[c].closing THEN View(s)!Stops({[who |-> m, at |-> at]}, View(s)!Idle)
                ELSE View(s)!Idle
<1>1. call[c] \in ViewWorking(s, now) /\ now \in Nat \ {0} /\ call[c].kind = "beat"
  BY ViewTyped DEF ViewInv, View!BeatKnown
<1>2. m \in s.members /\ at \in 1 .. now /\ call[c].closing \in BOOLEAN
  BY <1>1, ViewCallHolds
<1>3. presence \in [s.members -> Seq(PresenceRows(now))]
  BY DEF ViewInv, ViewShape, View!TypeOK, PresenceRows
<1>4. PICK i \in View(s)!Running(q), f \in Seq(PresenceRows(now)) :
        presence' = [presence EXCEPT ![m] = f] /\ ViewBeatsRow(q, f, i, at)
  BY ViewBeatKnownRow
<1>5. presence'[m] = f /\ \A n \in s.members : n # m => presence'[n] = presence[n]
  BY <1>2, <1>3, <1>4
<1>6. presence' \in [s.members -> Seq(PresenceRows(now))]
  BY <1>2, <1>3, <1>4
<1>7. View(s)!OnePresence'
  <2>1. View(s)!Running(f) \subseteq View(s)!Running(q)
    BY <1>4 DEF View!Running, ViewBeatsRow
  <2>2. QED BY <1>5, <2>1 DEF ViewInv, View!OnePresence
<1>8. k \in ViewAfters(s, now) /\ k.kind # "write"
  <2>1. View(s)!Idle \in ViewEnds(s) /\ View(s)!Idle \in ViewAfters(s, now)
        /\ View(s)!Idle.kind # "write"
    BY DEF ViewAfters, ViewEnds, View!Idle
  <2>2. {[who |-> m, at |-> at]} \in SUBSET ViewDepartures(s, now)
    BY <1>2 DEF ViewDepartures
  <2>3. QED BY <2>1, <2>2, ViewStops
<1> HIDE DEF k
<1>9. /\ call' = [call EXCEPT ![c] = k] /\ UNCHANGED <<view, now, stint, focus, view_left>>
       /\ beaten' = [beaten EXCEPT ![m] = View(s)!Later(@, at)]
  BY DEF View!BeatKnown, View!Hear, k
<1> HIDE DEF m, at
<1>10. QED BY <1>2, <1>6, <1>7, <1>8, <1>9, ViewBeatGoes

\* A beat that opens a presence: the one that was open, if any, is closed by the same write.
LEMMA ViewBeatNewSound ==
  ASSUME NEW s, View(s)!TimesAssumption, ViewInv(s), NEW c \in s.calls, View(s)!BeatNew(c)
  PROVE  ViewInv(s)'
<1> DEFINE m == call[c].who
           at == call[c].at
           q == presence[m]
           old == View(s)!Newest(q)
           f == [i \in DOMAIN q |-> IF i \in old THEN [q[i] EXCEPT !.to = q[i].beat] ELSE q[i]]
           e == IF call[c].closing THEN <<>> ELSE <<[from |-> at, beat |-> at, to |-> 0]>>
           k == View(s)!Stops({[who |-> m, at |-> q[i].beat] : i \in old},
                      IF call[c].closing THEN View(s)!Idle ELSE [kind |-> "ensure", who |-> m])
<1>1. call[c] \in ViewWorking(s, now) /\ now \in Nat \ {0} /\ call[c].kind = "beat"
  BY ViewTyped DEF ViewInv, View!BeatNew
<1>2. m \in s.members /\ at \in 1 .. now /\ call[c].closing \in BOOLEAN
  BY <1>1, ViewCallHolds
<1>3. q \in Seq(PresenceRows(now)) /\ presence \in [s.members -> Seq(PresenceRows(now))]
  BY <1>2, ViewTyped DEF ViewInv, ViewShape, View!TypeOK, PresenceRows
<1>4. old \subseteq DOMAIN q /\ \A i \in DOMAIN q : q[i] \in PresenceRows(now)
  BY <1>3 DEF View!Newest, View!Running
<1>5. View(s)!Running(q) \subseteq old
  <2>1. \A i, j \in View(s)!Running(q) : i = j
    BY <1>2 DEF ViewInv, View!OnePresence
  <2>2. \A i \in View(s)!Running(q) : q[i] \in PresenceRows(now)
    BY <1>4 DEF View!Running
  <2>3. ASSUME NEW i \in View(s)!Running(q) PROVE q[i].from <= q[i].from
    <3>1. q[i].from \in 1 .. now
      BY <2>2 DEF PresenceRows
    <3>2. QED BY <3>1
  <2>4. QED BY <2>1, <2>3 DEF View!Newest
<1>6. presence' = [presence EXCEPT ![m] = f \o e]
  BY DEF View!BeatNew
<1>7. ASSUME NEW i \in DOMAIN q PROVE f[i] \in PresenceRows(now) /\ f[i].to # 0
  <2>1. q[i] \in PresenceRows(now)
    BY <1>4
  <2>2. CASE i \in old
    <3>1. f[i] = [q[i] EXCEPT !.to = q[i].beat]
      BY <2>2
    <3> HIDE DEF f, q
    <3>2. q[i].beat \in 1 .. now /\ q[i].beat \in 0 .. now /\ q[i].beat # 0
      BY <1>1, <2>1 DEF PresenceRows
    <3>3. QED BY <2>1, <3>1, <3>2 DEF PresenceRows
  <2>3. CASE i \notin old
    BY <1>5, <2>1, <2>3 DEF View!Running
  <2>4. QED BY <2>2, <2>3
<1>8. f \in Seq(PresenceRows(now)) /\ DOMAIN f = DOMAIN q
  <2> HIDE DEF q, old
  <2>1. f = [i \in DOMAIN q |-> f[i]]
    OBVIOUS
  <2>2. \A i \in DOMAIN q : f[i] \in PresenceRows(now)
    BY <1>7
  <2> HIDE DEF f
  <2>3. QED BY <1>3, <2>1, <2>2, SequenceMapped
<1>9. e \in Seq(PresenceRows(now)) /\ Len(e) <= 1 /\ Len(e) \in Nat
  <2>1. [from |-> at, beat |-> at, to |-> 0] \in PresenceRows(now)
    BY <1>1, <1>2 DEF PresenceRows
  <2>2. QED BY <2>1
<1>10. \A i \in DOMAIN q : f[i].to # 0
  BY <1>7
<1>11. k \in ViewAfters(s, now) /\ k.kind # "write"
  <2>1. \A i \in old : [who |-> m, at |-> q[i].beat] \in ViewDepartures(s, now)
    BY <1>2, <1>4 DEF ViewDepartures, PresenceRows
  <2>2. (IF call[c].closing THEN View(s)!Idle ELSE [kind |-> "ensure", who |-> m]) \in ViewEnds(s)
    BY <1>2 DEF ViewEnds
  <2>3. {[who |-> m, at |-> q[i].beat] : i \in old} \in SUBSET ViewDepartures(s, now)
    BY <2>1
  <2>4. QED BY <2>2, <2>3, ViewStops
<1> HIDE DEF f, e
<1>12. /\ f \o e \in Seq(PresenceRows(now))
       /\ \A i \in DOMAIN (f \o e) : (f \o e)[i].to = 0 => i = Len(f) + 1
  <2>1. f \o e \in Seq(PresenceRows(now))
    BY <1>8, <1>9
  <2>2. ASSUME NEW i \in DOMAIN (f \o e), (f \o e)[i].to = 0 PROVE i = Len(f) + 1
    <3>1. i \in 1 .. Len(f) + Len(e) /\ Len(f) \in Nat /\ DOMAIN f = 1 .. Len(f)
      BY <1>8, <1>9
    <3>2. i \in 1 .. Len(f) => (f \o e)[i] = f[i]
      BY <1>8, <1>9
    <3>3. QED BY <1>8, <1>9, <1>10, <2>2, <3>1, <3>2
  <2>3. QED BY <2>1, <2>2
<1>13. presence' \in [s.members -> Seq(PresenceRows(now))]
  BY <1>2, <1>3, <1>6, <1>12
<1>14. View(s)!OnePresence'
  <2>1. presence'[m] = f \o e /\ \A n \in s.members : n # m => presence'[n] = presence[n]
    BY <1>2, <1>3, <1>6
  <2>2. \A i, j \in View(s)!Running(f \o e) : i = j
    BY <1>12 DEF View!Running
  <2>3. QED BY <2>1, <2>2 DEF ViewInv, View!OnePresence
<1>15. /\ call' = [call EXCEPT ![c] = k] /\ UNCHANGED <<view, now, stint, focus, view_left>>
       /\ beaten' = [beaten EXCEPT ![m] = View(s)!Later(@, at)]
  BY DEF View!BeatNew, View!Hear
<1> HIDE DEF k, m, at
<1>16. QED BY <1>2, <1>11, <1>13, <1>14, <1>15, ViewBeatGoes

\* The sweep

LEMMA ViewSweepReadSound ==
  ASSUME NEW s, View(s)!TimesAssumption, ViewInv(s), NEW c \in s.calls, View(s)!SweepRead(c)
  PROVE  ViewInv(s)'
<1> DEFINE rows == {[who |-> r[1], id |-> r[2],
      at |-> presence[r[1]][r[2]].beat] : r \in View(s)!SilentRows}
           k == [kind |-> "sweep", rows |-> rows]
<1>1. \A r \in View(s)!SilentRows : /\ r[1] \in s.members /\ r[2] \in Nat
                            /\ presence[r[1]][r[2]].beat \in 1 .. now
  <2> SUFFICES ASSUME NEW r \in View(s)!SilentRows
               PROVE  r[1] \in s.members /\ r[2] \in Nat /\ presence[r[1]][r[2]].beat \in 1 .. now
    OBVIOUS
  <2>1. r[1] \in s.members /\ r[2] \in DOMAIN presence[r[1]]
    BY DEF View!SilentRows, View!Running
  <2>2. presence[r[1]] \in Seq(PresenceRows(now))
    BY <2>1, ViewTyped DEF ViewInv
  <2>3. r[2] \in Nat /\ presence[r[1]][r[2]] \in PresenceRows(now)
    BY <2>1, <2>2, SequenceParts
  <2>4. QED BY <2>1, <2>3 DEF PresenceRows
<1>2. rows \subseteq [who : s.members, id : Nat, at : 1 .. now]
  BY <1>1
<1>3. call' = [call EXCEPT ![c] = k]
      /\ UNCHANGED <<view, now, presence, stint, focus, beaten, view_left>>
  BY DEF View!SweepRead
<1> HIDE DEF rows
<1>4. k \in ViewWorking(s, now) /\ k.kind # "write"
  BY <1>2 DEF ViewWorking
<1> HIDE DEF k
<1>5. ViewCallsOK(s)' /\ ViewStopsInOrder(s)'
  BY <1>3, <1>4, ViewCallGoes DEF ViewInv, ViewShape
<1>6. ViewShape(s)'
  BY <1>3, <1>5 DEF ViewInv, ViewShape, View!TypeOK
<1>7. QED BY <1>3, <1>5, <1>6, ViewStretchesKept, ViewPresencesKept DEF ViewInv

\* Rows that only close.
LEMMA ViewOnlyCloses ==
  ASSUME NEW s, View(s)!TimesAssumption, ViewInv(s),
         presence' = [m \in s.members |-> [i \in DOMAIN presence[m] |-> presence'[m][i]]],
         \A m \in s.members : \A i \in DOMAIN presence[m] :
           presence'[m][i] = presence[m][i]
           \/ \E t \in 1 .. now : presence'[m][i] = [presence[m][i] EXCEPT !.to = t]
  PROVE  presence' \in [s.members -> Seq(PresenceRows(now))] /\ View(s)!OnePresence'
<1>1. ASSUME NEW m \in s.members
      PROVE  /\ presence'[m] \in Seq(PresenceRows(now))
             /\ View(s)!Running(presence'[m]) \subseteq View(s)!Running(presence[m])
  <2> DEFINE q == presence[m]
             f == [i \in DOMAIN q |-> presence'[m][i]]
  <2>1. q \in Seq(PresenceRows(now)) /\ presence'[m] = f
    BY ViewTyped DEF ViewInv
  <2>2. ASSUME NEW i \in DOMAIN q PROVE f[i] \in PresenceRows(now) /\ (f[i].to = 0 => q[i].to = 0)
    <3>1. q[i] \in PresenceRows(now) /\ f[i] = presence'[m][i]
      BY <2>1
    <3>2. ASSUME NEW t \in 1 .. now, f[i] = [q[i] EXCEPT !.to = t]
          PROVE  f[i] \in PresenceRows(now) /\ f[i].to # 0
      <4> HIDE DEF f, q
      <4>1. QED BY <3>1, <3>2 DEF PresenceRows
    <3>3. QED BY <3>1, <3>2
  <2>3. f \in Seq(PresenceRows(now)) /\ DOMAIN f = DOMAIN q
    <3> HIDE DEF q
    <3>1. f = [i \in DOMAIN q |-> f[i]]
      OBVIOUS
    <3>2. \A i \in DOMAIN q : f[i] \in PresenceRows(now)
      BY <2>2
    <3> HIDE DEF f
    <3>3. QED BY <2>1, <3>1, <3>2, SequenceMapped
  <2> HIDE DEF f
  <2>4. QED BY <2>1, <2>2, <2>3 DEF View!Running
<1>2. presence' \in [s.members -> Seq(PresenceRows(now))]
  <2>1. presence' = [m \in s.members |-> presence'[m]]
    OBVIOUS
  <2>2. QED BY <1>1, <2>1
<1>3. View(s)!OnePresence'
  BY <1>1 DEF ViewInv, View!OnePresence
<1>4. QED BY <1>2, <1>3

\* The sweep and the end of the live only close presences.
LEMMA ViewClosings ==
  ASSUME NEW s, View(s)!TimesAssumption, ViewInv(s), NEW c \in s.calls,
         View(s)!SweepClose(c) \/ View(s)!ClosePresences(c)
  PROVE  /\ presence' = [m \in s.members |-> [i \in DOMAIN presence[m] |-> presence'[m][i]]]
         /\ \A m \in s.members : \A i \in DOMAIN presence[m] :
              \/ presence'[m][i] = presence[m][i]
              \/ \E t \in 1 .. now : presence'[m][i] = [presence[m][i] EXCEPT !.to = t]
<1>1. CASE View(s)!SweepClose(c)
  <2> DEFINE Hit(m, i) == {r \in call[c].rows : r.who = m /\ r.id = i}
             P == [m \in s.members |-> [i \in DOMAIN presence[m] |->
                    IF Hit(m, i) = {} THEN presence[m][i]
                    ELSE [presence[m][i] EXCEPT !.to = (CHOOSE r \in Hit(m, i) : TRUE).at]]]
  <2>1. call[c] \in ViewWorking(s, now) /\ now \in Nat /\ call[c].kind = "sweep"
    BY <1>1, ViewTyped DEF ViewInv, View!SweepClose
  <2>2. call[c].rows \subseteq [who : s.members, id : Nat, at : 1 .. now]
    BY <2>1, ViewCallHolds
  <2>3. presence' = P
    BY <1>1 DEF View!SweepClose
  <2>4. ASSUME NEW m \in s.members, NEW i \in DOMAIN presence[m]
        PROVE  \/ P[m][i] = presence[m][i]
               \/ \E t \in 1 .. now : P[m][i] = [presence[m][i] EXCEPT !.to = t]
    <3>1. CASE Hit(m, i) = {}
      BY <3>1
    <3>2. CASE Hit(m, i) # {}
      <4> DEFINE h == CHOOSE r \in Hit(m, i) : TRUE
      <4>1. h \in Hit(m, i)
        BY <3>2
      <4>2. h.at \in 1 .. now
        BY <2>2, <4>1
      <4>3. P[m][i] = [presence[m][i] EXCEPT !.to = h.at]
        BY <3>2
      <4> HIDE DEF h, P
      <4>4. QED BY <4>2, <4>3
    <3>3. QED BY <3>1, <3>2
  <2>5. presence' = [m \in s.members |-> [i \in DOMAIN presence[m] |-> P[m][i]]]
    <3>1. P = [m \in s.members |-> [i \in DOMAIN presence[m] |-> P[m][i]]]
      OBVIOUS
    <3>2. QED BY <2>3, <3>1
  <2> HIDE DEF P
  <2>6. presence' = [m \in s.members |-> [i \in DOMAIN presence[m] |-> presence'[m][i]]]
    BY <2>3, <2>5
  <2>7. \A m \in s.members : \A i \in DOMAIN presence[m] :
          \/ presence'[m][i] = presence[m][i]
          \/ \E t \in 1 .. now : presence'[m][i] = [presence[m][i] EXCEPT !.to = t]
    BY <2>3, <2>4
  <2>8. QED BY <2>6, <2>7
<1>2. CASE View(s)!ClosePresences(c)
  <2> DEFINE P == [m \in s.members |-> [i \in DOMAIN presence[m] |->
                    IF presence[m][i].to = 0 THEN [presence[m][i] EXCEPT !.to = now]
                                             ELSE presence[m][i]]]
  <2>1. now \in 1 .. now
    BY ViewTyped DEF ViewInv
  <2>2. \A m \in s.members : \A i \in DOMAIN presence[m] :
          P[m][i] = presence[m][i] \/ \E t \in 1 .. now : P[m][i] = [presence[m][i] EXCEPT !.to = t]
    BY <2>1
  <2>3. presence' = P
    BY <1>2 DEF View!ClosePresences
  <2>4. P = [m \in s.members |-> [i \in DOMAIN presence[m] |-> P[m][i]]]
    OBVIOUS
  <2> HIDE DEF P
  <2>5. presence' = [m \in s.members |-> [i \in DOMAIN presence[m] |-> presence'[m][i]]]
    BY <2>3, <2>4
  <2>6. \A m \in s.members : \A i \in DOMAIN presence[m] :
          \/ presence'[m][i] = presence[m][i]
          \/ \E t \in 1 .. now : presence'[m][i] = [presence[m][i] EXCEPT !.to = t]
    BY <2>2, <2>3
  <2>7. QED BY <2>5, <2>6
<1>3. QED BY <1>1, <1>2

LEMMA ViewSweepCloseSound ==
  ASSUME NEW s, View(s)!TimesAssumption, ViewInv(s), NEW c \in s.calls, View(s)!SweepClose(c)
  PROVE  ViewInv(s)'
<1> DEFINE todo == {[who |-> r.who, at |-> r.at] : r \in call[c].rows}
           k == View(s)!Stops(todo, View(s)!Idle)
<1>1. call[c] \in ViewWorking(s, now) /\ now \in Nat /\ call[c].kind = "sweep"
  BY ViewTyped DEF ViewInv, View!SweepClose
<1>2. call[c].rows \subseteq [who : s.members, id : Nat, at : 1 .. now]
  BY <1>1, ViewCallHolds
<1>3. presence' \in [s.members -> Seq(PresenceRows(now))] /\ View(s)!OnePresence'
  BY ViewClosings, ViewOnlyCloses
<1>4. k \in ViewWorking(s, now) /\ k.kind # "write"
  <2>1. todo \in SUBSET ViewDepartures(s, now)
    BY <1>2 DEF ViewDepartures
  <2>2. View(s)!Idle \in ViewEnds(s)
    BY DEF ViewEnds
  <2>3. QED BY <2>1, <2>2, ViewStops
<1>5. call' = [call EXCEPT ![c] = k] /\ UNCHANGED <<view, now, stint, focus, beaten, view_left>>
  BY DEF View!SweepClose
<1> HIDE DEF k
<1>6. ViewCallsOK(s)' /\ ViewStopsInOrder(s)'
  BY <1>4, <1>5, ViewCallGoes DEF ViewInv, ViewShape
<1>7. ViewShape(s)'
  BY <1>3, <1>5, <1>6 DEF ViewInv, ViewShape, View!TypeOK, PresenceRows
<1>8. QED BY <1>3, <1>5, <1>6, <1>7, ViewStretchesKept DEF ViewInv

\* The end of the live, and focuses

LEMMA ViewEndsSound ==
  ASSUME NEW s, View(s)!TimesAssumption, ViewInv(s), NEW c \in s.calls,
         View(s)!EndLive(c) \/ View(s)!CloseLiveStints(c)
  PROVE  ViewInv(s)'
<1>1. now \in 1 .. now
  BY ViewTyped DEF ViewInv
<1> DEFINE k == [kind |-> "ended"]
           l == [kind |-> "beats", at |-> now,
                who |-> {m \in s.members : View(s)!Running(stint[m]) # {}}]
<1>2. k \in ViewWorking(s, now) /\ k.kind # "write" /\ l \in ViewWorking(s, now) /\ l.kind # "write"
  BY <1>1 DEF ViewWorking
<1>3. /\ call' = [call EXCEPT ![c] = k] \/ call' = [call EXCEPT ![c] = l]
      /\ UNCHANGED <<now, presence, stint, focus, beaten, view_left>> /\ view' \in {view, "ENDED"}
  BY DEF View!EndLive, View!CloseLiveStints
<1> HIDE DEF k, l
<1>4. ViewCallsOK(s)' /\ ViewStopsInOrder(s)'
  BY <1>2, <1>3, ViewCallGoes DEF ViewInv, ViewShape
<1>5. ViewShape(s)'
  BY <1>3, <1>4 DEF ViewInv, ViewShape, View!TypeOK
<1>6. QED BY <1>3, <1>4, <1>5, ViewStretchesKept, ViewPresencesKept DEF ViewInv

LEMMA ViewReadBeatsSound ==
  ASSUME NEW s, View(s)!TimesAssumption, ViewInv(s), NEW c \in s.calls, View(s)!ReadBeats(c)
  PROVE  ViewInv(s)'
<1> DEFINE todo == {[who |-> m, at |-> View(s)!LeftAt(m, call[c].at)] : m \in call[c].who}
           k == View(s)!Stops(todo, [kind |-> "presences"])
<1>1. call[c] \in ViewWorking(s, now) /\ now \in Nat /\ call[c].kind = "beats"
  BY ViewTyped DEF ViewInv, View!ReadBeats
<1>2. call[c].at \in 1 .. now /\ call[c].who \subseteq s.members
  BY <1>1, ViewCallHolds
<1>3. ASSUME NEW m \in s.members PROVE View(s)!LeftAt(m, call[c].at) \in 1 .. now
  <2>1. View(s)!Beats(m) \subseteq 1 .. now
    <3>1. presence[m] \in Seq(PresenceRows(now))
      BY ViewTyped DEF ViewInv
    <3>2. \A i \in DOMAIN presence[m] : presence[m][i] \in PresenceRows(now)
      BY <3>1
    <3>3. QED BY <3>2 DEF View!Beats, PresenceRows
  <2>2. View(s)!Beats(m) # {} => View(s)!LastOf(View(s)!Beats(m)) \in 1 .. now
    BY <1>1, <2>1, ViewLatest
  <2>3. QED BY <1>2, <2>2 DEF View!LeftAt
<1>4. todo \in SUBSET ViewDepartures(s, now)
  BY <1>2, <1>3 DEF ViewDepartures
<1>5. k \in ViewWorking(s, now) /\ k.kind # "write"
  BY <1>4, ViewStops DEF ViewEnds
<1>6. call' = [call EXCEPT ![c] = k]
      /\ UNCHANGED <<view, now, presence, stint, focus, beaten, view_left>>
  BY DEF View!ReadBeats
<1> HIDE DEF k
<1>7. ViewCallsOK(s)' /\ ViewStopsInOrder(s)'
  BY <1>5, <1>6, ViewCallGoes DEF ViewInv, ViewShape
<1>8. ViewShape(s)'
  BY <1>6, <1>7 DEF ViewInv, ViewShape, View!TypeOK
<1>9. QED BY <1>6, <1>7, <1>8, ViewStretchesKept, ViewPresencesKept DEF ViewInv

LEMMA ViewClosePresencesSound ==
  ASSUME NEW s, View(s)!TimesAssumption, ViewInv(s), NEW c \in s.calls, View(s)!ClosePresences(c)
  PROVE  ViewInv(s)'
<1> DEFINE k == [kind |-> "focuses", at |-> now]
<1>1. now \in 1 .. now
  BY ViewTyped DEF ViewInv
<1>2. presence' \in [s.members -> Seq(PresenceRows(now))] /\ View(s)!OnePresence'
  BY ViewClosings, ViewOnlyCloses
<1>3. k \in ViewWorking(s, now) /\ k.kind # "write"
  BY <1>1 DEF ViewWorking
<1>4. call' = [call EXCEPT ![c] = k] /\ UNCHANGED <<view, now, stint, focus, beaten, view_left>>
  BY DEF View!ClosePresences
<1> HIDE DEF k
<1>5. ViewCallsOK(s)' /\ ViewStopsInOrder(s)'
  BY <1>3, <1>4, ViewCallGoes DEF ViewInv, ViewShape
<1>6. ViewShape(s)'
  BY <1>2, <1>4, <1>5 DEF ViewInv, ViewShape, View!TypeOK, PresenceRows
<1>7. QED BY <1>2, <1>4, <1>5, <1>6, ViewStretchesKept DEF ViewInv

\* Rows of the focuses, some of them ended.
LEMMA ViewFocusesEnd ==
  ASSUME NEW s, View(s)!TimesAssumption, ViewInv(s), NEW rows, NEW t \in 1 .. now
  PROVE  View(s)!EndFocuses(rows, t) \in Seq(ViewFocusRows(s, now))
<1> DEFINE f == View(s)!EndFocuses(rows, t)
<1>1. focus \in Seq(ViewFocusRows(s, now)) /\ now \in Nat
  BY ViewTyped DEF ViewInv
<1>2. f = [i \in DOMAIN focus |->
             IF focus[i].to = 0 /\ i \in rows THEN [focus[i] EXCEPT !.to = t] ELSE focus[i]]
  BY DEF View!EndFocuses
<1> HIDE DEF f
<1>3. ASSUME NEW i \in DOMAIN focus PROVE f[i] \in ViewFocusRows(s, now)
  <2>1. focus[i] \in ViewFocusRows(s, now) /\ t \in 0 .. now
    BY <1>1
  <2>2. f[i] = focus[i] \/ f[i] = [focus[i] EXCEPT !.to = t]
    BY <1>2
  <2>3. QED BY <2>1, <2>2 DEF ViewFocusRows
<1>4. f = [i \in DOMAIN focus |-> f[i]]
  BY <1>2
<1>5. QED BY <1>1, <1>3, <1>4, SequenceMapped DEF f

LEMMA ViewCloseFocusesSound ==
  ASSUME NEW s, View(s)!TimesAssumption, ViewInv(s), NEW c \in s.calls, View(s)!CloseFocuses(c)
  PROVE  ViewInv(s)'
<1>1. call[c] \in ViewWorking(s, now) /\ now \in Nat /\ call[c].kind = "focuses"
  BY ViewTyped DEF ViewInv, View!CloseFocuses
<1>2. call[c].at \in 1 .. now
  BY <1>1, ViewCallHolds
<1>3. focus' \in Seq(ViewFocusRows(s, now))
  BY <1>2, ViewFocusesEnd DEF View!CloseFocuses
<1>4. View(s)!Idle \in ViewWorking(s, now) /\ View(s)!Idle.kind # "write"
  BY DEF ViewWorking, ViewAfters, ViewEnds, View!Idle
<1>5. call' = [call EXCEPT ![c] = View(s)!Idle]
      /\ UNCHANGED <<view, now, presence, stint, beaten, view_left>>
  BY DEF View!CloseFocuses
<1>6. ViewCallsOK(s)' /\ ViewStopsInOrder(s)'
  BY <1>4, <1>5, ViewCallGoes DEF ViewInv, ViewShape
<1>7. ViewShape(s)'
  BY <1>3, <1>5, <1>6 DEF ViewInv, ViewShape, View!TypeOK, ViewFocusRows
<1>8. QED BY <1>5, <1>6, <1>7, ViewStretchesKept, ViewPresencesKept DEF ViewInv

LEMMA ViewFocusSound ==
  ASSUME NEW s, View(s)!TimesAssumption, ViewInv(s), NEW c \in s.calls, NEW w \in s.members,
         NEW t \in s.members, View(s)!StartFocus(c, w, t) \/ View(s)!SeeFocuses(c)
  PROVE  ViewInv(s)'
<1> DEFINE k == [kind |-> "focus", watcher |-> w, target |-> t]
           l == [kind |-> "swap", watcher |-> call[c].watcher, target |-> call[c].target,
                 ids |-> {i \in View(s)!Running(focus) : focus[i].watcher = call[c].watcher}]
<1>1. k \in ViewWorking(s, now) /\ k.kind # "write"
  BY DEF ViewWorking
<1>2. ASSUME View(s)!SeeFocuses(c) PROVE l \in ViewWorking(s, now) /\ l.kind # "write"
  <2>1. call[c] \in ViewWorking(s, now) /\ now \in Nat /\ call[c].kind = "focus"
        /\ focus \in Seq(ViewFocusRows(s, now))
    BY <1>2, ViewTyped DEF ViewInv, View!SeeFocuses
  <2>2. call[c].watcher \in s.members /\ call[c].target \in s.members
    BY <2>1, ViewCallHolds
  <2>3. View(s)!Running(focus) \subseteq Nat
    BY <2>1 DEF View!Running
  <2>4. {i \in View(s)!Running(focus) : focus[i].watcher = call[c].watcher} \subseteq Nat
    BY <2>3
  <2>5. QED BY <2>2, <2>4 DEF ViewWorking
<1>3. /\ \/ call' = [call EXCEPT ![c] = k]
         \/ View(s)!SeeFocuses(c) /\ call' = [call EXCEPT ![c] = l]
      /\ UNCHANGED <<view, now, presence, stint, focus, beaten>>
  BY DEF View!StartFocus, View!SeeFocuses
<1> HIDE DEF k, l
<1>4. ViewCallsOK(s)' /\ ViewStopsInOrder(s)'
  BY <1>1, <1>2, <1>3, ViewCallGoes DEF ViewInv, ViewShape
<1>5. ViewShape(s)'
  BY <1>3, <1>4 DEF ViewInv, ViewShape, View!TypeOK
<1>6. QED BY <1>3, <1>4, <1>5, ViewStretchesKept, ViewPresencesKept DEF ViewInv

LEMMA ViewSwapSound ==
  ASSUME NEW s, View(s)!TimesAssumption, ViewInv(s), NEW c \in s.calls, View(s)!SwapFocus(c)
  PROVE  ViewInv(s)'
<1> DEFINE f == [i \in DOMAIN focus |->
                   IF i \in call[c].ids /\ focus[i].to = 0
                     THEN [focus[i] EXCEPT !.to = now] ELSE focus[i]]
           e == [watcher |-> call[c].watcher, target |-> call[c].target, to |-> 0]
<1>1. /\ call[c] \in ViewWorking(s, now) /\ now \in Nat \ {0} /\ now \in 1 .. now
         /\ call[c].kind = "swap"
      /\ focus \in Seq(ViewFocusRows(s, now))
  BY ViewTyped DEF ViewInv, View!SwapFocus
<1>2. call[c].watcher \in s.members /\ call[c].target \in s.members
  BY <1>1, ViewCallHolds
<1>3. e \in ViewFocusRows(s, now)
  BY <1>1, <1>2 DEF ViewFocusRows
<1>4. ASSUME NEW i \in DOMAIN focus PROVE f[i] \in ViewFocusRows(s, now)
  <2>1. focus[i] \in ViewFocusRows(s, now) /\ now \in 0 .. now
    BY <1>1
  <2>2. f[i] = focus[i] \/ f[i] = [focus[i] EXCEPT !.to = now]
    OBVIOUS
  <2> HIDE DEF f
  <2>3. QED BY <2>1, <2>2 DEF ViewFocusRows
<1>5. f \in Seq(ViewFocusRows(s, now))
  <2>1. f = [i \in DOMAIN focus |-> f[i]]
    OBVIOUS
  <2> HIDE DEF f
  <2>2. QED BY <1>1, <1>4, <2>1, SequenceMapped
<1>6. /\ focus' = Append(f, e) /\ call' = [call EXCEPT ![c] = View(s)!Idle]
      /\ UNCHANGED <<view, now, presence, stint, beaten, view_left>>
  BY DEF View!SwapFocus
<1> HIDE DEF f, e
<1>7. focus' \in Seq(ViewFocusRows(s, now))
  BY <1>3, <1>5, <1>6, SequenceAppended
<1>8. View(s)!Idle \in ViewWorking(s, now) /\ View(s)!Idle.kind # "write"
  BY DEF ViewWorking, ViewAfters, ViewEnds, View!Idle
<1>9. ViewCallsOK(s)' /\ ViewStopsInOrder(s)'
  BY <1>6, <1>8, ViewCallGoes DEF ViewInv, ViewShape
<1>10. ViewShape(s)'
  BY <1>6, <1>7, <1>9 DEF ViewInv, ViewShape, View!TypeOK, ViewFocusRows
<1>11. QED BY <1>6, <1>9, <1>10, ViewStretchesKept, ViewPresencesKept DEF ViewInv

LEMMA ViewStopFocusSound ==
  ASSUME NEW s, View(s)!TimesAssumption, ViewInv(s), NEW w \in s.members, View(s)!StopFocus(w)
  PROVE  ViewInv(s)'
<1>1. now \in 1 .. now
  BY ViewTyped DEF ViewInv
<1>2. focus' \in Seq(ViewFocusRows(s, now))
      /\ UNCHANGED <<view, now, presence, stint, beaten, view_left, call>>
  BY <1>1, ViewFocusesEnd DEF View!StopFocus
<1>3. ViewShape(s)'
  BY <1>2 DEF ViewInv, ViewShape, View!TypeOK, ViewCallsOK, ViewFocusRows
<1>4. ViewStopsInOrder(s)'
  BY <1>2 DEF ViewInv, ViewStopsInOrder
<1>5. QED BY <1>2, <1>3, <1>4, ViewStretchesKept, ViewPresencesKept DEF ViewInv

\* Failures and time

LEMMA ViewFailSound ==
  ASSUME NEW s, View(s)!TimesAssumption, ViewInv(s), NEW c \in s.calls, View(s)!Fail(c)
  PROVE  ViewInv(s)'
<1>1. View(s)!Idle \in ViewWorking(s, now) /\ View(s)!Idle.kind # "write"
  BY DEF ViewWorking, ViewAfters, ViewEnds, View!Idle
<1>2. call' = [call EXCEPT ![c] = View(s)!Idle]
      /\ UNCHANGED <<view, now, presence, stint, focus, beaten>>
  BY DEF View!Fail
<1>3. ViewCallsOK(s)' /\ ViewStopsInOrder(s)'
  BY <1>1, <1>2, ViewCallGoes DEF ViewInv, ViewShape
<1>4. ViewShape(s)'
  BY <1>2, <1>3 DEF ViewInv, ViewShape, View!TypeOK
<1>5. QED BY <1>2, <1>3, <1>4, ViewStretchesKept, ViewPresencesKept DEF ViewInv

LEMMA ViewTickSound ==
  ASSUME NEW s, View(s)!TimesAssumption, ViewInv(s), View(s)!Tick
  PROVE  ViewInv(s)'
<1>1. now \in Nat \ {0} /\ now' = now + 1 /\ now' \in 1 .. s.time
  BY ViewTyped DEF ViewInv, ViewShape, View!TypeOK, View!Tick, View!TimesAssumption
<1>2. 1 .. now \subseteq 1 .. now' /\ 0 .. now \subseteq 0 .. now'
  BY <1>1
<1>3. /\ PresenceRows(now) \subseteq PresenceRows(now') /\ StintRows(now) \subseteq StintRows(now')
      /\ ViewFocusRows(s, now) \subseteq ViewFocusRows(s, now')
         /\ ViewDepartures(s, now) \subseteq ViewDepartures(s, now')
  BY <1>2 DEF PresenceRows, StintRows, ViewFocusRows, ViewDepartures
<1>4. ViewAfters(s, now) \subseteq ViewAfters(s, now')
  BY <1>3 DEF ViewAfters
<1>5. ViewWorking(s, now) \subseteq ViewWorking(s, now')
  <2>1. [kind : {"write"}, stop : ViewDepartures(s, now), ids : SUBSET Nat,
        then : ViewAfters(s, now)]
          \subseteq [kind : {"write"}, stop : ViewDepartures(s, now'), ids : SUBSET Nat,
          then : ViewAfters(s, now')]
    BY <1>3, <1>4
  <2>2. [kind : {"sweep"}, rows : SUBSET [who : s.members, id : Nat, at : 1 .. now]]
          \subseteq [kind : {"sweep"}, rows : SUBSET [who : s.members, id : Nat, at : 1 .. now']]
    BY <1>2
  <2>3. [kind : {"beat"}, who : s.members, at : 1 .. now, closing : BOOLEAN]
          \subseteq [kind : {"beat"}, who : s.members, at : 1 .. now', closing : BOOLEAN]
    BY <1>2
  <2>4. /\ [kind : {"beats"}, at : 1 .. now, who : SUBSET s.members]
             \subseteq [kind : {"beats"}, at : 1 .. now', who : SUBSET s.members]
        /\ [kind : {"focuses"}, at : 1 .. now] \subseteq [kind : {"focuses"}, at : 1 .. now']
    BY <1>2
  <2>5. QED BY <1>4, <2>1, <2>2, <2>3, <2>4 DEF ViewWorking
<1>6. UNCHANGED <<view, presence, stint, focus, beaten, view_left, call>>
  BY DEF View!Tick
<1>7. ViewCallsOK(s)'
  BY <1>5, <1>6 DEF ViewInv, ViewShape, ViewCallsOK
<1>8. View(s)!TypeOK'
  <2>1. /\ presence' \in [s.members -> Seq(PresenceRows(now'))]
           /\ stint' \in [s.members -> Seq(StintRows(now'))]
        /\ focus' \in Seq(ViewFocusRows(s, now'))
    <3>1. /\ Seq(PresenceRows(now)) \subseteq Seq(PresenceRows(now'))
             /\ Seq(ViewFocusRows(s, now)) \subseteq Seq(ViewFocusRows(s, now'))
          /\ Seq(StintRows(now)) \subseteq Seq(StintRows(now'))
      BY <1>3, SequencesWider
    <3>2. /\ presence \in [s.members -> Seq(PresenceRows(now))]
             /\ stint \in [s.members -> Seq(StintRows(now))]
          /\ focus \in Seq(ViewFocusRows(s, now))
      BY DEF ViewInv, ViewShape, View!TypeOK, PresenceRows, StintRows, ViewFocusRows
    <3>3. QED BY <1>6, <3>1, <3>2
  <2>2. beaten' \in [s.members -> 0 .. now']
    <3>1. beaten \in [s.members -> 0 .. now]
      BY DEF ViewInv, ViewShape, View!TypeOK
    <3>2. QED BY <1>2, <1>6, <3>1
  <2>3. QED BY <1>1, <1>6, <2>1, <2>2 DEF ViewInv, ViewShape, View!TypeOK, PresenceRows, StintRows,
        ViewFocusRows
<1>9. ViewStopsInOrder(s)'
  BY <1>6 DEF ViewInv, ViewStopsInOrder
<1>10. QED BY <1>6, <1>7, <1>8, <1>9, ViewStretchesKept, ViewPresencesKept DEF ViewInv, ViewShape

LEMMA ViewInitial == ASSUME NEW s, View(s)!TimesAssumption, View(s)!Init PROVE ViewInv(s)
<1>1. now = 1 /\ now \in 1 .. s.time
  BY DEF View!Init, View!TimesAssumption
<1>2. <<>> \in Seq(PresenceRows(now)) /\ <<>> \in Seq(StintRows(now))
      /\ <<>> \in Seq(ViewFocusRows(s, now)) /\ DOMAIN <<>> = {}
  OBVIOUS
<1>3. View(s)!TypeOK
  <2>1. /\ presence \in [s.members -> Seq(PresenceRows(now))]
           /\ stint \in [s.members -> Seq(StintRows(now))]
        /\ focus \in Seq(ViewFocusRows(s, now)) /\ beaten \in [s.members -> 0 .. now]
           /\ view \in {"LIVE", "ENDED"}
    BY <1>1, <1>2 DEF View!Init
  <2>2. QED BY <1>1, <2>1 DEF View!TypeOK, PresenceRows, StintRows, ViewFocusRows
<1>4. ViewCallsOK(s) /\ ViewStopsInOrder(s)
  BY DEF View!Init, ViewCallsOK, ViewWorking, ViewAfters, ViewEnds, View!Idle, ViewStopsInOrder
<1>5. View(s)!StretchesApart /\ View(s)!OnePresence
  BY <1>2 DEF View!Init, View!StretchesApart, View!OnePresence, View!Running
<1>6. QED BY <1>3, <1>4, <1>5 DEF ViewInv, ViewShape

LEMMA ViewStep == ASSUME NEW s, View(s)!TimesAssumption, ViewInv(s), View(s)!Next PROVE ViewInv(s)'
<1>1. ASSUME NEW c \in s.calls, NEW m \in s.members, View(s)!BeginBeat(c, m) PROVE ViewInv(s)'
  BY <1>1, ViewBeginSound
<1>2. ASSUME NEW m \in s.members, View(s)!StopStint(m) \/ View(s)!StopFocus(m) PROVE ViewInv(s)'
  BY <1>2, ViewStopStintSound, ViewStopFocusSound
<1>3. ASSUME NEW c \in s.calls, View(s)!SweepRead(c) \/ View(s)!EndLive(c) \/ View(s)!Fail(c)
      PROVE  ViewInv(s)'
  BY <1>3, ViewSweepReadSound, ViewEndsSound, ViewFailSound
<1>4. ASSUME NEW c \in s.calls, NEW w \in s.members, NEW t \in s.members,
             View(s)!StartFocus(c, w, t)
      PROVE  ViewInv(s)'
  BY <1>4, ViewFocusSound
<1>5. ASSUME NEW c \in s.calls, View(s)!Advance(c) PROVE ViewInv(s)'
  <2>1. CASE View(s)!SeeFocuses(c)
    <3>1. call[c] \in ViewWorking(s, now) /\ now \in Nat /\ call[c].kind = "focus"
      BY <2>1, ViewTyped DEF ViewInv, View!SeeFocuses
    <3>2. call[c].watcher \in s.members
      BY <3>1, ViewCallHolds
    <3>3. QED BY <2>1, <3>2, ViewFocusSound
  <2>2. CASE View(s)!BeatKnown(c) \/ View(s)!BeatNew(c) \/ View(s)!StopRead(c)
             \/ View(s)!StopWrite(c) \/ View(s)!EnsureStint(c) \/ View(s)!SweepClose(c)
    BY <2>2, ViewBeatKnownSound, ViewBeatNewSound, ViewStopReadSound, ViewStopWriteSound,
          ViewEnsureSound, ViewSweepCloseSound
  <2>3. CASE View(s)!CloseLiveStints(c) \/ View(s)!ReadBeats(c) \/ View(s)!ClosePresences(c)
             \/ View(s)!CloseFocuses(c) \/ View(s)!SwapFocus(c)
    BY <2>3, ViewEndsSound, ViewReadBeatsSound, ViewClosePresencesSound, ViewCloseFocusesSound,
          ViewSwapSound
  <2>4. QED BY <1>5, <2>1, <2>2, <2>3 DEF View!Advance
<1>6. CASE View(s)!Tick
  BY <1>6, ViewTickSound
<1>7. QED BY <1>1, <1>2, <1>3, <1>4, <1>5, <1>6 DEF View!Next

LEMMA ViewFinal == ASSUME NEW s, View(s)!TimesAssumption, ViewInv(s) PROVE View(s)!PresencesSound
  BY DEF ViewInv, ViewShape, View!PresencesSound

\* A step elsewhere leaves the rows and the calls as they are.
LEMMA ViewRests == ASSUME NEW s, ViewInv(s), UNCHANGED view_vars PROVE ViewInv(s)'
<1> USE DEF view_vars, ViewInv
<1>1. ViewShape(s)'
  BY DEF ViewShape, View!TypeOK, ViewCallsOK
<1>2. ViewStopsInOrder(s)'
  BY DEF ViewStopsInOrder
<1>3. QED BY <1>1, <1>2, ViewStretchesKept, ViewPresencesKept

\* The Mod View is one of the two that are looked at, for good.
ViewHolds == IF part = "views" THEN ViewInv(ViewsScope) ELSE ViewInv(ViewScope)

\* PresencesSound: however the beats of several tabs, the stops, the sweep and the end of the live
\* cross for any number of members and calls, a member has at most one open presence, and their
\* stretches never overlap nor end before they began.
THEOREM Moderated == LivesSpec => []PresencesSound
<1> USE LivesAssumption
<1>1. LivesInit => ViewHolds
  BY ViewInitial DEF LivesInit, ViewHolds
<1>2. ViewHolds /\ [LivesNext]_all_vars => ViewHolds'
  <2> SUFFICES ASSUME ViewHolds, [LivesNext]_all_vars PROVE ViewHolds'
    OBVIOUS
  <2>1. CASE OnView /\ View(ViewScope)!Next
    BY <2>1, ViewStep DEF OnView, On, ViewHolds
  <2>2. CASE OnViews /\ View(ViewsScope)!Next
    BY <2>2, ViewStep DEF OnViews, On, ViewHolds
  <2>3. CASE UNCHANGED <<part, view_vars>>
    BY <2>3, ViewRests DEF ViewHolds
  <2>4. QED
    BY <2>1, <2>2, <2>3 DEF LivesNext, OnSession, OnWatch, OnWatches, On, all_vars
<1>3. ViewHolds => PresencesSound
  BY ViewFinal DEF ViewHolds, PresencesSound
<1>4. QED BY <1>1, <1>2, <1>3, PTL DEF LivesSpec

-----------------------------------------------------------------------------
(* LivePresence: what is written as an end was heard *)

\* What a call still has to stop, and what it does next.
ViewTodo(k) == IF k.kind = "stops" THEN k.todo ELSE {}
ViewDue(k) == IF k.kind = "write" THEN {k.stop} \union ViewTodo(k.then) ELSE ViewTodo(k)
ViewNext(k) == IF k.kind = "stops" THEN k.next ELSE k
ViewLast(k) == IF k.kind = "write" THEN ViewNext(k.then) ELSE ViewNext(k)

\* With b the latest beats counted and p the presences: no stop on its way counts a silence, and a
\* stretch is begun, or stopped by the end of the live, for members who beat.
ViewCallHeard(s, b, p, k) ==
    /\ \A t \in ViewDue(k) : t.at <= b[t.who] + s.stale
    /\ ViewLast(k).kind = "ensure" => DOMAIN p[ViewLast(k).who] # {}
    /\ k.kind = "sweep" => \A r \in k.rows : r.at <= b[r.who]
    /\ k.kind = "beats" => \A m \in k.who : DOMAIN p[m] # {}
ViewBeatsHeard(s, b, p) == \A m \in s.members : \A i \in DOMAIN p[m] : p[m][i].beat <= b[m]
ViewBegunPresent(s, p, q) == \A m \in s.members : DOMAIN q[m] # {} => DOMAIN p[m] # {}
ViewAsks == [beat : Nat, stop : Nat, focus : Nat, fail : Nat]
ViewHeard(s) ==
    /\ view_left \in ViewAsks
    /\ ViewBeatsHeard(s, beaten, presence)
    /\ ViewBegunPresent(s, presence, stint)
    /\ \A c \in s.calls : ViewCallHeard(s, beaten, presence, call[c])

LEMMA ViewDueTyped ==
  ASSUME NEW s, NEW t \in Nat, NEW k \in ViewWorking(s, t)
  PROVE  /\ ViewDue(k) \subseteq ViewDepartures(s, t)
         /\ ViewLast(k).kind = "ensure" => ViewLast(k).who \in s.members
<1>1. ASSUME NEW e \in ViewEnds(s)
      PROVE  ViewTodo(e) = {} /\ ViewNext(e) = e /\ (e.kind = "ensure" => e.who \in s.members)
  BY DEF ViewEnds, ViewTodo, ViewNext, View!Idle
<1>2. ASSUME NEW e \in ViewAfters(s, t)
      PROVE  /\ ViewTodo(e) \subseteq ViewDepartures(s, t) /\ ViewNext(e) \in ViewEnds(s)
  <2>1. CASE e \in ViewEnds(s)
    BY <1>1, <2>1
  <2>2. CASE e \in [kind : {"stops"}, todo : SUBSET ViewDepartures(s, t), next : ViewEnds(s)]
    BY <2>2 DEF ViewTodo, ViewNext
  <2>3. QED BY <2>1, <2>2 DEF ViewAfters
<1>3. CASE k \in ViewAfters(s, t)
  <2>1. k.kind # "write"
    BY <1>3 DEF ViewAfters, ViewEnds, View!Idle
  <2>2. QED BY <1>1, <1>2, <1>3, <2>1 DEF ViewDue, ViewLast
<1>4. CASE k.kind = "write"
  <2>1. k.stop \in ViewDepartures(s, t) /\ k.then \in ViewAfters(s, t)
    BY <1>4, ViewCallHolds
  <2>2. QED BY <1>1, <1>2, <1>4, <2>1 DEF ViewDue, ViewLast
<1>5. CASE k \notin ViewAfters(s, t) /\ k.kind # "write"
  <2>1. k.kind \notin {"write", "stops", "ensure"}
    BY <1>5 DEF ViewWorking
  <2>2. QED BY <2>1 DEF ViewDue, ViewLast, ViewTodo, ViewNext
<1>6. QED BY <1>3, <1>4, <1>5

\* A call with nothing to stop nor to begin.
ViewPlain(k) == k.kind \notin {"stops", "write", "ensure", "sweep", "beats"}
LEMMA ViewPlainHeard ==
  ASSUME NEW s, NEW b, NEW p, NEW k, ViewPlain(k)
  PROVE  ViewCallHeard(s, b, p, k)
  BY DEF ViewPlain, ViewCallHeard, ViewDue, ViewLast, ViewTodo, ViewNext

\* A call that stops members where they left.
LEMMA ViewStopsHeard ==
  ASSUME NEW s, NEW b, NEW p, NEW todo, NEW next \in ViewEnds(s),
         \A t \in todo : t.at <= b[t.who] + s.stale,
         next.kind = "ensure" => DOMAIN p[next.who] # {}
  PROVE  ViewCallHeard(s, b, p, View(s)!Stops(todo, next))
<1>1. next.kind \in {"idle", "presences", "ensure"}
  BY DEF ViewEnds, View!Idle
<1>2. CASE todo = {}
  BY <1>1, <1>2 DEF View!Stops, ViewCallHeard, ViewDue, ViewLast, ViewTodo, ViewNext
<1>3. CASE todo # {}
  <2> DEFINE k == View(s)!Stops(todo, next)
  <2>1. k.kind = "stops" /\ k.todo = todo /\ k.next = next
    BY <1>3 DEF View!Stops
  <2> HIDE DEF k
  <2>2. ViewDue(k) = todo /\ ViewLast(k) = next
    BY <2>1 DEF ViewDue, ViewLast, ViewTodo, ViewNext
  <2>3. ViewCallHeard(s, b, p, k)
    BY <2>1, <2>2 DEF ViewCallHeard
  <2>4. QED BY <2>3 DEF k
<1>4. QED BY <1>2, <1>3

\* What was heard stays heard.
LEMMA ViewMoreHeard ==
  ASSUME NEW s, s.stale \in Nat, NEW t \in Nat, NEW k \in ViewWorking(s, t),
         NEW b \in [s.members -> Nat], NEW h \in [s.members -> Nat], NEW p, NEW q,
         \A m \in s.members : b[m] <= h[m] /\ (DOMAIN p[m] # {} => DOMAIN q[m] # {}),
         ViewCallHeard(s, b, p, k)
  PROVE  ViewCallHeard(s, h, q, k)
<1>1. ASSUME NEW d \in ViewDue(k) PROVE d.at <= h[d.who] + s.stale
  <2>1. d.who \in s.members /\ d.at \in Nat
    BY ViewDueTyped DEF ViewDepartures
  <2>2. d.at <= b[d.who] + s.stale
    BY DEF ViewCallHeard
  <2>3. b[d.who] \in Nat /\ h[d.who] \in Nat /\ b[d.who] <= h[d.who]
    BY <2>1
  <2>4. QED BY <2>1, <2>2, <2>3
<1>2. ViewLast(k).kind = "ensure" => DOMAIN q[ViewLast(k).who] # {}
  BY ViewDueTyped DEF ViewCallHeard
<1>3. ASSUME k.kind = "sweep", NEW r \in k.rows PROVE r.at <= h[r.who]
  <2>1. r.who \in s.members /\ r.at \in Nat
    BY <1>3, ViewCallHolds
  <2>2. r.at <= b[r.who]
    BY <1>3 DEF ViewCallHeard
  <2>3. b[r.who] \in Nat /\ h[r.who] \in Nat /\ b[r.who] <= h[r.who]
    BY <2>1
  <2>4. QED BY <2>1, <2>2, <2>3
<1>4. ASSUME k.kind = "beats", NEW m \in k.who PROVE DOMAIN q[m] # {}
  BY <1>4, ViewCallHolds DEF ViewCallHeard
<1>5. QED BY <1>1, <1>2, <1>3, <1>4 DEF ViewCallHeard

\* The latest beats of the model are numbers.
LEMMA ViewBeaten ==
  ASSUME NEW s, View(s)!TimesAssumption, ViewInv(s)
  PROVE  beaten \in [s.members -> Nat] /\ beaten \in [s.members -> 0 .. now] /\ s.stale \in Nat
<1>1. now \in Nat /\ beaten \in [s.members -> 0 .. now]
  BY ViewTyped DEF ViewInv, ViewShape, View!TypeOK
<1>2. QED BY <1>1 DEF View!TimesAssumption

\* One call goes on, what was heard stays heard.
LEMMA ViewHeardGoes ==
  ASSUME NEW s, View(s)!TimesAssumption, ViewInv(s), ViewHeard(s), NEW c \in s.calls, NEW k,
         call' = [call EXCEPT ![c] = k], beaten' \in [s.members -> Nat],
         \A m \in s.members : /\ beaten[m] <= beaten'[m]
                              /\ DOMAIN presence[m] # {} => DOMAIN presence'[m] # {},
         ViewCallHeard(s, beaten', presence', k)
  PROVE  \A d \in s.calls : ViewCallHeard(s, beaten', presence', call'[d])
<1>1. call \in [s.calls -> ViewWorking(s, now)] /\ now \in Nat
  BY ViewTyped DEF ViewInv, ViewShape, ViewCallsOK
<1>2. beaten \in [s.members -> Nat] /\ s.stale \in Nat
  BY ViewBeaten
<1>3. ASSUME NEW d \in s.calls, d # c PROVE ViewCallHeard(s, beaten', presence', call'[d])
  <2>1. call'[d] = call[d] /\ call[d] \in ViewWorking(s, now)
    BY <1>1, <1>3
  <2>2. ViewCallHeard(s, beaten, presence, call[d])
    BY DEF ViewHeard
  <2>3. ViewCallHeard(s, beaten', presence', call[d])
    BY <1>1, <1>2, <2>1, <2>2, ViewMoreHeard
  <2>4. QED BY <2>1, <2>3
<1>4. call'[c] = k
  BY <1>1
<1>5. QED BY <1>3, <1>4

\* One call goes on, no presence nor stretch is written.
LEMMA ViewQuietHeard ==
  ASSUME NEW s, View(s)!TimesAssumption, ViewInv(s), ViewHeard(s), NEW c \in s.calls, NEW k,
         call' = [call EXCEPT ![c] = k], UNCHANGED <<presence, stint, beaten>>,
         view_left' \in ViewAsks, ViewCallHeard(s, beaten, presence, k)
  PROVE  ViewHeard(s)'
<1>1. beaten' \in [s.members -> Nat] /\ beaten \in [s.members -> Nat]
  BY ViewBeaten
<1>2. \A m \in s.members : /\ beaten[m] <= beaten'[m]
                           /\ DOMAIN presence[m] # {} => DOMAIN presence'[m] # {}
  BY <1>1
<1>3. ViewCallHeard(s, beaten', presence', k)
  OBVIOUS
<1>4. \A d \in s.calls : ViewCallHeard(s, beaten', presence', call'[d])
  BY <1>1, <1>2, <1>3, ViewHeardGoes
<1>5. QED BY <1>4 DEF ViewHeard

\* One call goes on, stretches are rewritten and none is begun.
LEMMA ViewRewrittenHeard ==
  ASSUME NEW s, ViewHeard(s), \A n \in s.members : DOMAIN stint'[n] = DOMAIN stint[n],
         UNCHANGED presence
  PROVE  ViewBegunPresent(s, presence', stint')
  BY DEF ViewHeard, ViewBegunPresent

\* Steps of a call that asks, reads, ends or focuses: nothing is left to stop but what it read.
LEMMA ViewPlainStepHeard ==
  ASSUME NEW s, View(s)!TimesAssumption, ViewInv(s), ViewHeard(s), NEW c \in s.calls,
         \/ \E w \in s.members : View(s)!BeginBeat(c, w)
         \/ \E w, t \in s.members : View(s)!StartFocus(c, w, t)
         \/ View(s)!EndLive(c) \/ View(s)!SeeFocuses(c)
  PROVE  ViewHeard(s)'
<1>1. PICK k : /\ ViewPlain(k) /\ call' = [call EXCEPT ![c] = k]
               /\ UNCHANGED <<presence, stint, beaten>> /\ view_left' \in ViewAsks
  <2>1. ASSUME NEW w \in s.members, View(s)!BeginBeat(c, w)
        PROVE  \E k : /\ ViewPlain(k) /\ call' = [call EXCEPT ![c] = k]
                      /\ UNCHANGED <<presence, stint, beaten>> /\ view_left' \in ViewAsks
    <3>1. PICK closing \in BOOLEAN :
            call' = [call EXCEPT
                       ![c] = [kind |-> "beat", who |-> w, at |-> now, closing |-> closing]]
      BY <2>1 DEF View!BeginBeat
    <3>2. view_left' \in ViewAsks /\ UNCHANGED <<presence, stint, beaten>>
      BY <2>1 DEF View!BeginBeat, ViewHeard, ViewAsks
    <3>3. ViewPlain([kind |-> "beat", who |-> w, at |-> now, closing |-> closing])
      BY DEF ViewPlain
    <3>4. QED BY <3>1, <3>2, <3>3
  <2>2. CASE View(s)!EndLive(c)
    BY <2>2 DEF View!EndLive, ViewHeard, ViewPlain
  <2>3. ASSUME NEW w \in s.members, NEW t \in s.members, View(s)!StartFocus(c, w, t)
        PROVE  \E k : /\ ViewPlain(k) /\ call' = [call EXCEPT ![c] = k]
                      /\ UNCHANGED <<presence, stint, beaten>> /\ view_left' \in ViewAsks
    <3>1. view_left' \in ViewAsks /\ UNCHANGED <<presence, stint, beaten>>
          /\ call' = [call EXCEPT ![c] = [kind |-> "focus", watcher |-> w, target |-> t]]
      BY <2>3 DEF View!StartFocus, ViewHeard, ViewAsks
    <3>2. ViewPlain([kind |-> "focus", watcher |-> w, target |-> t])
      BY DEF ViewPlain
    <3>3. QED BY <3>1, <3>2
  <2>4. CASE View(s)!SeeFocuses(c)
    <3> DEFINE k == [kind |-> "swap", watcher |-> call[c].watcher, target |-> call[c].target,
                     ids |-> {i \in View(s)!Running(focus) : focus[i].watcher = call[c].watcher}]
    <3>1. call' = [call EXCEPT ![c] = k] /\ UNCHANGED <<presence, stint, beaten, view_left>>
      BY <2>4 DEF View!SeeFocuses
    <3>2. ViewPlain(k)
      BY DEF ViewPlain
    <3> HIDE DEF k
    <3>3. QED BY <3>1, <3>2 DEF ViewHeard
  <2>5. QED BY <2>1, <2>2, <2>3, <2>4
<1>2. QED BY <1>1, ViewPlainHeard, ViewQuietHeard

LEMMA ViewEndedStepHeard ==
  ASSUME NEW s, View(s)!TimesAssumption, ViewInv(s), ViewHeard(s), NEW c \in s.calls,
         View(s)!SwapFocus(c) \/ View(s)!CloseFocuses(c) \/ View(s)!Fail(c)
  PROVE  ViewHeard(s)'
<1>1. /\ call' = [call EXCEPT ![c] = View(s)!Idle] /\ UNCHANGED <<presence, stint, beaten>>
      /\ view_left' \in ViewAsks
  BY DEF View!SwapFocus, View!CloseFocuses, View!Fail, ViewHeard, ViewAsks
<1>2. ViewPlain(View(s)!Idle)
  BY DEF ViewPlain, View!Idle
<1>3. QED BY <1>1, <1>2, ViewPlainHeard, ViewQuietHeard

LEMMA ViewRestsHeard ==
  ASSUME NEW s, ViewHeard(s), UNCHANGED <<presence, stint, beaten, view_left, call>>
  PROVE  ViewHeard(s)'
  BY DEF ViewHeard

\* The sweep has heard what it read.
LEMMA ViewSweepReadHeard ==
  ASSUME NEW s, View(s)!TimesAssumption, ViewInv(s), ViewHeard(s), NEW c \in s.calls,
         View(s)!SweepRead(c)
  PROVE  ViewHeard(s)'
<1> DEFINE rows == {[who |-> r[1], id |-> r[2],
                     at |-> presence[r[1]][r[2]].beat] : r \in View(s)!SilentRows}
           k == [kind |-> "sweep", rows |-> rows]
<1>1. \A r \in View(s)!SilentRows : presence[r[1]][r[2]].beat <= beaten[r[1]]
  BY DEF View!SilentRows, View!Running, ViewHeard, ViewBeatsHeard
<1>2. \A r \in rows : r.at <= beaten[r.who]
  BY <1>1
<1>3. /\ call' = [call EXCEPT ![c] = k] /\ UNCHANGED <<presence, stint, beaten>>
      /\ view_left' \in ViewAsks
  BY DEF View!SweepRead, ViewHeard
<1> HIDE DEF rows
<1>4. ViewCallHeard(s, beaten, presence, k)
  BY <1>2 DEF ViewCallHeard, ViewDue, ViewLast, ViewTodo, ViewNext
<1> HIDE DEF k
<1>5. QED BY <1>3, <1>4, ViewQuietHeard

\* The end of the live stops members who beat.
LEMMA ViewCloseStintsHeard ==
  ASSUME NEW s, View(s)!TimesAssumption, ViewInv(s), ViewHeard(s), NEW c \in s.calls,
         View(s)!CloseLiveStints(c)
  PROVE  ViewHeard(s)'
<1> DEFINE ws == {m \in s.members : View(s)!Running(stint[m]) # {}}
           k == [kind |-> "beats", at |-> now, who |-> ws]
<1>1. \A m \in ws : DOMAIN presence[m] # {}
  BY DEF View!Running, ViewHeard, ViewBegunPresent
<1>2. /\ call' = [call EXCEPT ![c] = k] /\ UNCHANGED <<presence, stint, beaten>>
      /\ view_left' \in ViewAsks
  BY DEF View!CloseLiveStints, ViewHeard
<1> HIDE DEF ws
<1>3. ViewCallHeard(s, beaten, presence, k)
  BY <1>1 DEF ViewCallHeard, ViewDue, ViewLast, ViewTodo, ViewNext
<1> HIDE DEF k
<1>4. QED BY <1>2, <1>3, ViewQuietHeard

\* ... where their latest beat says they left: not after the silence tolerated.
LEMMA ViewReadBeatsHeard ==
  ASSUME NEW s, View(s)!TimesAssumption, ViewInv(s), ViewHeard(s), NEW c \in s.calls,
         View(s)!ReadBeats(c)
  PROVE  ViewHeard(s)'
<1> DEFINE todo == {[who |-> m, at |-> View(s)!LeftAt(m, call[c].at)] : m \in call[c].who}
           last == [kind |-> "presences"]
           k == View(s)!Stops(todo, last)
<1>1. call[c] \in ViewWorking(s, now) /\ now \in Nat /\ call[c].kind = "beats"
  BY ViewTyped DEF ViewInv, View!ReadBeats
<1>2. call[c].at \in 1 .. now /\ call[c].who \subseteq s.members
  BY <1>1, ViewCallHolds
<1>3. beaten \in [s.members -> Nat] /\ s.stale \in Nat
  BY ViewBeaten
<1>4. ASSUME NEW m \in call[c].who PROVE View(s)!LeftAt(m, call[c].at) <= beaten[m] + s.stale
  <2>1. View(s)!Beats(m) \subseteq 1 .. now /\ View(s)!Beats(m) # {}
    <3>1. presence[m] \in Seq(PresenceRows(now)) /\ DOMAIN presence[m] # {}
      BY <1>1, <1>2, ViewTyped DEF ViewInv, ViewHeard, ViewCallHeard
    <3>2. \A i \in DOMAIN presence[m] : presence[m][i] \in PresenceRows(now)
      BY <3>1
    <3>3. QED BY <3>1, <3>2 DEF View!Beats, PresenceRows
  <2>2. View(s)!LastOf(View(s)!Beats(m)) \in View(s)!Beats(m)
    BY <1>1, <2>1, ViewLatest
  <2>3. View(s)!LastOf(View(s)!Beats(m)) \in 1 .. now
        /\ View(s)!LastOf(View(s)!Beats(m)) <= beaten[m]
    BY <1>2, <2>1, <2>2 DEF View!Beats, ViewHeard, ViewBeatsHeard
  <2>4. QED BY <1>1, <1>2, <1>3, <2>1, <2>3 DEF View!LeftAt, View!IsStale
<1>5. \A t \in todo : t.at <= beaten[t.who] + s.stale
  BY <1>4
<1>6. last \in ViewEnds(s) /\ last.kind # "ensure"
  BY DEF ViewEnds
<1>7. /\ call' = [call EXCEPT ![c] = k] /\ UNCHANGED <<presence, stint, beaten>>
      /\ view_left' \in ViewAsks
  BY DEF View!ReadBeats, ViewHeard
<1> HIDE DEF todo, last
<1>8. ViewCallHeard(s, beaten, presence, k)
  BY <1>5, <1>6, ViewStopsHeard
<1> HIDE DEF k
<1>9. QED BY <1>7, <1>8, ViewQuietHeard

\* A stop read is one of those that were to be done.
LEMMA ViewStopReadHeard ==
  ASSUME NEW s, View(s)!TimesAssumption, ViewInv(s), ViewHeard(s), NEW c \in s.calls,
         View(s)!StopRead(c)
  PROVE  ViewHeard(s)'
<1>1. PICK t \in call[c].todo :
        call' = [call EXCEPT ![c] =
                   [kind |-> "write", stop |-> t, ids |-> View(s)!Running(stint[t.who]),
                    then |-> View(s)!Stops(call[c].todo \ {t}, call[c].next)]]
  BY DEF View!StopRead
<1> DEFINE rest == View(s)!Stops(call[c].todo \ {t}, call[c].next)
           k == [kind |-> "write", stop |-> t, ids |-> View(s)!Running(stint[t.who]),
                 then |-> rest]
<1>2. call[c] \in ViewWorking(s, now) /\ now \in Nat /\ call[c].kind = "stops"
  BY ViewTyped DEF ViewInv, View!StopRead
<1>3. call[c].next \in ViewEnds(s)
  BY <1>2, ViewCallHolds
<1>4. /\ \A d \in call[c].todo : d.at <= beaten[d.who] + s.stale
      /\ call[c].next.kind = "ensure" => DOMAIN presence[call[c].next.who] # {}
  BY <1>2 DEF ViewHeard, ViewCallHeard, ViewDue, ViewLast, ViewTodo, ViewNext
<1>5. ViewCallHeard(s, beaten, presence, rest)
  BY <1>3, <1>4, ViewStopsHeard
<1>6. rest.kind # "write"
  BY <1>3 DEF View!Stops, ViewEnds, View!Idle
<1>7. /\ call' = [call EXCEPT ![c] = k] /\ UNCHANGED <<presence, stint, beaten>>
      /\ view_left' \in ViewAsks
  BY <1>1 DEF View!StopRead, ViewHeard
<1> HIDE DEF rest
<1>8. ViewCallHeard(s, beaten, presence, k)
  <2>1. ViewDue(k) = {t} \union ViewDue(rest) /\ ViewLast(k) = ViewLast(rest)
    BY <1>6 DEF ViewDue, ViewLast
  <2>2. QED BY <1>4, <1>5, <2>1 DEF ViewCallHeard
<1> HIDE DEF k
<1>9. QED BY <1>7, <1>8, ViewQuietHeard

\* Stretches stopped: the call goes on with the rest of its stops.
LEMMA ViewStopWriteHeard ==
  ASSUME NEW s, View(s)!TimesAssumption, ViewInv(s), ViewHeard(s), NEW c \in s.calls,
         View(s)!StopWrite(c)
  PROVE  ViewHeard(s)'
<1>1. call[c] \in ViewWorking(s, now) /\ now \in Nat /\ call[c].kind = "write"
  BY ViewTyped DEF ViewInv, View!StopWrite
<1>2. call[c].then \in ViewAfters(s, now)
  BY <1>1, ViewCallHolds
<1>3. call[c].then.kind \notin {"write", "sweep", "beats"}
  BY <1>2 DEF ViewAfters, ViewEnds, View!Idle
<1>4. ViewCallHeard(s, beaten, presence, call[c].then)
  <2>1. ViewCallHeard(s, beaten, presence, call[c])
    BY DEF ViewHeard
  <2>2. ViewDue(call[c].then) \subseteq ViewDue(call[c])
        /\ ViewLast(call[c].then) = ViewLast(call[c])
    BY <1>1, <1>3 DEF ViewDue, ViewLast
  <2>3. QED BY <1>3, <2>1, <2>2 DEF ViewCallHeard
<1>5. /\ call' = [call EXCEPT ![c] = call[c].then] /\ UNCHANGED <<presence, beaten, view_left>>
      /\ \A n \in s.members : DOMAIN stint'[n] = DOMAIN stint[n]
  <2>1. stint \in [s.members -> Seq(StintRows(now))]
    BY DEF ViewInv, ViewShape, View!TypeOK, StintRows
  <2>2. QED BY <2>1 DEF View!StopWrite
<1>6. beaten' \in [s.members -> Nat] /\ \A m \in s.members : beaten[m] <= beaten'[m]
  BY <1>5, ViewBeaten
<1>7. \A d \in s.calls : ViewCallHeard(s, beaten', presence', call'[d])
  BY <1>4, <1>5, <1>6, ViewHeardGoes
<1>8. QED BY <1>5, <1>7, ViewRewrittenHeard DEF ViewHeard

LEMMA ViewStopStintHeard ==
  ASSUME NEW s, View(s)!TimesAssumption, ViewInv(s), ViewHeard(s), NEW m \in s.members,
         View(s)!StopStint(m)
  PROVE  ViewHeard(s)'
<1>1. \A n \in s.members : DOMAIN stint'[n] = DOMAIN stint[n]
  <2>1. stint \in [s.members -> Seq(StintRows(now))]
    BY DEF ViewInv, ViewShape, View!TypeOK, StintRows
  <2>2. QED BY <2>1 DEF View!StopStint
<1>2. UNCHANGED <<presence, beaten, call>> /\ view_left' \in ViewAsks
  BY DEF View!StopStint, ViewHeard, ViewAsks
<1>3. QED BY <1>1, <1>2, ViewRewrittenHeard DEF ViewHeard

\* A stretch is begun for a member who beat.
LEMMA ViewEnsureHeard ==
  ASSUME NEW s, View(s)!TimesAssumption, ViewInv(s), ViewHeard(s), NEW c \in s.calls,
         View(s)!EnsureStint(c)
  PROVE  ViewHeard(s)'
<1>1. call[c].kind = "ensure" /\ DOMAIN presence[call[c].who] # {}
  BY DEF View!EnsureStint, ViewHeard, ViewCallHeard, ViewLast, ViewNext
<1>2. /\ call' = [call EXCEPT ![c] = View(s)!Idle] /\ UNCHANGED <<presence, beaten, view_left>>
      /\ \A n \in s.members : n # call[c].who => stint'[n] = stint[n]
  <2>1. stint \in [s.members -> Seq(StintRows(now))]
    BY DEF ViewInv, ViewShape, View!TypeOK, StintRows
  <2>2. QED BY <2>1 DEF View!EnsureStint
<1>3. ViewBegunPresent(s, presence', stint')
  BY <1>1, <1>2 DEF ViewHeard, ViewBegunPresent
<1>4. beaten' \in [s.members -> Nat] /\ \A m \in s.members : beaten[m] <= beaten'[m]
  BY <1>2, ViewBeaten
<1>5. ViewPlain(View(s)!Idle)
  BY DEF ViewPlain, View!Idle
<1>6. \A d \in s.calls : ViewCallHeard(s, beaten', presence', call'[d])
  BY <1>2, <1>4, <1>5, ViewPlainHeard, ViewHeardGoes
<1>7. QED BY <1>2, <1>3, <1>6 DEF ViewHeard

\* A beat is heard, whatever it wrote.
LEMMA ViewBeatHeard ==
  ASSUME NEW s, View(s)!TimesAssumption, ViewInv(s), ViewHeard(s), NEW c \in s.calls,
         NEW m \in s.members, NEW at \in Nat, NEW f, NEW k,
         presence' = [presence EXCEPT ![m] = f],
         beaten' = [beaten EXCEPT ![m] = View(s)!Later(@, at)],
         call' = [call EXCEPT ![c] = k], UNCHANGED <<stint, view_left>>,
         \A i \in DOMAIN f : f[i].beat \in Nat
                             /\ (f[i].beat = at \/ f[i].beat <= beaten[m]),
         DOMAIN presence[m] # {} => DOMAIN f # {},
         ViewCallHeard(s, beaten', presence', k)
  PROVE  ViewHeard(s)'
<1>1. beaten \in [s.members -> Nat] /\ s.stale \in Nat
  BY ViewBeaten
<1>2. /\ View(s)!Later(beaten[m], at) \in Nat /\ beaten[m] <= View(s)!Later(beaten[m], at)
      /\ at <= View(s)!Later(beaten[m], at)
  BY <1>1 DEF View!Later
<1>3. /\ beaten' \in [s.members -> Nat] /\ beaten'[m] = View(s)!Later(beaten[m], at)
      /\ \A n \in s.members : n # m => beaten'[n] = beaten[n]
  BY <1>1, <1>2
<1>4. \A n \in s.members : beaten[n] <= beaten'[n]
  BY <1>1, <1>2, <1>3
<1>5. presence'[m] = f /\ \A n \in s.members : n # m => presence'[n] = presence[n]
  BY DEF ViewInv, ViewShape, View!TypeOK
<1>6. \A n \in s.members : DOMAIN presence[n] # {} => DOMAIN presence'[n] # {}
  BY <1>5
<1>7. \A d \in s.calls : ViewCallHeard(s, beaten', presence', call'[d])
  BY <1>3, <1>4, <1>6, ViewHeardGoes
<1>8. ViewBeatsHeard(s, beaten', presence')
  <2>1. ASSUME NEW i \in DOMAIN f PROVE f[i].beat <= beaten'[m]
    <3>1. f[i].beat \in Nat /\ (f[i].beat = at \/ f[i].beat <= beaten[m])
      OBVIOUS
    <3>2. QED BY <1>1, <1>2, <1>3, <3>1
  <2>2. QED BY <1>3, <1>5, <2>1 DEF ViewHeard, ViewBeatsHeard
<1>9. ViewBegunPresent(s, presence', stint')
  BY <1>6 DEF ViewHeard, ViewBegunPresent
<1>10. QED BY <1>7, <1>8, <1>9 DEF ViewHeard

LEMMA ViewBeatKnownHeard ==
  ASSUME NEW s, View(s)!TimesAssumption, ViewInv(s), ViewHeard(s), NEW c \in s.calls,
         View(s)!BeatKnown(c)
  PROVE  ViewHeard(s)'
<1> DEFINE m == call[c].who
           at == call[c].at
           todo == {[who |-> m, at |-> at]}
           k == IF call[c].closing THEN View(s)!Stops(todo, View(s)!Idle) ELSE View(s)!Idle
<1>1. call[c] \in ViewWorking(s, now) /\ now \in Nat \ {0} /\ call[c].kind = "beat"
  BY ViewTyped DEF ViewInv, View!BeatKnown
<1>2. m \in s.members /\ at \in Nat
  BY <1>1, ViewCallHolds
<1>3. PICK i \in View(s)!Running(presence[call[c].who]), f \in Seq(PresenceRows(now)) :
        /\ presence' = [presence EXCEPT ![call[c].who] = f]
        /\ ViewBeatsRow(presence[call[c].who], f, i, call[c].at)
  BY ViewBeatKnownRow
<1>9. presence' = [presence EXCEPT ![m] = f] /\ ViewBeatsRow(presence[m], f, i, at)
  BY <1>3
<1>4. \A j \in DOMAIN f : f[j].beat \in Nat /\ (f[j].beat = at \/ f[j].beat <= beaten[m])
  <2>1. \A j \in DOMAIN f : f[j] \in PresenceRows(now)
    BY <1>3
  <2>2. \A j \in DOMAIN presence[m] : presence[m][j].beat <= beaten[m]
    BY <1>2 DEF ViewHeard, ViewBeatsHeard
  <2>3. \A j \in DOMAIN f : f[j].beat \in Nat
    BY <1>1, <2>1 DEF PresenceRows
  <2> HIDE DEF m, at
  <2>4. ASSUME NEW j \in DOMAIN f PROVE f[j].beat = at \/ f[j].beat <= beaten[m]
    BY <1>9, <2>2 DEF ViewBeatsRow
  <2>5. QED BY <2>3, <2>4
<1>5. beaten' = [beaten EXCEPT ![m] = View(s)!Later(@, at)] /\ UNCHANGED <<stint, view_left>>
      /\ call' = [call EXCEPT ![c] = k]
  BY DEF View!BeatKnown, View!Hear
<1>6. ViewCallHeard(s, beaten', presence', k)
  <2>1. beaten \in [s.members -> Nat] /\ s.stale \in Nat
    BY ViewBeaten
  <2>2. at <= beaten'[m] + s.stale
    BY <1>2, <1>5, <2>1 DEF View!Later
  <2>3. View(s)!Idle \in ViewEnds(s) /\ View(s)!Idle.kind # "ensure" /\ ViewPlain(View(s)!Idle)
    BY DEF ViewEnds, View!Idle, ViewPlain
  <2>4. \A t \in todo : t.at <= beaten'[t.who] + s.stale
    BY <2>2
  <2> HIDE DEF todo
  <2>5. QED BY <2>3, <2>4, ViewStopsHeard, ViewPlainHeard
<1> HIDE DEF m, at, k
<1>7. DOMAIN presence[m] # {} => DOMAIN f # {}
  BY <1>9 DEF ViewBeatsRow
<1>8. QED BY <1>2, <1>9, <1>4, <1>5, <1>6, <1>7, ViewBeatHeard

\* The presence that closes for its silence closes at its last beat.
LEMMA ViewBeatNewHeard ==
  ASSUME NEW s, View(s)!TimesAssumption, ViewInv(s), ViewHeard(s), NEW c \in s.calls,
         View(s)!BeatNew(c)
  PROVE  ViewHeard(s)'
<1> DEFINE m == call[c].who
           at == call[c].at
           q == presence[m]
           old == View(s)!Newest(q)
           f == [i \in DOMAIN q |-> IF i \in old THEN [q[i] EXCEPT !.to = q[i].beat] ELSE q[i]]
           e == IF call[c].closing THEN <<>> ELSE <<[from |-> at, beat |-> at, to |-> 0]>>
           todo == {[who |-> m, at |-> q[i].beat] : i \in old}
           R == [beat : Nat, from : Nat, to : Nat]
           next == IF call[c].closing THEN View(s)!Idle ELSE [kind |-> "ensure", who |-> m]
           k == View(s)!Stops(todo, next)
<1>1. call[c] \in ViewWorking(s, now) /\ now \in Nat \ {0} /\ call[c].kind = "beat"
  BY ViewTyped DEF ViewInv, View!BeatNew
<1>2. m \in s.members /\ at \in 1 .. now /\ at \in Nat /\ call[c].closing \in BOOLEAN
  BY <1>1, ViewCallHolds
<1>3. q \in Seq(PresenceRows(now)) /\ presence \in [s.members -> Seq(PresenceRows(now))]
  BY <1>2, ViewTyped DEF ViewInv, ViewShape, View!TypeOK, PresenceRows
<1>4. \A i \in DOMAIN q : q[i] \in PresenceRows(now) /\ q[i].beat <= beaten[m]
  BY <1>2, <1>3 DEF ViewHeard, ViewBeatsHeard
<1>5. old \subseteq DOMAIN q
  BY DEF View!Newest, View!Running
<1>6. /\ presence' = [presence EXCEPT ![m] = f \o e] /\ call' = [call EXCEPT ![c] = k]
      /\ beaten' = [beaten EXCEPT ![m] = View(s)!Later(@, at)] /\ UNCHANGED <<stint, view_left>>
  BY DEF View!BeatNew, View!Hear
<1>7. DOMAIN f = DOMAIN q /\ \A i \in DOMAIN q : f[i].beat = q[i].beat
  <2>1. DOMAIN f = DOMAIN q
    OBVIOUS
  <2>2. ASSUME NEW i \in DOMAIN q PROVE f[i].beat = q[i].beat
    <3>1. f[i] = [q[i] EXCEPT !.to = q[i].beat] \/ f[i] = q[i]
      OBVIOUS
    <3> HIDE DEF f, q
    <3>2. QED BY <1>4, <3>1 DEF PresenceRows
  <2>3. QED BY <2>1, <2>2
<1>8. f \in Seq(R)
  <2>1. ASSUME NEW i \in DOMAIN q PROVE f[i] \in R
    <3>1. f[i] = [q[i] EXCEPT !.to = q[i].beat] \/ f[i] = q[i]
      OBVIOUS
    <3> HIDE DEF f, q
    <3>2. QED BY <1>1, <1>4, <3>1 DEF PresenceRows
  <2> HIDE DEF q, old, R
  <2>2. f = [i \in DOMAIN q |-> f[i]]
    OBVIOUS
  <2> HIDE DEF f
  <2>3. QED BY <1>3, <2>1, <2>2, SequenceMapped
<1>9. /\ Len(e) \in Nat /\ Len(e) = IF call[c].closing THEN 0 ELSE 1
      /\ e \in Seq(R)
      /\ Len(e) = 1 => e[1].beat = at
  <2> HIDE DEF at
  <2>1. CASE call[c].closing
    BY <2>1
  <2>2. CASE ~call[c].closing
    <3> DEFINE row == [from |-> at, beat |-> at, to |-> 0]
    <3>1. row \in R /\ row.beat = at
      BY <1>2
    <3>2. e = <<row>>
      BY <2>2
    <3> HIDE DEF row, e, R
    <3>3. QED BY <2>2, <3>1, <3>2
  <2>3. QED BY <1>2, <2>1, <2>2
<1> HIDE DEF f, e, R
<1> DEFINE L == Len(f)
           g == f \o e
<1>14. /\ L \in Nat /\ DOMAIN q = 1 .. L /\ DOMAIN g = 1 .. L + Len(e)
       /\ \A i \in 1 .. L : g[i] = f[i]
       /\ \A i \in 1 .. Len(e) : g[L + i] = e[i]
  <2>1. /\ Len(f) \in Nat /\ DOMAIN f = 1 .. Len(f)
        /\ DOMAIN (f \o e) = 1 .. Len(f) + Len(e)
        /\ \A i \in 1 .. Len(f) : (f \o e)[i] = f[i]
        /\ \A i \in 1 .. Len(e) : (f \o e)[Len(f) + i] = e[i]
    <3> HIDE DEF L, g
    <3>1. QED BY <1>8, <1>9, SequencesJoined
  <2> HIDE DEF q
  <2>2. QED BY <1>7, <2>1
<1> HIDE DEF L, g
<1>10. \A i \in DOMAIN g : g[i].beat \in Nat
         /\ (g[i].beat = at \/ g[i].beat <= beaten[m])
  <2>1. ASSUME NEW i \in DOMAIN g
        PROVE  \/ i \in DOMAIN q /\ g[i] = f[i]
               \/ Len(e) = 1 /\ g[i] = e[1]
    BY <1>9, <1>14
  <2>2. \A i \in DOMAIN q : q[i].beat \in Nat
    BY <1>1, <1>4 DEF PresenceRows
  <2>3. QED BY <1>2, <1>4, <1>7, <1>9, <2>1, <2>2
<1>11. /\ DOMAIN q # {} => DOMAIN g # {}
       /\ ~call[c].closing => DOMAIN g # {}
  <2>1. L + Len(e) >= 1 => 1 \in DOMAIN g
    BY <1>9, <1>14
  <2>2. DOMAIN q # {} => L >= 1
    BY <1>14
  <2>3. ~call[c].closing => L + Len(e) >= 1
    BY <1>9, <1>14
  <2>4. DOMAIN q # {} => L + Len(e) >= 1
    BY <1>9, <1>14, <2>2
  <2> HIDE DEF q
  <2>5. QED BY <2>1, <2>3, <2>4
<1>12. ViewCallHeard(s, beaten', presence', k)
  <2>1. beaten \in [s.members -> Nat] /\ s.stale \in Nat
    BY ViewBeaten
  <2>2. beaten[m] \in Nat /\ beaten'[m] \in Nat /\ beaten[m] <= beaten'[m]
    BY <1>2, <1>6, <2>1 DEF View!Later
  <2>3. ASSUME NEW i \in old PROVE q[i].beat <= beaten'[m] + s.stale
    <3>1. q[i].beat \in Nat /\ q[i].beat <= beaten[m]
      BY <1>1, <1>4, <1>5 DEF PresenceRows
    <3>2. QED BY <2>1, <2>2, <3>1
  <2>4. \A t \in todo : t.at <= beaten'[t.who] + s.stale
    BY <2>3
  <2>5. presence'[m] = g
    BY <1>2, <1>3, <1>6 DEF g
  <2>6. next \in ViewEnds(s)
    BY <1>2 DEF ViewEnds
  <2>7. next.kind = "ensure" => DOMAIN presence'[next.who] # {}
    BY <1>11, <2>5 DEF View!Idle
  <2> HIDE DEF todo, next
  <2>8. QED BY <2>4, <2>6, <2>7, ViewStopsHeard
<1>13. /\ presence' = [presence EXCEPT ![m] = g] /\ call' = [call EXCEPT ![c] = k]
       /\ beaten' = [beaten EXCEPT ![m] = View(s)!Later(@, at)] /\ UNCHANGED <<stint, view_left>>
       /\ DOMAIN presence[m] # {} => DOMAIN g # {}
  BY <1>6, <1>11 DEF g
<1> HIDE DEF m, at, k, q, old, todo, next
<1>15. QED BY <1>2, <1>10, <1>12, <1>13, ViewBeatHeard

\* Presences that only close keep their beats.
LEMMA ViewClosingsHeard ==
  ASSUME NEW s, View(s)!TimesAssumption, ViewInv(s), ViewHeard(s), NEW c \in s.calls,
         View(s)!SweepClose(c) \/ View(s)!ClosePresences(c)
  PROVE  /\ \A m \in s.members : DOMAIN presence'[m] = DOMAIN presence[m]
         /\ ViewBeatsHeard(s, beaten, presence')
<1>1. /\ presence' = [m \in s.members |-> [i \in DOMAIN presence[m] |-> presence'[m][i]]]
      /\ \A m \in s.members : \A i \in DOMAIN presence[m] :
           \/ presence'[m][i] = presence[m][i]
           \/ \E t \in 1 .. now : presence'[m][i] = [presence[m][i] EXCEPT !.to = t]
  BY ViewClosings
<1>2. \A m \in s.members : DOMAIN presence'[m] = DOMAIN presence[m]
  BY <1>1
<1>3. ASSUME NEW m \in s.members, NEW i \in DOMAIN presence[m]
      PROVE  presence'[m][i].beat = presence[m][i].beat
  <2>1. presence[m][i] \in PresenceRows(now)
    <3>1. presence[m] \in Seq(PresenceRows(now))
      BY ViewTyped DEF ViewInv
    <3>2. QED BY <3>1
  <2>2. ASSUME NEW t \in 1 .. now, presence'[m][i] = [presence[m][i] EXCEPT !.to = t]
        PROVE  presence'[m][i].beat = presence[m][i].beat
    BY <2>1, <2>2 DEF PresenceRows
  <2>3. QED BY <1>1, <2>2
<1>4. QED BY <1>2, <1>3 DEF ViewHeard, ViewBeatsHeard

LEMMA ViewClosedHeard ==
  ASSUME NEW s, View(s)!TimesAssumption, ViewInv(s), ViewHeard(s), NEW c \in s.calls,
         NEW k, call' = [call EXCEPT ![c] = k], UNCHANGED <<stint, beaten, view_left>>,
         \A m \in s.members : DOMAIN presence'[m] = DOMAIN presence[m],
         ViewBeatsHeard(s, beaten, presence'), ViewCallHeard(s, beaten, presence', k)
  PROVE  ViewHeard(s)'
<1>1. beaten' \in [s.members -> Nat] /\ beaten \in [s.members -> Nat]
  BY ViewBeaten
<1>2. \A m \in s.members : /\ beaten[m] <= beaten'[m]
                           /\ DOMAIN presence[m] # {} => DOMAIN presence'[m] # {}
  BY <1>1
<1>3. ViewCallHeard(s, beaten', presence', k) /\ ViewBeatsHeard(s, beaten', presence')
  OBVIOUS
<1>4. \A d \in s.calls : ViewCallHeard(s, beaten', presence', call'[d])
  BY <1>1, <1>2, <1>3, ViewHeardGoes
<1>5. ViewBegunPresent(s, presence', stint')
  BY DEF ViewHeard, ViewBegunPresent
<1>6. QED BY <1>3, <1>4, <1>5 DEF ViewHeard

LEMMA ViewSweepCloseHeard ==
  ASSUME NEW s, View(s)!TimesAssumption, ViewInv(s), ViewHeard(s), NEW c \in s.calls,
         View(s)!SweepClose(c)
  PROVE  ViewHeard(s)'
<1> DEFINE todo == {[who |-> r.who, at |-> r.at] : r \in call[c].rows}
           k == View(s)!Stops(todo, View(s)!Idle)
<1>1. call[c] \in ViewWorking(s, now) /\ now \in Nat /\ call[c].kind = "sweep"
  BY ViewTyped DEF ViewInv, View!SweepClose
<1>2. call[c].rows \subseteq [who : s.members, id : Nat, at : 1 .. now]
  BY <1>1, ViewCallHolds
<1>3. \A r \in call[c].rows : r.at <= beaten[r.who]
  BY <1>1 DEF ViewHeard, ViewCallHeard
<1>4. \A t \in todo : t.at <= beaten[t.who] + s.stale
  <2>1. beaten \in [s.members -> Nat] /\ s.stale \in Nat
    BY ViewBeaten
  <2>2. ASSUME NEW r \in call[c].rows PROVE r.at <= beaten[r.who] + s.stale
    <3>1. r.who \in s.members /\ r.at \in Nat /\ r.at <= beaten[r.who]
      BY <1>1, <1>2, <1>3
    <3>2. beaten[r.who] \in Nat
      BY <2>1, <3>1
    <3>3. QED BY <2>1, <3>1, <3>2
  <2>3. QED BY <2>2
<1>5. View(s)!Idle \in ViewEnds(s) /\ View(s)!Idle.kind # "ensure"
  BY DEF ViewEnds, View!Idle
<1>6. call' = [call EXCEPT ![c] = k] /\ UNCHANGED <<stint, beaten, view_left>>
  BY DEF View!SweepClose
<1> HIDE DEF todo
<1>7. ViewCallHeard(s, beaten, presence', k)
  BY <1>4, <1>5, ViewStopsHeard
<1> HIDE DEF k
<1>8. QED BY <1>6, <1>7, ViewClosingsHeard, ViewClosedHeard

LEMMA ViewClosePresencesHeard ==
  ASSUME NEW s, View(s)!TimesAssumption, ViewInv(s), ViewHeard(s), NEW c \in s.calls,
         View(s)!ClosePresences(c)
  PROVE  ViewHeard(s)'
<1> DEFINE k == [kind |-> "focuses", at |-> now]
<1>1. call' = [call EXCEPT ![c] = k] /\ UNCHANGED <<stint, beaten, view_left>>
  BY DEF View!ClosePresences
<1>2. ViewPlain(k)
  BY DEF ViewPlain
<1> HIDE DEF k
<1>3. QED BY <1>1, <1>2, ViewPlainHeard, ViewClosingsHeard, ViewClosedHeard

LEMMA ViewHeardInitial ==
  ASSUME NEW s, View(s)!TimesAssumption, View(s)!Init
  PROVE  ViewHeard(s)
<1>1. /\ \A m \in s.members : DOMAIN presence[m] = {} /\ DOMAIN stint[m] = {}
      /\ \A c \in s.calls : ViewPlain(call[c])
  BY DEF View!Init, ViewPlain, View!Idle
<1>2. view_left \in ViewAsks
  BY DEF View!Init, View!TimesAssumption, ViewAsks
<1>3. \A c \in s.calls : ViewCallHeard(s, beaten, presence, call[c])
  BY <1>1, ViewPlainHeard
<1>4. QED BY <1>1, <1>2, <1>3 DEF ViewHeard, ViewBeatsHeard, ViewBegunPresent

LEMMA ViewHeardStep ==
  ASSUME NEW s, View(s)!TimesAssumption, ViewInv(s), ViewHeard(s), View(s)!Next
  PROVE  ViewHeard(s)'
<1>1. ASSUME NEW c \in s.calls, NEW m \in s.members, View(s)!BeginBeat(c, m) PROVE ViewHeard(s)'
  BY <1>1, ViewPlainStepHeard
<1>2. ASSUME NEW m \in s.members, View(s)!StopStint(m) \/ View(s)!StopFocus(m)
      PROVE  ViewHeard(s)'
  <2>1. CASE View(s)!StopFocus(m)
    BY <2>1, ViewRestsHeard DEF View!StopFocus
  <2>2. QED BY <1>2, <2>1, ViewStopStintHeard
<1>3. ASSUME NEW c \in s.calls, View(s)!SweepRead(c) \/ View(s)!Fail(c) PROVE ViewHeard(s)'
  BY <1>3, ViewSweepReadHeard, ViewEndedStepHeard
<1>4. ASSUME NEW c \in s.calls, NEW w \in s.members, NEW t \in s.members,
             View(s)!StartFocus(c, w, t)
      PROVE  ViewHeard(s)'
  BY <1>4, ViewPlainStepHeard
<1>5. ASSUME NEW c \in s.calls, View(s)!EndLive(c) \/ View(s)!SeeFocuses(c) PROVE ViewHeard(s)'
  BY <1>5, ViewPlainStepHeard
<1>6. ASSUME NEW c \in s.calls, View(s)!Advance(c) PROVE ViewHeard(s)'
  <2>1. CASE View(s)!BeatKnown(c) \/ View(s)!BeatNew(c) \/ View(s)!StopRead(c)
             \/ View(s)!StopWrite(c) \/ View(s)!EnsureStint(c) \/ View(s)!SweepClose(c)
    BY <2>1, ViewBeatKnownHeard, ViewBeatNewHeard, ViewStopReadHeard, ViewStopWriteHeard,
          ViewEnsureHeard, ViewSweepCloseHeard
  <2>2. CASE View(s)!CloseLiveStints(c) \/ View(s)!ReadBeats(c) \/ View(s)!ClosePresences(c)
             \/ View(s)!CloseFocuses(c) \/ View(s)!SwapFocus(c)
    BY <2>2, ViewCloseStintsHeard, ViewReadBeatsHeard, ViewClosePresencesHeard,
          ViewEndedStepHeard
  <2>3. QED BY <1>5, <1>6, <2>1, <2>2 DEF View!Advance
<1>7. CASE View(s)!Tick
  BY <1>7, ViewRestsHeard DEF View!Tick
<1>8. QED BY <1>1, <1>2, <1>3, <1>4, <1>5, <1>6, <1>7 DEF View!Next

\* A step that stops a stretch stops it where its member left.
LEMMA ViewEndsWhereLeft ==
  ASSUME NEW s, View(s)!TimesAssumption, ViewInv(s), ViewHeard(s), View(s)!Next
  PROVE  View(s)!EndsWhereLeft
<1> SUFFICES ASSUME NEW m \in s.members, NEW i \in View(s)!Running(stint[m]),
                    stint'[m][i].to # 0, view_left'.stop = view_left.stop
             PROVE  stint'[m][i].to <= View(s)!Later(stint[m][i].from, beaten[m] + s.stale)
  BY DEF View!EndsWhereLeft
<1>1. stint \in [s.members -> Seq(StintRows(now))] /\ stint[m] \in Seq(StintRows(now))
      /\ now \in Nat /\ i \in DOMAIN stint[m] /\ stint[m][i].to = 0
  BY ViewTyped DEF ViewInv, ViewShape, View!TypeOK, StintRows, View!Running
<1>2. ASSUME NEW n \in s.members, View(s)!StopStint(n) PROVE FALSE
  BY <1>2 DEF View!StopStint, ViewHeard, ViewAsks
<1>3. ASSUME NEW c \in s.calls, View(s)!EnsureStint(c) PROVE FALSE
  <2>1. \/ stint'[m] = stint[m]
        \/ stint'[m] = Append(stint[m], [from |-> now, to |-> 0])
    BY <1>1, <1>3 DEF View!EnsureStint
  <2>2. [from |-> now, to |-> 0] \in StintRows(now)
    BY <1>1 DEF StintRows
  <2>3. Append(stint[m], [from |-> now, to |-> 0])[i] = stint[m][i]
    BY <1>1, <2>2, SequenceAppended
  <2>4. stint'[m][i] = stint[m][i]
    BY <2>1, <2>3
  <2>5. QED BY <1>1, <2>4
<1>4. ASSUME NEW c \in s.calls, View(s)!StopWrite(c)
      PROVE  stint'[m][i].to <= View(s)!Later(stint[m][i].from, beaten[m] + s.stale)
  <2> DEFINE at == call[c].stop.at
  <2>1. call[c] \in ViewWorking(s, now) /\ call[c].kind = "write"
    BY <1>4, ViewTyped DEF ViewInv, View!StopWrite
  <2>2. call[c].stop \in ViewDepartures(s, now) /\ at \in Nat
    BY <1>1, <2>1, ViewCallHolds DEF ViewDepartures
  <2>3. at <= beaten[call[c].stop.who] + s.stale
    BY <2>1 DEF ViewHeard, ViewCallHeard, ViewDue
  <2>4. \/ stint'[m][i] = stint[m][i]
        \/ call[c].stop.who = m /\ stint'[m][i] = View(s)!StoppedAt(stint[m][i], at)
    BY <1>1, <1>4 DEF View!StopWrite
  <2>5. call[c].stop.who = m /\ stint'[m][i] = View(s)!StoppedAt(stint[m][i], at)
    BY <1>1, <2>4
  <2>6. stint[m][i] \in StintRows(now) /\ stint[m][i].from \in Nat
    <3>1. stint[m][i] \in StintRows(now)
      BY <1>1
    <3>2. QED BY <1>1, <3>1 DEF StintRows
  <2>7. stint'[m][i].to = View(s)!Later(stint[m][i].from, at)
    BY <2>5, <2>6 DEF View!StoppedAt, StintRows
  <2>8. beaten[m] \in Nat /\ s.stale \in Nat
    BY ViewBeaten
  <2> HIDE DEF at
  <2>9. QED BY <2>2, <2>3, <2>5, <2>6, <2>7, <2>8 DEF View!Later
<1>5. CASE UNCHANGED stint
  BY <1>1, <1>5
<1>6. \/ UNCHANGED stint
      \/ \E n \in s.members : View(s)!StopStint(n)
      \/ \E c \in s.calls : View(s)!EnsureStint(c) \/ View(s)!StopWrite(c)
  BY DEF View!Next, View!Advance, View!BeginBeat, View!SweepRead, View!EndLive, View!StartFocus,
     View!StopFocus, View!Fail, View!Tick, View!BeatKnown, View!BeatNew, View!StopRead,
     View!SweepClose, View!CloseLiveStints, View!ReadBeats, View!ClosePresences,
     View!CloseFocuses, View!SeeFocuses, View!SwapFocus
<1>7. QED BY <1>2, <1>3, <1>4, <1>5, <1>6

LEMMA ViewEndsRests ==
  ASSUME NEW s, UNCHANGED view_vars
  PROVE  View(s)!EndsWhereLeft
  BY DEF view_vars, View!EndsWhereLeft, View!Running

\* The Mod View is one of the two that are looked at, for good.
ViewHolding(s) == ViewInv(s) /\ ViewHeard(s)
ViewHeld == IF part = "views" THEN ViewHolding(ViewsScope) ELSE ViewHolding(ViewScope)
ViewLeaves == IF part = "views" THEN View(ViewsScope)!EndsWhereLeft
                                ELSE View(ViewScope)!EndsWhereLeft

\* StopsWhereLeft: for any number of members and of calls in flight, however late a sweep, a beat
\* or the end of the live writes what it read, a stretch it stops ends at most the tolerated
\* silence after the latest beat that counted: a silence is never added up as moderation.
THEOREM StretchesEndWhereLeft ==
  LivesSpec => [][IF part = "views" THEN View(ViewsScope)!EndsWhereLeft
                                    ELSE View(ViewScope)!EndsWhereLeft]_all_vars
<1> USE LivesAssumption
<1>1. LivesInit => ViewHeld
  BY ViewInitial, ViewHeardInitial DEF LivesInit, ViewHeld, ViewHolding
<1>2. ViewHeld /\ [LivesNext]_all_vars => ViewHeld' /\ ViewLeaves
  <2> SUFFICES ASSUME ViewHeld, [LivesNext]_all_vars PROVE ViewHeld' /\ ViewLeaves
    OBVIOUS
  <2>1. ASSUME NEW s, View(s)!TimesAssumption, ViewHolding(s), View(s)!Next
        PROVE  ViewHolding(s)' /\ View(s)!EndsWhereLeft
    BY <2>1, ViewStep, ViewHeardStep, ViewEndsWhereLeft DEF ViewHolding
  <2>2. ASSUME NEW s, ViewHolding(s), UNCHANGED view_vars
        PROVE  ViewHolding(s)' /\ View(s)!EndsWhereLeft
    <3>1. UNCHANGED <<presence, stint, beaten, view_left, call>>
      BY <2>2 DEF view_vars
    <3>2. QED BY <2>2, <3>1, ViewRests, ViewRestsHeard, ViewEndsRests DEF ViewHolding
  <2>3. CASE OnView /\ View(ViewScope)!Next
    BY <2>1, <2>3 DEF OnView, On, ViewHeld, ViewLeaves
  <2>4. CASE OnViews /\ View(ViewsScope)!Next
    BY <2>1, <2>4 DEF OnViews, On, ViewHeld, ViewLeaves
  <2>5. CASE UNCHANGED <<part, view_vars>>
    BY <2>2, <2>5 DEF ViewHeld, ViewLeaves
  <2>6. QED
    BY <2>3, <2>4, <2>5 DEF LivesNext, OnSession, OnWatch, OnWatches, On, all_vars
<1>3. ViewHeld /\ [LivesNext]_all_vars => ViewHeld'
  BY <1>2
<1>4. ViewHeld /\ [LivesNext]_all_vars
        => [IF part = "views" THEN View(ViewsScope)!EndsWhereLeft
                              ELSE View(ViewScope)!EndsWhereLeft]_all_vars
  BY <1>2 DEF ViewLeaves
<1>5. QED BY <1>1, <1>3, <1>4, PTL DEF LivesSpec
=============================================================================
