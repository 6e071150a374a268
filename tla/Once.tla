--------------------------------- MODULE Once ---------------------------------
(* What must be done once whatever is asked twice, side by side: a tournament and
   what it pays, the pushes of a notification, a write under its key, the slots of
   an annual series.  A behaviour is the life of one of them, in one of its scopes,
   the others are at rest: they share nothing in the code.  A component that is
   looked at in two scopes takes its constants from the scope. *)
EXTENDS IdempotentWrite, Sequences

CONSTANTS
    TourPlayers, TourCalls, MaxGames, MaxCrashes, MaxIdle,  \* constants of PlayTournament
    SentScope, KeptScope,   \* constants of PushDelivery: what is sent, and what must arrive
    SlotsScope, RacesScope  \* constants of AnnualSlots: requests in turn, or at once

VARIABLES
    part,
    table, tour, gamesCount, played, counted, closes, tour_call, lapsed, tour_left,
    device, rows, gone, note, line, job, pushes, shown, cut, push_left,
    slot, task, card, slot_call, made, apart, behind

Tour == INSTANCE PlayTournament WITH
    Players <- TourPlayers, Calls <- TourCalls, WithSingle <- FALSE,
    call <- tour_call, left <- tour_left
Delivery(s) == INSTANCE PushDelivery WITH
    Members <- s.members, Browsers <- s.browsers, Notes <- s.notes, MaxAttempts <- s.attempts,
    MaxBusy <- s.busy, MaxRefused <- s.refused, MaxSaves <- s.saves, MaxRemoved <- s.removed,
    MaxThrows <- s.throws, MaxCrashes <- s.crashes, left <- push_left
Series(s) == INSTANCE AnnualSlots WITH
    Moderators <- s.moderators, Nobody <- s.nobody, Hours <- s.hours, Opened <- s.opened,
    Calls <- s.calls, Requests <- s.requests, MaxSlots <- s.slots, MaxRequests <- s.made,
    call <- slot_call

ASSUME OnceAssumption ==
    /\ Tour!GamesAssumption
    /\ Delivery(SentScope)!BoundsAssumption /\ Delivery(KeptScope)!BoundsAssumption
    /\ Series(SlotsScope)!NobodyAssumption /\ Series(SlotsScope)!HoursAssumption
    /\ Series(RacesScope)!NobodyAssumption /\ Series(RacesScope)!HoursAssumption
    /\ Series(SlotsScope)!BoundsAssumption /\ Series(RacesScope)!BoundsAssumption
    /\ \A c, d \in SlotsScope.calls : c = d
    /\ RacesScope.slots <= 2 /\ "fail" \notin RacesScope.requests

tour_vars == <<table, tour, gamesCount, played, counted, closes, tour_call, lapsed, tour_left>>
push_vars == <<device, rows, gone, note, line, job, pushes, shown, cut, push_left>>
slot_vars == <<slot, task, card, slot_call, made, apart, behind>>
all_vars == <<part, tour_vars, push_vars, vars, slot_vars>>

On(p) == part = p /\ UNCHANGED part
OnTour == On("tour") /\ UNCHANGED <<push_vars, vars, slot_vars>>
OnSent == On("sent") /\ UNCHANGED <<tour_vars, vars, slot_vars>>
OnKept == On("kept") /\ UNCHANGED <<tour_vars, vars, slot_vars>>
OnWrite == On("write") /\ UNCHANGED <<tour_vars, push_vars, slot_vars>>
OnSlots == On("slots") /\ UNCHANGED <<tour_vars, push_vars, vars>>
OnRaces == On("races") /\ UNCHANGED <<tour_vars, push_vars, vars>>

(* One initial state for those at rest. *)
OnceInit ==
    /\ part \in {"tour", "sent", "kept", "write", "slots", "races"}
    /\ Tour!Init
    /\ part # "tour" => gamesCount = 1
    /\ IF part = "kept" THEN Delivery(KeptScope)!Init ELSE Delivery(SentScope)!Init
    /\ part \notin {"sent", "kept"} =>
         LET m == Delivery(SentScope)!NoRow.member IN
         /\ \A n \in SentScope.notes : note[n].to = m
         /\ \A b \in SentScope.browsers : device[b].member = m
    /\ Init
    /\ part # "write" => /\ up
                        /\ \A c \in Calls : call[c].on = CHOOSE i \in Instances : TRUE
    /\ IF part = "races" THEN Series(RacesScope)!Init ELSE Series(SlotsScope)!Init
OnceNext ==
    \/ OnTour /\ Tour!Next
    \/ OnSent /\ Delivery(SentScope)!Next
    \/ OnKept /\ Delivery(KeptScope)!Next
    \/ OnWrite /\ Next
    \/ OnSlots /\ Series(SlotsScope)!Next
    \/ OnRaces /\ Series(RacesScope)!Next
OnceSpec == OnceInit /\ [][OnceNext]_all_vars /\ WF_all_vars(OnKept /\ Delivery(KeptScope)!Work)

(* What PlayTournament, PushDelivery and AnnualSlots state (IdempotentWrite: WriteSound):
   the records of requests that cross differ. *)
TournamentSound == Tour!TournamentSound
DeliverySound ==
    IF part = "kept" THEN Delivery(KeptScope)!DeliverySound ELSE Delivery(SentScope)!DeliverySound
Reaches ==
    \A n \in KeptScope.notes, b \in KeptScope.browsers, r \in Delivery(KeptScope)!Rows :
      (part = "kept" /\ Delivery(KeptScope)!Waits(n, b, r)) ~> Delivery(KeptScope)!Served(n, b, r)
SlotsSound ==
    IF part = "races" THEN Series(RacesScope)!TypeOK /\ Series(RacesScope)!AtMostOne
    ELSE Series(SlotsScope)!SlotsSound
=============================================================================
