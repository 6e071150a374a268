------------------------------- MODULE RoomsMC -------------------------------
(* The rooms for TLC: two accounts at the table of a game, one tab that follows it
   again, one socket on a page, three tabs of two members in a presence. *)
EXTENDS Rooms, TLC

Tabs == 1 :> "a" @@ 2 :> "a" @@ 3 :> "b"    \* the owners of the three tabs of PresenceRoom
OneTable == [sockets |-> {1, 2}, accounts |-> {"player", "spectator"}, players |-> {"player"},
             owner |-> 1 :> "player" @@ 2 :> "spectator", versions |-> 2, follows |-> 1, faults |-> 1]
SameTab == [sockets |-> {1}, accounts |-> {"player"}, players |-> {"player"},
            owner |-> 1 :> "player", versions |-> 1, follows |-> 2, faults |-> 1]
=============================================================================
