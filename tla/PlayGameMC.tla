----------------------------- MODULE PlayGameMC -----------------------------
(* A small instance of PlayGame: two players, two calls in flight. *)
EXTENDS PlayGame

CONSTANTS p1, p2, c1, c2

McPlayers == {p1, p2}
McCalls   == {c1, c2}
=============================================================================
