---------------------------- MODULE BombTableMC -----------------------------
(* A small instance of BombTable: three seats, two calls in flight. *)
EXTENDS BombTable

CONSTANTS c1, c2

McCalls == {c1, c2}
=============================================================================
