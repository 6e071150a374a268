---------------------------- MODULE SharedDocMC -----------------------------
(* A small instance of SharedDoc: two sockets. *)
EXTENDS SharedDoc

CONSTANTS c1, c2

McConns == {c1, c2}
=============================================================================
