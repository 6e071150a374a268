---------------------------- MODULE PlayEnginesMC ----------------------------
(* The engines for TLC: a Ludo board of two colours, a Baccalaureat of two rounds
   for two players. *)
EXTENDS PlayEngines, TLC

Blank == <<"none", 0>>    \* no word in a box
=============================================================================
