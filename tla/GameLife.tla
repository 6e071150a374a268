------------------------------ MODULE GameLife ------------------------------
(***************************************************************************)
(* The life of one game of Memora Play as its players are promised it: the *)
(* abstract specification PlayGame implements.  A lobby is opened, the     *)
(* game is played, and it ends once: finished, its players paid, or        *)
(* abandoned, nobody paid.  An opening that fails puts the lobby back, and *)
(* that is the only way back from a game that was running or abandoned;    *)
(* nothing brings back a game whose players were paid.                     *)
(***************************************************************************)
EXTENDS Naturals

VARIABLES
    status,     \* status of the game's row
    paid        \* times its results were written and its players paid

vars == <<status, paid>>

Statuses == {"LOBBY", "RUNNING", "FINISHED", "ABANDONED"}

Init ==
    /\ status = "LOBBY"
    /\ paid = 0

Open ==
    /\ status = "LOBBY"
    /\ status' = "RUNNING"
    /\ UNCHANGED paid

\* A failed opening, the game possibly left by everyone in the meantime.
Reopen ==
    /\ status \in {"RUNNING", "ABANDONED"}
    /\ paid = 0
    /\ status' = "LOBBY"
    /\ UNCHANGED paid

Finish ==
    /\ status = "RUNNING"
    /\ paid = 0
    /\ status' = "FINISHED"
    /\ paid' = 1

\* Closed by its host, by silence or by its last player, a finished game too.
Abandon ==
    /\ status' = "ABANDONED"
    /\ UNCHANGED paid

Next == Open \/ Reopen \/ Finish \/ Abandon

Spec == Init /\ [][Next]_vars
=============================================================================
