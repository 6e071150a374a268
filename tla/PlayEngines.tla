----------------------------- MODULE PlayEngines -----------------------------
(* The engines of two kinds of game side by side: a game has one kind for good, so
   a behaviour is the board of a Ludo game or the rounds of a Baccalaureat one,
   the other engine being at rest. *)
EXTENDS LudoTable

CONSTANTS   \* of BaccalaureatTable
    Players, Nobody, Categories, Letters, Marks, NoWord, RoundCount, Jokers, Stop, AutoStop,
    Solo, Unique, Shared, StopBonus, RejectPercent, Kinds, HostAtOnce, MayClear, CallsAtOnce,
    MaxCalls

VARIABLES engine, rounds, points, seated, call, started, ended

Rounds == INSTANCE BaccalaureatTable WITH score <- points, present <- seated

ASSUME RoundsAssumption == Rounds!TableAssumption

rounds_vars == <<rounds, points, seated, call, started, ended>>
all_vars == <<engine, vars, rounds_vars>>

OnLudo == engine = "ludo" /\ UNCHANGED <<engine, rounds_vars>>
OnRounds == engine = "baccalaureat" /\ UNCHANGED <<engine, vars>>

EnginesInit ==
    /\ engine \in {"ludo", "baccalaureat"} /\ Init /\ Rounds!Init
    /\ engine = "ludo" => rounds[1].letter = CHOOSE l \in Letters : TRUE   \* bound: one start
EnginesNext == \/ OnLudo /\ Next
               \/ OnRounds /\ Rounds!Next
EnginesSpec == EnginesInit /\ [][EnginesNext]_all_vars

(* What BaccalaureatTable states. *)
RoundsSound == Rounds!RoundsSound
RoundsPaidOnce == Rounds!RoundsPaidOnce
=============================================================================
