---------------------------- MODULE PlayTablesMC ----------------------------
(* A small instance of PlayTables; players, tables and calls are alike.  The
   instance of three players at two tables is cut to two scopes: two players and
   no ban, or one table. *)
EXTENDS PlayTables, TLC

CONSTANTS p1, p2, p3, s1, s2, s3, c1, c2

TwoPlayers   == {p1, p2}
ThreePlayers == {p1, p2, p3}
OneTable     == {s1}
TwoTables    == {s1, s2}
ThreeTables  == {s1, s2, s3}
OneCall      == {c1}
TwoCalls     == {c1, c2}

Alike == Permutations(Players) \union Permutations(Tables) \union Permutations(Calls)

Came == {p \in Players : Busy(p) \/ p \in banned \/ \E s \in Tables : seat[s][p] # "none"}
Laid == {s \in Tables : ~Unused(s)}
SmallScope ==
    \/ bans = 0 /\ Cardinality(Came) <= 2
    \/ Cardinality(Laid) <= 1
=============================================================================
