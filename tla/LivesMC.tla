------------------------------- MODULE LivesMC -------------------------------
(* The lives for TLC: one instance with a move by hand, or two; one member of the
   Mod View who may stop, or two who follow each other and calls that fail. *)
EXTENDS Lives

OneInstance == [instances |-> {"i"}, holders |-> {"a", "b"}, lists |-> 1, flips |-> 2,
                hand |-> 1, faults |-> 1]
TwoInstances == [instances |-> {"i", "j"}, holders |-> {"a"}, lists |-> 1, flips |-> 1,
                 hand |-> 0, faults |-> 1]
OneMember == [members |-> {1}, calls |-> {1, 2}, stale |-> 1, time |-> 4,
              beats |-> 2, stops |-> 1, focuses |-> 0, failures |-> 0]
TwoMembers == [members |-> {1, 2}, calls |-> {1, 2}, stale |-> 1, time |-> 4,
               beats |-> 1, stops |-> 0, focuses |-> 1, failures |-> 1]
=============================================================================
