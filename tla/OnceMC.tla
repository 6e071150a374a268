------------------------------- MODULE OnceMC -------------------------------
(* What is done once, for TLC: two devices pushed by runs that may be cut short, or one
   that may go besides, a slot of a series asked for in turn by every kind of request,
   or two at once. *)
EXTENDS Once

TwoDevices == [members |-> {"m", "n"}, browsers |-> {"a", "b"}, notes |-> {"note"}, attempts |-> 3,
               busy |-> 1, refused |-> 1, saves |-> 0, removed |-> 0, throws |-> 1, crashes |-> 1]
LostDevice == [members |-> {"m", "n"}, browsers |-> {"a"}, notes |-> {"note"}, attempts |-> 5,
               busy |-> 1, refused |-> 0, saves |-> 1, removed |-> 1, throws |-> 1, crashes |-> 1]
InTurn == [moderators |-> {"m", "n"}, nobody |-> "nobody", hours |-> 1 .. 3, opened |-> 2,
           calls |-> {"c"}, slots |-> 3, made |-> 4,
           requests |-> {"take", "place", "move", "cancel", "answer", "remove", "reshape",
                         "tick", "drop", "drag", "column", "fail"}]
AtOnce == [moderators |-> {"m", "n"}, nobody |-> "nobody", hours |-> {1, 2}, opened |-> 2,
           calls |-> {"c", "d"}, slots |-> 2, made |-> 3, requests |-> {"place", "move", "cancel", "remove"}]
=============================================================================
