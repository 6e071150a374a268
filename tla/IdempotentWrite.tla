-------------------------- MODULE IdempotentWrite --------------------------
(***************************************************************************)
(* A write asked several times under one key, by a client that retries:    *)
(* the first to claim the key runs the write and settles its answer, the   *)
(* others read the answer, or are told that it is not there yet.  The keys *)
(* are in Redis, or in each process while Redis is away; a key expires.    *)
(*                                                                         *)
(* The write itself commits or throws, once: it is numbered, and its       *)
(* answer is its number.                                                   *)
(***************************************************************************)
EXTENDS Naturals, FiniteSets

CONSTANTS
    Calls,          \* the request and its retries
    Instances,      \* processes that answer them
    MaxThrows,      \* bound: writes that throw
    MaxRefused,     \* bound: commands Redis refuses
    MaxFlips,       \* bound: times Redis goes away or comes back
    MaxExpired      \* bound: keys that expire

ASSUME CallsAssumption == IsFiniteSet(Calls)
ASSUME BoundsAssumption == {MaxThrows, MaxRefused, MaxFlips, MaxExpired} \subseteq Nat

VARIABLES
    up,         \* whether Redis is ready
    shared,     \* entry of the key in Redis
    local,      \* entry of the key in each process
    call,       \* where each call is, on which process, with which answer
    writes,     \* history: writes committed
    left        \* what may still happen

vars == <<up, shared, local, call, writes, left>>

Free == 0
Pending == Cardinality(Calls) + 1       \* the answers are smaller
Entries == 0 .. Pending
Done(entry) == entry \notin {Free, Pending}
Ran == {"running", "wrote", "undo"}

TypeOK ==
    /\ up \in BOOLEAN
    /\ shared \in Entries
    /\ local \in [Instances -> Entries]
    /\ call \in [Calls -> [at : {"new", "read", "answered", "refused", "conflict"} \union Ran,
                           on : Instances, answer : Entries]]
    /\ \A c \in Calls : call[c].at = "answered" => Done(call[c].answer)
    /\ writes \in 0 .. Cardinality(Calls)

\* Without Redis the code counts on a single process.
Init ==
    /\ up \in BOOLEAN
    /\ shared = Free
    /\ local = [i \in Instances |-> Free]
    /\ call \in [Calls -> [at : {"new"}, on : Instances, answer : {Free}]]
    /\ ~up => \A c, d \in Calls : call[c].on = call[d].on
    /\ writes = 0
    /\ left = [throw |-> MaxThrows, refuse |-> MaxRefused, flip |-> MaxFlips, expire |-> MaxExpired]

Spend(what) ==
    /\ left[what] > 0
    /\ left' = [left EXCEPT ![what] = @ - 1]

Goes(c, at, answer) == call' = [call EXCEPT ![c].at = at, ![c].answer = answer]

----------------------------------------------------------------------------
(* The entry of the key *)

\* The store there is at that moment.
Stored(c) == IF up THEN shared ELSE local[call[c].on]
Store(c, entry) ==
    IF up
      THEN shared' = entry /\ UNCHANGED local
      ELSE local' = [local EXCEPT ![call[c].on] = entry] /\ UNCHANGED shared

\* Mutant: a key whose write is under way can be claimed again.
ClaimsUndone(c) == ~Done(Stored(c))
Claims(c) == Stored(c) = Free

\* In Redis the entry is read after the claim failed; a process reads its own at once.
Claim(c) ==
    /\ call[c].at = "new"
    /\ IF Claims(c)
         THEN /\ Store(c, Pending)
              /\ Goes(c, "running", Free)
         ELSE /\ IF up THEN Goes(c, "read", Free)
                 ELSE IF Done(Stored(c)) THEN Goes(c, "answered", Stored(c))
                 ELSE Goes(c, "conflict", Free)
              /\ UNCHANGED <<shared, local>>
    /\ UNCHANGED <<up, writes, left>>

\* An entry that has expired since counts as under way.
ReadEntry(c) ==
    /\ call[c].at = "read"
    /\ IF Done(shared) THEN Goes(c, "answered", shared) ELSE Goes(c, "conflict", Free)
    /\ UNCHANGED <<up, shared, local, writes, left>>

Run(c) ==
    /\ call[c].at = "running"
    /\ \/ /\ writes' = writes + 1
          /\ Goes(c, "wrote", writes + 1)
          /\ UNCHANGED left
       \/ /\ Spend("throw")
          /\ Goes(c, "undo", Free)
          /\ UNCHANGED writes
    /\ UNCHANGED <<up, shared, local>>

\* A refused command throws into the same catch as the write.
Settle(c) ==
    /\ call[c].at = "wrote"
    /\ \/ /\ Store(c, call[c].answer)
          /\ Goes(c, "answered", call[c].answer)
          /\ UNCHANGED left
       \/ /\ up /\ Spend("refuse")
          /\ Goes(c, "undo", call[c].answer)
          /\ UNCHANGED <<shared, local>>
    /\ UNCHANGED <<up, writes>>

Freed(c) == Store(c, Free)

Undo(c) ==
    /\ call[c].at = "undo"
    /\ \/ Freed(c) /\ UNCHANGED left
       \/ /\ up /\ Spend("refuse")
          /\ UNCHANGED <<shared, local>>
    /\ Goes(c, "refused", Free)
    /\ UNCHANGED <<up, writes>>

RedisFlips ==
    /\ Spend("flip")
    /\ up' = ~up
    /\ UNCHANGED <<shared, local, call, writes>>

Expires ==
    /\ Spend("expire")
    /\ \/ shared # Free /\ shared' = Free /\ UNCHANGED local
       \/ \E i \in Instances :
            local[i] # Free /\ local' = [local EXCEPT ![i] = Free] /\ UNCHANGED shared
    /\ UNCHANGED <<up, call, writes>>

Next ==
    \/ \E c \in Calls : Claim(c) \/ ReadEntry(c) \/ Run(c) \/ Settle(c) \/ Undo(c)
    \/ RedisFlips \/ Expires

Spec == Init /\ [][Next]_vars

----------------------------------------------------------------------------
(* Properties *)

\* Redis has answered all along, or was away all along, and no key has expired.
Steady == left.flip = MaxFlips /\ left.refuse = MaxRefused
Lasting == Steady /\ left.expire = MaxExpired

\* Says runOnce: "Run a write once per key".  Whatever the retries and the writes that threw
\* before it, the write of a key that lasts is committed once.
WrittenOnce == Lasting => writes <= 1

\* A retry gets the first answer: no two calls are answered differently.
SameAnswer ==
    Lasting => \A c, d \in Calls :
      call[c].at = "answered" /\ call[d].at = "answered" => call[c].answer = call[d].answer

\* A failure may be tried again: with Redis there and answering, a key under way is held by a
\* call that runs, so that the client is not told to wait for nobody.
ClaimIsHeld ==
    (up /\ Steady /\ shared = Pending) => \E c \in Calls : call[c].at \in Ran

\* The write of a key is committed once, answered alike, and a failure lets it be tried again.
WriteSound ==
    /\ TypeOK
    /\ WrittenOnce
    /\ SameAnswer
    /\ ClaimIsHeld
=============================================================================
