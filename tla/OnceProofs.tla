------------------------------ MODULE OnceProofs ------------------------------
(* Proofs about what is done once.  IdempotentWrite: for any number of calls and
   processes, and any number of writes that throw, commands refused, keys expired
   and times Redis goes away or comes back.  PlayTournament: for any number of
   players and calls, any length, and any number of crashes and idle lobbies.
   PushDelivery: for any members, browsers and notifications, any number of attempts,
   refusals and saves, of devices removed, of queries that fail and of crashes.
   AnnualSlots: for any moderators and hours, any number of slots and requests that
   come in turn, with the queries that fail, and of requests that cross over two
   slots. *)
EXTENDS Once, FiniteSetTheorems, SequenceTheorems, TLAPS

Kinds == {"new", "read", "answered", "refused", "conflict"} \union Ran

\* What may still happen never grows: once disturbed, a key stays so.
WriteLeftOK ==
    /\ left \in [throw : Nat, refuse : Nat, flip : Nat, expire : Nat]
    /\ left.refuse <= MaxRefused /\ left.flip <= MaxFlips /\ left.expire <= MaxExpired

\* Calls that have run the write, or never will: a call commits once.
Over == {c \in Calls : call[c].at \notin {"new", "read", "running"}}

WriteTypeInv ==
    /\ TypeOK
    /\ WriteLeftOK
    /\ writes <= Cardinality(Over)
    /\ \A c \in Calls : call[c].at = "wrote" => Done(call[c].answer)

\* Undisturbed, the calls have one store between them.
OneStore ==
    Steady => /\ ~up => \A c, d \in Calls : call[c].on = call[d].on
              /\ \A c \in Calls : call[c].at = "read" => up

\* The key and the calls of a key that lasts: free before the first write, under way for the
\* one call that runs, then its answer for good.
KeyTells ==
    Lasting =>
      /\ writes \in {0, 1}
      /\ \A c, d \in Calls : call[c].at \in Ran /\ call[d].at \in Ran => c = d
      /\ \A c \in Calls :
           /\ call[c].at \in Ran => Stored(c) = Pending
           /\ call[c].at \in {"running", "undo"} => writes = 0
           /\ call[c].at = "wrote" => writes = 1 /\ call[c].answer = 1
           /\ call[c].at = "answered" => call[c].answer = 1 /\ Stored(c) = 1
           /\ Stored(c) = Free => writes = 0
           /\ Done(Stored(c)) => Stored(c) = 1 /\ writes = 1

WriteInv == WriteTypeInv /\ OneStore /\ KeyTells /\ ClaimIsHeld

-----------------------------------------------------------------------------
\* The entries and the calls.

LEMMA EntriesNat ==
  /\ Cardinality(Calls) \in Nat
  /\ Pending \in Nat /\ Pending > Cardinality(Calls) /\ Pending \in Entries
  /\ Free \in Entries /\ Free # Pending
  /\ \A n \in Nat \ {0} : n <= Cardinality(Calls) => n \in Entries /\ Done(n)
<1>1. Cardinality(Calls) \in Nat
  BY CallsAssumption, FS_CardinalityType
<1>2. QED BY <1>1 DEF Pending, Entries, Free, Done

LEMMA OverNat == Cardinality(Over) \in Nat /\ Cardinality(Over) <= Cardinality(Calls)
<1>1. Over \in SUBSET Calls
  BY DEF Over
<1>2. QED BY <1>1, CallsAssumption, FS_Subset, FS_CardinalityType

\* A call that has not run yet leaves room for one more write.
LEMMA RoomLeft ==
  ASSUME NEW c \in Calls, c \notin Over
  PROVE  Cardinality(Over) < Cardinality(Calls)
<1>1. Over \in SUBSET Calls
  BY DEF Over
<1>2. Cardinality(Over) # Cardinality(Calls)
  BY <1>1, CallsAssumption, FS_Subset
<1>3. QED BY <1>2, OverNat, EntriesNat

\* A call that goes on from where it was stays over.
LEMMA OverGrows ==
  ASSUME TypeOK, NEW c \in Calls, NEW at \in Kinds, NEW answer \in Entries, Goes(c, at, answer),
         call[c].at \in {"new", "read", "running"} \/ at \notin {"new", "read", "running"}
  PROVE  Cardinality(Over) <= Cardinality(Over')
<1>1. Over \subseteq Over'
  BY DEF Over, Goes, TypeOK
<1>2. Over' \in SUBSET Calls
  BY DEF Over
<1>3. IsFiniteSet(Over')
  BY <1>2, CallsAssumption, FS_Subset
<1>4. QED BY <1>1, <1>3, FS_Subset

\* The shape of a call that goes on.
LEMMA GoesShape ==
  ASSUME TypeOK, NEW c \in Calls, NEW at \in Kinds, NEW answer \in Entries, Goes(c, at, answer),
         at \in {"answered", "wrote"} => Done(answer),
         \A d \in Calls : call[d].at = "wrote" => Done(call[d].answer)
  PROVE  /\ call' \in [Calls -> [at : Kinds, on : Instances, answer : Entries]]
         /\ call'[c].at = at /\ call'[c].answer = answer /\ call'[c].on = call[c].on
         /\ \A d \in Calls \ {c} : call'[d] = call[d]
         /\ \A d \in Calls : call'[d].on = call[d].on
         /\ \A d \in Calls : call'[d].at \in {"answered", "wrote"} => Done(call'[d].answer)
<1>1. call \in [Calls -> [at : Kinds, on : Instances, answer : Entries]]
  BY DEF TypeOK, Kinds
<1>2. call' = [d \in Calls |-> IF d = c THEN [at |-> at, on |-> call[c].on, answer |-> answer]
                               ELSE call[d]]
  <2>1. call[c] \in [at : Kinds, on : Instances, answer : Entries]
    BY <1>1
  <2>2. [[call[c] EXCEPT !.at = at] EXCEPT !.answer = answer]
          = [at |-> at, on |-> call[c].on, answer |-> answer]
    <3>1. [call[c] EXCEPT !.at = at] = [at |-> at, on |-> call[c].on, answer |-> call[c].answer]
      BY <2>1
    <3>2. [[at |-> at, on |-> call[c].on, answer |-> call[c].answer] EXCEPT !.answer = answer]
            = [at |-> at, on |-> call[c].on, answer |-> answer]
      OBVIOUS
    <3>3. QED BY <3>1, <3>2, Zenon
  <2>3. call' = [[call EXCEPT ![c] = [@ EXCEPT !.at = at]]
                        EXCEPT ![c] = [@ EXCEPT !.answer = answer]]
    BY DEF Goes
  <2>4. call' = [call EXCEPT ![c] = [[call[c] EXCEPT !.at = at] EXCEPT !.answer = answer]]
    BY <1>1, <2>3
  <2>5. QED BY <1>1, <2>2, <2>4
<1>3. QED BY <1>1, <1>2 DEF TypeOK

\* A store keeps its entries.
LEMMA StoreShape ==
  ASSUME TypeOK, NEW c \in Calls, NEW entry \in Entries, Store(c, entry)
  PROVE  /\ shared' \in Entries /\ local' \in [Instances -> Entries]
         /\ up => shared' = entry /\ local' = local
         /\ ~up => shared' = shared /\ local' = [local EXCEPT ![call[c].on] = entry]
BY DEF TypeOK, Store

LEMMA StoredEntry == ASSUME TypeOK, NEW c \in Calls PROVE Stored(c) \in Entries
BY DEF TypeOK, Stored

-----------------------------------------------------------------------------
\* The shapes, step by step.

LEMMA WriteTypeStep == WriteTypeInv /\ [Next]_vars => WriteTypeInv'
<1> SUFFICES ASSUME WriteTypeInv, [Next]_vars PROVE WriteTypeInv'
  OBVIOUS
<1> USE EntriesNat, OverNat
<1>0. TypeOK /\ WriteLeftOK /\ writes \in Nat /\ Cardinality(Over)' \in Nat
      /\ \A d \in Calls : call[d].at = "wrote" => Done(call[d].answer)
  <2>1. Over' \in SUBSET Calls
    BY DEF Over
  <2>2. Cardinality(Over') \in Nat
    BY <2>1, CallsAssumption, FS_Subset, FS_CardinalityType
  <2>3. QED BY <2>2 DEF WriteTypeInv, TypeOK
<1>1. ASSUME NEW c \in Calls, Claim(c) PROVE WriteTypeInv'
  <2>0. UNCHANGED <<up, writes, left>> /\ call[c].at = "new"
    BY <1>1 DEF Claim
  <2>1. CASE Claims(c)
    <3>1. Store(c, Pending) /\ Goes(c, "running", Free)
      BY <1>1, <2>1 DEF Claim
    <3>2. "running" \in Kinds
      BY DEF Kinds, Ran
    <3>3. QED BY <1>0, <2>0, <3>1, <3>2, StoreShape, GoesShape, OverGrows
              DEF WriteTypeInv, TypeOK, WriteLeftOK, Kinds
  <2>2. CASE ~Claims(c)
    <3>1. UNCHANGED <<shared, local>>
      BY <1>1, <2>2 DEF Claim
    <3>2. \/ Goes(c, "read", Free) \/ Goes(c, "conflict", Free)
          \/ Done(Stored(c)) /\ Goes(c, "answered", Stored(c))
      BY <1>1, <2>2 DEF Claim
    <3>3. {"read", "conflict", "answered"} \subseteq Kinds
      BY DEF Kinds
    <3>4. ASSUME NEW at \in Kinds, NEW answer \in Entries, Goes(c, at, answer),
                 at \in {"read", "conflict"} \/ (at = "answered" /\ Done(answer))
          PROVE  WriteTypeInv'
      <4>1. Cardinality(Over) <= Cardinality(Over')
        BY <1>0, <2>0, <3>4, OverGrows
      <4>2. QED
        BY <1>0, <2>0, <3>1, <3>4, <4>1, GoesShape DEF WriteTypeInv, TypeOK, WriteLeftOK, Kinds
    <3>5. QED BY <1>0, <3>2, <3>3, <3>4, StoredEntry
  <2>3. QED BY <2>1, <2>2
<1>2. ASSUME NEW c \in Calls, ReadEntry(c) PROVE WriteTypeInv'
  <2>1. UNCHANGED <<up, shared, local, writes, left>> /\ call[c].at = "read"
    BY <1>2 DEF ReadEntry
  <2>2. \/ Done(shared) /\ Goes(c, "answered", shared)
        \/ Goes(c, "conflict", Free)
    BY <1>2 DEF ReadEntry
  <2>3. {"conflict", "answered"} \subseteq Kinds /\ shared \in Entries
    BY <1>0 DEF Kinds, TypeOK
  <2>4. QED
    BY <1>0, <2>1, <2>2, <2>3, GoesShape, OverGrows DEF WriteTypeInv, TypeOK, WriteLeftOK, Kinds
<1>3. ASSUME NEW c \in Calls, Run(c) PROVE WriteTypeInv'
  <2>1. UNCHANGED <<up, shared, local>> /\ call[c].at = "running"
    BY <1>3 DEF Run
  <2>2. c \notin Over
    BY <2>1 DEF Over
  <2>3. CASE writes' = writes + 1 /\ Goes(c, "wrote", writes + 1) /\ UNCHANGED left
    <3>1. writes + 1 <= Cardinality(Calls)
      BY <1>0, <2>2, RoomLeft DEF WriteTypeInv
    <3>2. writes + 1 \in Entries /\ Done(writes + 1) /\ "wrote" \in Kinds
      BY <1>0, <3>1 DEF Kinds, Ran
    <3>3. Cardinality(Over') = Cardinality(Over) + 1
      <4>1. Over' = Over \union {c}
        BY <1>0, <2>3, <3>2, GoesShape DEF Over, Kinds
      <4>2. IsFiniteSet(Over)
        BY CallsAssumption, FS_Subset DEF Over
      <4>3. QED BY <2>2, <4>1, <4>2, FS_AddElement
    <3>4. writes' <= Cardinality(Over')
      BY <1>0, <2>3, <3>3 DEF WriteTypeInv
    <3>5. QED BY <1>0, <2>1, <2>3, <3>1, <3>2, <3>4, GoesShape
              DEF WriteTypeInv, TypeOK, WriteLeftOK, Kinds
  <2>4. CASE Spend("throw") /\ Goes(c, "undo", Free) /\ UNCHANGED writes
    <3>1. "undo" \in Kinds
      BY DEF Kinds, Ran
    <3>2. WriteLeftOK'
      BY <1>0, <2>4 DEF WriteLeftOK, Spend
    <3>3. QED BY <1>0, <2>1, <2>4, <3>1, <3>2, GoesShape, OverGrows DEF WriteTypeInv, TypeOK, Kinds
  <2>5. QED BY <1>3, <2>3, <2>4 DEF Run
<1>4. ASSUME NEW c \in Calls, Settle(c) PROVE WriteTypeInv'
  <2>1. UNCHANGED <<up, writes>> /\ call[c].at = "wrote" /\ Done(call[c].answer)
        /\ call[c].answer \in Entries
    BY <1>0, <1>4 DEF Settle, TypeOK
  <2>2. {"answered", "undo"} \subseteq Kinds
    BY DEF Kinds, Ran
  <2>3. CASE Store(c, call[c].answer) /\ Goes(c, "answered", call[c].answer) /\ UNCHANGED left
    <3>1. Cardinality(Over) <= Cardinality(Over')
      BY <1>0, <2>1, <2>2, <2>3, OverGrows
    <3>2. /\ call' \in [Calls -> [at : Kinds, on : Instances, answer : Entries]]
          /\ \A d \in Calls : call'[d].at \in {"answered", "wrote"} => Done(call'[d].answer)
      BY <1>0, <2>1, <2>2, <2>3, GoesShape
    <3>3. shared' \in Entries /\ local' \in [Instances -> Entries]
      BY <1>0, <2>1, <2>3, StoreShape
    <3>4. QED BY <1>0, <2>1, <2>3, <3>1, <3>2, <3>3 DEF WriteTypeInv, TypeOK, WriteLeftOK, Kinds
  <2>4. CASE Spend("refuse") /\ Goes(c, "undo", call[c].answer) /\ UNCHANGED <<shared, local>>
    <3>1. WriteLeftOK'
      BY <1>0, <2>4, BoundsAssumption DEF WriteLeftOK, Spend
    <3>2. Cardinality(Over) <= Cardinality(Over')
      BY <1>0, <2>1, <2>2, <2>4, OverGrows
    <3>3. /\ call' \in [Calls -> [at : Kinds, on : Instances, answer : Entries]]
          /\ \A d \in Calls : call'[d].at \in {"answered", "wrote"} => Done(call'[d].answer)
      BY <1>0, <2>1, <2>2, <2>4, GoesShape
    <3>4. QED BY <1>0, <2>1, <2>4, <3>1, <3>2, <3>3 DEF WriteTypeInv, TypeOK, Kinds
  <2>5. QED BY <1>4, <2>3, <2>4 DEF Settle
<1>5. ASSUME NEW c \in Calls, Undo(c) PROVE WriteTypeInv'
  <2>1. UNCHANGED <<up, writes>> /\ call[c].at = "undo" /\ Goes(c, "refused", Free)
        /\ "refused" \in Kinds
    BY <1>5 DEF Undo, Kinds
  <2>2. CASE Freed(c) /\ UNCHANGED left
    BY <1>0, <2>1, <2>2, StoreShape, GoesShape, OverGrows
       DEF Freed, WriteTypeInv, TypeOK, WriteLeftOK, Kinds
  <2>3. CASE Spend("refuse") /\ UNCHANGED <<shared, local>>
    <3>1. WriteLeftOK'
      BY <1>0, <2>3, BoundsAssumption DEF WriteLeftOK, Spend
    <3>2. QED BY <1>0, <2>1, <2>3, <3>1, GoesShape, OverGrows DEF WriteTypeInv, TypeOK, Kinds
  <2>4. QED BY <1>5, <2>2, <2>3 DEF Undo
<1>6. CASE RedisFlips
  <2>1. WriteLeftOK'
    BY <1>0, <1>6, BoundsAssumption DEF WriteLeftOK, Spend, RedisFlips
  <2>2. UNCHANGED <<shared, local, call, writes>> /\ up' \in BOOLEAN
    BY <1>0, <1>6 DEF RedisFlips, TypeOK
  <2>3. QED BY <1>0, <2>1, <2>2 DEF WriteTypeInv, TypeOK, Over
<1>7. CASE Expires
  <2>1. WriteLeftOK'
    BY <1>0, <1>7, BoundsAssumption DEF WriteLeftOK, Spend, Expires
  <2>2. UNCHANGED <<up, call, writes>> /\ shared' \in Entries /\ local' \in [Instances -> Entries]
    BY <1>0, <1>7 DEF Expires, TypeOK
  <2>3. QED BY <1>0, <2>1, <2>2 DEF WriteTypeInv, TypeOK, Over
<1>8. CASE UNCHANGED vars
  BY <1>0, <1>8 DEF vars, WriteTypeInv, TypeOK, WriteLeftOK, Over
<1>9. QED BY <1>1, <1>2, <1>3, <1>4, <1>5, <1>6, <1>7, <1>8 DEF Next

-----------------------------------------------------------------------------
\* What is undisturbed.

\* Whatever goes wrong is spent, and shows.
LEMMA SpendShows ==
  ASSUME WriteLeftOK
  PROVE  /\ Spend("refuse") \/ Spend("flip") => ~Steady'
         /\ Spend("expire") => ~Lasting' /\ (Steady' <=> Steady)
         /\ Spend("throw") \/ UNCHANGED left => (Steady' <=> Steady) /\ (Lasting' <=> Lasting)
BY BoundsAssumption DEF WriteLeftOK, Spend, Steady, Lasting

LEMMA SameStore ==
  ASSUME WriteTypeInv, OneStore, Steady, NEW c \in Calls, NEW d \in Calls
  PROVE  Stored(c) = Stored(d)
BY DEF OneStore, Stored

\* A step of a call that leaves the stores alone, or writes the one its call sees.
LEMMA StoredStep ==
  ASSUME WriteTypeInv, OneStore, Steady, up' = up, \A d \in Calls : call'[d].on = call[d].on
  PROVE  /\ UNCHANGED <<shared, local>> => \A d \in Calls : Stored(d)' = Stored(d)
         /\ \A c \in Calls, e \in Entries : Store(c, e) => \A d \in Calls : Stored(d)' = e
<1>1. UNCHANGED <<shared, local>> => \A d \in Calls : Stored(d)' = Stored(d)
  BY DEF Stored
<1>2. ASSUME NEW c \in Calls, NEW e \in Entries, Store(c, e), NEW d \in Calls
      PROVE  Stored(d)' = e
  <2>1. CASE up
    BY <1>2, <2>1 DEF Stored, Store
  <2>2. CASE ~up
    <3>1. call[d].on = call[c].on /\ call[c].on \in Instances
      BY <2>2 DEF OneStore, WriteTypeInv, TypeOK
    <3>2. local' = [local EXCEPT ![call[c].on] = e]
      BY <1>2, <2>2 DEF Store
    <3>3. local'[call[c].on] = e
      BY <3>1, <3>2 DEF WriteTypeInv, TypeOK
    <3>4. Stored(d)' = local'[call'[d].on]
      BY <2>2 DEF Stored
    <3>5. QED BY <3>1, <3>3, <3>4
  <2>3. QED BY <2>1, <2>2
<1>3. QED BY <1>1, <1>2

\* A call that goes on, for the others and for itself.
LEMMA CallGoesOn ==
  ASSUME WriteTypeInv, NEW c \in Calls, NEW at \in Kinds, NEW answer \in Entries,
         Goes(c, at, answer)
  PROVE  /\ call'[c].at = at /\ call'[c].answer = answer
         /\ \A d \in Calls \ {c} : call'[d] = call[d]
         /\ \A d \in Calls : call'[d].on = call[d].on
<1>1. call \in [Calls -> [at : Kinds, on : Instances, answer : Entries]]
  BY DEF WriteTypeInv, TypeOK, Kinds
<1>2. QED BY <1>1 DEF Goes

-----------------------------------------------------------------------------
\* The key, step by step.

LEMMA WriteInvStep == WriteInv /\ [Next]_vars => WriteInv'
<1> SUFFICES ASSUME WriteInv, [Next]_vars PROVE OneStore' /\ KeyTells' /\ ClaimIsHeld'
  BY WriteTypeStep DEF WriteInv
<1> USE EntriesNat
<1>0. /\ WriteTypeInv /\ WriteLeftOK /\ OneStore /\ KeyTells /\ ClaimIsHeld
      /\ {"new", "read", "answered", "refused", "conflict", "running", "wrote", "undo"}
           \subseteq Kinds
      /\ \A d \in Calls : call[d].answer \in Entries
  BY DEF WriteInv, WriteTypeInv, TypeOK, Kinds, Ran
<1>1. ASSUME NEW c \in Calls, Claim(c) PROVE OneStore' /\ KeyTells' /\ ClaimIsHeld'
  <2>0. UNCHANGED <<up, writes, left>> /\ call[c].at = "new" /\ (Steady' <=> Steady)
        /\ (Lasting' <=> Lasting)
    BY <1>0, <1>1, SpendShows DEF Claim
  <2>1. CASE Claims(c)
    <3>1. Store(c, Pending) /\ Goes(c, "running", Free)
      BY <1>1, <2>1 DEF Claim
    <3>2. /\ call'[c].at = "running" /\ call'[c].answer = Free
          /\ \A d \in Calls \ {c} : call'[d] = call[d]
          /\ \A d \in Calls : call'[d].on = call[d].on
      BY <1>0, <3>1, CallGoesOn
    <3>3. Stored(c) = Free
      BY <2>1 DEF Claims
    <3>4. OneStore'
      BY <1>0, <2>0, <3>2 DEF OneStore
    <3>5. ClaimIsHeld'
      BY <3>2 DEF ClaimIsHeld, Ran
    <3>6. KeyTells'
      <4> SUFFICES ASSUME Lasting' PROVE KeyTells'
        BY DEF KeyTells
      <4>1. Lasting /\ Steady
        BY <2>0 DEF Lasting
      <4>2. \A d \in Calls : Stored(d) = Free /\ Stored(d)' = Pending
        BY <1>0, <2>0, <3>1, <3>2, <3>3, <4>1, SameStore, StoredStep
      <4>3. \A d \in Calls : call[d].at \notin Ran \union {"answered"}
        BY <1>0, <4>1, <4>2 DEF KeyTells, Free
      <4>4. QED BY <1>0, <2>0, <3>2, <4>1, <4>2, <4>3 DEF KeyTells, Ran, Done
    <3>7. QED BY <3>4, <3>5, <3>6
  <2>2. CASE ~Claims(c)
    <3>1. UNCHANGED <<shared, local>>
      BY <1>1, <2>2 DEF Claim
    <3>2. \/ up /\ Goes(c, "read", Free)
          \/ Goes(c, "conflict", Free)
          \/ Done(Stored(c)) /\ Goes(c, "answered", Stored(c))
      BY <1>1, <2>2 DEF Claim
    <3>3. ASSUME NEW at \in Kinds, NEW answer \in Entries, Goes(c, at, answer),
                 \/ at = "read" /\ up
                 \/ at = "conflict"
                 \/ at = "answered" /\ Done(Stored(c)) /\ answer = Stored(c)
          PROVE  OneStore' /\ KeyTells' /\ ClaimIsHeld'
      <4>1. /\ call'[c].at = at /\ call'[c].answer = answer
            /\ \A d \in Calls \ {c} : call'[d] = call[d]
            /\ \A d \in Calls : call'[d].on = call[d].on
        BY <1>0, <3>3, CallGoesOn
      <4>2. OneStore'
        BY <1>0, <2>0, <3>3, <4>1 DEF OneStore
      <4>3. ClaimIsHeld'
        BY <1>0, <2>0, <3>1, <4>1 DEF ClaimIsHeld, Ran
      <4>4. KeyTells'
        <5> SUFFICES ASSUME Lasting' PROVE KeyTells'
          BY DEF KeyTells
        <5>1. Lasting /\ Steady
          BY <2>0 DEF Lasting
        <5>2. \A d \in Calls : Stored(d)' = Stored(d)
          BY <1>0, <2>0, <3>1, <4>1, <5>1, StoredStep
        <5>3. QED BY <1>0, <2>0, <3>3, <4>1, <5>1, <5>2 DEF KeyTells, Ran
      <4>5. QED BY <4>2, <4>3, <4>4
    <3>4. Stored(c) \in Entries
      BY <1>0, StoredEntry DEF WriteTypeInv
    <3>5. QED BY <1>0, <3>2, <3>3, <3>4
  <2>3. QED BY <2>1, <2>2
<1>2. ASSUME NEW c \in Calls, ReadEntry(c) PROVE OneStore' /\ KeyTells' /\ ClaimIsHeld'
  <2>0. /\ UNCHANGED <<up, shared, local, writes, left>> /\ call[c].at = "read"
        /\ (Steady' <=> Steady) /\ (Lasting' <=> Lasting)
    BY <1>0, <1>2, SpendShows DEF ReadEntry
  <2>1. \/ Done(shared) /\ Goes(c, "answered", shared)
        \/ Goes(c, "conflict", Free)
    BY <1>2 DEF ReadEntry
  <2>2. ASSUME NEW at \in Kinds, NEW answer \in Entries, Goes(c, at, answer),
               \/ at = "conflict"
               \/ at = "answered" /\ Done(shared) /\ answer = shared
        PROVE  OneStore' /\ KeyTells' /\ ClaimIsHeld'
    <3>1. /\ call'[c].at = at /\ call'[c].answer = answer
          /\ \A d \in Calls \ {c} : call'[d] = call[d]
          /\ \A d \in Calls : call'[d].on = call[d].on
      BY <1>0, <2>2, CallGoesOn
    <3>2. OneStore'
      BY <1>0, <2>0, <2>2, <3>1 DEF OneStore
    <3>3. ClaimIsHeld'
      BY <1>0, <2>0, <3>1 DEF ClaimIsHeld, Ran
    <3>4. KeyTells'
      <4> SUFFICES ASSUME Lasting' PROVE KeyTells'
        BY DEF KeyTells
      <4>1. Lasting /\ Steady /\ up
        BY <1>0, <2>0 DEF Lasting, OneStore
      <4>2. \A d \in Calls : Stored(d)' = Stored(d)
        BY <1>0, <2>0, <3>1, <4>1, StoredStep
      <4>3. Stored(c) = shared
        BY <4>1 DEF Stored
      <4>4. QED BY <1>0, <2>0, <2>2, <3>1, <4>1, <4>2, <4>3 DEF KeyTells, Ran
    <3>5. QED BY <3>2, <3>3, <3>4
  <2>3. shared \in Entries
    BY <1>0 DEF WriteTypeInv, TypeOK
  <2>4. QED BY <1>0, <2>1, <2>2, <2>3
<1>3. ASSUME NEW c \in Calls, Run(c) PROVE OneStore' /\ KeyTells' /\ ClaimIsHeld'
  <2>0. /\ UNCHANGED <<up, shared, local>> /\ call[c].at = "running"
        /\ (Steady' <=> Steady) /\ (Lasting' <=> Lasting)
    BY <1>0, <1>3, SpendShows DEF Run
  <2>1. \/ writes' = writes + 1 /\ Goes(c, "wrote", writes + 1)
        \/ writes' = writes /\ Goes(c, "undo", Free)
    BY <1>3 DEF Run
  <2>2. writes + 1 \in Entries
    <3>1. c \notin Over
      BY <2>0 DEF Over
    <3>2. writes \in Nat /\ writes <= Cardinality(Over)
      BY <1>0 DEF WriteTypeInv, TypeOK
    <3>3. writes + 1 <= Cardinality(Calls)
      BY <3>1, <3>2, RoomLeft, OverNat
    <3>4. QED BY <3>2, <3>3
  <2>3. ASSUME NEW at \in Kinds, NEW answer \in Entries, Goes(c, at, answer),
               \/ at = "wrote" /\ writes' = writes + 1 /\ answer = writes + 1
               \/ at = "undo" /\ writes' = writes
        PROVE  OneStore' /\ KeyTells' /\ ClaimIsHeld'
    <3>1. /\ call'[c].at = at /\ call'[c].answer = answer
          /\ \A d \in Calls \ {c} : call'[d] = call[d]
          /\ \A d \in Calls : call'[d].on = call[d].on
      BY <1>0, <2>3, CallGoesOn
    <3>2. OneStore'
      BY <1>0, <2>0, <2>3, <3>1 DEF OneStore
    <3>3. ClaimIsHeld'
      BY <2>3, <3>1 DEF ClaimIsHeld, Ran
    <3>4. KeyTells'
      <4> SUFFICES ASSUME Lasting' PROVE KeyTells'
        BY DEF KeyTells
      <4>1. Lasting /\ Steady
        BY <2>0 DEF Lasting
      <4>2. \A d \in Calls : Stored(d)' = Pending
        BY <1>0, <2>0, <3>1, <4>1, StoredStep, SameStore DEF KeyTells, Ran
      <4>3. writes = 0 /\ (\A d \in Calls : call[d].at \in Ran => d = c)
            /\ \A d \in Calls : call[d].at # "answered"
        <5>1. Stored(c) = Pending /\ Pending # 1
          <6>1. Stored(c) = Pending
            BY <1>0, <2>0, <4>1 DEF KeyTells, Ran
          <6>2. Cardinality(Calls) # 0
            BY CallsAssumption, FS_EmptySet
          <6>3. QED BY <6>1, <6>2 DEF Pending
        <5>2. QED BY <1>0, <2>0, <4>1, <5>1, SameStore DEF KeyTells, Ran
      <4>4. QED BY <2>3, <3>1, <4>2, <4>3 DEF KeyTells, Ran, Done
    <3>5. QED BY <3>2, <3>3, <3>4
  <2>4. QED BY <1>0, <2>1, <2>2, <2>3
<1>4. ASSUME NEW c \in Calls, Settle(c) PROVE OneStore' /\ KeyTells' /\ ClaimIsHeld'
  <2>0. /\ UNCHANGED <<up, writes>> /\ call[c].at = "wrote" /\ Done(call[c].answer)
    BY <1>0, <1>4 DEF Settle, WriteTypeInv
  <2>1. CASE Store(c, call[c].answer) /\ Goes(c, "answered", call[c].answer) /\ UNCHANGED left
    <3>1. /\ call'[c].at = "answered" /\ call'[c].answer = call[c].answer
          /\ \A d \in Calls \ {c} : call'[d] = call[d]
          /\ \A d \in Calls : call'[d].on = call[d].on
      BY <1>0, <2>1, CallGoesOn
    <3>2. (Steady' <=> Steady) /\ (Lasting' <=> Lasting)
      BY <1>0, <2>1, SpendShows
    <3>3. OneStore'
      BY <1>0, <2>0, <3>1, <3>2 DEF OneStore
    <3>4. ClaimIsHeld'
      BY <2>0, <2>1 DEF ClaimIsHeld, Store, Done
    <3>5. KeyTells'
      <4> SUFFICES ASSUME Lasting' PROVE KeyTells'
        BY DEF KeyTells
      <4>1. Lasting /\ Steady
        BY <3>2 DEF Lasting
      <4>2. writes = 1 /\ call[c].answer = 1 /\ \A d \in Calls : call[d].at \in Ran => d = c
        BY <1>0, <2>0, <4>1 DEF KeyTells, Ran
      <4>3. \A d \in Calls : Stored(d)' = 1
        BY <1>0, <2>0, <2>1, <3>1, <4>1, <4>2, StoredStep
      <4>4. \A d \in Calls : call[d].at = "answered" => call[d].answer = 1
        BY <1>0, <4>1 DEF KeyTells
      <4>5. QED BY <2>0, <3>1, <4>2, <4>3, <4>4 DEF KeyTells, Ran, Free
    <3>6. QED BY <3>3, <3>4, <3>5
  <2>2. CASE Spend("refuse")
    <3>1. ~Steady' /\ ~Lasting'
      BY <1>0, <2>2, SpendShows DEF Lasting
    <3>2. QED BY <3>1 DEF OneStore, KeyTells, ClaimIsHeld
  <2>3. QED BY <1>4, <2>1, <2>2 DEF Settle
<1>5. ASSUME NEW c \in Calls, Undo(c) PROVE OneStore' /\ KeyTells' /\ ClaimIsHeld'
  <2>0. UNCHANGED <<up, writes>> /\ call[c].at = "undo" /\ Goes(c, "refused", Free)
    BY <1>5 DEF Undo
  <2>1. CASE Store(c, Free) /\ UNCHANGED left
    <3>1. /\ call'[c].at = "refused" /\ call'[c].answer = Free
          /\ \A d \in Calls \ {c} : call'[d] = call[d]
          /\ \A d \in Calls : call'[d].on = call[d].on
      BY <1>0, <2>0, CallGoesOn
    <3>2. (Steady' <=> Steady) /\ (Lasting' <=> Lasting)
      BY <1>0, <2>1, SpendShows
    <3>3. OneStore'
      BY <1>0, <2>0, <3>1, <3>2 DEF OneStore
    <3>4. ClaimIsHeld'
      BY <2>0, <2>1 DEF ClaimIsHeld, Store
    <3>5. KeyTells'
      <4> SUFFICES ASSUME Lasting' PROVE KeyTells'
        BY DEF KeyTells
      <4>1. Lasting /\ Steady
        BY <3>2 DEF Lasting
      <4>2. \A d \in Calls : Stored(d)' = Free
        BY <1>0, <2>0, <2>1, <3>1, <4>1, StoredStep
      <4>3. /\ writes = 0 /\ (\A d \in Calls : call[d].at \in Ran => d = c)
            /\ \A d \in Calls : call[d].at # "answered"
        <5>1. Stored(c) = Pending /\ Pending # 1
          <6>1. Stored(c) = Pending
            BY <1>0, <2>0, <4>1 DEF KeyTells, Ran
          <6>2. Cardinality(Calls) # 0
            BY CallsAssumption, FS_EmptySet
          <6>3. QED BY <6>1, <6>2 DEF Pending
        <5>2. QED BY <1>0, <2>0, <4>1, <5>1, SameStore DEF KeyTells, Ran
      <4>4. QED BY <2>0, <3>1, <4>2, <4>3 DEF KeyTells, Ran, Done
    <3>6. QED BY <3>3, <3>4, <3>5
  <2>2. CASE Spend("refuse")
    <3>1. ~Steady' /\ ~Lasting'
      BY <1>0, <2>2, SpendShows DEF Lasting
    <3>2. QED BY <3>1 DEF OneStore, KeyTells, ClaimIsHeld
  <2>3. QED BY <1>5, <2>1, <2>2 DEF Undo, Freed
<1>6. CASE RedisFlips
  <2>1. ~Steady' /\ ~Lasting'
    BY <1>0, <1>6, SpendShows DEF RedisFlips, Lasting
  <2>2. QED BY <2>1 DEF OneStore, KeyTells, ClaimIsHeld
<1>7. CASE Expires
  <2>1. ~Lasting' /\ (Steady' <=> Steady) /\ UNCHANGED <<up, call, writes>>
        /\ (shared' = Free \/ shared' = shared)
    BY <1>0, <1>7, SpendShows DEF Expires
  <2>2. QED BY <1>0, <2>1 DEF OneStore, KeyTells, ClaimIsHeld
<1>8. CASE UNCHANGED vars
  <2>1. /\ (Steady' <=> Steady) /\ (Lasting' <=> Lasting)
        /\ UNCHANGED <<up, shared, local, call, writes>>
    BY <1>8 DEF vars, Steady, Lasting
  <2>2. QED BY <1>0, <2>1 DEF OneStore, KeyTells, ClaimIsHeld, Stored
<1>9. QED BY <1>1, <1>2, <1>3, <1>4, <1>5, <1>6, <1>7, <1>8 DEF Next

LEMMA WriteInitInv == Init => WriteInv
<1> SUFFICES ASSUME Init PROVE WriteInv
  OBVIOUS
<1>1. /\ up \in BOOLEAN /\ shared = Free /\ local = [i \in Instances |-> Free] /\ writes = 0
      /\ call \in [Calls -> [at : {"new"}, on : Instances, answer : {Free}]]
      /\ ~up => \A c, d \in Calls : call[c].on = call[d].on
      /\ left = [throw |-> MaxThrows, refuse |-> MaxRefused, flip |-> MaxFlips,
                 expire |-> MaxExpired]
  BY DEF Init
<1>2. WriteTypeInv
  <2>1. WriteLeftOK
    BY <1>1, BoundsAssumption DEF WriteLeftOK
  <2>2. TypeOK
    BY <1>1, EntriesNat DEF TypeOK
  <2>3. QED BY <1>1, <2>1, <2>2, OverNat DEF WriteTypeInv
<1>3. OneStore /\ KeyTells /\ ClaimIsHeld
  BY <1>1, EntriesNat DEF OneStore, KeyTells, ClaimIsHeld, Stored, Ran, Done
<1>4. QED BY <1>2, <1>3 DEF WriteInv

\* The inductive invariant: a key under way is that of the one call that runs, an answered one
\* keeps the first answer.
THEOREM WriteInvariant == Spec => []WriteInv
<1>1. WriteInv /\ [Next]_vars => WriteInv'
  BY WriteInvStep
<1>2. QED BY <1>1, WriteInitInv, PTL DEF Spec

\* WriteSound: runOnce commits the write of a lasting key once and answers every retry alike, and
\* a failure frees its key; Redis refusing, away or forgetting, the shapes and ClaimIsHeld stay.
THEOREM Written == OnceSpec => []WriteSound
<1>1. WriteInv => WriteSound
  <2> SUFFICES ASSUME WriteInv PROVE WriteSound
    OBVIOUS
  <2>1. TypeOK /\ ClaimIsHeld
    BY DEF WriteInv, WriteTypeInv
  <2>2. WrittenOnce
    BY DEF WriteInv, KeyTells, WrittenOnce
  <2>3. SameAnswer
    BY DEF WriteInv, KeyTells, SameAnswer
  <2>4. QED BY <2>1, <2>2, <2>3 DEF WriteSound
<1>2. OnceInit => Init
  BY DEF OnceInit
<1>3. [OnceNext]_all_vars => [Next]_vars
  BY DEF OnceNext, OnTour, OnSent, OnKept, OnWrite, OnSlots, OnRaces, all_vars
<1>4. QED BY <1>1, <1>2, <1>3, WriteInvariant, PTL DEF OnceSpec, Spec

-----------------------------------------------------------------------------
(* PlayTournament *)

\* A table, and what a call in flight holds.
TourTables ==
    [index : 0 .. MaxGames, status : Tour!Status, seats : SUBSET TourPlayers,
    present : SUBSET TourPlayers]
TourMoving == {"record", "advance", "clone", "close"}
TourFlights ==
    UNION {{Tour!Idle}, [kind : {"stop"}], [kind : {"advance"}, table : Nat],
           [kind : {"record", "close"}, table : Nat, read : [TourPlayers -> Nat]],
           [kind : {"clone"}, table : Nat, present : SUBSET TourPlayers]}
LastTable == Len(table)
TourCounts(p) == {g \in counted : p \in g[2]}

TourShape ==
    /\ table \in Seq(TourTables) /\ LastTable # 0
    /\ \A t \in DOMAIN table : table[t].present \subseteq table[t].seats
    /\ tour \in {"RUNNING", "FINISHED", "ABANDONED"}
    /\ gamesCount \in 1 .. MaxGames
    /\ played \in [TourPlayers -> Nat]
    /\ tour_call \in [TourCalls -> TourFlights]
\* One game after the other: only the last may be open, and each has its place.
TourChain ==
    \A t \in DOMAIN table :
      /\ t # LastTable => ~Tour!Open(t)
      /\ \/ table[t].index = t - 1 /\ t - 1 < gamesCount
         \/ LastTable = 1 /\ table[t].index = Tour!Single /\ tour # "RUNNING"
\* One call at most ends a game and moves the tournament on, from the last table.
TourOneMove ==
    /\ \A c, d \in TourCalls : tour_call[c].kind \in TourMoving
                               /\ tour_call[d].kind \in TourMoving => c = d
    /\ \A c \in TourCalls : tour_call[c].kind \in TourMoving =>
         /\ tour_call[c].table = LastTable
         /\ tour_call[c].kind = "record" => table[LastTable].status = "RUNNING"
         /\ tour_call[c].kind # "record" => ~Tour!Open(LastTable) /\ Tour!OfTournament(LastTable)
         /\ tour_call[c].kind \in {"record", "close"} => tour_call[c].read = played
         /\ tour_call[c].kind = "clone" => LastTable < gamesCount
TourPaid ==
    /\ closes \in {0, 1}
    /\ closes = 1 => /\ tour # "RUNNING" /\ ~Tour!Open(LastTable)
                     /\ \A c \in TourCalls : tour_call[c].kind \notin TourMoving
TourTotals ==
    /\ IsFiniteSet(counted)
    /\ \A g \in counted : g[1] \in DOMAIN table /\ ~Tour!Open(g[1])
    /\ \A p \in TourPlayers : /\ played[p] = Cardinality(TourCounts(p))
                          /\ played[p] + (IF Tour!Open(LastTable) THEN 1 ELSE 0) <= LastTable

TourInv == TourShape /\ TourChain /\ TourOneMove /\ TourPaid /\ TourTotals /\ Tour!GoesOn

LEMMA SequenceWritten ==
  ASSUME NEW S, NEW q \in Seq(S), NEW t \in DOMAIN q, NEW e \in S
  PROVE  /\ [q EXCEPT ![t] = e] \in Seq(S) /\ Len([q EXCEPT ![t] = e]) = Len(q)
         /\ DOMAIN [q EXCEPT ![t] = e] = DOMAIN q
         /\ [q EXCEPT ![t] = e][t] = e
         /\ \A u \in DOMAIN q : u # t => [q EXCEPT ![t] = e][u] = q[u]
  OBVIOUS

\* The last table.
LEMMA TourLast ==
  ASSUME TourShape
  PROVE  /\ LastTable \in Nat \ {0} /\ LastTable \in DOMAIN table /\ DOMAIN table = 1 .. LastTable
         /\ \A t \in DOMAIN table : table[t] \in TourTables /\ t \in Nat
  BY DEF TourShape, LastTable

\* One table is written in place, and opens nothing.
LEMMA TourInPlace ==
  ASSUME TourInv, NEW t \in DOMAIN table, NEW e \in TourTables, table' = [table EXCEPT ![t] = e],
         e.present \subseteq e.seats, e.index = table[t].index,
         e.status \in {"LOBBY", "RUNNING"} => Tour!Open(t),
         Tour!Held(t) => e.status = "RUNNING",
         UNCHANGED <<gamesCount, played, counted, closes>>,
         tour' = tour \/ tour' = "ABANDONED",
         \A c \in TourCalls : tour_call'[c] = tour_call[c] \/ tour_call'[c].kind \notin TourMoving,
         tour_call' \in [TourCalls -> TourFlights], Tour!GoesOn'
  PROVE  TourInv'
<1>1. /\ table \in Seq(TourTables) /\ LastTable \in Nat \ {0} /\ LastTable \in DOMAIN table
      /\ DOMAIN table = 1 .. LastTable
  BY TourLast DEF TourInv, TourShape
<1>2. /\ table' \in Seq(TourTables) /\ LastTable' = LastTable /\ DOMAIN table' = DOMAIN table
      /\ table'[t] = e /\ \A u \in DOMAIN table : u # t => table'[u] = table[u]
  BY <1>1, SequenceWritten DEF LastTable
<1>3. \A u \in DOMAIN table : /\ table'[u].index = table[u].index
                              /\ Tour!Open(u)' => Tour!Open(u)
                              /\ Tour!OfTournament(u)' <=> Tour!OfTournament(u)
  BY <1>2 DEF Tour!Open, Tour!OfTournament
<1>4. TourShape'
  BY <1>1, <1>2 DEF TourInv, TourShape
<1>5. TourChain'
  BY <1>2, <1>3 DEF TourInv, TourChain
<1>6. TourOneMove'
  <2>1. ASSUME NEW c \in TourCalls, tour_call'[c].kind = "record"
        PROVE  table'[LastTable].status = "RUNNING"
    <3>1. tour_call[c].kind = "record" /\ tour_call[c].table = LastTable
          /\ table[LastTable].status = "RUNNING"
      BY <2>1 DEF TourInv, TourOneMove, TourMoving
    <3>2. CASE t = LastTable
      BY <1>2, <3>1, <3>2 DEF Tour!Held
    <3>3. CASE t # LastTable
      BY <1>1, <1>2, <3>1, <3>3
    <3>4. QED BY <3>2, <3>3
  <2>2. QED BY <1>1, <1>2, <1>3, <2>1 DEF TourInv, TourOneMove, TourMoving
<1>7. TourPaid'
  BY <1>1, <1>2, <1>3 DEF TourInv, TourPaid
<1>8. TourTotals'
  <2>1. \A p \in TourPlayers : TourCounts(p)' = TourCounts(p)
    BY DEF TourCounts
  <2>2. ASSUME NEW p \in TourPlayers
        PROVE  played'[p] + (IF Tour!Open(LastTable)' THEN 1 ELSE 0) <= LastTable'
    BY <1>1, <1>2, <1>3 DEF TourInv, TourTotals, TourShape
  <2>3. QED BY <1>1, <1>2, <1>3, <2>1, <2>2 DEF TourInv, TourTotals
<1>9. QED BY <1>4, <1>5, <1>6, <1>7, <1>8 DEF TourInv

\* The call that claims an end has read the totals: nobody else may move on until it is done.
LEMMA TourFinishSound ==
  ASSUME TourInv, NEW c \in TourCalls, NEW t \in DOMAIN table, Tour!FinishSession(c, t)
  PROVE  TourInv'
<1>1. t = LastTable /\ table[t].status = "RUNNING" /\ ~Tour!Held(t) /\ Tour!Open(t)
  BY DEF TourInv, TourChain, Tour!FinishSession, Tour!Claims, Tour!Open
<1> DEFINE k == [kind |-> "record", table |-> t, read |-> played]
<1>2. /\ tour_call' = [tour_call EXCEPT ![c] = k]
      /\ UNCHANGED <<table, tour, gamesCount, played, counted, closes, lapsed, tour_left>>
  BY DEF Tour!FinishSession
<1>3. LastTable \in Nat
  BY TourLast DEF TourInv
<1>4. k \in TourFlights /\ k.kind = "record" /\ k.table = t /\ k.read = played
  BY <1>1, <1>3 DEF TourFlights, TourInv, TourShape
<1> HIDE DEF k
<1>5. \A d \in TourCalls : tour_call'[d] = IF d = c THEN k ELSE tour_call[d]
  BY <1>2 DEF TourInv, TourShape
<1>6. \A d \in TourCalls : tour_call[d].kind \notin TourMoving
  BY <1>1 DEF TourInv, TourOneMove, Tour!Held, TourMoving
<1>7. TourShape'
  BY <1>2, <1>4 DEF TourInv, TourShape, LastTable
<1>8. TourChain' /\ TourTotals'
  BY <1>2 DEF TourInv, TourChain, TourTotals, LastTable, Tour!Open, TourCounts
<1>9. TourOneMove'
  BY <1>1, <1>2, <1>4, <1>5, <1>6 DEF TourOneMove, LastTable
<1>10. TourPaid'
  <2>1. closes = 0
    BY <1>1 DEF TourInv, TourPaid
  <2>2. QED BY <1>2, <2>1 DEF TourPaid
<1>11. Tour!GoesOn'
  <2>1. tour_call[c].kind = "idle"
    BY DEF Tour!FinishSession, Tour!Idle
  <2>2. QED BY <1>2, <1>5, <2>1 DEF TourInv, Tour!GoesOn, Tour!OfTournament, Tour!Open
<1>12. QED BY <1>7, <1>8, <1>9, <1>10, <1>11 DEF TourInv

\* The end of a game, in the totals once.
LEMMA TourWriteSound == ASSUME TourInv, NEW c \in TourCalls, Tour!WriteResults(c) PROVE TourInv'
<1> PICK t \in Nat : t = LastTable
  BY TourLast DEF TourInv
<1> DEFINE e == [table[t] EXCEPT !.status = "FINISHED"]
           k == IF Tour!OfTournament(t) THEN [kind |-> "advance", table |-> t] ELSE Tour!Idle
           x == <<t, table[t].seats>>
<1>1. /\ tour_call[c].kind = "record" /\ tour_call[c].table = t /\ table[t].status = "RUNNING"
      /\ tour_call[c].read = played /\ tour_call[c].kind \in TourMoving
  BY DEF Tour!WriteResults, TourInv, TourOneMove, TourMoving
<1>2. /\ table \in Seq(TourTables) /\ t \in Nat \ {0} /\ t \in DOMAIN table /\ DOMAIN table = 1 .. t
      /\ table[t] \in TourTables /\ table[t].seats \subseteq TourPlayers
  BY TourLast DEF TourInv, TourShape, TourTables
<1>3. e \in TourTables /\ e.index = table[t].index /\ e.status = "FINISHED"
      /\ e.seats = table[t].seats
      /\ e.present = table[t].present
  BY <1>2 DEF TourTables, Tour!Status
<1> HIDE DEF e
<1>4. table' = [table EXCEPT ![t] = e]
  BY <1>1, <1>2 DEF Tour!WriteResults, e
<1>5. /\ table' \in Seq(TourTables) /\ LastTable' = t /\ DOMAIN table' = DOMAIN table
      /\ table'[t] = e /\ \A u \in DOMAIN table : u # t => table'[u] = table[u]
  <2>1. Len(table') = Len(table)
    BY <1>2, <1>3, <1>4, SequenceWritten
  <2>2. QED BY <1>2, <1>3, <1>4, <2>1, SequenceWritten DEF LastTable
<1>6. k \in TourFlights
      /\ (k.kind \in TourMoving => k.kind = "advance" /\ k.table = t /\ Tour!OfTournament(t))
  BY <1>2 DEF TourFlights, Tour!Idle, TourMoving
<1>7. Tour!OfTournament(t) => k.kind = "advance"
  OBVIOUS
<1>8. \A d \in TourCalls : tour_call'[d] = IF d = c THEN k ELSE tour_call[d]
  BY <1>1 DEF Tour!WriteResults, TourInv, TourShape
<1>9. tour_call' \in [TourCalls -> TourFlights]
  BY <1>1, <1>6 DEF Tour!WriteResults, TourInv, TourShape
<1> HIDE DEF k
<1>10. \A u \in DOMAIN table : /\ table'[u].index = table[u].index
                               /\ Tour!Open(u)' => Tour!Open(u)
                               /\ Tour!OfTournament(u)' <=> Tour!OfTournament(u)
  BY <1>3, <1>5 DEF Tour!Open, Tour!OfTournament
<1>11. ~Tour!Open(t)' /\ Tour!Open(t)
  BY <1>1, <1>3, <1>5 DEF Tour!Open
<1>12. played' = [p \in TourPlayers |-> IF p \in table[t].seats THEN played[p] + 1 ELSE played[p]]
       /\ counted' = counted \union {x} /\ UNCHANGED <<tour, gamesCount, closes, lapsed, tour_left>>
  BY <1>1 DEF Tour!WriteResults
<1>13. TourShape'
  <2>1. played' \in [TourPlayers -> Nat]
    BY <1>12 DEF TourInv, TourShape
  <2>2. \A u \in DOMAIN table' : table'[u].present \subseteq table'[u].seats
    BY <1>2, <1>3, <1>5 DEF TourInv, TourShape
  <2>3. QED BY <1>2, <1>5, <1>9, <1>12, <2>1, <2>2 DEF TourInv, TourShape
<1>14. TourChain'
  BY <1>5, <1>10, <1>12 DEF TourInv, TourChain
<1>15. \A d \in TourCalls : d # c => tour_call[d].kind \notin TourMoving
  BY <1>1 DEF TourInv, TourOneMove
<1>16. TourOneMove'
  <2>1. \A d \in TourCalls : tour_call'[d].kind \in TourMoving => d = c
    BY <1>8, <1>15
  <2>2. tour_call'[c].kind \in TourMoving => tour_call'[c].kind = "advance"
        /\ tour_call'[c].table = t /\ Tour!OfTournament(t)'
    BY <1>2, <1>6, <1>8, <1>10
  <2>3. QED BY <1>5, <1>11, <2>1, <2>2 DEF TourOneMove
<1>17. TourPaid'
  <2>1. closes = 0
    BY <1>11 DEF TourInv, TourPaid
  <2>2. QED BY <1>12, <2>1 DEF TourPaid
<1>18. TourTotals'
  <2>1. x \notin counted /\ IsFiniteSet(counted)
    BY <1>11 DEF TourInv, TourTotals
  <2>2. IsFiniteSet(counted')
    BY <1>12, <2>1, FS_AddElement
  <2>3. \A g \in counted' : g[1] \in DOMAIN table' /\ ~Tour!Open(g[1])'
    BY <1>2, <1>5, <1>10, <1>11, <1>12 DEF TourInv, TourTotals
  <2>4. ASSUME NEW p \in TourPlayers
        PROVE  /\ played'[p] = Cardinality(TourCounts(p))'
               /\ played'[p] + (IF Tour!Open(LastTable)' THEN 1 ELSE 0) <= LastTable'
    <3>1. Cardinality(TourCounts(p))' = IF p \in x[2] THEN Cardinality(TourCounts(p)) + 1
          ELSE Cardinality(TourCounts(p))
      <4> HIDE DEF x
      <4>1. TourCounts(p)' = {g \in counted \union {x} : p \in g[2]}
        BY <1>12 DEF TourCounts
      <4>2. TourCounts(p) = {g \in counted : p \in g[2]}
        BY DEF TourCounts
      <4>3. /\ p \in x[2] => Cardinality(TourCounts(p)') = Cardinality(TourCounts(p)) + 1
            /\ p \notin x[2] => TourCounts(p)' = TourCounts(p)
        <5> PICK S, T, U, y : S = counted /\ T = TourCounts(p) /\ U = TourCounts(p)' /\ y = x
          OBVIOUS
        <5>1. T = {g \in S : p \in g[2]} /\ U = {g \in S \union {y} : p \in g[2]}
          BY <4>1, <4>2
        <5>2. IsFiniteSet(T) /\ y \notin T
          BY <2>1, <5>1, FS_Subset
        <5>3. Cardinality(T \union {y}) = Cardinality(T) + 1
          BY <5>2, FS_AddElement
        <5>4. (p \in y[2] => U = T \union {y}) /\ (p \notin y[2] => U = T)
          BY <5>1
        <5>5. QED BY <5>3, <5>4
      <4>4. QED BY <4>3
    <3>2. played[p] = Cardinality(TourCounts(p)) /\ played[p] + 1 <= t /\ played[p] \in Nat
      BY <1>11 DEF TourInv, TourTotals, TourShape
    <3>3. played'[p] = IF p \in x[2] THEN played[p] + 1 ELSE played[p]
      BY <1>12, <3>2
    <3>4. QED BY <1>2, <1>5, <1>11, <3>1, <3>2, <3>3
  <2>5. QED BY <2>2, <2>3, <2>4 DEF TourTotals
<1>19. Tour!GoesOn'
  <2>1. CASE Tour!OfTournament(t)
    BY <1>7, <1>8, <2>1 DEF Tour!GoesOn
  <2>2. CASE ~Tour!OfTournament(t)
    <3>1. table[t].index = Tour!Single
      BY <2>2 DEF Tour!OfTournament
    <3>2. tour # "RUNNING"
      BY <1>2, <3>1, OnceAssumption DEF Tour!GamesAssumption, TourInv, TourChain, TourShape,
         Tour!Single
    <3>3. QED BY <1>12, <3>2 DEF Tour!GoesOn
  <2>3. QED BY <2>1, <2>2
<1>20. QED BY <1>13, <1>14, <1>16, <1>17, <1>18, <1>19 DEF TourInv

\* The next game, or the end of the tournament.
LEMMA TourAdvanceSound ==
  ASSUME TourInv, NEW c \in TourCalls, Tour!AdvanceTournament(c)
  PROVE  TourInv'
<1> PICK t \in Nat : t = LastTable
  BY TourLast DEF TourInv
<1> DEFINE k == IF ~Tour!OfTournament(t) \/ tour # "RUNNING" THEN Tour!Idle
                ELSE IF ~Tour!IsLast(t) /\ table[t].present # {}
                       THEN [kind |-> "clone", table |-> t, present |-> table[t].present]
                       ELSE [kind |-> "close", table |-> t, read |-> played]
<1>1. /\ tour_call[c].kind = "advance" /\ tour_call[c].kind \in TourMoving /\ tour_call[c].table = t
      /\ ~Tour!Open(t) /\ Tour!OfTournament(t)
  BY DEF Tour!AdvanceTournament, TourInv, TourOneMove, TourMoving
<1>2. /\ t \in Nat \ {0} /\ t \in DOMAIN table /\ table[t] \in TourTables /\ gamesCount \in Nat
      /\ table[t].present \subseteq TourPlayers
  BY TourLast, OnceAssumption DEF Tour!GamesAssumption, TourInv, TourShape, TourTables
<1>3. table[t].index = t - 1
  BY <1>1, <1>2 DEF TourInv, TourChain, Tour!OfTournament
<1>4. /\ k \in TourFlights /\ k.kind \in {"idle", "clone", "close"}
      /\ k.kind # "idle" => k.table = t
      /\ k.kind = "close" => k.read = played
      /\ k.kind = "clone" => t < gamesCount
      /\ k.kind = "idle" => tour # "RUNNING"
  <2>1. ~Tour!IsLast(t) => t < gamesCount
    BY <1>2, <1>3 DEF Tour!IsLast
  <2>2. QED BY <1>1, <1>2, <2>1 DEF TourFlights, Tour!Idle, TourInv, TourShape
<1>5. /\ tour_call' = [tour_call EXCEPT ![c] = k]
      /\ UNCHANGED <<table, tour, gamesCount, played, counted, closes, lapsed, tour_left>>
  BY <1>1 DEF Tour!AdvanceTournament
<1> HIDE DEF k
<1>6. \A d \in TourCalls : tour_call'[d] = IF d = c THEN k ELSE tour_call[d]
  BY <1>5 DEF TourInv, TourShape
<1>7. TourShape'
  BY <1>4, <1>5 DEF TourInv, TourShape, LastTable
<1>8. TourChain' /\ TourTotals'
  BY <1>5 DEF TourInv, TourChain, TourTotals, LastTable, Tour!Open, TourCounts
<1>9. \A d \in TourCalls : d # c => tour_call[d].kind \notin TourMoving
  BY <1>1 DEF TourInv, TourOneMove
<1>10. TourOneMove'
  BY <1>1, <1>4, <1>5, <1>6, <1>9 DEF TourOneMove, LastTable, Tour!Open, Tour!OfTournament,
        TourMoving
<1>11. TourPaid'
  <2>1. closes = 0
    BY <1>1 DEF TourInv, TourPaid
  <2>2. QED BY <1>5, <2>1 DEF TourPaid
<1>12. Tour!GoesOn'
  BY <1>4, <1>5, <1>6 DEF Tour!GoesOn
<1>13. QED BY <1>7, <1>8, <1>10, <1>11, <1>12 DEF TourInv

LEMMA TourCloneSound == ASSUME TourInv, NEW c \in TourCalls, Tour!CloneTable(c) PROVE TourInv'
<1> PICK t \in Nat : t = LastTable
  BY TourLast DEF TourInv
<1> DEFINE e == [index |-> table[t].index + 1, status |-> "LOBBY",
                 seats |-> tour_call[c].present, present |-> tour_call[c].present]
<1>1. /\ tour_call[c].kind = "clone" /\ tour_call[c].kind \in TourMoving /\ tour_call[c].table = t
      /\ ~Tour!Open(t) /\ Tour!OfTournament(t) /\ t < gamesCount
  BY DEF Tour!CloneTable, TourInv, TourOneMove, TourMoving
<1>2. /\ table \in Seq(TourTables) /\ t \in Nat \ {0} /\ t \in DOMAIN table /\ DOMAIN table = 1 .. t
      /\ gamesCount \in 1 .. MaxGames /\ MaxGames \in Nat
  BY TourLast, OnceAssumption DEF Tour!GamesAssumption, TourInv, TourShape
<1>3. table[t].index = t - 1
  BY <1>1, <1>2 DEF TourInv, TourChain, Tour!OfTournament
<1>4. tour_call[c].present \subseteq TourPlayers
  BY <1>1 DEF TourInv, TourShape, TourFlights, Tour!Idle
<1>5. e \in TourTables /\ e.index = t /\ e.status = "LOBBY" /\ e.present = e.seats
  BY <1>1, <1>2, <1>3, <1>4 DEF TourTables, Tour!Status
<1>6. /\ table' = Append(table, e) /\ tour_call' = [tour_call EXCEPT ![c] = Tour!Idle]
      /\ UNCHANGED <<tour, gamesCount, played, counted, closes, lapsed, tour_left>>
  BY <1>1 DEF Tour!CloneTable
<1> HIDE DEF e
<1>7. /\ table' \in Seq(TourTables) /\ LastTable' = t + 1
         /\ DOMAIN table' = DOMAIN table \union {t + 1}
      /\ table'[t + 1] = e /\ \A u \in DOMAIN table : table'[u] = table[u] /\ u # t + 1
  BY <1>2, <1>5, <1>6 DEF LastTable
<1>8. \A d \in TourCalls : tour_call'[d] = (IF d = c THEN Tour!Idle ELSE tour_call[d])
                           /\ tour_call'[d].kind \notin TourMoving
  BY <1>1, <1>6 DEF TourInv, TourShape, TourOneMove, Tour!Idle, TourMoving
<1>9. TourShape'
  <2>1. tour_call' \in [TourCalls -> TourFlights]
    BY <1>6 DEF TourInv, TourShape, TourFlights
  <2>2. \A u \in DOMAIN table' : table'[u].present \subseteq table'[u].seats
    BY <1>5, <1>7 DEF TourInv, TourShape
  <2>3. QED BY <1>2, <1>6, <1>7, <2>1, <2>2 DEF TourInv, TourShape
<1>10. TourChain'
  <2>1. ASSUME NEW u \in DOMAIN table
        PROVE  ~Tour!Open(u)' /\ table'[u].index = u - 1 /\ u - 1 < gamesCount
    <3>1. ~Tour!Open(u) /\ u \in Nat
      BY <1>1, <1>2 DEF TourInv, TourChain
    <3>2. table[u].index = u - 1 /\ u - 1 < gamesCount
      <4>1. u = t \/ t # 1
        BY <1>2
      <4>2. QED BY <1>1, <1>2, <1>3, <4>1 DEF TourInv, TourChain
    <3>3. QED BY <1>7, <3>1, <3>2 DEF Tour!Open
  <2>2. table'[t + 1].index = (t + 1) - 1 /\ (t + 1) - 1 < gamesCount
    BY <1>1, <1>2, <1>5, <1>7
  <2>3. QED BY <1>6, <1>7, <2>1, <2>2 DEF TourChain
<1>11. TourOneMove'
  BY <1>8 DEF TourOneMove
<1>12. TourPaid'
  <2>1. closes = 0
    BY <1>1 DEF TourInv, TourPaid
  <2>2. QED BY <1>6, <2>1 DEF TourPaid
<1>13. TourTotals'
  <2>1. \A g \in counted : g[1] \in DOMAIN table' /\ ~Tour!Open(g[1])'
    BY <1>7 DEF TourInv, TourTotals, Tour!Open
  <2>2. ASSUME NEW p \in TourPlayers
        PROVE  /\ played[p] = Cardinality(TourCounts(p))'
               /\ played[p] + (IF Tour!Open(LastTable)' THEN 1 ELSE 0) <= LastTable'
    <3>1. TourCounts(p)' = TourCounts(p)
      BY <1>6 DEF TourCounts
    <3>2. played[p] = Cardinality(TourCounts(p)) /\ played[p] <= t /\ played[p] \in Nat
      BY <1>1 DEF TourInv, TourTotals, TourShape
    <3>3. QED BY <1>7, <3>1, <3>2
  <2>3. QED BY <1>6, <2>1, <2>2 DEF TourInv, TourTotals
<1>14. Tour!GoesOn'
  <2>1. t + 1 \in DOMAIN table' /\ Tour!OfTournament(t + 1)' /\ Tour!Open(t + 1)'
    BY <1>1, <1>2, <1>5, <1>7 DEF Tour!OfTournament, Tour!Open, Tour!Single
  <2>2. QED BY <2>1 DEF Tour!GoesOn
<1>15. QED BY <1>9, <1>10, <1>11, <1>12, <1>13, <1>14 DEF TourInv

LEMMA TourCloseSound == ASSUME TourInv, NEW c \in TourCalls, Tour!CloseTournament(c) PROVE TourInv'
<1>1. /\ tour_call[c].kind = "close" /\ tour_call[c].kind \in TourMoving /\ ~Tour!Open(LastTable)
      /\ tour_call[c].read = played
  BY DEF Tour!CloseTournament, TourInv, TourOneMove, TourMoving
<1>2. played' = played
  <2>1. played \in [TourPlayers -> Nat] /\ played' = [p \in TourPlayers |-> played[p]]
    BY <1>1 DEF Tour!CloseTournament, TourInv, TourShape
  <2>2. QED BY <2>1
<1>3. \A d \in TourCalls : tour_call'[d] = (IF d = c THEN Tour!Idle ELSE tour_call[d])
                           /\ tour_call'[d].kind \notin TourMoving
  BY <1>1 DEF Tour!CloseTournament, TourInv, TourShape, TourOneMove, Tour!Idle, TourMoving
<1>4. TourShape'
  BY <1>2 DEF Tour!CloseTournament, TourInv, TourShape, LastTable, TourFlights
<1>5. TourChain' /\ TourTotals'
  BY <1>2 DEF Tour!CloseTournament, TourInv, TourChain, TourTotals, LastTable, Tour!Open, TourCounts
<1>6. TourOneMove'
  BY <1>3 DEF TourOneMove
<1>7. TourPaid'
  <2>1. closes = 0
    BY <1>1 DEF TourInv, TourPaid
  <2>2. QED BY <1>1, <1>3, <2>1 DEF TourPaid, Tour!CloseTournament, Tour!Open, LastTable
<1>8. Tour!GoesOn'
  BY DEF Tour!CloseTournament, Tour!GoesOn
<1>9. QED BY <1>4, <1>5, <1>6, <1>7, <1>8 DEF TourInv

LEMMA TourLinkSound == ASSUME TourInv, NEW t \in DOMAIN table, Tour!TournamentLink(t) PROVE TourInv'
<1>1. /\ table \in Seq(TourTables) /\ LastTable \in Nat \ {0} /\ DOMAIN table = 1 .. LastTable
      /\ table[t] \in TourTables /\ MaxGames \in Nat /\ gamesCount \in 1 .. MaxGames
  BY TourLast, OnceAssumption DEF Tour!GamesAssumption, TourInv, TourShape
<1>2. t = LastTable /\ Tour!Open(t) /\ Tour!OfTournament(t) /\ table[t].index = 0
      /\ table[t].status = "LOBBY"
  BY DEF Tour!TournamentLink, TourInv, TourChain, Tour!Open
<1>3. t = 1 /\ LastTable = 1 /\ DOMAIN table = {1}
  BY <1>1, <1>2 DEF TourInv, TourChain, Tour!OfTournament
<1>4. \A c \in TourCalls : tour_call[c].kind \notin TourMoving
  BY <1>2 DEF TourInv, TourOneMove, TourMoving
<1>5. closes = 0
  BY <1>2 DEF TourInv, TourPaid
<1>6. /\ UNCHANGED <<played, counted, closes, tour_call, lapsed, tour_left>>
      /\ \/ gamesCount' \in 1 .. MaxGames /\ UNCHANGED <<table, tour>>
         \/ /\ tour' = "ABANDONED" /\ UNCHANGED gamesCount
            /\ table' = [table EXCEPT ![t].index = Tour!Single]
  BY DEF Tour!TournamentLink
<1>7. TourOneMove' /\ TourPaid'
  BY <1>4, <1>5, <1>6 DEF TourOneMove, TourPaid
<1>8. CASE gamesCount' \in 1 .. MaxGames /\ UNCHANGED <<table, tour>>
  <2>1. TourShape' /\ TourTotals'
    BY <1>6, <1>8 DEF TourInv, TourShape, TourTotals, LastTable, TourCounts, Tour!Open
  <2>2. TourChain'
    BY <1>1, <1>2, <1>3, <1>8 DEF TourInv, TourChain, Tour!Open, LastTable
  <2>3. Tour!GoesOn'
    BY <1>2, <1>6, <1>8 DEF Tour!GoesOn, Tour!Open, Tour!OfTournament
  <2>4. QED BY <1>7, <2>1, <2>2, <2>3 DEF TourInv
<1>9. CASE tour' = "ABANDONED" /\ UNCHANGED gamesCount
           /\ table' = [table EXCEPT ![t].index = Tour!Single]
  <2> DEFINE e == [table[t] EXCEPT !.index = Tour!Single]
  <2>1. e \in TourTables /\ e.status = "LOBBY" /\ e.index = Tour!Single
        /\ e.present = table[t].present
        /\ e.seats = table[t].seats
    BY <1>1, <1>2 DEF TourTables, Tour!Single
  <2>2. table' = [table EXCEPT ![t] = e]
    BY <1>1, <1>9
  <2> HIDE DEF e
  <2>3. /\ table' \in Seq(TourTables) /\ LastTable' = LastTable /\ DOMAIN table' = DOMAIN table
        /\ table'[t] = e
    BY <1>1, <2>1, <2>2, SequenceWritten DEF LastTable
  <2>4. TourShape'
    BY <1>3, <1>6, <1>9, <2>1, <2>3 DEF TourInv, TourShape
  <2>5. TourChain'
    BY <1>3, <1>9, <2>1, <2>3 DEF TourChain
  <2>6. Tour!Open(t)'
    BY <2>1, <2>3 DEF Tour!Open
  <2>7. TourTotals'
    <3>1. counted = {}
      BY <1>2, <1>3 DEF TourInv, TourTotals
    <3>2. QED BY <1>1, <1>2, <1>3, <1>6, <2>3, <2>6, <3>1 DEF TourInv, TourTotals, TourCounts
  <2>8. Tour!GoesOn'
    BY <1>9 DEF Tour!GoesOn
  <2>9. QED BY <1>7, <2>4, <2>5, <2>7, <2>8 DEF TourInv
<1>10. QED BY <1>6, <1>8, <1>9

\* Tables that launch, lose players or stop.
LEMMA TourTableSound ==
  ASSUME TourInv, NEW t \in DOMAIN table,
         \/ Tour!StartSession(t) \/ Tour!CancelSession(t) \/ Tour!ListLobbies(t)
         \/ \E p \in TourPlayers : Tour!LeaveSession(t, p) \/ Tour!KickPlayer(t, p)
         \/ \E c \in TourCalls : Tour!AbandonRunning(c, t)
  PROVE  TourInv'
<1>1. table[t] \in TourTables /\ table[t].present \subseteq table[t].seats
      /\ table \in Seq(TourTables)
  BY TourLast DEF TourInv, TourShape
<1>2. Tour!Held(t) => table[t].status = "RUNNING"
  BY DEF Tour!Held, TourInv, TourOneMove, TourMoving
<1>3. ASSUME NEW e \in TourTables, table' = [table EXCEPT ![t] = e], e.present \subseteq e.seats,
             e.index = table[t].index, UNCHANGED <<gamesCount, played, counted, closes>>
      PROVE  /\ \A u \in DOMAIN table : u # t => Tour!Open(u)' = Tour!Open(u)
                /\ Tour!OfTournament(u)' = Tour!OfTournament(u)
             /\ Tour!OfTournament(t)' = Tour!OfTournament(t)
                /\ Tour!Open(t)' = (e.status \in {"LOBBY", "RUNNING"})
             /\ DOMAIN table' = DOMAIN table
  BY <1>3 DEF Tour!Open, Tour!OfTournament, Tour!Single
<1>4. CASE Tour!StartSession(t)
  <2> DEFINE e == [table[t] EXCEPT !.status = "RUNNING"]
  <2>1. e \in TourTables /\ e.present = table[t].present /\ e.seats = table[t].seats
        /\ e.index = table[t].index /\ e.status = "RUNNING"
    BY <1>1 DEF TourTables, Tour!Status
  <2>2. /\ table' = [table EXCEPT ![t] = e] /\ Tour!Open(t)
        /\ UNCHANGED <<tour, gamesCount, played, counted, closes, tour_call, lapsed>>
    BY <1>4 DEF Tour!StartSession, Tour!Open
  <2> HIDE DEF e
  <2>3. Tour!GoesOn'
    BY <1>1, <1>3, <2>1, <2>2 DEF TourInv, Tour!GoesOn
  <2>4. tour_call' \in [TourCalls -> TourFlights]
    BY <2>2 DEF TourInv, TourShape
  <2>5. QED BY <1>1, <2>1, <2>2, <2>3, <2>4, TourInPlace
<1>5. CASE Tour!CancelSession(t) \/ Tour!ListLobbies(t)
  <2> DEFINE e == [table[t] EXCEPT !.status = "ABANDONED"]
  <2>1. e \in TourTables /\ e.present = table[t].present /\ e.seats = table[t].seats
        /\ e.index = table[t].index /\ e.status = "ABANDONED"
    BY <1>1 DEF TourTables, Tour!Status
  <2>2. /\ table' = [table EXCEPT ![t] = e] /\ ~Tour!Held(t)
        /\ UNCHANGED <<gamesCount, played, counted, closes, tour_call>>
        /\ lapsed' \/ (Tour!Stopped(t) /\ UNCHANGED lapsed)
        /\ tour' = tour \/ tour' = "ABANDONED"
    BY <1>2, <1>5 DEF Tour!CancelSession, Tour!ListLobbies, Tour!Stopped
  <2> HIDE DEF e
  <2>3. Tour!GoesOn'
    <3>1. CASE lapsed'
      BY <3>1 DEF Tour!GoesOn
    <3>2. CASE Tour!OfTournament(t) /\ Tour!Stopped(t)
      BY <3>2 DEF Tour!GoesOn, Tour!Stopped
    <3>3. CASE ~Tour!OfTournament(t) /\ Tour!Stopped(t) /\ UNCHANGED lapsed
      BY <1>1, <1>3, <2>1, <2>2, <3>3 DEF TourInv, Tour!GoesOn, Tour!Stopped
    <3>4. QED BY <2>2, <3>1, <3>2, <3>3
  <2>4. tour_call' \in [TourCalls -> TourFlights]
    BY <2>2 DEF TourInv, TourShape
  <2>5. QED BY <1>1, <2>1, <2>2, <2>3, <2>4, TourInPlace
<1>6. ASSUME NEW p \in TourPlayers, Tour!LeaveSession(t, p) PROVE TourInv'
  <2>1. /\ ~Tour!Held(t) /\ UNCHANGED <<gamesCount, played, counted, closes, tour_call, lapsed>>
        /\ tour_call' \in [TourCalls -> TourFlights]
    BY <1>6 DEF Tour!LeaveSession, TourInv, TourShape
  <2>2. CASE table[t].present = {p}
    <3> DEFINE e == [table[t] EXCEPT !.present = {}, !.status = "ABANDONED"]
    <3>1. e \in TourTables /\ e.present \subseteq e.seats /\ e.index = table[t].index
          /\ e.status = "ABANDONED"
      BY <1>1 DEF TourTables, Tour!Status
    <3>2. table' = [table EXCEPT ![t] = e] /\ Tour!Stopped(t)
          /\ (tour' = tour \/ tour' = "ABANDONED")
      BY <1>1, <1>6, <2>2 DEF Tour!LeaveSession, Tour!Stopped
    <3> HIDE DEF e
    <3>3. Tour!GoesOn'
      <4>1. CASE Tour!OfTournament(t)
        BY <3>2, <4>1 DEF Tour!GoesOn, Tour!Stopped
      <4>2. CASE ~Tour!OfTournament(t)
        BY <1>1, <1>3, <2>1, <3>1, <3>2, <4>2 DEF TourInv, Tour!GoesOn, Tour!Stopped
      <4>3. QED BY <4>1, <4>2
    <3>4. QED BY <1>1, <2>1, <3>1, <3>2, <3>3, TourInPlace
  <2>3. CASE table[t].present # {p}
    <3> DEFINE e == [table[t] EXCEPT !.present = @ \ {p}]
    <3>1. e \in TourTables /\ e.present \subseteq e.seats /\ e.index = table[t].index
          /\ e.status = table[t].status
      BY <1>1 DEF TourTables, Tour!Status
    <3>2. table' = [table EXCEPT ![t] = e] /\ tour' = tour
      BY <1>1, <1>6, <2>3 DEF Tour!LeaveSession
    <3> HIDE DEF e
    <3>3. Tour!GoesOn'
      BY <1>1, <1>3, <2>1, <3>1, <3>2 DEF TourInv, Tour!GoesOn, Tour!Open
    <3>4. e.status \in {"LOBBY", "RUNNING"} => Tour!Open(t)
      BY <3>1 DEF Tour!Open
    <3>5. QED BY <1>1, <2>1, <3>1, <3>2, <3>3, <3>4, TourInPlace
  <2>4. QED BY <2>2, <2>3
<1>7. ASSUME NEW p \in TourPlayers, Tour!KickPlayer(t, p) PROVE TourInv'
  <2>1. /\ ~Tour!Held(t)
           /\ UNCHANGED <<tour, gamesCount, played, counted, closes, tour_call, lapsed>>
        /\ tour_call' \in [TourCalls -> TourFlights]
    BY <1>7 DEF Tour!KickPlayer, TourInv, TourShape
  <2> DEFINE e == Tour!Removed(table[t], p)
  <2>2. e \in TourTables /\ e.present \subseteq e.seats /\ e.index = table[t].index
        /\ e.status = table[t].status
    BY <1>1 DEF TourTables, Tour!Status, Tour!Removed
  <2>3. table' = [table EXCEPT ![t] = e]
    BY <1>1, <1>7 DEF Tour!KickPlayer
  <2> HIDE DEF e
  <2>4. Tour!GoesOn'
    BY <1>1, <1>3, <2>1, <2>2, <2>3 DEF TourInv, Tour!GoesOn, Tour!Open
  <2>5. e.status \in {"LOBBY", "RUNNING"} => Tour!Open(t)
    BY <2>2 DEF Tour!Open
  <2>6. QED BY <1>1, <2>1, <2>2, <2>3, <2>4, <2>5, TourInPlace
<1>8. ASSUME NEW c \in TourCalls, Tour!AbandonRunning(c, t) PROVE TourInv'
  <2> DEFINE e == [table[t] EXCEPT !.status = "ABANDONED"]
             k == IF Tour!OfTournament(t) THEN [kind |-> "stop"] ELSE Tour!Idle
  <2>1. e \in TourTables /\ e.present = table[t].present /\ e.seats = table[t].seats
        /\ e.index = table[t].index /\ e.status = "ABANDONED"
    BY <1>1 DEF TourTables, Tour!Status
  <2>2. k \in TourFlights /\ k.kind \notin TourMoving /\ (Tour!OfTournament(t) => k.kind = "stop")
    BY DEF TourFlights, Tour!Idle, TourMoving
  <2>3. /\ table' = [table EXCEPT ![t] = e] /\ ~Tour!Held(t)
           /\ tour_call' = [tour_call EXCEPT ![c] = k]
        /\ UNCHANGED <<tour, gamesCount, played, counted, closes, lapsed>>
           /\ tour_call[c].kind = "idle"
    BY <1>8 DEF Tour!AbandonRunning, Tour!Idle
  <2> HIDE DEF e, k
  <2>4. /\ tour_call' \in [TourCalls -> TourFlights]
        /\ \A d \in TourCalls : tour_call'[d] = IF d = c THEN k ELSE tour_call[d]
    BY <2>2, <2>3 DEF TourInv, TourShape
  <2>5. Tour!GoesOn'
    <3>1. CASE Tour!OfTournament(t)
      BY <2>2, <2>4, <3>1 DEF Tour!GoesOn
    <3>2. CASE ~Tour!OfTournament(t)
      BY <1>1, <1>3, <2>1, <2>3, <2>4, <3>2 DEF TourInv, Tour!GoesOn
    <3>3. QED BY <3>1, <3>2
  <2>6. \A d \in TourCalls : tour_call'[d] = tour_call[d] \/ tour_call'[d].kind \notin TourMoving
    BY <2>2, <2>4
  <2>7. QED BY <1>1, <2>1, <2>3, <2>4, <2>5, <2>6, TourInPlace
<1>9. QED BY <1>4, <1>5, <1>6, <1>7, <1>8

\* A call that stops the tournament, and a process that dies.
LEMMA TourEndSound ==
  ASSUME TourInv, Tour!Crash \/ \E c \in TourCalls : Tour!TournamentStops(c)
  PROVE  TourInv'
<1>1. /\ \A c \in TourCalls : tour_call'[c] = tour_call[c] \/ tour_call'[c] = Tour!Idle
      /\ tour_call' \in [TourCalls -> TourFlights]
      /\ tour' = tour \/ tour' = "ABANDONED"
      /\ UNCHANGED <<table, gamesCount, played, counted, closes>>
      /\ lapsed' \/ tour' = "ABANDONED"
  BY DEF Tour!Crash, Tour!TournamentStops, Tour!StopTournament, TourInv, TourShape, TourFlights
<1>2. \A c \in TourCalls : tour_call'[c].kind \in TourMoving => tour_call'[c] = tour_call[c]
  BY <1>1 DEF Tour!Idle, TourMoving
<1>3. TourShape'
  BY <1>1 DEF TourInv, TourShape, LastTable
<1>4. TourChain' /\ TourTotals'
  BY <1>1 DEF TourInv, TourChain, TourTotals, LastTable, Tour!Open, TourCounts
<1>5. TourOneMove'
  BY <1>1, <1>2 DEF TourInv, TourOneMove, LastTable, Tour!Open, Tour!OfTournament
<1>6. TourPaid'
  BY <1>1, <1>2 DEF TourInv, TourPaid, LastTable, Tour!Open
<1>7. Tour!GoesOn'
  BY <1>1 DEF Tour!GoesOn
<1>8. QED BY <1>3, <1>4, <1>5, <1>6, <1>7 DEF TourInv

LEMMA TourInitial == ASSUME Tour!Init PROVE TourInv
<1> DEFINE e == Tour!Table(0, "LOBBY")
<1>1. table = <<e>> \o <<>> /\ MaxGames \in Nat \ {0}
  BY OnceAssumption DEF Tour!GamesAssumption, Tour!Init
<1>2. e \in TourTables /\ e.present = e.seats /\ e.status = "LOBBY" /\ e.index = 0
  BY <1>1 DEF TourTables, Tour!Table, Tour!Status
<1> HIDE DEF e
<1>3. table \in Seq(TourTables) /\ LastTable = 1 /\ DOMAIN table = {1} /\ table[1] = e
  BY <1>1, <1>2 DEF LastTable
<1>4. /\ tour = "RUNNING" /\ gamesCount \in 1 .. MaxGames /\ played = [p \in TourPlayers |-> 0]
      /\ counted = {} /\ closes = 0 /\ tour_call = [c \in TourCalls |-> Tour!Idle]
  BY DEF Tour!Init
<1>5. TourShape
  BY <1>2, <1>3, <1>4 DEF TourShape, TourFlights
<1>6. TourChain
  BY <1>1, <1>2, <1>3, <1>4 DEF TourChain
<1>7. TourOneMove /\ TourPaid
  BY <1>4 DEF TourOneMove, TourPaid, Tour!Idle, TourMoving
<1>8. TourTotals
  <2>1. \A p \in TourPlayers : TourCounts(p) = {}
    BY <1>4 DEF TourCounts
  <2>2. IsFiniteSet(counted) /\ \A p \in TourPlayers : Cardinality(TourCounts(p)) = 0
    BY <1>4, <2>1, FS_EmptySet
  <2>3. QED BY <1>3, <1>4, <2>2 DEF TourTotals
<1>9. Tour!GoesOn
  BY <1>1, <1>2, <1>3 DEF Tour!GoesOn, Tour!Open, Tour!OfTournament, Tour!Single
<1>10. QED BY <1>5, <1>6, <1>7, <1>8, <1>9 DEF TourInv

LEMMA TourStep == ASSUME TourInv, Tour!Next PROVE TourInv'
<1>1. ASSUME NEW c \in TourCalls, NEW t \in DOMAIN table, Tour!FinishSession(c, t)
             \/ Tour!AbandonRunning(c, t)
      PROVE  TourInv'
  BY <1>1, TourFinishSound, TourTableSound
<1>2. ASSUME NEW c \in TourCalls,
             \/ Tour!WriteResults(c) \/ Tour!AdvanceTournament(c) \/ Tour!CloneTable(c)
                \/ Tour!CloseTournament(c)
             \/ Tour!TournamentStops(c)
      PROVE  TourInv'
  BY <1>2, TourWriteSound, TourAdvanceSound, TourCloneSound, TourCloseSound, TourEndSound
<1>3. ASSUME NEW t \in DOMAIN table,
             \/ Tour!StartSession(t) \/ Tour!CancelSession(t) \/ Tour!TournamentLink(t)
                \/ Tour!ListLobbies(t)
             \/ \E p \in TourPlayers : Tour!LeaveSession(t, p) \/ Tour!KickPlayer(t, p)
      PROVE  TourInv'
  BY <1>3, TourTableSound, TourLinkSound
<1>4. CASE Tour!Crash
  BY <1>4, TourEndSound
<1>5. QED BY <1>1, <1>2, <1>3, <1>4 DEF Tour!Next

\* The instance counts as the library does.
LEMMA TourCardinality == ASSUME NEW S PROVE Tour!Cardinality(S) = Cardinality(S)
  BY DEF Tour!Cardinality, Cardinality

LEMMA TourFinal == ASSUME TourInv PROVE TournamentSound
<1>1. /\ LastTable \in Nat \ {0} /\ DOMAIN table = 1 .. LastTable /\ LastTable \in DOMAIN table
      /\ \A t \in DOMAIN table : table[t] \in TourTables
  BY TourLast DEF TourInv
<1>2. Tour!TypeOK
  <2>1. ASSUME NEW p \in TourPlayers PROVE played[p] \in 0 .. Len(table)
    BY <1>1 DEF TourInv, TourTotals, TourShape, LastTable
  <2>2. played \in [TourPlayers -> 0 .. Len(table)]
    BY <2>1 DEF TourInv, TourShape
  <2>3. QED BY <1>1, <2>2 DEF TourInv, TourShape, Tour!TypeOK, TourTables
<1>3. Tour!OneGamePerIndex
  <2>1. ASSUME NEW t \in DOMAIN table, Tour!OfTournament(t), NEW u \in DOMAIN table, t # u
        PROVE  table[t].index # table[u].index
    BY <1>1, <2>1 DEF TourInv, TourChain, Tour!OfTournament
  <2>2. QED BY <2>1 DEF TourInv, TourChain, Tour!OfTournament, Tour!OneGamePerIndex
<1>4. Tour!PaidOnce
  BY DEF TourInv, TourChain, TourPaid, Tour!PaidOnce
<1>5. Tour!TotalsExact
  BY TourCardinality DEF TourInv, TourTotals, Tour!TotalsExact, TourCounts
<1>6. QED BY <1>2, <1>3, <1>4, <1>5 DEF TourInv, TournamentSound, Tour!TournamentSound

\* A step elsewhere leaves the tournament as it is.
LEMMA TourRests == ASSUME TourInv, UNCHANGED tour_vars PROVE TourInv'
<1> USE DEF tour_vars
<1>1. TourShape' /\ TourChain' /\ TourPaid'
  BY DEF TourInv, TourShape, TourChain, TourPaid, LastTable, Tour!Open
<1>2. TourOneMove'
  BY DEF TourInv, TourOneMove, LastTable, Tour!Open, Tour!OfTournament
<1>3. TourTotals'
  BY DEF TourInv, TourTotals, TourCounts, LastTable, Tour!Open
<1>4. Tour!GoesOn'
  BY DEF TourInv, Tour!GoesOn, Tour!OfTournament, Tour!Open
<1>5. QED BY <1>1, <1>2, <1>3, <1>4 DEF TourInv

\* TournamentSound: however the ends of games, departures, cancellations and stops cross, for any
\* number of players and calls and any length, the games of a tournament are one after the other,
\* each is in the totals once, it is paid at most once, and it goes on while it runs.
THEOREM TournamentHolds == OnceSpec => []TournamentSound
<1>1. OnceInit => TourInv
  BY TourInitial DEF OnceInit
<1>2. TourInv /\ [OnceNext]_all_vars => TourInv'
  <2> SUFFICES ASSUME TourInv, [OnceNext]_all_vars PROVE TourInv'
    OBVIOUS
  <2>1. CASE Tour!Next
    BY <2>1, TourStep
  <2>2. CASE UNCHANGED tour_vars
    BY <2>2, TourRests
  <2>3. QED
    BY <2>1, <2>2 DEF OnceNext, OnTour, OnSent, OnKept, OnWrite, OnSlots, OnRaces, all_vars
<1>3. TourInv => TournamentSound
  BY TourFinal
<1>4. QED BY <1>1, <1>2, <1>3, PTL DEF OnceSpec

-----------------------------------------------------------------------------
(* PushDelivery, in any scope *)

PushRunning == {"active", "inline"}
PushPhases(s) == Delivery(s)!Outcomes \union {"sending", "forget"}
PushJobs == [state : {"none", "waiting", "active", "inline", "done", "failed"},
             run : Nat, failed : Nat, retry : BOOLEAN]
PushRecords(s) == [run : Nat, note : s.notes, row : Nat, browser : s.browsers,
                  phase : PushPhases(s)]
PushRoom(s) == Cardinality(s.browsers) + s.saves
PushLeft == [busy : Nat, refused : Nat, save : Nat, remove : Nat, throw : Nat, crash : Nat]
PushFaults == {"busy", "refused", "save", "remove", "throw", "crash"}
PushCuts == [crash : Nat, throw : Nat, remove : Nat]

PushShape(s) ==
    /\ device \in [s.browsers -> [row : Nat, member : s.members]]
    /\ rows \in Nat
    /\ note \in [s.notes -> [to : s.members, state : {"unread", "read"}]]
    /\ line \in [s.notes \X Delivery(s)!Rows -> Delivery(s)!Outcomes \union {"none"}]
    /\ job \in PushJobs
    /\ pushes \subseteq PushRecords(s)
    /\ shown \in [s.notes \X s.browsers -> Nat]
    /\ push_left \in PushLeft /\ cut \in PushCuts
    /\ rows + push_left.save <= PushRoom(s)
PushJobRuns(s) ==
    job.failed + (IF job.state \in {"done", "failed"} THEN 0 ELSE 1) <= s.attempts
PushDevicesOK(s) ==
    \A b \in s.browsers :
      /\ device[b].row <= rows
      /\ \A c \in s.browsers : device[b].row = device[c].row /\ device[b].row # 0 => b = c
PushesOK(s) ==
    \A p \in pushes :
      /\ p.row \in 1 .. rows
      /\ \A b \in s.browsers : device[b].row = p.row => b = p.browser
      /\ p.phase = "sent" => shown[<<p.note, p.browser>>] > 0
      /\ p.phase \in {"expired", "forget"} => p.browser \in gone
PushLinesOK(s) == \A n \in s.notes, r \in Delivery(s)!Rows : r > rows => line[<<n, r>>] = "none"

PushInv(s) == PushShape(s) /\ PushJobRuns(s) /\ PushDevicesOK(s) /\ PushesOK(s) /\ PushLinesOK(s)
              /\ Delivery(s)!JournalTrue

\* The instance counts as the library does.
LEMMA PushCounts ==
  ASSUME NEW s, NEW S
  PROVE  /\ Delivery(s)!Cardinality(S) = Cardinality(S)
         /\ Delivery(s)!IsFiniteSet(S) = IsFiniteSet(S)
  BY DEF Delivery!Cardinality, Cardinality, Delivery!IsFiniteSet, IsFiniteSet

LEMMA PushRoomNat ==
  ASSUME NEW s, Delivery(s)!BoundsAssumption
  PROVE  PushRoom(s) \in Nat /\ Delivery(s)!Rows = 1 .. PushRoom(s)
         /\ Cardinality(s.browsers) \in Nat
<1>1. IsFiniteSet(s.browsers) /\ s.saves \in Nat
  BY PushCounts DEF Delivery!BoundsAssumption
<1>2. Cardinality(s.browsers) \in Nat
  BY <1>1, FS_CardinalityType
<1>3. QED BY <1>1, <1>2, PushCounts DEF PushRoom, Delivery!Rows

LEMMA PushNumbered ==
  ASSUME NEW s, Delivery(s)!BoundsAssumption
  PROVE  /\ Delivery(s)!Numbers \in [s.browsers -> 1 .. Cardinality(s.browsers)]
         /\ \A b, c \in s.browsers : b # c => Delivery(s)!Numbers[b] # Delivery(s)!Numbers[c]
<1> DEFINE N == 1 .. Cardinality(s.browsers)
<1>1. IsFiniteSet(s.browsers) /\ Cardinality(s.browsers) \in Nat
  BY PushRoomNat, PushCounts DEF Delivery!BoundsAssumption
<1>2. IsFiniteSet(N) /\ Cardinality(N) = Cardinality(s.browsers)
  BY <1>1, FS_Interval
<1>3. ExistsBijection(s.browsers, N)
  BY <1>1, <1>2, FS_SameCardinalityBij
<1>4. PICK f \in [s.browsers -> N] : \A b, c \in s.browsers : b # c => f[b] # f[c]
  BY <1>3 DEF ExistsBijection, Bijection, Injection, IsInjective
<1>5. QED BY <1>4, PushCounts DEF Delivery!Numbers

LEMMA PushOwedAre ==
  ASSUME NEW s, Delivery(s)!BoundsAssumption, PushInv(s), NEW p \in Delivery(s)!Owed(job.run + 1)
  PROVE  /\ p \in PushRecords(s) /\ p.run = job.run + 1 /\ p.phase = "sending"
         /\ p.row = device[p.browser].row /\ p.row # 0
         /\ Delivery(s)!Due(p.note, p.row)
<1>1. PICK x \in s.notes \X s.browsers :
        /\ p = [run |-> job.run + 1, note |-> x[1], row |-> device[x[2]].row, browser |-> x[2],
           phase |-> "sending"]
        /\ device[x[2]].row # 0 /\ Delivery(s)!Due(x[1], device[x[2]].row)
  BY DEF Delivery!Owed
<1>2. x[1] \in s.notes /\ x[2] \in s.browsers /\ job.run \in Nat /\ device[x[2]].row \in Nat
  BY DEF PushInv, PushShape, PushJobs
<1>3. p \in PushRecords(s)
  BY <1>1, <1>2 DEF PushRecords, PushPhases
<1>4. QED BY <1>1, <1>3

LEMMA PushSteppedAre ==
  ASSUME NEW s, NEW p \in PushRecords(s), NEW f \in PushPhases(s),
         NEW q \in Delivery(s)!Stepped(p, f)
  PROVE  \/ q \in pushes
         \/ /\ q \in PushRecords(s) /\ q.phase = f
            /\ q.run = p.run /\ q.note = p.note /\ q.row = p.row /\ q.browser = p.browser
  BY DEF Delivery!Stepped, PushRecords

\* Steps of the job alone.
LEMMA PushJobSound ==
  ASSUME NEW s, Delivery(s)!BoundsAssumption, PushInv(s),
         UNCHANGED <<device, rows, gone, note, line, shown, cut, push_left>>,
         job' \in PushJobs, PushJobRuns(s)',
         pushes' \subseteq pushes \union Delivery(s)!Owed(job.run + 1)
  PROVE  PushInv(s)'
<1>1. PushShape(s)'
  BY PushOwedAre DEF PushInv, PushShape, Delivery!Rows
<1>2. PushDevicesOK(s)' /\ PushLinesOK(s)' /\ Delivery(s)!JournalTrue'
  BY DEF PushInv, PushDevicesOK, PushLinesOK, Delivery!JournalTrue, Delivery!Rows
<1>3. PushesOK(s)'
  <2>1. ASSUME NEW p \in pushes', p \notin pushes
        PROVE  /\ p.row \in 1 .. rows /\ p.phase = "sending"
               /\ \A b \in s.browsers : device[b].row = p.row => b = p.browser
    <3>1. p \in Delivery(s)!Owed(job.run + 1)
      BY <2>1
    <3>2. /\ p \in PushRecords(s) /\ p.phase = "sending" /\ p.row = device[p.browser].row
             /\ p.row # 0
      BY <3>1, PushOwedAre
    <3>3. p.browser \in s.browsers /\ p.row \in Nat
      BY <3>2 DEF PushRecords
    <3>4. QED BY <3>2, <3>3 DEF PushInv, PushDevicesOK, PushShape
  <2>2. QED BY <2>1 DEF PushInv, PushesOK
<1>4. QED BY <1>1, <1>2, <1>3 DEF PushInv

LEMMA PushFailing ==
  ASSUME NEW s, Delivery(s)!BoundsAssumption, PushInv(s), job.state \in PushRunning
  PROVE  /\ Delivery(s)!Failed \in PushJobs /\ Delivery(s)!Failed.state \in {"waiting", "failed"}
            /\ Delivery(s)!Failed.run = job.run
         /\ Delivery(s)!Failed.failed + (IF Delivery(s)!Failed.state \in {"done", "failed"} THEN 0
            ELSE 1) <= s.attempts
<1>1. job \in PushJobs /\ s.attempts \in Nat /\ job.failed + 1 <= s.attempts
  BY DEF Delivery!BoundsAssumption, PushInv, PushShape, PushJobRuns, PushJobs, PushRunning
<1> DEFINE u == IF job.state = "active" /\ job.failed + 1 < s.attempts THEN "waiting" ELSE "failed"
<1>2. Delivery(s)!Failed = [state |-> u, run |-> job.run, failed |-> job.failed + 1,
      retry |-> job.retry]
  <2>1. Delivery(s)!Failed = [job EXCEPT !.failed = job.failed + 1, !.state = u]
    BY DEF Delivery!Failed
  <2> HIDE DEF u
  <2>2. QED BY <1>1, <2>1 DEF PushJobs
<1>3. /\ Delivery(s)!Failed \in PushJobs /\ Delivery(s)!Failed.failed = job.failed + 1
         /\ Delivery(s)!Failed.state = u /\ Delivery(s)!Failed.run = job.run
  BY <1>1, <1>2 DEF PushJobs
<1>4. QED BY <1>1, <1>3 DEF PushJobs

LEMMA PushSpent ==
  ASSUME NEW s, Delivery(s)!BoundsAssumption, PushInv(s),
         NEW w \in PushFaults, Delivery(s)!Spend(w)
  PROVE  /\ push_left' \in PushLeft
         /\ push_left'[w] = push_left[w] - 1 /\ push_left[w] > 0
         /\ \A v \in PushFaults \ {w} :
              push_left'[v] = push_left[v]
  BY DEF Delivery!Spend, PushInv, PushShape, PushLeft, PushFaults

LEMMA PushJobStep ==
  ASSUME NEW s, Delivery(s)!BoundsAssumption, PushInv(s), Delivery(s)!QueuePushes
         \/ Delivery(s)!DeliverPushes \/ Delivery(s)!RunEnds \/ Delivery(s)!Crash
  PROVE  PushInv(s)'
<1>0. job \in PushJobs /\ s.attempts \in Nat \ {0} /\ job.run \in Nat /\ job.failed \in Nat
  BY DEF Delivery!BoundsAssumption, PushInv, PushShape, PushJobs
<1>1. ASSUME NEW u \in PushRunning, Delivery(s)!Started(u), job.state \in {"none", "waiting"},
             UNCHANGED <<device, rows, gone, note, line, shown, cut, push_left>>
      PROVE  PushInv(s)'
  <2>1. job' \in PushJobs /\ job'.failed = job.failed /\ job'.state = u
    <3>1. job' = [state |-> u, run |-> job.run + 1, failed |-> job.failed, retry |-> FALSE]
      BY <1>0, <1>1 DEF Delivery!Started, PushJobs
    <3>2. QED BY <1>0, <3>1 DEF PushJobs, PushRunning
  <2>2. PushJobRuns(s)'
    BY <1>0, <1>1, <2>1 DEF PushInv, PushJobRuns, PushRunning
  <2>3. QED BY <1>1, <2>1, <2>2, PushJobSound DEF Delivery!Started
<1>2. CASE Delivery(s)!QueuePushes
  <2>1. CASE job' = [job EXCEPT !.state = "waiting"] /\ UNCHANGED pushes
    <3>1. job' \in PushJobs /\ PushJobRuns(s)'
      BY <1>0, <1>2, <2>1 DEF Delivery!QueuePushes, PushJobs, PushInv, PushJobRuns
    <3>2. QED BY <1>2, <2>1, <3>1, PushJobSound DEF Delivery!QueuePushes
  <2>2. QED BY <1>1, <1>2, <2>1 DEF Delivery!QueuePushes, PushRunning
<1>3. CASE Delivery(s)!DeliverPushes
  BY <1>1, <1>3 DEF Delivery!DeliverPushes, PushRunning
<1>4. CASE Delivery(s)!RunEnds
  <2>1. job' \in PushJobs /\ PushJobRuns(s)'
    <3>1. CASE Delivery(s)!RetryAsked
      BY <1>4, <3>1, PushFailing DEF Delivery!RunEnds, PushJobRuns, PushRunning
    <3>2. CASE ~Delivery(s)!RetryAsked
      BY <1>0, <1>4, <3>2 DEF Delivery!RunEnds, PushInv, PushJobRuns, PushJobs
    <3>3. QED BY <3>1, <3>2
  <2>2. QED BY <1>4, <2>1, PushJobSound DEF Delivery!RunEnds
<1>5. CASE Delivery(s)!Crash
  <2> DEFINE u == IF job.state = "active" THEN "waiting"
      ELSE IF job.state = "inline" THEN "failed" ELSE job.state
  <2>1. job' = [job EXCEPT !.state = u]
        /\ u \in {"none", "waiting", "active", "inline", "done", "failed"}
    BY <1>0, <1>5 DEF Delivery!Crash, PushJobs
  <2>2. job' \in PushJobs /\ job'.state = u /\ job'.failed = job.failed
    BY <1>0, <2>1 DEF PushJobs
  <2>3. PushJobRuns(s)'
    BY <1>0, <2>2 DEF PushInv, PushJobRuns
  <2>4. push_left' \in PushLeft /\ push_left'.save = push_left.save
    BY <1>5, PushSpent DEF Delivery!Crash, PushFaults
  <2>8. cut' \in PushCuts
    BY <1>5 DEF Delivery!Crash, Delivery!Cut, PushInv, PushShape, PushCuts
  <2>5. PushShape(s)'
    BY <1>5, <2>2, <2>4, <2>8 DEF Delivery!Crash, PushInv, PushShape, Delivery!Rows
  <2>6. PushDevicesOK(s)' /\ PushLinesOK(s)' /\ Delivery(s)!JournalTrue' /\ PushesOK(s)'
    BY <1>5 DEF Delivery!Crash, PushInv, PushDevicesOK, PushLinesOK, Delivery!JournalTrue,
          PushesOK, Delivery!Rows
  <2>7. QED BY <2>3, <2>5, <2>6 DEF PushInv
<1>6. QED BY <1>2, <1>3, <1>4, <1>5

LEMMA PushSendSound ==
  ASSUME NEW s, Delivery(s)!BoundsAssumption, PushInv(s), NEW p \in pushes, Delivery(s)!SendPush(p)
  PROVE  PushInv(s)'
<1>0. p \in PushRecords(s) /\ p.note \in s.notes /\ p.browser \in s.browsers
  BY DEF PushInv, PushShape, PushRecords
<1>1. PICK f \in PushPhases(s) :
        /\ pushes' = Delivery(s)!Stepped(p, f)
        /\ f = "sent" => shown' = [shown EXCEPT ![<<p.note, p.browser>>] = @ + 1]
        /\ f # "sent" => UNCHANGED shown
        /\ f \in {"expired", "forget"} => p.browser \in gone
        /\ UNCHANGED <<device, rows, gone, note, line, job, cut>>
  BY DEF Delivery!SendPush, PushPhases, Delivery!Outcomes
<1>2. push_left' \in PushLeft
      /\ push_left'.save = push_left.save
  BY PushSpent DEF Delivery!SendPush, PushFaults, PushInv, PushShape
<1>3. /\ shown' \in [s.notes \X s.browsers -> Nat]
      /\ \A n \in s.notes, b \in s.browsers : shown'[<<n, b>>] >= shown[<<n, b>>]
      /\ f = "sent" => shown'[<<p.note, p.browser>>] > 0
  <2>1. CASE f = "sent"
    <3> DEFINE x == <<p.note, p.browser>>
    <3>1. x \in s.notes \X s.browsers /\ shown \in [s.notes \X s.browsers -> Nat]
      BY <1>0 DEF PushInv, PushShape
    <3>2. shown' = [shown EXCEPT ![x] = shown[x] + 1]
      BY <1>1, <2>1
    <3> HIDE DEF x
    <3>3. /\ shown' \in [s.notes \X s.browsers -> Nat] /\ shown'[x] > 0
          /\ \A y \in s.notes \X s.browsers : shown'[y] >= shown[y]
      BY <3>1, <3>2
    <3>4. QED BY <3>3 DEF x
  <2>2. CASE f # "sent"
    BY <1>0, <1>1, <2>2 DEF PushInv, PushShape
  <2>3. QED BY <2>1, <2>2
<1>4. \A q \in pushes' :
        \/ q \in pushes
        \/ /\ q \in PushRecords(s) /\ q.phase = f
           /\ q.run = p.run /\ q.note = p.note /\ q.row = p.row /\ q.browser = p.browser
  BY <1>0, <1>1, PushSteppedAre
<1>5. PushShape(s)'
  BY <1>1, <1>2, <1>3, <1>4 DEF PushInv, PushShape, Delivery!Rows
<1>6. PushesOK(s)'
  <2>1. \A q \in pushes : q.note \in s.notes /\ q.browser \in s.browsers
    BY DEF PushInv, PushShape, PushRecords
  <2>2. ASSUME NEW q \in pushes'
        PROVE  /\ q.row \in 1 .. rows
               /\ \A b \in s.browsers : device[b].row = q.row => b = q.browser
               /\ q.phase = "sent" => shown'[<<q.note, q.browser>>] > 0
               /\ q.phase \in {"expired", "forget"} => q.browser \in gone
    <3>1. CASE q \in pushes
      <4>1. q.phase = "sent" => shown'[<<q.note, q.browser>>] > 0
        BY <1>3, <2>1, <3>1 DEF PushInv, PushesOK, PushShape
      <4>2. QED BY <3>1, <4>1 DEF PushInv, PushesOK
    <3>2. CASE q \notin pushes
      BY <1>1, <1>3, <1>4, <3>2 DEF PushInv, PushesOK
    <3>3. QED BY <3>1, <3>2
  <2>3. QED BY <1>1, <2>2 DEF PushesOK
<1>7. PushJobRuns(s)' /\ PushDevicesOK(s)' /\ PushLinesOK(s)'
  BY <1>1 DEF PushInv, PushJobRuns, PushDevicesOK, PushLinesOK, Delivery!Rows
<1>8. Delivery(s)!JournalTrue'
  BY <1>1, <1>3 DEF PushInv, Delivery!JournalTrue, PushShape
<1>9. QED BY <1>5, <1>6, <1>7, <1>8 DEF PushInv

LEMMA PushThrown ==
  ASSUME NEW s, Delivery(s)!BoundsAssumption, PushInv(s), NEW p \in pushes, Delivery(s)!Throws(p)
  PROVE  job' \in PushJobs /\ PushJobRuns(s)' /\ cut' \in PushCuts /\ pushes' = pushes \ {p}
<1>1. CASE job.state \in PushRunning /\ job' = Delivery(s)!Failed /\ Delivery(s)!Cut("throw")
  <2>1. job' \in PushJobs /\ PushJobRuns(s)'
    BY <1>1, PushFailing DEF PushJobRuns
  <2>2. cut' \in PushCuts
    <3>1. cut \in PushCuts /\ cut' = [cut EXCEPT !["throw"] = @ + 1]
      BY <1>1 DEF Delivery!Cut, PushInv, PushShape
    <3>2. QED BY <3>1 DEF PushCuts
  <2>3. QED BY <2>1, <2>2 DEF Delivery!Throws
<1>2. CASE UNCHANGED <<job, cut>>
  BY <1>2 DEF Delivery!Throws, PushInv, PushShape, PushJobRuns
<1>3. QED BY <1>1, <1>2 DEF Delivery!Throws, PushRunning

\* A push writes its line or not, and is over or goes on to forget its device.
LEMMA PushLineSound ==
  ASSUME NEW s, Delivery(s)!BoundsAssumption, PushInv(s), NEW p \in pushes,
         UNCHANGED <<device, rows, gone, note, shown>>,
         push_left' \in PushLeft, push_left'.save = push_left.save, cut' \in PushCuts,
         job' \in PushJobs, PushJobRuns(s)',
         \/ pushes' \subseteq pushes
         \/ p.phase = "expired" /\ pushes' = Delivery(s)!Stepped(p, "forget"),
         \/ line' = line
         \/ p.phase \in Delivery(s)!Outcomes /\ Delivery(s)!Known(p) /\ Delivery(s)!Written(p)
  PROVE  PushInv(s)'
<1>0. /\ p \in PushRecords(s) /\ p.note \in s.notes /\ p.browser \in s.browsers
         /\ p.row \in 1 .. rows /\ rows \in Nat
      /\ rows <= PushRoom(s)
  <2>1. rows \in Nat /\ push_left.save \in Nat /\ rows + push_left.save <= PushRoom(s)
        /\ p \in PushRecords(s)
    BY DEF PushInv, PushShape, PushLeft
  <2>2. p.row \in 1 .. rows
    BY DEF PushInv, PushesOK
  <2>3. QED BY <2>1, <2>2, PushRoomNat DEF PushRecords
<1>1. p.row \in Delivery(s)!Rows
  BY <1>0, PushRoomNat
<1>2. \A q \in pushes' :
        \/ q \in pushes
        \/ /\ q \in PushRecords(s) /\ q.phase = "forget" /\ p.phase = "expired"
           /\ q.run = p.run /\ q.note = p.note /\ q.row = p.row /\ q.browser = p.browser
  BY <1>0, PushSteppedAre DEF PushPhases
<1>4. PICK u \in Delivery(s)!Outcomes \union {"none"} :
        /\ line' # line => u \in {p.phase, "failed"}
        /\ \/ line' = line
           \/ line' = [line EXCEPT ![<<p.note, p.row>>] = u]
  BY DEF Delivery!Written, Delivery!Status, Delivery!Outcomes
<1>6. /\ line' \in [s.notes \X Delivery(s)!Rows -> Delivery(s)!Outcomes \union {"none"}]
      /\ \A n \in s.notes, r \in Delivery(s)!Rows :
           \/ line'[<<n, r>>] = line[<<n, r>>]
           \/ n = p.note /\ r = p.row /\ line'[<<n, r>>] \in {p.phase, "failed"}
  BY <1>0, <1>1, <1>4 DEF PushInv, PushShape
<1>7. PushShape(s)'
  BY <1>2, <1>6 DEF PushInv, PushShape, Delivery!Rows
<1>8. PushDevicesOK(s)' /\ PushesOK(s)'
  BY <1>2 DEF PushInv, PushDevicesOK, PushesOK
<1>9. PushLinesOK(s)'
  BY <1>0, <1>2, <1>6 DEF PushInv, PushLinesOK, Delivery!Rows
<1>10. Delivery(s)!JournalTrue'
  <2> SUFFICES ASSUME NEW n \in s.notes, NEW b \in s.browsers, device[b].row # 0
               PROVE  /\ line'[<<n, device[b].row>>] = "sent" => shown[<<n, b>>] > 0
                      /\ line'[<<n, device[b].row>>] = "expired" => b \in gone
    BY <1>2 DEF Delivery!JournalTrue
  <2>1. device[b].row \in Delivery(s)!Rows
    BY PushRoomNat DEF PushInv, PushShape, PushDevicesOK, PushLeft
  <2>2. CASE line'[<<n, device[b].row>>] = line[<<n, device[b].row>>]
    BY <2>2 DEF PushInv, Delivery!JournalTrue
  <2>3. CASE /\ n = p.note /\ device[b].row = p.row
             /\ line'[<<n, device[b].row>>] \in {p.phase, "failed"}
    <3>1. b = p.browser
      BY <2>3 DEF PushInv, PushesOK
    <3>2. QED BY <2>3, <3>1 DEF PushInv, PushesOK
  <2>4. QED BY <1>6, <2>1, <2>2, <2>3
<1>11. QED BY <1>7, <1>8, <1>9, <1>10 DEF PushInv

LEMMA PushWriteSound ==
  ASSUME NEW s, Delivery(s)!BoundsAssumption, PushInv(s), NEW p \in pushes,
         Delivery(s)!WriteLine(p) \/ Delivery(s)!QueryFails(p)
  PROVE  PushInv(s)'
<1>0. push_left \in PushLeft /\ cut \in PushCuts
  BY DEF PushInv, PushShape
<1>1. CASE Delivery(s)!QueryFails(p)
  <2>1. push_left' \in PushLeft /\ push_left'.save = push_left.save
    BY <1>1, PushSpent DEF Delivery!QueryFails, PushFaults
  <2>2. \/ line' = line
        \/ p.phase \in Delivery(s)!Outcomes /\ Delivery(s)!Known(p) /\ Delivery(s)!Written(p)
    BY <1>1 DEF Delivery!QueryFails, Delivery!Outcomes
  <2>3. job' \in PushJobs /\ PushJobRuns(s)' /\ cut' \in PushCuts /\ pushes' \subseteq pushes
    BY <1>1, PushThrown DEF Delivery!QueryFails
  <2>4. QED BY <1>1, <2>1, <2>2, <2>3, PushLineSound DEF Delivery!QueryFails
<1>2. CASE Delivery(s)!WriteLine(p) /\ ~Delivery(s)!Known(p)
  <2>1. job' \in PushJobs /\ PushJobRuns(s)' /\ cut' \in PushCuts /\ pushes' \subseteq pushes
    BY <1>2, PushThrown DEF Delivery!WriteLine
  <2>2. QED BY <1>0, <1>2, <2>1, PushLineSound DEF Delivery!WriteLine
<1>3. CASE Delivery(s)!WriteLine(p) /\ Delivery(s)!Known(p)
  <2>1. job' = job \/ job' = [job EXCEPT !.retry = TRUE]
    BY <1>3 DEF Delivery!WriteLine
  <2>2. job' \in PushJobs /\ PushJobRuns(s)'
    BY <2>1 DEF PushInv, PushShape, PushJobRuns, PushJobs
  <2>3. \/ pushes' \subseteq pushes
        \/ p.phase = "expired" /\ pushes' = Delivery(s)!Stepped(p, "forget")
    BY <1>3 DEF Delivery!WriteLine
  <2>4. QED BY <1>0, <1>3, <2>2, <2>3, PushLineSound DEF Delivery!WriteLine
<1>4. QED BY <1>1, <1>2, <1>3

LEMMA PushRemoving ==
  ASSUME NEW s, Delivery(s)!BoundsAssumption, PushInv(s), NEW b \in s.browsers,
         Delivery(s)!Remove(b)
  PROVE  /\ device' \in [s.browsers -> [row : Nat, member : s.members]]
         /\ line' \in [s.notes \X Delivery(s)!Rows -> Delivery(s)!Outcomes \union {"none"}]
         /\ \A c \in s.browsers : device'[c].row = 0 \/ device'[c] = device[c]
         /\ \A n \in s.notes, r \in Delivery(s)!Rows : line'[<<n, r>>] \in {"none", line[<<n, r>>]}
<1>1. Delivery(s)!NoRow \in [row : Nat, member : s.members] /\ Delivery(s)!NoRow.row = 0
  <2>1. device[b].member \in s.members
    BY DEF PushInv, PushShape
  <2>2. QED BY <2>1 DEF Delivery!NoRow
<1>2. device' = [device EXCEPT ![b] = Delivery(s)!NoRow]
      /\ line' = Delivery(s)!Without(device[b].row)
  BY DEF Delivery!Remove
<1>3. device' \in [s.browsers -> [row : Nat, member : s.members]]
      /\ \A c \in s.browsers : device'[c].row = 0 \/ device'[c] = device[c]
  BY <1>1, <1>2 DEF PushInv, PushShape
<1>4. line' \in [s.notes \X Delivery(s)!Rows -> Delivery(s)!Outcomes \union {"none"}]
      /\ \A n \in s.notes, r \in Delivery(s)!Rows : line'[<<n, r>>] \in {"none", line[<<n, r>>]}
  BY <1>2 DEF Delivery!Without, PushInv, PushShape
<1>5. QED BY <1>3, <1>4

\* Devices that go, and pushes that are over.
LEMMA PushLessSound ==
  ASSUME NEW s, Delivery(s)!BoundsAssumption, PushInv(s), \/ UNCHANGED <<device, line>>
              \/ \E b \in s.browsers : Delivery(s)!Remove(b),
         pushes' \subseteq pushes, gone \subseteq gone', UNCHANGED <<rows, note, job, shown>>,
         cut' \in PushCuts,
         push_left' \in PushLeft,
         push_left'.save = push_left.save
  PROVE  PushInv(s)'
<1>1. /\ device' \in [s.browsers -> [row : Nat, member : s.members]]
      /\ line' \in [s.notes \X Delivery(s)!Rows -> Delivery(s)!Outcomes \union {"none"}]
      /\ \A c \in s.browsers : device'[c].row = 0 \/ device'[c] = device[c]
      /\ \A n \in s.notes, r \in Delivery(s)!Rows : line'[<<n, r>>] \in {"none", line[<<n, r>>]}
  <2>1. CASE UNCHANGED <<device, line>>
    BY <2>1 DEF PushInv, PushShape
  <2>2. QED BY <2>1, PushRemoving
<1>2. PushShape(s)' /\ PushJobRuns(s)'
  BY <1>1 DEF PushInv, PushShape, PushJobRuns, Delivery!Rows
<1>3. PushDevicesOK(s)'
  BY <1>1 DEF PushInv, PushDevicesOK, PushShape
<1>4. PushesOK(s)'
  <2>1. \A p \in pushes : p.row # 0
    <3>1. rows \in Nat /\ \A p \in pushes : p.row \in 1 .. rows
      BY DEF PushInv, PushesOK, PushShape
    <3>2. QED BY <3>1
  <2>2. QED BY <1>1, <2>1 DEF PushInv, PushesOK
<1>5. PushLinesOK(s)'
  BY <1>1 DEF PushInv, PushLinesOK, Delivery!Rows
<1>6. Delivery(s)!JournalTrue'
  <2> SUFFICES ASSUME NEW n \in s.notes, NEW b \in s.browsers, device'[b].row # 0
               PROVE  /\ line'[<<n, device'[b].row>>] = "sent" => shown[<<n, b>>] > 0
                      /\ line'[<<n, device'[b].row>>] = "expired" => b \in gone'
    BY DEF Delivery!JournalTrue
  <2>1. device'[b] = device[b]
    BY <1>1
  <2>2. device[b].row \in Delivery(s)!Rows
    BY <2>1, PushRoomNat DEF PushInv, PushShape, PushDevicesOK, PushLeft
  <2>3. QED BY <1>1, <2>1, <2>2 DEF PushInv, Delivery!JournalTrue
<1>7. QED BY <1>2, <1>3, <1>4, <1>5, <1>6 DEF PushInv

LEMMA PushLessStep ==
  ASSUME NEW s, Delivery(s)!BoundsAssumption, PushInv(s),
         \/ \E p \in pushes : Delivery(s)!ForgetGone(p)
         \/ \E b \in s.browsers : Delivery(s)!RemovePushSubscription(b)
            \/ Delivery(s)!AddressDies(b)
  PROVE  PushInv(s)'
<1>0. push_left \in PushLeft /\ cut \in PushCuts
  BY DEF PushInv, PushShape
<1>1. ASSUME NEW p \in pushes, Delivery(s)!ForgetGone(p) PROVE PushInv(s)'
  <2>1. p.browser \in s.browsers
    BY DEF PushInv, PushShape, PushRecords
  <2>2. QED BY <1>0, <1>1, <2>1, PushLessSound DEF Delivery!ForgetGone
<1>2. ASSUME NEW b \in s.browsers, Delivery(s)!RemovePushSubscription(b)
             \/ Delivery(s)!AddressDies(b) PROVE PushInv(s)'
  <2>1. /\ push_left' \in PushLeft
        /\ push_left'.save = push_left.save
    BY <1>2, PushSpent DEF Delivery!RemovePushSubscription, Delivery!AddressDies, PushFaults
  <2>3. cut' \in PushCuts
    BY <1>0, <1>2 DEF Delivery!RemovePushSubscription, Delivery!AddressDies, Delivery!Cut, PushCuts
  <2>2. QED
    BY <1>2, <2>1, <2>3, PushLessSound DEF Delivery!RemovePushSubscription, Delivery!AddressDies
<1>3. QED BY <1>1, <1>2

LEMMA PushSaveSound ==
  ASSUME NEW s, Delivery(s)!BoundsAssumption, PushInv(s), NEW b \in s.browsers,
         NEW m \in s.members, Delivery(s)!SavePushSubscription(b, m) PROVE PushInv(s)'
<1>0. /\ push_left' \in PushLeft
      /\ push_left'.save = push_left.save - 1 /\ push_left.save > 0 /\ push_left.save \in Nat
      /\ UNCHANGED <<gone, note, line, job, pushes, shown, cut>> /\ rows \in Nat
  BY PushSpent DEF Delivery!SavePushSubscription, PushInv, PushShape, PushLeft, PushFaults
<1>1. /\ device' \in [s.browsers -> [row : Nat, member : s.members]]
      /\ \A c \in s.browsers : c # b => device'[c] = device[c]
      /\ \/ device'[b].row = device[b].row /\ rows' = rows
         \/ device[b].row = 0 /\ device'[b].row = rows + 1 /\ rows' = rows + 1
  <2>0. device \in [s.browsers -> [row : Nat, member : s.members]]
    BY DEF PushInv, PushShape
  <2>1. PICK v \in [row : Nat, member : s.members] :
          /\ device' = [device EXCEPT ![b] = v]
          /\ \/ v.row = device[b].row /\ rows' = rows
             \/ device[b].row = 0 /\ v.row = rows + 1 /\ rows' = rows + 1
    <3>1. CASE device[b].row = 0
      <4> DEFINE v == [row |-> rows + 1, member |-> m]
      <4>1. v \in [row : Nat, member : s.members] /\ v.row = rows + 1
        BY <1>0
      <4>2. device' = [device EXCEPT ![b] = v] /\ rows' = rows + 1
        BY <3>1 DEF Delivery!SavePushSubscription
      <4>3. QED BY <3>1, <4>1, <4>2
    <3>2. CASE device[b].row # 0
      <4> DEFINE v == [device[b] EXCEPT !.member = m]
      <4>1. v \in [row : Nat, member : s.members] /\ v.row = device[b].row
        BY <2>0
      <4>2. device' = [device EXCEPT ![b] = v] /\ rows' = rows
        BY <3>2 DEF Delivery!SavePushSubscription
      <4>3. QED BY <4>1, <4>2
    <3>3. QED BY <3>1, <3>2
  <2>2. QED BY <2>0, <2>1
<1>2. PushShape(s)' /\ PushJobRuns(s)'
  <2>1. rows' \in Nat /\ rows' + push_left'.save <= PushRoom(s)
    <3>1. push_left.save \in Nat /\ rows + push_left.save <= PushRoom(s)
          /\ (rows' = rows \/ rows' = rows + 1)
      BY <1>0, <1>1 DEF PushInv, PushShape
    <3>2. /\ push_left'.save \in Nat /\ push_left'.save = push_left.save - 1
          /\ rows \in Nat /\ PushRoom(s) \in Nat
      BY <1>0, PushRoomNat
    <3>3. QED BY <3>1, <3>2
  <2>2. device' \in [s.browsers -> [row : Nat, member : s.members]]
        /\ push_left' \in PushLeft
    BY <1>0, <1>1
  <2>3. /\ note' \in [s.notes -> [to : s.members, state : {"unread", "read"}]]
        /\ job' \in PushJobs /\ pushes' \subseteq PushRecords(s)
        /\ shown' \in [s.notes \X s.browsers -> Nat] /\ cut' \in PushCuts
    BY <1>0 DEF PushInv, PushShape
  <2>4. line' \in [s.notes \X Delivery(s)!Rows' -> Delivery(s)!Outcomes \union {"none"}]
    BY <1>0 DEF PushInv, PushShape, Delivery!Rows
  <2>5. PushShape(s)'
    BY <2>1, <2>2, <2>3, <2>4 DEF PushShape
  <2>6. PushJobRuns(s)'
    BY <1>0 DEF PushInv, PushJobRuns
  <2>7. QED BY <2>5, <2>6
<1>3. \A c \in s.browsers : device[c].row \in Nat /\ device[c].row <= rows
  BY DEF PushInv, PushShape, PushDevicesOK
<1>4. PushDevicesOK(s)'
  <2>1. CASE device'[b].row = device[b].row /\ rows' = rows
    BY <1>1, <2>1 DEF PushInv, PushDevicesOK
  <2>2. CASE device'[b].row = rows + 1 /\ rows' = rows + 1
    BY <1>0, <1>1, <1>3, <2>2 DEF PushInv, PushDevicesOK
  <2>3. QED BY <1>1, <2>1, <2>2
<1>5. PushesOK(s)'
  <2> SUFFICES ASSUME NEW p \in pushes
               PROVE  p.row \in 1 .. rows' /\ \A c \in s.browsers : device'[c].row = p.row
                      => c = p.browser
    BY <1>0 DEF PushInv, PushesOK
  <2>1. p.row \in 1 .. rows /\ \A c \in s.browsers : device[c].row = p.row => c = p.browser
    BY DEF PushInv, PushesOK
  <2>2. QED BY <1>0, <1>1, <1>3, <2>1
<1>6. PushLinesOK(s)'
  <2>1. Delivery(s)!Rows' = Delivery(s)!Rows /\ \A r \in Delivery(s)!Rows : r > rows' => r > rows
    BY <1>0, <1>1, PushRoomNat DEF Delivery!Rows
  <2>2. QED BY <1>0, <2>1 DEF PushInv, PushLinesOK
<1>7. Delivery(s)!JournalTrue'
  <2> SUFFICES ASSUME NEW n \in s.notes, NEW c \in s.browsers, device'[c].row # 0
               PROVE  /\ line[<<n, device'[c].row>>] = "sent" => shown[<<n, c>>] > 0
                      /\ line[<<n, device'[c].row>>] = "expired" => c \in gone
    BY <1>0 DEF Delivery!JournalTrue
  <2>1. CASE device'[c].row = device[c].row
    BY <2>1 DEF PushInv, Delivery!JournalTrue
  <2>2. CASE c = b /\ device'[b].row = rows + 1
    <3>1. rows + 1 \in Delivery(s)!Rows
      BY <1>0, PushRoomNat DEF PushInv, PushShape
    <3>2. line[<<n, rows + 1>>] = "none"
      BY <1>0, <3>1 DEF PushInv, PushLinesOK
    <3>3. QED BY <2>2, <3>2
  <2>3. QED BY <1>1, <2>1, <2>2
<1>8. QED BY <1>2, <1>4, <1>5, <1>6, <1>7 DEF PushInv

LEMMA PushReadSound ==
  ASSUME NEW s, Delivery(s)!BoundsAssumption, PushInv(s), NEW n \in s.notes, Delivery(s)!MarkRead(n)
  PROVE  PushInv(s)'
<1>1. /\ note' \in [s.notes -> [to : s.members, state : {"unread", "read"}]]
      /\ UNCHANGED <<device, rows, gone, line, job, pushes, shown, cut, push_left>>
  BY DEF Delivery!MarkRead, PushInv, PushShape
<1>2. PushShape(s)' /\ PushJobRuns(s)' /\ PushDevicesOK(s)'
  BY <1>1 DEF PushInv, PushShape, PushJobRuns, PushDevicesOK, Delivery!Rows
<1>3. PushesOK(s)' /\ PushLinesOK(s)' /\ Delivery(s)!JournalTrue'
  BY <1>1 DEF PushInv, PushesOK, PushLinesOK, Delivery!JournalTrue, Delivery!Rows
<1>4. QED BY <1>2, <1>3 DEF PushInv

LEMMA PushInitial == ASSUME NEW s, Delivery(s)!BoundsAssumption, Delivery(s)!Init PROVE PushInv(s)
<1>1. PICK owner \in [s.browsers -> s.members] :
        device = [b \in s.browsers |-> [row |-> Delivery(s)!Numbers[b], member |-> owner[b]]]
  BY DEF Delivery!Init
<1>2. \A b \in s.browsers : Delivery(s)!Numbers[b] \in 1 .. Cardinality(s.browsers)
  BY PushNumbered
<1>3. /\ rows = Cardinality(s.browsers) /\ rows \in Nat /\ pushes = {}
      /\ job = [state |-> "none", run |-> 0, failed |-> 0, retry |-> FALSE]
      /\ line = [x \in s.notes \X Delivery(s)!Rows |-> "none"]
         /\ shown = [x \in s.notes \X s.browsers |-> 0]
      /\ note \in [s.notes -> [to : s.members, state : {"unread"}]]
      /\ push_left = [busy |-> s.busy, refused |-> s.refused, save |-> s.saves,
                      remove |-> s.removed, throw |-> s.throws, crash |-> s.crashes]
      /\ cut = [crash |-> 0, throw |-> 0, remove |-> 0]
  BY PushRoomNat, PushCounts DEF Delivery!Init
<1>4. device \in [s.browsers -> [row : Nat, member : s.members]]
  BY <1>1, <1>2, PushRoomNat
<1>5. push_left \in PushLeft
      /\ push_left.save = s.saves
  BY <1>3 DEF Delivery!BoundsAssumption, PushLeft
<1>6. job \in PushJobs /\ PushJobRuns(s)
  BY <1>3 DEF PushJobs, PushJobRuns, Delivery!BoundsAssumption
<1>7. note \in [s.notes -> [to : s.members, state : {"unread", "read"}]]
  BY <1>3
<1>13. cut \in PushCuts
  BY <1>3 DEF PushCuts
<1>8. PushShape(s)
  BY <1>3, <1>13, <1>4, <1>5, <1>6, <1>7, PushRoomNat DEF PushShape, PushRoom
<1>9. PushDevicesOK(s)
  BY <1>1, <1>2, <1>3, PushNumbered, PushRoomNat DEF PushDevicesOK
<1>10. PushesOK(s) /\ PushLinesOK(s)
  BY <1>3 DEF PushesOK, PushLinesOK
<1>11. Delivery(s)!JournalTrue
  <2>1. \A b \in s.browsers : device[b].row \in Delivery(s)!Rows
    BY <1>1, <1>2, PushRoomNat DEF PushRoom, Delivery!BoundsAssumption
  <2>2. QED BY <1>3, <2>1 DEF Delivery!JournalTrue
<1>12. QED BY <1>6, <1>8, <1>9, <1>10, <1>11 DEF PushInv

LEMMA PushStep ==
  ASSUME NEW s, Delivery(s)!BoundsAssumption, PushInv(s), Delivery(s)!Next
  PROVE  PushInv(s)'
  BY PushJobStep, PushSendSound, PushWriteSound, PushLessStep, PushSaveSound,
        PushReadSound DEF Delivery!Next, Delivery!Work

LEMMA PushFinal ==
  ASSUME NEW s, Delivery(s)!BoundsAssumption, PushInv(s)
  PROVE  Delivery(s)!TypeOK /\ Delivery(s)!JournalTrue
<1>1. \A b \in s.browsers : device[b] \in [row : Delivery(s)!Rows \union {0}, member : s.members]
  BY PushRoomNat DEF PushInv, PushShape, PushDevicesOK, PushLeft
<1>2. device \in [s.browsers -> [row : Delivery(s)!Rows \union {0}, member : s.members]]
  BY <1>1 DEF PushInv, PushShape
<1>3. Cardinality(Delivery(s)!Rows) = PushRoom(s) /\ rows \in 0 .. PushRoom(s)
  <2>1. Cardinality(1 .. PushRoom(s)) = PushRoom(s)
    BY PushRoomNat, FS_Interval
  <2>2. QED BY <2>1, PushRoomNat DEF PushInv, PushShape, PushLeft
<1>4. job.failed <= s.attempts
      /\ job.state \in {"none", "waiting", "active", "inline", "done", "failed"}
  BY DEF PushInv, PushShape, PushJobs, PushJobRuns, Delivery!BoundsAssumption
<1>5. \A p \in pushes : p.phase \in Delivery(s)!Outcomes \union {"sending", "forget"}
  BY DEF PushInv, PushShape, PushRecords, PushPhases
<1>6. rows \in 0 .. Delivery(s)!Cardinality(Delivery(s)!Rows)
  BY <1>3, PushCounts
<1>7. QED BY <1>2, <1>4, <1>5, <1>6 DEF PushInv, PushShape, Delivery!TypeOK

-----------------------------------------------------------------------------
(* ... and what its browsers may show: the copies shown and the pushes that may still show one, or
   have one shown again, are covered by the runs cut short, and by the one that is owed. *)

PushPending(n, b) ==
    {p \in pushes : p.note = n /\ p.browser = b /\ p.phase \in {"sending", "retry", "failed"}}
PushTotal(n, b) == shown[<<n, b>>] + Cardinality(PushPending(n, b))
PushCutShort == cut.crash + cut.throw + cut.remove
PushGoesOn(n, b) ==
    /\ job.state \in PushRunning
    /\ \E p \in pushes : p.run = job.run /\ p.note = n /\ p.browser = b /\ p.phase # "forget"
PushOwes(s, n, b) ==
    /\ ~PushGoesOn(n, b)
    /\ device[b].row = 0 \/ line[<<n, device[b].row>>] \notin Delivery(s)!Settled
PushBudgetOf(s, n, b) ==
    /\ IsFiniteSet(PushPending(n, b))
    /\ shown[<<n, b>>] <= 1 + PushCutShort
    /\ b \notin gone => /\ PushTotal(n, b) <= 1 + PushCutShort
                        /\ PushOwes(s, n, b) => PushTotal(n, b) <= PushCutShort
PushBudget(s) == \A n \in s.notes, b \in s.browsers : PushBudgetOf(s, n, b)

\* A run that no query cut short has its pushes to itself, each with a line to close.
PushAlone(s) ==
    cut.throw = 0 =>
      /\ \A p \in pushes : p.run = job.run /\ job.state \in PushRunning
      /\ \A p, q \in pushes : p.note = q.note /\ p.browser = q.browser => p = q
      /\ \A p \in pushes : p.phase # "forget" /\ device[p.browser].row = p.row
                             => line[<<p.note, p.row>>] \notin Delivery(s)!Settled

PushSound(s) == PushInv(s) /\ PushBudget(s) /\ PushAlone(s)

LEMMA PushNumbers ==
  ASSUME NEW s, PushInv(s), NEW n \in s.notes, NEW b \in s.browsers
  PROVE  /\ shown[<<n, b>>] \in Nat /\ PushCutShort \in Nat
         /\ cut.crash \in Nat /\ cut.throw \in Nat /\ cut.remove \in Nat
         /\ IsFiniteSet(PushPending(n, b)) =>
              Cardinality(PushPending(n, b)) \in Nat /\ PushTotal(n, b) \in Nat
<1>1. shown[<<n, b>>] \in Nat /\ cut \in PushCuts
  BY DEF PushInv, PushShape
<1>2. cut.crash \in Nat /\ cut.throw \in Nat /\ cut.remove \in Nat
  BY <1>1 DEF PushCuts
<1>3. IsFiniteSet(PushPending(n, b)) => Cardinality(PushPending(n, b)) \in Nat
  BY FS_CardinalityType
<1>4. QED BY <1>1, <1>2, <1>3 DEF PushCutShort, PushTotal

\* Steps that leave no more to be shown, and owe no more or are cut short.
LEMMA PushBudgetKept ==
  ASSUME NEW s, PushInv(s), PushInv(s)', NEW n \in s.notes, NEW b \in s.browsers,
         PushBudgetOf(s, n, b), IsFiniteSet(PushPending(n, b)'), gone \subseteq gone',
         PushTotal(n, b)' <= PushTotal(n, b),
         b \in gone' => shown'[<<n, b>>] <= shown[<<n, b>>],
         \/ PushCutShort' = PushCutShort + 1
         \/ /\ PushCutShort' = PushCutShort
            /\ b \notin gone' /\ PushOwes(s, n, b)' =>
                 PushOwes(s, n, b) \/ PushTotal(n, b)' < PushTotal(n, b)
  PROVE  PushBudgetOf(s, n, b)'
<1> DEFINE x == <<n, b>>
<1>1. /\ shown[x] \in Nat /\ PushCutShort \in Nat /\ PushTotal(n, b) \in Nat
      /\ Cardinality(PushPending(n, b)) \in Nat
  BY PushNumbers DEF PushBudgetOf
<1>2. /\ shown'[x] \in Nat /\ PushCutShort' \in Nat
      /\ Cardinality(PushPending(n, b)') \in Nat /\ PushTotal(n, b)' \in Nat
  <2>1. Cardinality(PushPending(n, b)') \in Nat
    BY FS_CardinalityType
  <2>2. shown'[x] \in Nat /\ cut' \in PushCuts
    BY DEF PushInv, PushShape
  <2>3. QED BY <2>1, <2>2 DEF PushCuts, PushCutShort, PushTotal
<1>3. CASE b \in gone'
  <2>1. shown[x] <= 1 + PushCutShort
    BY DEF PushBudgetOf
  <2>2. shown'[x] <= 1 + PushCutShort'
    BY <1>1, <1>2, <1>3, <2>1
  <2>3. QED BY <1>3, <2>2 DEF PushBudgetOf
<1>4. CASE b \notin gone'
  <2>1. /\ PushTotal(n, b) <= 1 + PushCutShort
        /\ PushOwes(s, n, b) => PushTotal(n, b) <= PushCutShort
    BY <1>4 DEF PushBudgetOf
  <2>2. /\ PushTotal(n, b)' <= 1 + PushCutShort'
        /\ PushOwes(s, n, b)' => PushTotal(n, b)' <= PushCutShort'
    BY <1>1, <1>2, <1>4, <2>1
  <2>3. shown'[x] <= PushTotal(n, b)'
    BY <1>2 DEF PushTotal
  <2>4. shown'[x] <= 1 + PushCutShort'
    BY <1>2, <2>2, <2>3
  <2>5. QED BY <2>2, <2>4 DEF PushBudgetOf
<1>5. QED BY <1>3, <1>4

LEMMA PushPendingLess ==
  ASSUME NEW n, NEW b, IsFiniteSet(PushPending(n, b)),
         PushPending(n, b)' \subseteq PushPending(n, b)
  PROVE  /\ IsFiniteSet(PushPending(n, b)')
         /\ Cardinality(PushPending(n, b)') <= Cardinality(PushPending(n, b))
         /\ PushPending(n, b)' # PushPending(n, b) =>
              Cardinality(PushPending(n, b)') < Cardinality(PushPending(n, b))
  BY FS_Subset, FS_CardinalityType

LEMMA PushTotalLess ==
  ASSUME NEW s, PushInv(s), NEW n \in s.notes, NEW b \in s.browsers, PushBudgetOf(s, n, b),
         PushPending(n, b)' \subseteq PushPending(n, b), shown'[<<n, b>>] = shown[<<n, b>>]
  PROVE  /\ IsFiniteSet(PushPending(n, b)')
         /\ PushTotal(n, b)' <= PushTotal(n, b)
         /\ PushPending(n, b)' # PushPending(n, b) => PushTotal(n, b)' < PushTotal(n, b)
<1>1. IsFiniteSet(PushPending(n, b))
  BY DEF PushBudgetOf
<1>2. /\ IsFiniteSet(PushPending(n, b)')
      /\ Cardinality(PushPending(n, b)') <= Cardinality(PushPending(n, b))
      /\ PushPending(n, b)' # PushPending(n, b) =>
           Cardinality(PushPending(n, b)') < Cardinality(PushPending(n, b))
  BY <1>1, PushPendingLess
<1>3. Cardinality(PushPending(n, b)') \in Nat
  BY <1>2, FS_CardinalityType
<1>4. shown[<<n, b>>] \in Nat /\ Cardinality(PushPending(n, b)) \in Nat
  BY <1>1, PushNumbers
<1>5. QED BY <1>2, <1>3, <1>4 DEF PushTotal

\* The runs that start: each adds the push it owes, to a device none of whose pushes is under way.
LEMMA PushBudgetStarts ==
  ASSUME NEW s, Delivery(s)!BoundsAssumption, PushInv(s), PushInv(s)', PushBudget(s),
         NEW u \in PushRunning, Delivery(s)!Started(u), job.state \in {"none", "waiting"},
         UNCHANGED <<device, rows, gone, note, line, shown, cut, push_left>>
  PROVE  PushBudget(s)'
<1> SUFFICES ASSUME NEW n \in s.notes, NEW b \in s.browsers PROVE PushBudgetOf(s, n, b)'
  BY DEF PushBudget
<1> DEFINE new == [run |-> job.run + 1, note |-> n, row |-> device[b].row, browser |-> b,
                   phase |-> "sending"]
           P == PushPending(n, b)
           Q == PushPending(n, b)'
<1>1. PushBudgetOf(s, n, b) /\ ~PushGoesOn(n, b) /\ job \in PushJobs
  BY DEF PushBudget, PushGoesOn, PushRunning, PushInv, PushShape
<1>2. /\ pushes' = pushes \union Delivery(s)!Owed(job.run + 1)
      /\ job'.state = u /\ job'.run = job.run + 1
  BY <1>1 DEF Delivery!Started, PushJobs
<1>3. \A p \in Delivery(s)!Owed(job.run + 1) : p.note = n /\ p.browser = b => p = new
  BY DEF Delivery!Owed
<1>4. CASE new \notin Delivery(s)!Owed(job.run + 1)
  <2>1. Q = P
    BY <1>2, <1>3, <1>4 DEF PushPending
  <2>2. PushCutShort' = PushCutShort
    BY DEF PushCutShort
  <2>3. PushOwes(s, n, b)' => PushOwes(s, n, b)
    BY <1>1 DEF PushOwes
  <2>4. IsFiniteSet(Q) /\ PushTotal(n, b)' <= PushTotal(n, b)
    BY <1>1, <2>1, PushTotalLess
  <2>5. shown'[<<n, b>>] <= shown[<<n, b>>]
    BY PushNumbers
  <2>6. QED BY <1>1, <2>2, <2>3, <2>4, <2>5, PushBudgetKept
<1>5. CASE new \in Delivery(s)!Owed(job.run + 1)
  <2>1. Q \subseteq P \union {new}
    BY <1>2, <1>3 DEF PushPending
  <2>2. Delivery(s)!Due(n, device[b].row)
    <3>1. Delivery(s)!Due(new.note, new.row)
      BY <1>5, PushOwedAre
    <3>2. QED BY <3>1
  <2>3. PushOwes(s, n, b)
    BY <1>1, <2>2 DEF PushOwes, Delivery!Due
  <2>4. /\ shown[<<n, b>>] \in Nat /\ PushCutShort \in Nat
        /\ IsFiniteSet(P) /\ Cardinality(P) \in Nat
        /\ shown[<<n, b>>] <= 1 + PushCutShort
        /\ b \notin gone => PushTotal(n, b) <= PushCutShort
    BY <1>1, <2>3, PushNumbers DEF PushBudgetOf
  <2>5. /\ IsFiniteSet(P \union {new}) /\ Cardinality(P \union {new}) \in Nat
        /\ Cardinality(P \union {new}) <= Cardinality(P) + 1
    <3> HIDE DEF P, new
    <3>1. IsFiniteSet(P \union {new})
          /\ Cardinality(P \union {new}) = (IF new \in P THEN Cardinality(P) ELSE Cardinality(P) + 1)
      BY <2>4, FS_AddElement
    <3>2. QED BY <2>4, <3>1
  <2>6. /\ IsFiniteSet(Q) /\ Cardinality(Q) \in Nat /\ Cardinality(Q) <= Cardinality(P) + 1
    <3> HIDE DEF P, Q, new
    <3>1. IsFiniteSet(Q) /\ Cardinality(Q) <= Cardinality(P \union {new})
      BY <2>1, <2>5, FS_Subset
    <3>2. Cardinality(Q) \in Nat
      BY <3>1, FS_CardinalityType
    <3>3. QED BY <2>4, <2>5, <3>1, <3>2
  <2>7. PushGoesOn(n, b)'
    <3>1. new \in pushes' /\ new.run = job'.run /\ new.note = n /\ new.browser = b
          /\ new.phase # "forget"
      BY <1>2, <1>5
    <3> HIDE DEF new
    <3>2. QED BY <1>2, <3>1 DEF PushGoesOn
  <2>8. PushCutShort' = PushCutShort /\ shown' = shown /\ gone' = gone
    BY DEF PushCutShort
  <2>9. b \notin gone' => PushTotal(n, b)' <= 1 + PushCutShort'
    BY <2>4, <2>6, <2>8 DEF PushTotal
  <2>10. QED BY <2>4, <2>6, <2>7, <2>8, <2>9 DEF PushBudgetOf, PushOwes
<1>6. QED BY <1>4, <1>5

\* Steps that leave the copies and the pushes of all but gone browsers, or fewer of them.
LEMMA PushBudgetQuiet ==
  ASSUME NEW s, PushInv(s), PushInv(s)', PushBudget(s), gone \subseteq gone', UNCHANGED shown,
         \A n \in s.notes, b \in s.browsers :
           /\ PushPending(n, b)' \subseteq PushPending(n, b)
           /\ \/ PushCutShort' = PushCutShort + 1
              \/ /\ PushCutShort' = PushCutShort
                 /\ b \notin gone' /\ PushOwes(s, n, b)' =>
                      PushOwes(s, n, b) \/ PushPending(n, b)' # PushPending(n, b)
  PROVE  PushBudget(s)'
<1> SUFFICES ASSUME NEW n \in s.notes, NEW b \in s.browsers PROVE PushBudgetOf(s, n, b)'
  BY DEF PushBudget
<1>1. PushBudgetOf(s, n, b)
  BY DEF PushBudget
<1>2. /\ IsFiniteSet(PushPending(n, b)')
      /\ PushTotal(n, b)' <= PushTotal(n, b)
      /\ PushPending(n, b)' # PushPending(n, b) => PushTotal(n, b)' < PushTotal(n, b)
  BY <1>1, PushTotalLess
<1>3. shown'[<<n, b>>] <= shown[<<n, b>>]
  BY PushNumbers
<1>4. QED BY <1>1, <1>2, <1>3, PushBudgetKept

LEMMA PushBudgetJob ==
  ASSUME NEW s, Delivery(s)!BoundsAssumption, PushInv(s), PushInv(s)', PushBudget(s),
         Delivery(s)!QueuePushes \/ Delivery(s)!DeliverPushes \/ Delivery(s)!RunEnds
         \/ Delivery(s)!Crash
  PROVE  PushBudget(s)'
<1>0. job \in PushJobs
  BY DEF PushInv, PushShape
<1>1. CASE Delivery(s)!Crash
  <2>1. pushes' = {} /\ UNCHANGED <<gone, shown>>
        /\ cut \in PushCuts /\ cut' = [cut EXCEPT !["crash"] = @ + 1]
    BY <1>1 DEF Delivery!Crash, Delivery!Cut, PushInv, PushShape
  <2>2. PushCutShort' = PushCutShort + 1
    BY <2>1 DEF PushCutShort, PushCuts
  <2>3. \A n \in s.notes, b \in s.browsers : PushPending(n, b)' = {}
    BY <2>1 DEF PushPending
  <2>4. QED BY <2>1, <2>2, <2>3, PushBudgetQuiet
<1>2. CASE Delivery(s)!QueuePushes /\ job' = [job EXCEPT !.state = "waiting"] /\ UNCHANGED pushes
  <2>1. /\ UNCHANGED <<device, line, gone, shown, cut, pushes>>
        /\ job.state \notin PushRunning
    BY <1>2 DEF Delivery!QueuePushes, PushRunning
  <2>2. QED BY <2>1, PushBudgetQuiet DEF PushPending, PushCutShort, PushOwes, PushGoesOn
<1>3. CASE Delivery(s)!RunEnds
  <2>1. /\ UNCHANGED <<device, line, gone, shown, cut, pushes>>
        /\ \A p \in pushes : p.run # job.run
    BY <1>3 DEF Delivery!RunEnds
  <2>2. QED BY <2>1, PushBudgetQuiet DEF PushPending, PushCutShort, PushOwes, PushGoesOn
<1>4. CASE \E u \in PushRunning : Delivery(s)!Started(u) /\ job.state \in {"none", "waiting"}
           /\ UNCHANGED <<device, rows, gone, note, line, shown, cut, push_left>>
  BY <1>4, PushBudgetStarts
<1>5. QED
  BY <1>1, <1>2, <1>3, <1>4 DEF Delivery!QueuePushes, Delivery!DeliverPushes, PushRunning

\* One that is answered with success is pending no more, and shows a copy.
LEMMA PushBudgetSends ==
  ASSUME NEW s, Delivery(s)!BoundsAssumption, PushInv(s), PushInv(s)', PushBudget(s),
         NEW p \in pushes, Delivery(s)!SendPush(p)
  PROVE  PushBudget(s)'
<1> SUFFICES ASSUME NEW n \in s.notes, NEW b \in s.browsers PROVE PushBudgetOf(s, n, b)'
  BY DEF PushBudget
<1> DEFINE P == PushPending(n, b)
           Q == PushPending(n, b)'
           Mine == p.note = n /\ p.browser = b
<1>0. /\ p \in PushRecords(s) /\ p.note \in s.notes /\ p.browser \in s.browsers
      /\ p.phase = "sending" /\ UNCHANGED <<device, rows, gone, note, line, job, cut>>
  BY DEF Delivery!SendPush, PushInv, PushShape, PushRecords
<1>1. PICK f \in {"sent", "expired", "retry", "failed"} :
        /\ pushes' = Delivery(s)!Stepped(p, f)
        /\ f = "sent" => p.browser \notin gone
                         /\ shown' = [shown EXCEPT ![<<p.note, p.browser>>] = @ + 1]
        /\ f # "sent" => UNCHANGED shown
        /\ f = "expired" => p.browser \in gone
  BY DEF Delivery!SendPush
<1>2. PICK q \in PushRecords(s) :
        /\ pushes' = (pushes \ {p}) \union {q} /\ q.phase = f
        /\ q.run = p.run /\ q.note = p.note /\ q.row = p.row /\ q.browser = p.browser
  <2> DEFINE q == [p EXCEPT !.phase = f]
  <2>1. /\ q \in PushRecords(s) /\ q.phase = f
        /\ q.run = p.run /\ q.note = p.note /\ q.row = p.row /\ q.browser = p.browser
    BY <1>0 DEF PushRecords, PushPhases, Delivery!Outcomes
  <2>2. pushes' = (pushes \ {p}) \union {q}
    BY <1>1 DEF Delivery!Stepped
  <2>3. QED BY <2>1, <2>2
<1>3. PushBudgetOf(s, n, b) /\ PushCutShort' = PushCutShort
  BY <1>0 DEF PushBudget, PushCutShort
<1>4. PushOwes(s, n, b)' => PushOwes(s, n, b)
  <2>1. PushGoesOn(n, b) => PushGoesOn(n, b)'
    <3> SUFFICES ASSUME PushGoesOn(n, b) PROVE PushGoesOn(n, b)'
      OBVIOUS
    <3>1. PICK r \in pushes : r.run = job.run /\ r.note = n /\ r.browser = b /\ r.phase # "forget"
      BY DEF PushGoesOn
    <3>2. CASE r = p
      BY <1>0, <1>1, <1>2, <3>1, <3>2 DEF PushGoesOn
    <3>3. CASE r # p
      BY <1>0, <1>2, <3>1, <3>3 DEF PushGoesOn
    <3>4. QED BY <3>2, <3>3
  <2>2. QED BY <1>0, <2>1 DEF PushOwes
<1>5. /\ IsFiniteSet(P) /\ Cardinality(P) \in Nat
      /\ shown[<<n, b>>] \in Nat /\ shown \in [s.notes \X s.browsers -> Nat]
  BY <1>3, PushNumbers DEF PushBudgetOf, PushInv, PushShape
<1>6. CASE ~Mine
  <2>1. Q \subseteq P
    BY <1>2, <1>6 DEF PushPending
  <2>2. shown'[<<n, b>>] = shown[<<n, b>>]
    BY <1>0, <1>1, <1>5, <1>6
  <2>3. IsFiniteSet(Q) /\ PushTotal(n, b)' <= PushTotal(n, b)
    BY <1>3, <2>1, <2>2, PushTotalLess
  <2>4. QED BY <1>0, <1>3, <1>4, <1>5, <2>2, <2>3, PushBudgetKept
<1>7. CASE Mine
  <2>1. p \in P
    BY <1>0, <1>7 DEF PushPending
  <2>2. IsFiniteSet(P \ {p}) /\ Cardinality(P \ {p}) = Cardinality(P) - 1
    <3> HIDE DEF P
    <3>1. QED BY <1>5, <2>1, FS_RemoveElement
  <2>3. CASE f \in {"sent", "expired"}
    <3>1. Q \subseteq P \ {p}
      BY <1>2, <2>3 DEF PushPending
    <3>2. IsFiniteSet(Q) /\ Cardinality(Q) \in Nat /\ Cardinality(Q) <= Cardinality(P) - 1
      <4> HIDE DEF P, Q
      <4>1. QED BY <2>2, <3>1, FS_Subset, FS_CardinalityType
    <3>3. shown'[<<n, b>>] <= shown[<<n, b>>] + 1 /\ shown'[<<n, b>>] \in Nat
          /\ (b \in gone' => shown'[<<n, b>>] <= shown[<<n, b>>])
      BY <1>0, <1>1, <1>5, <1>7, <2>3
    <3>4. PushTotal(n, b)' <= PushTotal(n, b)
      BY <1>5, <3>2, <3>3 DEF PushTotal
    <3>5. QED BY <1>0, <1>3, <1>4, <3>2, <3>3, <3>4, PushBudgetKept
  <2>4. CASE f \in {"retry", "failed"}
    <3>1. Q \subseteq (P \ {p}) \union {q}
      BY <1>2 DEF PushPending
    <3>2. /\ IsFiniteSet((P \ {p}) \union {q})
          /\ Cardinality((P \ {p}) \union {q}) <= Cardinality(P)
      <4> HIDE DEF P
      <4>1. /\ IsFiniteSet((P \ {p}) \union {q})
            /\ Cardinality((P \ {p}) \union {q}) =
                 IF q \in P \ {p} THEN Cardinality(P \ {p}) ELSE Cardinality(P \ {p}) + 1
        BY <2>2, FS_AddElement
      <4>2. QED BY <1>5, <2>2, <4>1
    <3>3. IsFiniteSet(Q) /\ Cardinality(Q) \in Nat /\ Cardinality(Q) <= Cardinality(P)
      <4> HIDE DEF P, Q
      <4>1. IsFiniteSet(Q) /\ Cardinality(Q) <= Cardinality((P \ {p}) \union {q})
        BY <3>1, <3>2, FS_Subset
      <4>2. Cardinality(Q) \in Nat /\ Cardinality((P \ {p}) \union {q}) \in Nat
        BY <3>2, <4>1, FS_CardinalityType
      <4>3. QED BY <1>5, <3>2, <4>1, <4>2
    <3>4. shown' = shown
      BY <1>1, <2>4
    <3>5. PushTotal(n, b)' <= PushTotal(n, b) /\ shown'[<<n, b>>] <= shown[<<n, b>>]
      BY <1>5, <3>3, <3>4 DEF PushTotal
    <3>6. QED BY <1>0, <1>3, <1>4, <3>3, <3>5, PushBudgetKept
  <2>5. QED BY <2>3, <2>4
<1>8. QED BY <1>6, <1>7

\* A push that throws either ends its run, or was no longer of it.
LEMMA PushBudgetThrows ==
  ASSUME NEW s, Delivery(s)!BoundsAssumption, PushInv(s), PushInv(s)', PushBudget(s),
         NEW p \in pushes, Delivery(s)!Throws(p), UNCHANGED <<device, gone, shown>>,
         \A n \in s.notes, b \in s.browsers :
           device[b].row # 0 /\ line[<<n, device[b].row>>] \in Delivery(s)!Settled =>
             line'[<<n, device[b].row>>] \in Delivery(s)!Settled
  PROVE  PushBudget(s)'
<1>0. cut \in PushCuts /\ pushes' = pushes \ {p}
  BY DEF PushInv, PushShape, Delivery!Throws
<1>1. \A n \in s.notes, b \in s.browsers : PushPending(n, b)' \subseteq PushPending(n, b)
  BY <1>0 DEF PushPending
<1>2. CASE Delivery(s)!Cut("throw")
  <2>1. PushCutShort' = PushCutShort + 1
    BY <1>0, <1>2 DEF PushCutShort, PushCuts, Delivery!Cut
  <2>2. QED BY <1>1, <2>1, PushBudgetQuiet
<1>3. CASE UNCHANGED <<job, cut>> /\ ~(p.run = job.run /\ job.state \in PushRunning)
  <2>1. PushCutShort' = PushCutShort
    BY <1>3 DEF PushCutShort
  <2>2. \A n \in s.notes, b \in s.browsers : PushGoesOn(n, b) => PushGoesOn(n, b)'
    BY <1>0, <1>3 DEF PushGoesOn
  <2>3. \A n \in s.notes, b \in s.browsers : PushOwes(s, n, b)' => PushOwes(s, n, b)
    BY <2>2 DEF PushOwes
  <2>4. QED BY <1>1, <2>1, <2>3, PushBudgetQuiet
<1>4. QED BY <1>2, <1>3 DEF Delivery!Throws, PushRunning

\* The rows of the devices are those of the journal.
LEMMA PushRowsAre ==
  ASSUME NEW s, Delivery(s)!BoundsAssumption, PushInv(s)
  PROVE  /\ \A p \in pushes : /\ p \in PushRecords(s) /\ p.note \in s.notes
                              /\ p.browser \in s.browsers /\ p.row \in Delivery(s)!Rows
                              /\ p.row # 0 /\ p.row <= rows
                              /\ \A b \in s.browsers : device[b].row = p.row => b = p.browser
         /\ \A b \in s.browsers : /\ device[b].row \in Nat /\ device[b].row <= rows
                                  /\ device[b].row # 0 => device[b].row \in Delivery(s)!Rows
         /\ rows \in Nat
<1>1. /\ rows \in Nat /\ push_left.save \in Nat /\ rows + push_left.save <= PushRoom(s)
      /\ \A p \in pushes : p \in PushRecords(s)
      /\ \A b \in s.browsers : device[b].row \in Nat
  BY DEF PushInv, PushShape, PushLeft
<1>2. /\ \A p \in pushes : p.row \in 1 .. rows
      /\ \A p \in pushes : \A b \in s.browsers : device[b].row = p.row => b = p.browser
      /\ \A b \in s.browsers : device[b].row <= rows
  BY DEF PushInv, PushDevicesOK, PushesOK
<1>3. Delivery(s)!Rows = 1 .. PushRoom(s) /\ PushRoom(s) \in Nat
  BY PushRoomNat
<1>4. \A p \in pushes : p.note \in s.notes /\ p.browser \in s.browsers
  BY <1>1 DEF PushRecords
<1>5. \A p \in pushes : p.row \in Delivery(s)!Rows /\ p.row # 0 /\ p.row <= rows
  BY <1>1, <1>2, <1>3
<1>6. \A b \in s.browsers : device[b].row # 0 => device[b].row \in Delivery(s)!Rows
  BY <1>1, <1>2, <1>3
<1>7. QED BY <1>1, <1>2, <1>4, <1>5, <1>6

\* A line written is that of the push, at the row of its device.
PushOthersKeep(s, p) ==
    \A n \in s.notes, b \in s.browsers :
      device[b].row # 0 /\ (n # p.note \/ b # p.browser) =>
        line'[<<n, device[b].row>>] = line[<<n, device[b].row>>]

LEMMA PushWrittenAre ==
  ASSUME NEW s, Delivery(s)!BoundsAssumption, PushInv(s), NEW p \in pushes, Delivery(s)!Known(p),
         Delivery(s)!Written(p)
  PROVE  /\ device[p.browser].row = p.row
         /\ line'[<<p.note, p.row>>] = Delivery(s)!Status(p)
         /\ PushOthersKeep(s, p)
<1>1. PICK b \in s.browsers : device[b].row = p.row
  BY DEF Delivery!Known
<1>2. device[p.browser].row = p.row /\ p.note \in s.notes /\ p.row \in Delivery(s)!Rows
      /\ \A c \in s.browsers : device[c].row = p.row => c = p.browser
  BY <1>1, PushRowsAre
<1>3. line \in [s.notes \X Delivery(s)!Rows -> Delivery(s)!Outcomes \union {"none"}]
  BY DEF PushInv, PushShape
<1>4. line' = [line EXCEPT ![<<p.note, p.row>>] = Delivery(s)!Status(p)]
  BY DEF Delivery!Written
<1>5. line'[<<p.note, p.row>>] = Delivery(s)!Status(p)
  BY <1>2, <1>3, <1>4
<1>6. ASSUME NEW n \in s.notes, NEW c \in s.browsers, device[c].row # 0,
             n # p.note \/ c # p.browser
      PROVE  line'[<<n, device[c].row>>] = line[<<n, device[c].row>>]
  <2>1. device[c].row \in Delivery(s)!Rows
    BY <1>6, PushRowsAre
  <2>2. n # p.note \/ device[c].row # p.row
    BY <1>2, <1>6
  <2>3. QED BY <1>3, <1>4, <2>1, <2>2
<1>7. QED BY <1>2, <1>5, <1>6 DEF PushOthersKeep

LEMMA PushBudgetFails ==
  ASSUME NEW s, Delivery(s)!BoundsAssumption, PushInv(s), PushInv(s)', PushBudget(s),
         NEW p \in pushes, Delivery(s)!QueryFails(p)
  PROVE  PushBudget(s)'
<1>1. Delivery(s)!Throws(p) /\ UNCHANGED <<device, gone, shown>>
  BY DEF Delivery!QueryFails
<1>2. ASSUME NEW n \in s.notes, NEW b \in s.browsers,
             device[b].row # 0, line[<<n, device[b].row>>] \in Delivery(s)!Settled
      PROVE  line'[<<n, device[b].row>>] \in Delivery(s)!Settled
  <2>1. CASE line' = line
    BY <1>2, <2>1
  <2>2. CASE p.phase = "sent" /\ Delivery(s)!Known(p) /\ Delivery(s)!Written(p)
    <3>1. Delivery(s)!Status(p) \in Delivery(s)!Settled
      BY <2>2 DEF Delivery!Status, Delivery!Settled
    <3>2. device[p.browser].row = p.row /\ line'[<<p.note, p.row>>] = Delivery(s)!Status(p)
      BY <2>2, PushWrittenAre
    <3>3. CASE n = p.note /\ b = p.browser
      BY <3>1, <3>2, <3>3
    <3>4. CASE n # p.note \/ b # p.browser
      <4>1. line'[<<n, device[b].row>>] = line[<<n, device[b].row>>]
        <5>1. PushOthersKeep(s, p)
          BY <2>2, PushWrittenAre
        <5>2. QED BY <1>2, <3>4, <5>1 DEF PushOthersKeep
      <4>2. QED BY <1>2, <4>1
    <3>5. QED BY <3>3, <3>4
  <2>3. QED BY <2>1, <2>2 DEF Delivery!QueryFails
<1>3. QED BY <1>1, <1>2, PushBudgetThrows

LEMMA PushBudgetWrites ==
  ASSUME NEW s, Delivery(s)!BoundsAssumption, PushInv(s), PushInv(s)', PushBudget(s),
         NEW p \in pushes, Delivery(s)!WriteLine(p)
  PROVE  PushBudget(s)'
<1>1. CASE ~Delivery(s)!Known(p)
  <2>1. Delivery(s)!Throws(p) /\ UNCHANGED <<device, gone, shown, line>>
    BY <1>1 DEF Delivery!WriteLine
  <2>2. QED BY <2>1, PushBudgetThrows
<1>2. CASE Delivery(s)!Known(p)
  <2>0. /\ Delivery(s)!Written(p) /\ p.phase \in Delivery(s)!Outcomes
        /\ job' = job \/ job' = [job EXCEPT !.retry = TRUE]
        /\ UNCHANGED <<device, gone, shown, cut>>
    BY <1>2 DEF Delivery!WriteLine
  <2>1. job'.run = job.run /\ job'.state = job.state
    BY <2>0 DEF PushInv, PushShape, PushJobs
  <2>2. /\ p \in PushRecords(s) /\ p.note \in s.notes /\ p.browser \in s.browsers /\ p.row # 0
        /\ device[p.browser].row = p.row
        /\ line'[<<p.note, p.row>>] = Delivery(s)!Status(p)
        /\ PushOthersKeep(s, p)
    BY <1>2, <2>0, PushWrittenAre, PushRowsAre
  <2>3. \A q \in pushes' : q \in pushes \/ q.phase = "forget"
    <3>1. CASE pushes' = pushes \ {p}
      BY <3>1
    <3>2. CASE pushes' = Delivery(s)!Stepped(p, "forget")
      BY <2>2, <3>2, PushSteppedAre DEF PushPhases
    <3>3. QED BY <1>2, <3>1, <3>2 DEF Delivery!WriteLine
  <2>4. pushes \ {p} \subseteq pushes' /\ p \notin pushes'
    <3>1. CASE pushes' = pushes \ {p}
      BY <3>1
    <3>2. CASE p.phase = "expired" /\ pushes' = Delivery(s)!Stepped(p, "forget")
      <4>1. [p EXCEPT !.phase = "forget"].phase = "forget"
        BY <2>2 DEF PushRecords
      <4>2. QED BY <3>2, <4>1 DEF Delivery!Stepped
    <3>3. QED BY <1>2, <3>1, <3>2 DEF Delivery!WriteLine
  <2>5. ASSUME NEW n \in s.notes, NEW b \in s.browsers
        PROVE  /\ PushPending(n, b)' \subseteq PushPending(n, b)
               /\ b \notin gone' /\ PushOwes(s, n, b)' =>
                    PushOwes(s, n, b) \/ PushPending(n, b)' # PushPending(n, b)
    <3>1. PushPending(n, b)' \subseteq PushPending(n, b)
      BY <2>3 DEF PushPending
    <3>2. CASE n = p.note /\ b = p.browser /\ p.phase \in {"retry", "failed"}
      <4>1. p \in PushPending(n, b) /\ p \notin PushPending(n, b)'
        BY <2>4, <3>2 DEF PushPending
      <4>2. QED BY <3>1, <4>1
    <3>3. CASE n = p.note /\ b = p.browser /\ p.phase \in {"sent", "expired"}
      <4>1. line'[<<n, device'[b].row>>] \in Delivery(s)!Settled /\ device'[b].row # 0
        BY <2>0, <2>2, <3>3 DEF Delivery!Status, Delivery!Settled
      <4>2. QED BY <3>1, <4>1 DEF PushOwes
    <3>4. CASE n # p.note \/ b # p.browser
      <4>1. PushGoesOn(n, b) => PushGoesOn(n, b)'
        BY <2>1, <2>4, <3>4 DEF PushGoesOn
      <4>2. device[b].row # 0 => line'[<<n, device[b].row>>] = line[<<n, device[b].row>>]
        BY <2>2, <3>4 DEF PushOthersKeep
      <4>3. PushOwes(s, n, b)' => PushOwes(s, n, b)
        BY <2>0, <4>1, <4>2 DEF PushOwes
      <4>4. QED BY <3>1, <4>3
    <3>5. QED BY <2>0, <3>2, <3>3, <3>4 DEF Delivery!Outcomes
  <2>6. PushCutShort' = PushCutShort
    BY <2>0 DEF PushCutShort
  <2>7. QED BY <2>0, <2>5, <2>6, PushBudgetQuiet
<1>3. QED BY <1>1, <1>2

\* A device that goes takes its lines alone.
LEMMA PushRemovedLines ==
  ASSUME NEW s, Delivery(s)!BoundsAssumption, PushInv(s), NEW b \in s.browsers,
         device[b].row # 0, Delivery(s)!Remove(b)
  PROVE  /\ device'[b].row = 0
         /\ \A c \in s.browsers : c # b => device'[c] = device[c]
         /\ \A n \in s.notes, c \in s.browsers : c # b /\ device[c].row # 0 =>
              line'[<<n, device[c].row>>] = line[<<n, device[c].row>>]
         /\ \A x \in s.notes \X Delivery(s)!Rows : line'[x] \in {"none", line[x]}
<1>1. device' = [device EXCEPT ![b] = Delivery(s)!NoRow]
      /\ line' = Delivery(s)!Without(device[b].row)
  BY DEF Delivery!Remove
<1>2. device'[b].row = 0 /\ \A c \in s.browsers : c # b => device'[c] = device[c]
  BY <1>1 DEF Delivery!NoRow, PushInv, PushShape
<1>3. ASSUME NEW n \in s.notes, NEW c \in s.browsers, c # b, device[c].row # 0
      PROVE  line'[<<n, device[c].row>>] = line[<<n, device[c].row>>]
  <2>1. device[c].row \in Delivery(s)!Rows
    BY <1>3, PushRowsAre
  <2>2. device[c].row # device[b].row
    BY <1>3 DEF PushInv, PushDevicesOK
  <2>3. QED BY <1>1, <2>1, <2>2 DEF Delivery!Without
<1>4. \A x \in s.notes \X Delivery(s)!Rows : line'[x] \in {"none", line[x]}
  BY <1>1 DEF Delivery!Without
<1>5. QED BY <1>2, <1>3, <1>4

LEMMA PushBudgetDevices ==
  ASSUME NEW s, Delivery(s)!BoundsAssumption, PushInv(s), PushInv(s)', PushBudget(s),
         \/ \E p \in pushes : Delivery(s)!ForgetGone(p)
         \/ \E b \in s.browsers : \/ Delivery(s)!RemovePushSubscription(b)
                                  \/ Delivery(s)!AddressDies(b)
                                  \/ \E m \in s.members : Delivery(s)!SavePushSubscription(b, m)
         \/ \E n \in s.notes : Delivery(s)!MarkRead(n)
  PROVE  PushBudget(s)'
<1>0. cut \in PushCuts
  BY DEF PushInv, PushShape
<1>1. ASSUME NEW b \in s.browsers, Delivery(s)!RemovePushSubscription(b) PROVE PushBudget(s)'
  <2>1. UNCHANGED <<gone, pushes, shown>> /\ cut' = [cut EXCEPT !["remove"] = @ + 1]
    BY <1>1 DEF Delivery!RemovePushSubscription, Delivery!Cut
  <2>2. PushCutShort' = PushCutShort + 1
    BY <1>0, <2>1 DEF PushCutShort, PushCuts
  <2>3. QED BY <2>1, <2>2, PushBudgetQuiet DEF PushPending
<1>2. ASSUME NEW p \in pushes, Delivery(s)!ForgetGone(p) PROVE PushBudget(s)'
  <2>1. /\ p.phase = "forget" /\ pushes' = pushes \ {p} /\ UNCHANGED <<gone, job, shown, cut>>
        /\ p.browser \in gone /\ p.browser \in s.browsers /\ p.row # 0
    BY <1>2, PushRowsAre DEF Delivery!ForgetGone, PushInv, PushesOK
  <2>2. ASSUME NEW n \in s.notes, NEW b \in s.browsers, b # p.browser, PushOwes(s, n, b)'
        PROVE  PushOwes(s, n, b)
    <3>1. PushGoesOn(n, b) => PushGoesOn(n, b)'
      BY <2>1 DEF PushGoesOn
    <3>2. device'[b] = device[b]
          /\ (device[b].row # 0 => line'[<<n, device[b].row>>] = line[<<n, device[b].row>>])
      <4>1. CASE UNCHANGED <<device, line>>
        BY <4>1
      <4>2. CASE Delivery(s)!Known(p) /\ Delivery(s)!Remove(p.browser)
        <5>1. device[p.browser].row # 0
          BY <2>1, <4>2, PushRowsAre DEF Delivery!Known
        <5>2. QED BY <2>1, <2>2, <4>2, <5>1, PushRemovedLines
      <4>3. QED BY <1>2, <4>1, <4>2 DEF Delivery!ForgetGone
    <3>3. QED BY <2>2, <3>1, <3>2 DEF PushOwes
  <2>3. \A n \in s.notes, b \in s.browsers : PushPending(n, b)' \subseteq PushPending(n, b)
    BY <2>1 DEF PushPending
  <2>4. PushCutShort' = PushCutShort
    BY <2>1 DEF PushCutShort
  <2>5. \A n \in s.notes, b \in s.browsers :
          b \notin gone' /\ PushOwes(s, n, b)' => PushOwes(s, n, b)
    BY <2>1, <2>2
  <2>6. QED BY <2>1, <2>3, <2>4, <2>5, PushBudgetQuiet
<1>3. ASSUME NEW b \in s.browsers, Delivery(s)!AddressDies(b) PROVE PushBudget(s)'
  <2>1. UNCHANGED <<device, line, job, pushes, shown, cut>> /\ gone \subseteq gone'
    BY <1>3 DEF Delivery!AddressDies
  <2>2. QED BY <2>1, PushBudgetQuiet DEF PushPending, PushCutShort, PushOwes, PushGoesOn
<1>4. ASSUME NEW n \in s.notes, Delivery(s)!MarkRead(n) PROVE PushBudget(s)'
  <2>1. UNCHANGED <<device, line, gone, job, pushes, shown, cut>>
    BY <1>4 DEF Delivery!MarkRead
  <2>2. QED BY <2>1, PushBudgetQuiet DEF PushPending, PushCutShort, PushOwes, PushGoesOn
<1>5. ASSUME NEW b \in s.browsers, NEW m \in s.members, Delivery(s)!SavePushSubscription(b, m)
      PROVE  PushBudget(s)'
  <2>1. UNCHANGED <<gone, line, job, pushes, shown, cut>>
    BY <1>5 DEF Delivery!SavePushSubscription
  <2>2. ASSUME NEW n \in s.notes, NEW c \in s.browsers, PushOwes(s, n, c)'
        PROVE  PushOwes(s, n, c)
    <3>1. device'[c].row = device[c].row \/ device[c].row = 0
      <4>1. device \in [s.browsers -> [row : Nat, member : s.members]]
        BY DEF PushInv, PushShape
      <4>2. CASE c # b \/ device[b].row = 0
        BY <1>5, <4>1, <4>2 DEF Delivery!SavePushSubscription
      <4>3. CASE c = b /\ device[b].row # 0
        BY <1>5, <4>1, <4>3 DEF Delivery!SavePushSubscription
      <4>4. QED BY <4>2, <4>3
    <3>2. PushGoesOn(n, c)' <=> PushGoesOn(n, c)
      BY <2>1 DEF PushGoesOn
    <3>3. QED BY <2>1, <2>2, <3>1, <3>2 DEF PushOwes
  <2>3. QED BY <2>1, <2>2, PushBudgetQuiet DEF PushPending, PushCutShort
<1>6. QED BY <1>1, <1>2, <1>3, <1>4, <1>5

LEMMA PushBudgetStep ==
  ASSUME NEW s, Delivery(s)!BoundsAssumption, PushInv(s), PushInv(s)', PushBudget(s),
         Delivery(s)!Next
  PROVE  PushBudget(s)'
  BY PushBudgetJob, PushBudgetSends, PushBudgetWrites, PushBudgetFails,
        PushBudgetDevices DEF Delivery!Next, Delivery!Work

-----------------------------------------------------------------------------
(* ... and a run that no query cuts short *)

\* A run that starts has read the lines.
LEMMA PushAloneStarts ==
  ASSUME NEW s, Delivery(s)!BoundsAssumption, PushInv(s), PushAlone(s),
         NEW u \in PushRunning, Delivery(s)!Started(u), job.state \in {"none", "waiting"},
         UNCHANGED <<device, rows, gone, note, line, shown, cut, push_left>>
  PROVE  PushAlone(s)'
<1> SUFFICES ASSUME cut.throw = 0
             PROVE  /\ \A p \in pushes' : p.run = job'.run /\ job'.state \in PushRunning
                    /\ \A p, q \in pushes' : p.note = q.note /\ p.browser = q.browser => p = q
                    /\ \A p \in pushes' : line[<<p.note, p.row>>] \notin Delivery(s)!Settled
  BY DEF PushAlone
<1>1. job \in PushJobs /\ pushes = {}
  BY DEF PushAlone, PushRunning, PushInv, PushShape
<1>2. /\ pushes' = Delivery(s)!Owed(job.run + 1)
      /\ job'.state = u /\ job'.run = job.run + 1
  BY <1>1 DEF Delivery!Started, PushJobs
<1>3. \A p \in pushes' : p = [run |-> job.run + 1, note |-> p.note, row |-> device[p.browser].row,
                              browser |-> p.browser, phase |-> "sending"]
  BY <1>2 DEF Delivery!Owed
<1>4. \A p, q \in pushes' : p.note = q.note /\ p.browser = q.browser => p = q
  <2> SUFFICES ASSUME NEW p \in pushes', NEW q \in pushes', p.note = q.note, p.browser = q.browser
               PROVE  p = q
    OBVIOUS
  <2>1. p = [run |-> job.run + 1, note |-> p.note, row |-> device[p.browser].row,
             browser |-> p.browser, phase |-> "sending"]
    BY <1>3
  <2>2. q = [run |-> job.run + 1, note |-> p.note, row |-> device[p.browser].row,
             browser |-> p.browser, phase |-> "sending"]
    BY <1>3
  <2>3. QED BY <2>1, <2>2
<1>5. \A p \in pushes' : p.run = job.run + 1 /\ line[<<p.note, p.row>>] \notin Delivery(s)!Settled
  BY <1>2, PushOwedAre DEF Delivery!Due
<1>6. QED BY <1>2, <1>4, <1>5

LEMMA PushAloneJob ==
  ASSUME NEW s, Delivery(s)!BoundsAssumption, PushInv(s), PushAlone(s),
         Delivery(s)!QueuePushes \/ Delivery(s)!DeliverPushes \/ Delivery(s)!RunEnds
         \/ Delivery(s)!Crash
  PROVE  PushAlone(s)'
<1>1. CASE Delivery(s)!Crash
  BY <1>1 DEF Delivery!Crash, PushAlone
<1>2. CASE Delivery(s)!QueuePushes /\ UNCHANGED pushes
  BY <1>2 DEF Delivery!QueuePushes, PushAlone, PushRunning
<1>3. CASE Delivery(s)!RunEnds
  BY <1>3 DEF Delivery!RunEnds, PushAlone
<1>4. CASE \E u \in PushRunning : Delivery(s)!Started(u) /\ job.state \in {"none", "waiting"}
           /\ UNCHANGED <<device, rows, gone, note, line, shown, cut, push_left>>
  BY <1>4, PushAloneStarts
<1>5. QED
  BY <1>1, <1>2, <1>3, <1>4 DEF Delivery!QueuePushes, Delivery!DeliverPushes, PushRunning

\* A step with no run cut short by a query leaves each line to its push.
LEMMA PushAloneSends ==
  ASSUME NEW s, Delivery(s)!BoundsAssumption, PushInv(s), PushAlone(s),
         NEW p \in pushes, NEW f \in PushPhases(s), pushes' = Delivery(s)!Stepped(p, f),
         job'.run = job.run, job'.state = job.state, UNCHANGED <<device, cut>>,
         \/ UNCHANGED line
         \/ f = "forget" /\ Delivery(s)!Known(p) /\ Delivery(s)!Written(p),
         p.phase # "forget"
  PROVE  PushAlone(s)'
<1> SUFFICES ASSUME cut.throw = 0
             PROVE  /\ \A q \in pushes' : q.run = job'.run /\ job'.state \in PushRunning
                    /\ \A q, r \in pushes' : q.note = r.note /\ q.browser = r.browser => q = r
                    /\ \A q \in pushes' : q.phase # "forget" /\ device[q.browser].row = q.row
                         => line'[<<q.note, q.row>>] \notin Delivery(s)!Settled
  BY DEF PushAlone
<1>1. /\ \A q \in pushes : q.run = job.run /\ job.state \in PushRunning
      /\ \A q, r \in pushes : q.note = r.note /\ q.browser = r.browser => q = r
      /\ \A q \in pushes : q.phase # "forget" /\ device[q.browser].row = q.row
           => line[<<q.note, q.row>>] \notin Delivery(s)!Settled
  BY DEF PushAlone
<1>2. PICK t \in PushRecords(s) :
        /\ pushes' = (pushes \ {p}) \union {t} /\ t.phase = f
        /\ t.run = p.run /\ t.note = p.note /\ t.row = p.row /\ t.browser = p.browser
  <2> DEFINE t == [p EXCEPT !.phase = f]
  <2>1. /\ t \in PushRecords(s) /\ t.phase = f
        /\ t.run = p.run /\ t.note = p.note /\ t.row = p.row /\ t.browser = p.browser
    BY PushRowsAre DEF PushRecords
  <2>2. pushes' = (pushes \ {p}) \union {t}
    BY DEF Delivery!Stepped
  <2>3. QED BY <2>1, <2>2
<1>3. \A q \in pushes' : q.run = job'.run /\ job'.state \in PushRunning
  BY <1>1, <1>2
<1>4. \A q, r \in pushes' : q.note = r.note /\ q.browser = r.browser => q = r
  BY <1>1, <1>2
<1>5. ASSUME NEW q \in pushes', q.phase # "forget", device[q.browser].row = q.row
      PROVE  line'[<<q.note, q.row>>] \notin Delivery(s)!Settled
  <2>1. CASE UNCHANGED line
    BY <1>1, <1>2, <1>5, <2>1
  <2>2. CASE f = "forget" /\ Delivery(s)!Known(p) /\ Delivery(s)!Written(p)
    <3>1. q \in pushes /\ q # p
      BY <1>2, <1>5, <2>2
    <3>2. q.note # p.note \/ q.browser # p.browser
      BY <1>1, <3>1
    <3>3. q.note \in s.notes /\ q.browser \in s.browsers /\ q.row # 0
      BY <3>1, PushRowsAre
    <3>4. PushOthersKeep(s, p)
      BY <2>2, PushWrittenAre
    <3>5. line'[<<q.note, q.row>>] = line[<<q.note, q.row>>]
      BY <1>5, <3>2, <3>3, <3>4 DEF PushOthersKeep
    <3>6. QED BY <1>1, <1>5, <3>1, <3>5
  <2>3. QED BY <2>1, <2>2
<1>6. QED BY <1>3, <1>4, <1>5

\* Pushes fewer, rows gone or new.
LEMMA PushAloneLess ==
  ASSUME NEW s, Delivery(s)!BoundsAssumption, PushInv(s), PushAlone(s),
         pushes' \subseteq pushes, job'.run = job.run, job'.state = job.state,
         cut.throw # 0 => cut'.throw # 0,
         \A p \in pushes' : p.phase # "forget" /\ device'[p.browser].row = p.row =>
           /\ device[p.browser].row = p.row
           /\ line'[<<p.note, p.row>>] \in {"none", line[<<p.note, p.row>>]}
  PROVE  PushAlone(s)'
<1>1. "none" \notin Delivery(s)!Settled
  BY DEF Delivery!Settled
<1>2. QED BY <1>1 DEF PushAlone

LEMMA PushAloneWrites ==
  ASSUME NEW s, Delivery(s)!BoundsAssumption, PushInv(s), PushAlone(s),
         NEW p \in pushes, Delivery(s)!WriteLine(p) \/ Delivery(s)!QueryFails(p)
                           \/ Delivery(s)!SendPush(p)
  PROVE  PushAlone(s)'
<1>0. job \in PushJobs /\ cut \in PushCuts /\ cut.throw \in Nat
  BY DEF PushInv, PushShape, PushCuts
<1>1. CASE Delivery(s)!SendPush(p)
  <2>1. PICK f \in {"sent", "expired", "retry", "failed"} : pushes' = Delivery(s)!Stepped(p, f)
    BY <1>1 DEF Delivery!SendPush
  <2>2. f \in PushPhases(s) /\ p.phase # "forget" /\ UNCHANGED <<device, cut, job, line>>
    BY <1>1 DEF Delivery!SendPush, PushPhases, Delivery!Outcomes
  <2>3. QED BY <2>1, <2>2, PushAloneSends
<1>2. CASE Delivery(s)!Throws(p)
  <2>1. CASE cut.throw # 0
    <3>1. cut'.throw # 0
      <4>1. CASE UNCHANGED cut
        BY <2>1, <4>1
      <4>2. CASE cut' = [cut EXCEPT !["throw"] = @ + 1]
        BY <1>0, <4>2 DEF PushCuts
      <4>3. QED BY <1>2, <4>1, <4>2 DEF Delivery!Throws, Delivery!Cut
    <3>2. QED BY <3>1 DEF PushAlone
  <2>2. CASE cut.throw = 0
    <3>1. p.run = job.run /\ job.state \in PushRunning
      BY <2>2 DEF PushAlone
    <3>2. cut' = [cut EXCEPT !["throw"] = @ + 1]
      BY <1>2, <3>1 DEF Delivery!Throws, PushRunning, Delivery!Cut
    <3>3. cut'.throw # 0
      BY <1>0, <3>2 DEF PushCuts
    <3>4. QED BY <3>3 DEF PushAlone
  <2>3. QED BY <2>1, <2>2
<1>3. CASE Delivery(s)!WriteLine(p) /\ Delivery(s)!Known(p)
  <2>1. /\ Delivery(s)!Written(p) /\ UNCHANGED <<device, cut>> /\ p.phase # "forget"
        /\ job' = job \/ job' = [job EXCEPT !.retry = TRUE]
    BY <1>3 DEF Delivery!WriteLine, Delivery!Outcomes
  <2>2. job'.run = job.run /\ job'.state = job.state
    BY <1>0, <2>1 DEF PushJobs
  <2>3. CASE pushes' = Delivery(s)!Stepped(p, "forget")
    <3>1. "forget" \in PushPhases(s)
      BY DEF PushPhases
    <3>2. QED BY <1>3, <2>1, <2>2, <2>3, <3>1, PushAloneSends
  <2>4. CASE pushes' = pushes \ {p}
    <3> SUFFICES ASSUME cut.throw = 0
                 PROVE  \A q \in pushes' : q.phase # "forget" /\ device[q.browser].row = q.row =>
                          line'[<<q.note, q.row>>] = line[<<q.note, q.row>>]
      BY <2>1, <2>2, <2>4 DEF PushAlone
    <3> SUFFICES ASSUME NEW q \in pushes', device[q.browser].row = q.row
                 PROVE  line'[<<q.note, q.row>>] = line[<<q.note, q.row>>]
      OBVIOUS
    <3>1. q \in pushes /\ (q.note # p.note \/ q.browser # p.browser)
      BY <2>4 DEF PushAlone
    <3>2. q.note \in s.notes /\ q.browser \in s.browsers /\ q.row # 0
      BY <3>1, PushRowsAre
    <3>3. PushOthersKeep(s, p)
      BY <1>3, <2>1, PushWrittenAre
    <3>4. QED BY <3>1, <3>2, <3>3 DEF PushOthersKeep
  <2>5. QED BY <1>3, <2>3, <2>4 DEF Delivery!WriteLine
<1>4. QED BY <1>1, <1>2, <1>3 DEF Delivery!WriteLine, Delivery!QueryFails

LEMMA PushAloneDevices ==
  ASSUME NEW s, Delivery(s)!BoundsAssumption, PushInv(s), PushAlone(s),
         \/ \E p \in pushes : Delivery(s)!ForgetGone(p)
         \/ \E b \in s.browsers : \/ Delivery(s)!RemovePushSubscription(b)
                                  \/ Delivery(s)!AddressDies(b)
                                  \/ \E m \in s.members : Delivery(s)!SavePushSubscription(b, m)
         \/ \E n \in s.notes : Delivery(s)!MarkRead(n)
  PROVE  PushAlone(s)'
<1>0. cut \in PushCuts /\ cut.throw \in Nat
  BY DEF PushInv, PushShape, PushCuts
<1>1. ASSUME NEW b \in s.browsers, device[b].row # 0, Delivery(s)!Remove(b),
             pushes' \subseteq pushes, UNCHANGED job, cut'.throw = cut.throw
      PROVE  PushAlone(s)'
  <2> SUFFICES ASSUME NEW p \in pushes, device'[p.browser].row = p.row
               PROVE  /\ device[p.browser].row = p.row
                      /\ line'[<<p.note, p.row>>] \in {"none", line[<<p.note, p.row>>]}
    BY <1>1, PushAloneLess
  <2>1. p.note \in s.notes /\ p.browser \in s.browsers /\ p.row # 0 /\ p.row \in Delivery(s)!Rows
    BY PushRowsAre
  <2>2. /\ device'[b].row = 0 /\ \A c \in s.browsers : c # b => device'[c] = device[c]
        /\ \A x \in s.notes \X Delivery(s)!Rows : line'[x] \in {"none", line[x]}
    BY <1>1, PushRemovedLines
  <2>3. QED BY <2>1, <2>2
<1>2. ASSUME NEW b \in s.browsers, Delivery(s)!RemovePushSubscription(b) PROVE PushAlone(s)'
  <2>1. /\ device[b].row # 0 /\ Delivery(s)!Remove(b) /\ UNCHANGED <<pushes, job>>
        /\ cut' = [cut EXCEPT !["remove"] = @ + 1]
    BY <1>2 DEF Delivery!RemovePushSubscription, Delivery!Cut
  <2>2. cut'.throw = cut.throw
    BY <1>0, <2>1 DEF PushCuts
  <2>3. QED BY <1>1, <2>1, <2>2
<1>3. ASSUME NEW p \in pushes, Delivery(s)!ForgetGone(p) PROVE PushAlone(s)'
  <2>1. pushes' \subseteq pushes /\ UNCHANGED <<job, cut>>
    BY <1>3 DEF Delivery!ForgetGone
  <2>2. CASE UNCHANGED <<device, line>>
    BY <2>1, <2>2, PushAloneLess
  <2>3. CASE Delivery(s)!Known(p) /\ Delivery(s)!Remove(p.browser)
    <3>1. p.browser \in s.browsers /\ device[p.browser].row # 0
      BY <2>3, PushRowsAre DEF Delivery!Known
    <3>2. QED BY <1>1, <2>1, <2>3, <3>1
  <2>4. QED BY <1>3, <2>2, <2>3 DEF Delivery!ForgetGone
<1>4. ASSUME UNCHANGED <<device, line, job, pushes, cut>> PROVE PushAlone(s)'
  BY <1>4, PushAloneLess
<1>5. ASSUME NEW b \in s.browsers, NEW m \in s.members, Delivery(s)!SavePushSubscription(b, m)
      PROVE  PushAlone(s)'
  <2>1. UNCHANGED <<line, job, pushes, cut>> /\ rows \in Nat
    BY <1>5, PushRowsAre DEF Delivery!SavePushSubscription
  <2>2. \A c \in s.browsers : device'[c].row = device[c].row \/ device'[c].row = rows + 1
    <3>1. device \in [s.browsers -> [row : Nat, member : s.members]]
      BY DEF PushInv, PushShape
    <3>2. CASE device[b].row = 0
      BY <1>5, <3>1, <3>2 DEF Delivery!SavePushSubscription
    <3>3. CASE device[b].row # 0
      BY <1>5, <3>1, <3>3 DEF Delivery!SavePushSubscription
    <3>4. QED BY <3>2, <3>3
  <2>3. \A p \in pushes : p.browser \in s.browsers /\ p.row <= rows /\ p.row \in Nat
    BY PushRowsAre DEF PushRecords
  <2>4. \A p \in pushes : device'[p.browser].row = p.row => device[p.browser].row = p.row
    BY <2>1, <2>2, <2>3
  <2>5. QED BY <2>1, <2>4, PushAloneLess
<1>6. QED
  BY <1>2, <1>3, <1>4, <1>5 DEF Delivery!AddressDies, Delivery!MarkRead

LEMMA PushSoundStep ==
  ASSUME NEW s, Delivery(s)!BoundsAssumption, PushSound(s), Delivery(s)!Next
  PROVE  PushSound(s)'
<1>1. PushInv(s)'
  BY PushStep DEF PushSound
<1>2. PushBudget(s)'
  BY <1>1, PushBudgetStep DEF PushSound
<1>3. PushAlone(s)'
  BY PushAloneJob, PushAloneWrites, PushAloneDevices DEF PushSound, Delivery!Next, Delivery!Work
<1>4. QED BY <1>1, <1>2, <1>3 DEF PushSound

LEMMA PushSoundInitial ==
  ASSUME NEW s, Delivery(s)!BoundsAssumption, Delivery(s)!Init
  PROVE  PushSound(s)
<1>1. PushInv(s)
  BY PushInitial
<1>2. /\ pushes = {} /\ shown = [x \in s.notes \X s.browsers |-> 0]
      /\ cut = [crash |-> 0, throw |-> 0, remove |-> 0]
      /\ line = [x \in s.notes \X Delivery(s)!Rows |-> "none"]
      /\ job = [state |-> "none", run |-> 0, failed |-> 0, retry |-> FALSE]
  BY DEF Delivery!Init
<1>3. ASSUME NEW n \in s.notes, NEW b \in s.browsers PROVE PushBudgetOf(s, n, b)
  <2>1. PushPending(n, b) = {} /\ PushCutShort = 0 /\ shown[<<n, b>>] = 0
    BY <1>2 DEF PushPending, PushCutShort
  <2>2. IsFiniteSet(PushPending(n, b)) /\ Cardinality(PushPending(n, b)) = 0
    BY <2>1, FS_EmptySet
  <2>3. PushTotal(n, b) = 0
    BY <2>1, <2>2 DEF PushTotal
  <2>4. QED BY <2>1, <2>2, <2>3 DEF PushBudgetOf
<1>4. QED BY <1>1, <1>2, <1>3 DEF PushSound, PushBudget, PushAlone

LEMMA PushSoundFinal ==
  ASSUME NEW s, Delivery(s)!BoundsAssumption, PushSound(s)
  PROVE  Delivery(s)!DeliverySound
<1>1. PushInv(s) /\ \A n \in s.notes, b \in s.browsers : PushBudgetOf(s, n, b)
  BY DEF PushSound, PushBudget
<1>2. ASSUME NEW n \in s.notes, NEW b \in s.browsers
      PROVE  shown[<<n, b>>] <= 1 + cut.crash + cut.throw + cut.remove
  <2>1. shown[<<n, b>>] <= 1 + PushCutShort
    BY <1>1 DEF PushBudgetOf
  <2>2. shown[<<n, b>>] \in Nat /\ cut.crash \in Nat /\ cut.throw \in Nat /\ cut.remove \in Nat
    BY <1>1, PushNumbers
  <2>3. QED BY <2>1, <2>2 DEF PushCutShort
<1>3. Delivery(s)!TypeOK /\ Delivery(s)!JournalTrue
  BY <1>1, PushFinal
<1>4. QED BY <1>2, <1>3 DEF Delivery!SentOnce, Delivery!DeliverySound

\* A step elsewhere leaves the pushes as they are.
LEMMA PushRests == ASSUME NEW s, PushSound(s), UNCHANGED push_vars PROVE PushSound(s)'
<1> USE DEF push_vars
<1>1. PushShape(s)' /\ PushJobRuns(s)' /\ PushLinesOK(s)'
  BY DEF PushSound, PushInv, PushShape, PushJobRuns, PushLinesOK, Delivery!Rows
<1>2. PushDevicesOK(s)' /\ PushesOK(s)' /\ Delivery(s)!JournalTrue'
  BY DEF PushSound, PushInv, PushDevicesOK, PushesOK, Delivery!JournalTrue
<1>3. ASSUME NEW n \in s.notes, NEW b \in s.browsers PROVE PushBudgetOf(s, n, b)'
  <2>1. PushBudgetOf(s, n, b)
    BY DEF PushSound, PushBudget
  <2>2. PushPending(n, b)' = PushPending(n, b) /\ PushCutShort' = PushCutShort
        /\ (PushOwes(s, n, b)' <=> PushOwes(s, n, b))
    BY DEF PushPending, PushCutShort, PushOwes, PushGoesOn
  <2>3. PushTotal(n, b)' = PushTotal(n, b)
    BY <2>2 DEF PushTotal
  <2>4. QED BY <2>1, <2>2, <2>3 DEF PushBudgetOf
<1>4. PushAlone(s)'
  BY DEF PushSound, PushAlone
<1>5. QED BY <1>1, <1>2, <1>3, <1>4 DEF PushSound, PushInv, PushBudget

\* The pushes are those of one of the two scopes, for good.
PushHolds == IF part = "kept" THEN PushSound(KeptScope) ELSE PushSound(SentScope)

\* Every step of the whole leaves the pushes sound.
LEMMA PushKept == PushHolds /\ [OnceNext]_all_vars => PushHolds'
<1> SUFFICES ASSUME PushHolds, [OnceNext]_all_vars PROVE PushHolds'
  OBVIOUS
<1> USE OnceAssumption
<1>1. CASE OnSent /\ Delivery(SentScope)!Next
  BY <1>1, PushSoundStep DEF OnSent, On, PushHolds
<1>2. CASE OnKept /\ Delivery(KeptScope)!Next
  BY <1>2, PushSoundStep DEF OnKept, On, PushHolds
<1>3. CASE UNCHANGED <<part, push_vars>>
  BY <1>3, PushRests DEF PushHolds
<1>4. QED
  BY <1>1, <1>2, <1>3 DEF OnceNext, OnTour, OnWrite, OnSlots, OnRaces, On, all_vars

\* DeliverySound: for any number of devices, notifications, attempts and answers of the push
\* services, of devices handed over or removed, of queries that fail and processes that die, the
\* journal says what became of each push, and a browser shows a notification once, and once more
\* at most for each run that a crash or a failed query ended and each device removed: running the
\* job again sends nothing twice by itself.
THEOREM Delivered == OnceSpec => []DeliverySound
<1> USE OnceAssumption
<1>1. OnceInit => PushHolds
  BY PushSoundInitial DEF OnceInit, PushHolds
<1>2. PushHolds /\ [OnceNext]_all_vars => PushHolds'
  BY PushKept
<1>3. PushHolds => DeliverySound
  BY PushSoundFinal DEF PushHolds, DeliverySound
<1>4. QED BY <1>1, <1>2, <1>3, PTL DEF OnceSpec

\* A push in flight has a line that is not settled, and a device that goes takes its own alone.
LEMMA PushSettled ==
  ASSUME NEW s, Delivery(s)!BoundsAssumption, PushSound(s), Delivery(s)!Next, cut.throw = 0
  PROVE  Delivery(s)!SettledLine
<1> SUFFICES ASSUME NEW n \in s.notes, NEW b \in s.browsers, device[b].row # 0,
                    device'[b].row = device[b].row,
                    line[<<n, device[b].row>>] \in Delivery(s)!Settled
             PROVE  line'[<<n, device[b].row>>] = line[<<n, device[b].row>>]
  BY DEF Delivery!SettledLine
<1>0. PushInv(s)
  BY DEF PushSound
<1>1. ASSUME NEW p \in pushes, p.phase \in Delivery(s)!Outcomes, Delivery(s)!Known(p),
             Delivery(s)!Written(p)
      PROVE  line'[<<n, device[b].row>>] = line[<<n, device[b].row>>]
  <2>1. /\ device[p.browser].row = p.row /\ PushOthersKeep(s, p)
    BY <1>0, <1>1, PushWrittenAre
  <2>2. line[<<p.note, p.row>>] \notin Delivery(s)!Settled
    BY <1>1, <2>1 DEF PushSound, PushAlone, Delivery!Outcomes
  <2>3. n # p.note \/ b # p.browser
    BY <2>1, <2>2
  <2>4. QED BY <2>1, <2>3 DEF PushOthersKeep
<1>2. ASSUME NEW c \in s.browsers, device[c].row # 0, Delivery(s)!Remove(c)
      PROVE  line'[<<n, device[b].row>>] = line[<<n, device[b].row>>]
  <2>1. device'[c].row = 0
        /\ \A k \in s.notes, a \in s.browsers : a # c /\ device[a].row # 0 =>
             line'[<<k, device[a].row>>] = line[<<k, device[a].row>>]
    BY <1>0, <1>2, PushRemovedLines
  <2>2. QED BY <2>1
<1>3. ASSUME NEW p \in pushes, Delivery(s)!ForgetGone(p), line' # line
      PROVE  line'[<<n, device[b].row>>] = line[<<n, device[b].row>>]
  <2>1. Delivery(s)!Known(p) /\ Delivery(s)!Remove(p.browser)
    BY <1>3 DEF Delivery!ForgetGone
  <2>2. p.browser \in s.browsers /\ device[p.browser].row # 0
    BY <1>0, <2>1, PushRowsAre DEF Delivery!Known
  <2>3. QED BY <1>2, <2>1, <2>2
<1>4. CASE line' = line
  BY <1>4
<1>5. CASE line' # line
  <2>1. \/ \E p \in pushes : p.phase \in Delivery(s)!Outcomes /\ Delivery(s)!Known(p)
                           /\ Delivery(s)!Written(p)
        \/ \E p \in pushes : Delivery(s)!ForgetGone(p)
        \/ \E c \in s.browsers : device[c].row # 0 /\ Delivery(s)!Remove(c)
    BY <1>5 DEF Delivery!Next, Delivery!Work, Delivery!QueuePushes, Delivery!DeliverPushes,
          Delivery!RunEnds, Delivery!SendPush, Delivery!WriteLine, Delivery!QueryFails,
          Delivery!Outcomes, Delivery!RemovePushSubscription, Delivery!AddressDies,
          Delivery!SavePushSubscription, Delivery!MarkRead, Delivery!Crash
  <2>2. QED BY <1>1, <1>2, <1>3, <1>5, <2>1
<1>6. QED BY <1>4, <1>5

\* SettledStays, in both scopes: for any number of devices, notifications, attempts and answers of
\* the push services, of devices handed over or removed and processes that die, a line that says
\* sent or expired is never written again while its device is known, as long as no query of a push
\* failed.  After one that failed, a push left behind may write over the line of the run that
\* follows.
THEOREM SettledLinesStay ==
  OnceSpec =>
    [][/\ part = "sent" => (cut.throw = 0 => Delivery(SentScope)!SettledLine)
       /\ part = "kept" => (cut.throw = 0 => Delivery(KeptScope)!SettledLine)]_all_vars
<1> USE OnceAssumption
<1>1. OnceInit => PushHolds
  BY PushSoundInitial DEF OnceInit, PushHolds
<1>2. PushHolds /\ [OnceNext]_all_vars => PushHolds'
  BY PushKept
<1>3. PushHolds /\ [OnceNext]_all_vars =>
        [/\ part = "sent" => (cut.throw = 0 => Delivery(SentScope)!SettledLine)
         /\ part = "kept" => (cut.throw = 0 => Delivery(KeptScope)!SettledLine)]_all_vars
  <2>1. ASSUME PushHolds, OnceNext, part = "sent", cut.throw = 0
        PROVE  Delivery(SentScope)!SettledLine
    <3>1. Delivery(SentScope)!Next
      BY <2>1 DEF OnceNext, OnTour, OnKept, OnWrite, OnSlots, OnRaces, On
    <3>2. QED BY <2>1, <3>1, PushSettled DEF PushHolds
  <2>2. ASSUME PushHolds, OnceNext, part = "kept", cut.throw = 0
        PROVE  Delivery(KeptScope)!SettledLine
    <3>1. Delivery(KeptScope)!Next
      BY <2>2 DEF OnceNext, OnTour, OnSent, OnWrite, OnSlots, OnRaces, On
    <3>2. QED BY <2>2, <3>1, PushSettled DEF PushHolds
  <2>3. QED BY <2>1, <2>2
<1>4. QED BY <1>1, <1>2, <1>3, PTL DEF OnceSpec

-----------------------------------------------------------------------------
(* AnnualSlots, in any scope *)

SlotAssumed(sc) ==
    /\ Series(sc)!NobodyAssumption /\ Series(sc)!HoursAssumption
    /\ Series(sc)!BoundsAssumption

\* What slots and calls are made of.
SlotPlaces(sc) ==
    [on : BOOLEAN, hour : sc.hours, holder : sc.moderators \union {sc.nobody}, roll : BOOLEAN,
     answer : [sc.moderators -> Series(sc)!Answers]]
SlotCards(sc) == SUBSET (sc.hours \X sc.moderators)
SlotWays == {"claim", "held", "free", "name", "convene", "row", "card", "write", "todo"}
SlotChains(sc) ==
    [at : SlotWays, slot : Nat, who : sc.moderators, placed : BOOLEAN,
     last : {"complete", "over", "todo"}, from : Nat, held : SUBSET Nat, now : Nat,
     taken : SlotCards(sc)]
SlotDeletes(sc) == [at : {"delete"}, gone : SUBSET Nat, wanted : SUBSET sc.hours]
SlotCreates(sc) == [at : {"create"}, wanted : SUBSET sc.hours]
SlotEnds(sc) ==
    UNION {{Series(sc)!Idle}, [at : {"list"}], [at : {"complete"}, slot : Nat],
           SlotDeletes(sc), SlotCreates(sc)}
SlotSteps(sc) == SlotChains(sc) \union SlotEnds(sc)

\* What is freed is a slot of the series.
SlotNamed(k, places) ==
    /\ k.at \in {"free", "name"} => k.held \subseteq places
    /\ k.at = "name" => k.now \in k.held

SlotShape(sc) ==
    /\ slot \in Seq(SlotPlaces(sc))
    /\ task \in [sc.moderators -> {"todo", "done"}]
    /\ card \in SlotCards(sc)
    /\ slot_call \in [sc.calls -> SlotSteps(sc)]
    /\ made \in Nat /\ made <= sc.made
    /\ apart \in SUBSET sc.moderators /\ behind \in BOOLEAN
    /\ \A c \in sc.calls : SlotNamed(slot_call[c], DOMAIN slot)

\* What a slot is made of.
LEMMA SlotsTyped ==
  ASSUME NEW sc, SlotAssumed(sc), SlotShape(sc)
  PROVE  /\ Len(slot) \in Nat /\ DOMAIN slot = 1 .. Len(slot)
         /\ \A s \in DOMAIN slot : slot[s] \in SlotPlaces(sc) /\ s \in Nat
  BY DEF SlotShape

\* What a call holds, from where it is.
LEMMA SlotsStepping ==
  ASSUME NEW sc, SlotAssumed(sc), SlotShape(sc), NEW c \in sc.calls
  PROVE  /\ slot_call[c].at \in SlotWays => slot_call[c] \in SlotChains(sc)
         /\ slot_call[c].at = "delete" => slot_call[c] \in SlotDeletes(sc)
         /\ slot_call[c].at = "create" => slot_call[c] \in SlotCreates(sc)
<1>1. slot_call[c] \in SlotSteps(sc)
  BY DEF SlotShape
<1>2. QED
  BY <1>1 DEF SlotSteps, SlotChains, SlotEnds, SlotWays, SlotDeletes, SlotCreates, Series!Idle

\* A call that is over.
LEMMA SlotsOver ==
  ASSUME NEW sc
  PROVE  Series(sc)!Idle \in SlotSteps(sc) /\ Series(sc)!Idle.at = "idle"
  BY DEF SlotSteps, SlotEnds, Series!Idle

\* A chain goes on to its next step.
LEMMA SlotsAtSet ==
  ASSUME NEW sc, NEW p \in SlotChains(sc), NEW a \in SlotWays
  PROVE  \E k \in SlotChains(sc) :
           /\ k = [p EXCEPT !.at = a] /\ k.at = a /\ k.slot = p.slot /\ k.who = p.who
           /\ k.placed = p.placed /\ k.last = p.last /\ k.from = p.from /\ k.held = p.held
           /\ k.now = p.now /\ k.taken = p.taken
<1> DEFINE g == [p EXCEPT !.at = a]
<1>1. /\ g \in SlotChains(sc) /\ g.at = a /\ g.slot = p.slot /\ g.who = p.who
      /\ g.placed = p.placed /\ g.last = p.last /\ g.from = p.from /\ g.held = p.held
      /\ g.now = p.now /\ g.taken = p.taken
  BY DEF SlotChains
<1>2. QED BY <1>1

\* A chain knows which slots are to be freed.
SlotHeldIs(k, p, H) ==
    /\ k = [p EXCEPT !.held = H]
    /\ k.at = p.at /\ k.slot = p.slot /\ k.who = p.who
    /\ k.placed = p.placed /\ k.last = p.last /\ k.from = p.from
    /\ k.held = H /\ k.now = p.now /\ k.taken = p.taken
LEMMA SlotsHeldSet ==
  ASSUME NEW sc, NEW p \in SlotChains(sc), NEW H \in SUBSET Nat
  PROVE  \E k \in SlotChains(sc) : SlotHeldIs(k, p, H)
<1> DEFINE g == [p EXCEPT !.held = H]
<1>1. /\ g \in SlotChains(sc)
      /\ g.at = p.at /\ g.slot = p.slot /\ g.who = p.who
      /\ g.placed = p.placed /\ g.last = p.last /\ g.from = p.from
      /\ g.held = H /\ g.now = p.now /\ g.taken = p.taken
  BY DEF SlotChains
<1>2. SlotHeldIs(g, p, H)
  BY <1>1 DEF SlotHeldIs
<1>3. QED BY <1>1, <1>2

\* A chain knows which slot it frees.
SlotNowIs(k, p, s) ==
    /\ k = [p EXCEPT !.now = s]
    /\ k.at = p.at /\ k.slot = p.slot /\ k.who = p.who
    /\ k.placed = p.placed /\ k.last = p.last /\ k.from = p.from
    /\ k.held = p.held /\ k.now = s /\ k.taken = p.taken
LEMMA SlotsNowSet ==
  ASSUME NEW sc, NEW p \in SlotChains(sc), NEW s \in Nat
  PROVE  \E k \in SlotChains(sc) : SlotNowIs(k, p, s)
<1> DEFINE g == [p EXCEPT !.now = s]
<1>1. /\ g \in SlotChains(sc)
      /\ g.at = p.at /\ g.slot = p.slot /\ g.who = p.who
      /\ g.placed = p.placed /\ g.last = p.last /\ g.from = p.from
      /\ g.held = p.held /\ g.now = s /\ g.taken = p.taken
  BY DEF SlotChains
<1>2. SlotNowIs(g, p, s)
  BY <1>1 DEF SlotNowIs
<1>3. QED BY <1>1, <1>2

\* A chain knows what it writes on the card.
SlotTakenIs(k, p, T) ==
    /\ k = [p EXCEPT !.taken = T]
    /\ k.at = p.at /\ k.slot = p.slot /\ k.who = p.who
    /\ k.placed = p.placed /\ k.last = p.last /\ k.from = p.from
    /\ k.held = p.held /\ k.now = p.now /\ k.taken = T
LEMMA SlotsTakenSet ==
  ASSUME NEW sc, NEW p \in SlotChains(sc), NEW T \in SlotCards(sc)
  PROVE  \E k \in SlotChains(sc) : SlotTakenIs(k, p, T)
<1> DEFINE g == [p EXCEPT !.taken = T]
<1>1. /\ g \in SlotChains(sc)
      /\ g.at = p.at /\ g.slot = p.slot /\ g.who = p.who
      /\ g.placed = p.placed /\ g.last = p.last /\ g.from = p.from
      /\ g.held = p.held /\ g.now = p.now /\ g.taken = T
  BY DEF SlotChains
<1>2. SlotTakenIs(g, p, T)
  BY <1>1 DEF SlotTakenIs
<1>3. QED BY <1>1, <1>2

\* The holder of a slot is written.
LEMMA SlotsHolderSet ==
  ASSUME NEW sc, NEW e \in SlotPlaces(sc), NEW m \in sc.moderators \union {sc.nobody}
  PROVE  \E f \in SlotPlaces(sc) : /\ f = [e EXCEPT !.holder = m] /\ f.on = e.on
                                   /\ f.hour = e.hour /\ f.holder = m /\ f.roll = e.roll
                                   /\ f.answer = e.answer
<1> DEFINE g == [e EXCEPT !.holder = m]
<1>1. /\ g \in SlotPlaces(sc) /\ g.on = e.on /\ g.hour = e.hour /\ g.holder = m
      /\ g.roll = e.roll /\ g.answer = e.answer
  BY DEF SlotPlaces
<1>2. QED BY <1>1

\* A slot is moved.
LEMMA SlotsHourSet ==
  ASSUME NEW sc, NEW e \in SlotPlaces(sc), NEW h \in sc.hours
  PROVE  \E f \in SlotPlaces(sc) : /\ f = [e EXCEPT !.hour = h] /\ f.on = e.on
                                   /\ f.hour = h /\ f.holder = e.holder /\ f.roll = e.roll
                                   /\ f.answer = e.answer
<1> DEFINE g == [e EXCEPT !.hour = h]
<1>1. /\ g \in SlotPlaces(sc) /\ g.on = e.on /\ g.hour = h /\ g.holder = e.holder
      /\ g.roll = e.roll /\ g.answer = e.answer
  BY DEF SlotPlaces
<1>2. QED BY <1>1

\* The roll-call of a slot is opened or closed.
SlotRollIs(f, e, r) ==
    /\ f = [e EXCEPT !.roll = r] /\ f.on = e.on /\ f.hour = e.hour /\ f.holder = e.holder
    /\ f.roll = r /\ f.answer = e.answer
LEMMA SlotsRollSet ==
  ASSUME NEW sc, NEW e \in SlotPlaces(sc), NEW r \in BOOLEAN
  PROVE  \E f \in SlotPlaces(sc) : SlotRollIs(f, e, r)
<1> DEFINE g == [e EXCEPT !.roll = r]
<1>1. /\ g \in SlotPlaces(sc) /\ g.on = e.on /\ g.hour = e.hour /\ g.holder = e.holder
      /\ g.roll = r /\ g.answer = e.answer
  BY DEF SlotPlaces
<1>2. SlotRollIs(g, e, r)
  BY <1>1 DEF SlotRollIs
<1>3. QED BY <1>1, <1>2

\* The answers of a slot are written.
LEMMA SlotsAnswerSet ==
  ASSUME NEW sc, NEW e \in SlotPlaces(sc), NEW a \in [sc.moderators -> Series(sc)!Answers]
  PROVE  \E f \in SlotPlaces(sc) : /\ f = [e EXCEPT !.answer = a] /\ f.on = e.on
                                   /\ f.hour = e.hour /\ f.holder = e.holder
                                   /\ f.roll = e.roll /\ f.answer = a
<1> DEFINE g == [e EXCEPT !.answer = a]
<1>1. /\ g \in SlotPlaces(sc) /\ g.on = e.on /\ g.hour = e.hour /\ g.holder = e.holder
      /\ g.roll = e.roll /\ g.answer = a
  BY DEF SlotPlaces
<1>2. QED BY <1>1

\* One answer of a slot is written.
LEMMA SlotsOneAnswerSet ==
  ASSUME NEW sc, NEW e \in SlotPlaces(sc), NEW m \in sc.moderators, NEW a \in Series(sc)!Answers
  PROVE  \E f \in SlotPlaces(sc) : /\ f = [e EXCEPT !.answer[m] = a] /\ f.on = e.on
                                   /\ f.hour = e.hour /\ f.holder = e.holder
                                   /\ f.roll = e.roll
                                   /\ \A n \in sc.moderators : n # m => f.answer[n] = e.answer[n]
<1>1. PICK b \in [sc.moderators -> Series(sc)!Answers] :
         b = [e.answer EXCEPT ![m] = a] /\ \A n \in sc.moderators : n # m => b[n] = e.answer[n]
  BY DEF SlotPlaces
<1>2. PICK f \in SlotPlaces(sc) :
         f = [e EXCEPT !.answer = b] /\ f.on = e.on /\ f.hour = e.hour /\ f.holder = e.holder
         /\ f.roll = e.roll /\ f.answer = b
  BY SlotsAnswerSet
<1>3. f = [e EXCEPT !.answer[m] = a]
  BY <1>1, <1>2
<1>4. QED BY <1>1, <1>2, <1>3

\* Nobody is asked.
LEMMA SlotsNoAnswer ==
  ASSUME NEW sc
  PROVE  /\ Series(sc)!NoAnswer \in [sc.moderators -> Series(sc)!Answers]
         /\ \A m \in sc.moderators : Series(sc)!NoAnswer[m] = "none"
  BY DEF Series!NoAnswer, Series!Answers

-----------------------------------------------------------------------------
(* What is told of the slots *)

SlotOwn(sc, m) == /\ \A s, t \in Series(sc)!HeldBy(m) : s = t
                  /\ task[m] = "done" <=> Series(sc)!HeldBy(m) # {}
\* Those left apart excepted, a task says whether its moderator holds a slot, or is yet to be
\* written by the request; so is the card.
SlotSettled(sc, k) ==
    \A m \in sc.moderators :
      m \in apart \/ SlotOwn(sc, m) \/ (Series(sc)!Unsettled(k) /\ k.who = m)
SlotDisplayed(sc, k) == behind \/ card = Series(sc)!Taken \/ Series(sc)!Unwritten(k)
SlotAnswersTrue(sc) ==
    \A s \in DOMAIN slot, m \in sc.moderators :
      slot[s].answer[m] # "none" => slot[s].roll /\ slot[s].holder = m
\* What a slot given leaves to be freed is all its moderator held; a slot cancelled is theirs.
SlotToFree(sc, k) ==
    /\ k.slot \in Series(sc)!HeldBy(k.who)
    /\ IF k.last = "todo"
         THEN /\ k.held = {k.slot}
              /\ k.who \in apart \/ Series(sc)!HeldBy(k.who) = {k.slot}
         ELSE k.slot \notin k.held /\ Series(sc)!HeldBy(k.who) = k.held \union {k.slot}
SlotCallTrue(sc, k) ==
    /\ SlotSettled(sc, k)
    /\ SlotDisplayed(sc, k)
    /\ k.at \in {"claim", "held", "convene", "row"} => k.last # "todo"
    /\ k.at \in {"held", "convene", "row"} => k.slot \in Series(sc)!HeldBy(k.who)
    /\ k.at = "row" => slot[k.slot].roll
    /\ k.at \in {"free", "name"} => SlotToFree(sc, k)
    /\ k.at = "name" => \A m \in sc.moderators : slot[k.now].answer[m] = "none"
    /\ k.at \in {"card", "write", "todo"} /\ k.last = "todo"
         => k.who \in apart \/ Series(sc)!HeldBy(k.who) = {}
    /\ k.at = "todo" => k.last = "todo"
    /\ k.at = "write" => k.taken = Series(sc)!Taken
    /\ k.at = "delete" => k.gone \subseteq Series(sc)!OpenSlots
SlotInTurn(sc) == \A c, d \in sc.calls : c = d
SlotTold(sc) ==
    /\ SlotInTurn(sc)
    /\ SlotAnswersTrue(sc)
    /\ \A c \in sc.calls : SlotCallTrue(sc, slot_call[c])
    /\ Series(sc)!Quiet => SlotCallTrue(sc, Series(sc)!Idle)

SlotBusy(k, m) ==
    k.who = m /\ (k.at = "held" \/ (k.at \in {"free", "name"} /\ k.held # {}))
SlotCovered(sc) ==
    /\ sc.slots \in Nat /\ sc.slots <= 2 /\ Len(slot) <= sc.slots /\ "fail" \notin sc.requests
    /\ \A m \in sc.moderators : \A s, t \in Series(sc)!HeldBy(m) :
         s # t => \E c \in sc.calls : SlotBusy(slot_call[c], m)

\* One call goes on.
LEMMA SlotsGoing ==
  ASSUME NEW sc, SlotAssumed(sc), SlotShape(sc), NEW c \in sc.calls, NEW k \in SlotSteps(sc),
         slot_call' = [slot_call EXCEPT ![c] = k]
  PROVE  slot_call' \in [sc.calls -> SlotSteps(sc)] /\ slot_call'[c] = k
         /\ \A d \in sc.calls : d # c => slot_call'[d] = slot_call[d]
  BY DEF SlotShape

\* One call goes on, slots grow, the rest is written.
LEMMA SlotsShapeGoes ==
  ASSUME NEW sc, SlotAssumed(sc), SlotShape(sc), NEW c \in sc.calls, NEW k \in SlotSteps(sc),
         slot_call' = [slot_call EXCEPT ![c] = k], SlotNamed(k, DOMAIN slot'),
         slot' \in Seq(SlotPlaces(sc)), DOMAIN slot \subseteq DOMAIN slot',
         task' \in [sc.moderators -> {"todo", "done"}], card' \in SlotCards(sc),
         made' = made \/ (made < sc.made /\ made' = made + 1),
         apart' \in SUBSET sc.moderators, behind' \in BOOLEAN
  PROVE  SlotShape(sc)'
<1>1. slot_call' \in [sc.calls -> SlotSteps(sc)] /\ slot_call'[c] = k
      /\ \A d \in sc.calls : d # c => slot_call'[d] = slot_call[d]
  BY SlotsGoing
<1>2. made' \in Nat /\ made' <= sc.made
  BY DEF SlotShape, Series!BoundsAssumption, SlotAssumed
<1>3. ASSUME NEW d \in sc.calls PROVE SlotNamed(slot_call'[d], DOMAIN slot')
  <2>1. CASE d = c
    BY <1>1, <2>1
  <2>2. CASE d # c
    BY <1>1, <2>2 DEF SlotShape, SlotNamed
  <2>3. QED BY <2>1, <2>2
<1>4. (\A d \in sc.calls : SlotNamed(slot_call[d], DOMAIN slot))'
  BY <1>3 DEF SlotNamed
<1>5. QED BY <1>1, <1>2, <1>4 DEF SlotShape

\* What is read of the slots depends on them alone.
LEMMA SlotsSame ==
  ASSUME NEW sc, UNCHANGED slot
  PROVE  /\ \A n : Series(sc)!HeldBy(n)' = Series(sc)!HeldBy(n)
         /\ Series(sc)!OpenSlots' = Series(sc)!OpenSlots
         /\ Series(sc)!TakenSlots' = Series(sc)!TakenSlots /\ Series(sc)!Taken' = Series(sc)!Taken
  BY DEF Series!HeldBy, Series!OpenSlots, Series!TakenSlots, Series!Taken

\* The card shows hours and moderators.
LEMMA SlotsCardTyped ==
  ASSUME NEW sc, SlotAssumed(sc), SlotShape(sc)
  PROVE  Series(sc)!Taken \in SlotCards(sc)
<1>1. ASSUME NEW s \in DOMAIN slot, slot[s].holder # sc.nobody
      PROVE  slot[s].holder \in sc.moderators /\ slot[s].hour \in sc.hours
  BY <1>1, SlotsTyped DEF SlotPlaces
<1>2. QED BY <1>1 DEF Series!Taken, Series!TakenSlots, SlotCards

\* One call goes on, in turn.
LEMMA SlotsTelling ==
  ASSUME NEW sc, SlotAssumed(sc), SlotShape(sc), SlotTold(sc), NEW c \in sc.calls,
         NEW k \in SlotSteps(sc), slot_call' = [slot_call EXCEPT ![c] = k],
         SlotAnswersTrue(sc)', SlotCallTrue(sc, k)'
  PROVE  SlotTold(sc)'
<1>1. \A d \in sc.calls : d = c
  BY DEF SlotTold, SlotInTurn
<1>2. slot_call'[c] = k
  BY SlotsGoing
<1>3. \A d \in sc.calls : SlotCallTrue(sc, slot_call[d])'
  BY <1>1, <1>2
<1>4. Series(sc)!Quiet' => SlotCallTrue(sc, Series(sc)!Idle)'
  <2>1. ASSUME Series(sc)!Quiet' PROVE k = Series(sc)!Idle
    BY <1>2, <2>1 DEF Series!Quiet
  <2>2. QED BY <2>1
<1>5. QED BY <1>3, <1>4 DEF SlotTold, SlotInTurn

\* A call that is at rest, or lists and deletes, tells only that all is settled.
SlotLight == {"idle", "complete", "list", "create"}
LEMMA SlotsLight ==
  ASSUME NEW sc, NEW k, k.at \in SlotLight \union {"claim", "delete"}
  PROVE  /\ ~Series(sc)!Unsettled(k) /\ ~Series(sc)!Unwritten(k)
         /\ \A m : ~SlotBusy(k, m)
         /\ k.at \in SlotLight =>
              (SlotCallTrue(sc, k) <=> SlotSettled(sc, k) /\ SlotDisplayed(sc, k))
         /\ SlotSettled(sc, k) <=> \A m \in sc.moderators : m \in apart \/ SlotOwn(sc, m)
         /\ SlotDisplayed(sc, k) <=> behind \/ card = Series(sc)!Taken
<1>1. ~Series(sc)!Unsettled(k) /\ ~Series(sc)!Unwritten(k)
  BY DEF SlotLight, Series!Unsettled, Series!Unwritten
<1>2. \A m : ~SlotBusy(k, m)
  BY DEF SlotLight, SlotBusy
<1>3. k.at \in SlotLight =>
        (SlotCallTrue(sc, k) <=> SlotSettled(sc, k) /\ SlotDisplayed(sc, k))
  BY DEF SlotLight, SlotCallTrue
<1>4. QED BY <1>1, <1>2, <1>3 DEF SlotSettled, SlotDisplayed

\* Such a call goes on to such a call, or one that ends.
LEMMA SlotsLightTelling ==
  ASSUME NEW sc, SlotAssumed(sc), SlotShape(sc), SlotTold(sc), NEW c \in sc.calls,
         NEW k \in SlotSteps(sc), slot_call' = [slot_call EXCEPT ![c] = k],
         k.at \in SlotLight,
         SlotAnswersTrue(sc)',
         \A m \in sc.moderators : m \in apart' \/ SlotOwn(sc, m)',
         behind' \/ card' = Series(sc)!Taken'
  PROVE  SlotTold(sc)'
<1>1. /\ ~Series(sc)!Unsettled(k) /\ ~Series(sc)!Unwritten(k)
  BY SlotsLight
<1>2. SlotSettled(sc, k)' /\ SlotDisplayed(sc, k)'
  BY <1>1 DEF SlotSettled, SlotDisplayed
<1>3. SlotCallTrue(sc, k)'
  BY <1>2 DEF SlotCallTrue, SlotLight
<1>4. QED BY <1>3, SlotsTelling

\* One call goes on, among others.
LEMMA SlotsCovering ==
  ASSUME NEW sc, SlotAssumed(sc), SlotShape(sc), SlotCovered(sc), NEW c \in sc.calls,
         NEW k \in SlotSteps(sc), slot_call' = [slot_call EXCEPT ![c] = k],
         Len(slot') <= sc.slots,
         \A m \in sc.moderators :
           \/ Series(sc)!HeldBy(m)' \subseteq Series(sc)!HeldBy(m)
              /\ (SlotBusy(slot_call[c], m) => SlotBusy(k, m))
           \/ SlotBusy(k, m)
           \/ \A s, t \in Series(sc)!HeldBy(m)' : s = t
  PROVE  SlotCovered(sc)'
<1>1. slot_call'[c] = k /\ \A d \in sc.calls : d # c => slot_call'[d] = slot_call[d]
  BY SlotsGoing
<1>2. ASSUME NEW m \in sc.moderators, NEW s \in Series(sc)!HeldBy(m)',
             NEW t \in Series(sc)!HeldBy(m)', s # t
      PROVE  \E d \in sc.calls : SlotBusy(slot_call'[d], m)
  <2>1. CASE SlotBusy(k, m)
    BY <1>1, <2>1
  <2>2. CASE ~SlotBusy(k, m)
    <3>1. Series(sc)!HeldBy(m)' \subseteq Series(sc)!HeldBy(m) /\ ~SlotBusy(slot_call[c], m)
      BY <1>2, <2>2
    <3>2. PICK d \in sc.calls : SlotBusy(slot_call[d], m)
      BY <1>2, <3>1 DEF SlotCovered
    <3>3. QED BY <1>1, <3>1, <3>2
  <2>3. QED BY <2>1, <2>2
<1>3. QED BY <1>2 DEF SlotCovered

\* A step that only moves a call.
LEMMA SlotsResting ==
  ASSUME NEW sc, SlotAssumed(sc), SlotShape(sc), NEW c \in sc.calls, NEW k \in SlotSteps(sc),
         slot_call' = [slot_call EXCEPT ![c] = k], SlotNamed(k, DOMAIN slot),
         UNCHANGED <<slot, task, card, apart, behind>>,
         made' = made \/ (made < sc.made /\ made' = made + 1)
  PROVE  /\ SlotShape(sc)'
         /\ SlotTold(sc) /\ SlotCallTrue(sc, k) => SlotTold(sc)'
         /\ SlotCovered(sc) /\ (\A m \in sc.moderators : SlotBusy(slot_call[c], m) =>
                          SlotBusy(k, m) \/ \A s, t \in Series(sc)!HeldBy(m) : s = t)
                          => SlotCovered(sc)'
<1>1. SlotShape(sc)'
  BY SlotsShapeGoes DEF SlotShape
<1>2. \A n : Series(sc)!HeldBy(n)' = Series(sc)!HeldBy(n)
  BY SlotsSame
<1>3. Series(sc)!Taken' = Series(sc)!Taken /\ Series(sc)!OpenSlots' = Series(sc)!OpenSlots
  BY SlotsSame
<1>4. ASSUME SlotTold(sc), SlotCallTrue(sc, k) PROVE SlotTold(sc)'
  <2>1. \A m : SlotOwn(sc, m)' = SlotOwn(sc, m)
    BY <1>2 DEF SlotOwn
  <2>2. SlotSettled(sc, k)' /\ SlotDisplayed(sc, k)'
    BY <1>3, <1>4, <2>1 DEF SlotCallTrue, SlotSettled, SlotDisplayed
  <2>3. SlotToFree(sc, k)' = SlotToFree(sc, k)
    BY <1>2 DEF SlotToFree
  <2>4. SlotCallTrue(sc, k)'
    BY <1>2, <1>3, <1>4, <2>2, <2>3 DEF SlotCallTrue
  <2>5. SlotAnswersTrue(sc)'
    BY <1>4 DEF SlotTold, SlotAnswersTrue
  <2>6. QED BY <1>4, <2>4, <2>5, SlotsTelling
<1>5. ASSUME SlotCovered(sc), \A m \in sc.moderators : SlotBusy(slot_call[c], m) =>
                          SlotBusy(k, m) \/ \A s, t \in Series(sc)!HeldBy(m) : s = t
      PROVE  SlotCovered(sc)'
  BY <1>2, <1>5, SlotsCovering DEF SlotCovered
<1>6. QED BY <1>1, <1>4, <1>5

\* A query that throws: those the request left on the way are apart, the card behind.
LEMMA SlotsThrowSound ==
  ASSUME NEW sc, SlotAssumed(sc), SlotShape(sc), NEW c \in sc.calls,
         Series(sc)!Throws(c), UNCHANGED <<slot, task, card>>,
         made' = made \/ (made < sc.made /\ made' = made + 1)
  PROVE  /\ SlotShape(sc)'
         /\ SlotTold(sc) => SlotTold(sc)'
         /\ SlotCovered(sc) /\ (\A m \in sc.moderators : SlotBusy(slot_call[c], m) =>
                                  \A s, t \in Series(sc)!HeldBy(m) : s = t)
              => SlotCovered(sc)'
<1> DEFINE k == slot_call[c]
           e == Series(sc)!Idle
<1>1. /\ slot_call' = [slot_call EXCEPT ![c] = e]
      /\ apart' = IF Series(sc)!Unsettled(k) THEN apart \union {k.who} ELSE apart
      /\ behind' = (behind \/ Series(sc)!Unwritten(k))
  BY DEF Series!Throws
<1>2. e \in SlotSteps(sc) /\ e.at = "idle" /\ e.at \in SlotLight
  BY SlotsOver DEF SlotLight
<1>3. Series(sc)!Unsettled(k) => k.who \in sc.moderators
  BY SlotsStepping DEF Series!Unsettled, SlotWays, SlotChains
<1>4. SlotNamed(e, DOMAIN slot)
  BY <1>2 DEF SlotNamed
<1>5. SlotShape(sc)'
  BY <1>1, <1>2, <1>3, <1>4, SlotsShapeGoes DEF SlotShape
<1>6. /\ \A n : Series(sc)!HeldBy(n)' = Series(sc)!HeldBy(n)
      /\ Series(sc)!Taken' = Series(sc)!Taken
  BY SlotsSame
<1>7. ASSUME SlotTold(sc) PROVE SlotTold(sc)'
  <2>1. SlotSettled(sc, k) /\ SlotDisplayed(sc, k)
    BY <1>7 DEF SlotTold, SlotCallTrue
  <2>2. \A m \in sc.moderators : m \in apart' \/ SlotOwn(sc, m)'
    BY <1>1, <1>6, <2>1 DEF SlotSettled, SlotOwn
  <2>3. behind' \/ card' = Series(sc)!Taken'
    BY <1>1, <1>6, <2>1 DEF SlotDisplayed
  <2>4. SlotAnswersTrue(sc)'
    BY <1>7 DEF SlotTold, SlotAnswersTrue
  <2>5. QED BY <1>1, <1>2, <1>7, <2>2, <2>3, <2>4, SlotsLightTelling
<1>8. SlotCovered(sc) /\ (\A m \in sc.moderators : SlotBusy(slot_call[c], m) =>
                            \A s, t \in Series(sc)!HeldBy(m) : s = t)
        => SlotCovered(sc)'
  BY <1>1, <1>2, <1>6, SlotsCovering DEF SlotCovered
<1>9. QED BY <1>5, <1>7, <1>8

-----------------------------------------------------------------------------
(* Each step *)

\* What a request starts with.
SlotAboutIs(sc, k, a, s, m, b, l, f, H) ==
    /\ k = Series(sc)!About(a, s, m, b, l, f, H)
    /\ k.at = a /\ k.slot = s /\ k.who = m /\ k.last = l /\ k.held = H
LEMMA SlotsAbout ==
  ASSUME NEW sc, NEW a \in SlotWays, NEW s \in Nat, NEW m \in sc.moderators, NEW b \in BOOLEAN,
         NEW l \in {"complete", "over", "todo"}, NEW f \in Nat, NEW H \in SUBSET Nat
  PROVE  \E k \in SlotChains(sc) : SlotAboutIs(sc, k, a, s, m, b, l, f, H)
<1> DEFINE g == Series(sc)!About(a, s, m, b, l, f, H)
<1>1. g \in SlotChains(sc) /\ g.at = a /\ g.slot = s /\ g.who = m /\ g.last = l /\ g.held = H
  BY DEF SlotChains, SlotCards, Series!About
<1>2. SlotAboutIs(sc, g, a, s, m, b, l, f, H)
  BY <1>1 DEF SlotAboutIs
<1>3. QED BY <1>1, <1>2

\* Requests that start: to give a slot, to cancel one, to list the free ones.
LEMMA SlotsAskSound ==
  ASSUME NEW sc, SlotAssumed(sc), SlotShape(sc), NEW c \in sc.calls,
         \/ \E s \in DOMAIN slot, m \in sc.moderators : Series(sc)!TakeSlot(c, s, m)
            \/ Series(sc)!PlaceSlot(c, s, m)
         \/ \E s, t \in DOMAIN slot : Series(sc)!MoveSlot(c, s, t)
         \/ \E s \in DOMAIN slot : Series(sc)!CancelSlot(c, s)
         \/ Series(sc)!RemoveOpenSlots(c) \/ Series(sc)!ReshapeSeries(c)
  PROVE  SlotShape(sc)' /\ (SlotTold(sc) => SlotTold(sc)') /\ (SlotCovered(sc) => SlotCovered(sc)')
<1>1. PICK k \in SlotSteps(sc) :
        /\ slot_call' = [slot_call EXCEPT ![c] = k]
        /\ k.at \in {"claim", "free", "list", "delete"}
        /\ k.at = "claim" => k.last # "todo"
        /\ k.at = "free" => /\ k.last = "todo" /\ k.who \in sc.moderators
                            /\ k.slot \in Series(sc)!HeldBy(k.who) /\ k.held = {k.slot}
        /\ k.at = "delete" => k.gone \subseteq Series(sc)!OpenSlots
  <2>1. CASE \E s \in DOMAIN slot, m \in sc.moderators : Series(sc)!TakeSlot(c, s, m)
             \/ Series(sc)!PlaceSlot(c, s, m)
    <3>1. PICK s \in DOMAIN slot, m \in sc.moderators, b \in BOOLEAN :
            slot_call' = [slot_call EXCEPT ![c] =
                            Series(sc)!About("claim", s, m, b, "complete", s, {})]
      BY <2>1 DEF Series!TakeSlot, Series!PlaceSlot, Series!Ask
    <3>2. PICK k \in SlotChains(sc) : SlotAboutIs(sc, k, "claim", s, m, b, "complete", s, {})
      BY SlotsTyped, SlotsAbout DEF SlotWays
    <3>3. QED BY <3>1, <3>2 DEF SlotSteps, SlotAboutIs
  <2>2. CASE \E s, t \in DOMAIN slot : Series(sc)!MoveSlot(c, s, t)
    <3>1. PICK s \in DOMAIN slot, t \in DOMAIN slot : Series(sc)!MoveSlot(c, s, t)
      BY <2>2
    <3>2. PICK m \in sc.moderators : m = slot[s].holder
      BY <3>1, SlotsTyped DEF Series!MoveSlot, Series!TakenSlots, SlotPlaces
    <3>3. s \in Nat /\ t \in Nat /\ "claim" \in SlotWays /\ {} \in SUBSET Nat
      BY SlotsTyped DEF SlotWays
    <3>4. PICK k \in SlotChains(sc) : SlotAboutIs(sc, k, "claim", t, m, TRUE, "over", s, {})
      BY <3>3, SlotsAbout
    <3>5. slot_call' = [slot_call EXCEPT ![c] = k]
      BY <3>1, <3>2, <3>4 DEF Series!MoveSlot, Series!Ask, SlotAboutIs
    <3>6. QED BY <3>4, <3>5 DEF SlotSteps, SlotAboutIs
  <2>3. CASE \E s \in DOMAIN slot : Series(sc)!CancelSlot(c, s)
    <3>1. PICK s \in DOMAIN slot : Series(sc)!CancelSlot(c, s)
      BY <2>3
    <3>2. PICK m \in sc.moderators : m = slot[s].holder /\ slot[s].on
      BY <3>1, SlotsTyped DEF Series!CancelSlot, SlotPlaces, Series!TakenSlots
    <3>3. s \in Nat /\ "free" \in SlotWays /\ {s} \in SUBSET Nat
      BY SlotsTyped DEF SlotWays
    <3>4. PICK k \in SlotChains(sc) : SlotAboutIs(sc, k, "free", s, m, FALSE, "todo", s, {s})
      BY <3>3, SlotsAbout
    <3>5. slot_call' = [slot_call EXCEPT ![c] = k] /\ s \in Series(sc)!HeldBy(m)
      BY <3>1, <3>2, <3>4 DEF Series!CancelSlot, Series!Ask, Series!HeldBy, SlotAboutIs
    <3>6. QED BY <3>4, <3>5 DEF SlotSteps, SlotAboutIs
  <2>4. CASE Series(sc)!RemoveOpenSlots(c)
    <3>1. [at |-> "list"] \in SlotSteps(sc) /\ [at |-> "list"].at = "list"
      BY DEF SlotSteps, SlotEnds
    <3>2. QED BY <2>4, <3>1 DEF Series!RemoveOpenSlots, Series!Ask
  <2>5. CASE Series(sc)!ReshapeSeries(c)
    <3>1. PICK unheld \in SUBSET Series(sc)!OpenSlots, wanted \in SUBSET sc.hours :
            slot_call' = [slot_call EXCEPT ![c] = [at |-> "delete", gone |-> unheld,
            wanted |-> wanted]]
      BY <2>5 DEF Series!ReshapeSeries, Series!Ask
    <3>2. unheld \subseteq Nat
      BY <3>1, SlotsTyped DEF Series!OpenSlots, Series!HeldBy
    <3> DEFINE k == [at |-> "delete", gone |-> unheld, wanted |-> wanted]
    <3>3. k \in SlotSteps(sc) /\ k.at = "delete" /\ k.gone \subseteq Series(sc)!OpenSlots
      BY <3>2 DEF SlotSteps, SlotEnds, SlotDeletes
    <3>4. QED BY <3>1, <3>3
  <2>6. QED BY <2>1, <2>2, <2>3, <2>4, <2>5
<1>2. /\ slot_call[c] = Series(sc)!Idle /\ UNCHANGED <<slot, task, card, apart, behind>>
      /\ made < sc.made /\ made' = made + 1
  BY DEF Series!TakeSlot, Series!PlaceSlot, Series!MoveSlot, Series!CancelSlot,
        Series!RemoveOpenSlots, Series!ReshapeSeries, Series!Ask, Series!Counts
<1>3. slot_call[c].at = "idle" /\ slot_call[c].at \in SlotLight
  BY <1>2 DEF Series!Idle, SlotLight
<1>4. SlotNamed(k, DOMAIN slot)
  BY <1>1 DEF SlotNamed, Series!HeldBy
<1>5. SlotTold(sc) => SlotCallTrue(sc, k)
  <2> SUFFICES ASSUME SlotTold(sc) PROVE SlotCallTrue(sc, k)
    OBVIOUS
  <2>1. SlotCallTrue(sc, slot_call[c])
    BY DEF SlotTold
  <2>2. /\ \A m \in sc.moderators : m \in apart \/ SlotOwn(sc, m)
        /\ behind \/ card = Series(sc)!Taken
    BY <1>3, <2>1, SlotsLight
  <2>3. SlotSettled(sc, k) /\ SlotDisplayed(sc, k)
    BY <2>2 DEF SlotSettled, SlotDisplayed
  <2>4. ASSUME k.at = "free" PROVE SlotToFree(sc, k)
    BY <1>1, <2>2, <2>4 DEF SlotToFree, SlotOwn
  <2>5. QED BY <1>1, <2>3, <2>4 DEF SlotCallTrue
<1>6. \A m : ~SlotBusy(slot_call[c], m)
  BY <1>3, SlotsLight
<1>7. QED BY <1>1, <1>2, <1>4, <1>5, <1>6, SlotsResting

\* A chain's steps that read, and write nothing but where it is.
LEMMA SlotsReadSound ==
  ASSUME NEW sc, SlotAssumed(sc), SlotShape(sc), NEW c \in sc.calls,
         Series(sc)!FindHeld(c) \/ (Series(sc)!ReadCard(c)
                                    /\ Series(sc)!There(slot_call[c].from))
  PROVE  SlotShape(sc)' /\ (SlotTold(sc) => SlotTold(sc)') /\ (SlotCovered(sc) => SlotCovered(sc)')
<1>1. UNCHANGED <<slot, task, card, apart, behind>> /\ made' = made
  BY DEF Series!FindHeld, Series!ReadCard, Series!Goes, Series!Moves
<1>2. PICK p \in SlotChains(sc) : p = slot_call[c] /\ p.at \in {"held", "card"}
  BY SlotsStepping DEF Series!FindHeld, Series!ReadCard, SlotWays
<1>3. PICK m \in sc.moderators : m = p.who
  BY <1>2 DEF SlotChains
<1>4. SlotTold(sc) => SlotCallTrue(sc, p)
  BY <1>2 DEF SlotTold
<1>5. CASE Series(sc)!FindHeld(c)
  <2>1. p.at = "held"
    BY <1>2, <1>5 DEF Series!FindHeld
  <2>2. PICK H : H = Series(sc)!HeldBy(m) \ {p.slot}
    OBVIOUS
  <2>3. H \subseteq DOMAIN slot /\ H \in SUBSET Nat
    BY <2>2, SlotsTyped DEF Series!HeldBy
  <2>4. PICK q \in SlotChains(sc) : q = [p EXCEPT !.at = "free"] /\ q.at = "free"
          /\ q.slot = p.slot /\ q.who = m /\ q.last = p.last
    BY <1>3, SlotsAtSet DEF SlotWays
  <2>5. PICK k \in SlotChains(sc) : SlotHeldIs(k, q, H)
    BY <2>3, SlotsHeldSet
  <2>6. k = [q EXCEPT !.held = H] /\ k.at = "free"
        /\ k.slot = p.slot /\ k.who = m /\ k.last = p.last /\ k.held = H
    BY <2>4, <2>5 DEF SlotHeldIs
  <2>7. slot_call' = [slot_call EXCEPT ![c] = k]
    <3>1. slot_call' = [slot_call EXCEPT ![c] = [p EXCEPT !.at = "free", !.held = H]]
      BY <1>2, <1>3, <1>5, <2>2 DEF Series!FindHeld, Series!Goes, Series!Moves, Series!Others
    <3>2. QED BY <2>4, <2>6, <3>1
  <2>8. k \in SlotSteps(sc) /\ SlotNamed(k, DOMAIN slot)
    BY <2>3, <2>6 DEF SlotSteps, SlotNamed
  <2>9. SlotTold(sc) => SlotCallTrue(sc, k)
    <3> SUFFICES ASSUME SlotCallTrue(sc, p) PROVE SlotCallTrue(sc, k)
      BY <1>4
    <3>1. p.last # "todo" /\ p.slot \in Series(sc)!HeldBy(m)
      BY <1>3, <2>1 DEF SlotCallTrue
    <3>2. SlotToFree(sc, k)
      BY <2>2, <2>6, <3>1 DEF SlotToFree
    <3>3. Series(sc)!Unsettled(k) /\ Series(sc)!Unwritten(k)
      BY <2>6, <3>1 DEF Series!Unsettled, Series!Unwritten
    <3>4. SlotSettled(sc, k) /\ SlotDisplayed(sc, k)
      BY <1>3, <2>6, <3>3 DEF SlotCallTrue, SlotSettled, SlotDisplayed
    <3>5. QED BY <2>6, <3>2, <3>4 DEF SlotCallTrue
  <2>10. \A n \in sc.moderators : SlotBusy(slot_call[c], n) => SlotBusy(k, n)
                                 \/ \A s, t \in Series(sc)!HeldBy(n) : s = t
    BY <1>2, <1>3, <2>2, <2>6 DEF SlotBusy
  <2>11. QED BY <1>1, <2>7, <2>8, <2>9, <2>10, SlotsResting
<1>6. CASE Series(sc)!ReadCard(c) /\ Series(sc)!There(slot_call[c].from)
  <2>1. p.at = "card"
    BY <1>2, <1>6 DEF Series!ReadCard
  <2>2. PICK T \in SlotCards(sc) : T = Series(sc)!Taken
    BY SlotsCardTyped
  <2>3. PICK q \in SlotChains(sc) : q = [p EXCEPT !.at = "write"] /\ q.at = "write"
          /\ q.slot = p.slot /\ q.who = m /\ q.last = p.last
    BY <1>3, SlotsAtSet DEF SlotWays
  <2>4. PICK k \in SlotChains(sc) : SlotTakenIs(k, q, T)
    BY SlotsTakenSet
  <2>5. k = [q EXCEPT !.taken = T] /\ k.at = "write"
        /\ k.slot = p.slot /\ k.who = m /\ k.last = p.last /\ k.taken = T
    BY <2>3, <2>4 DEF SlotTakenIs
  <2>6. slot_call' = [slot_call EXCEPT ![c] = k]
    <3>1. slot_call' = [slot_call EXCEPT ![c] = [p EXCEPT !.at = "write", !.taken = T]]
      BY <1>2, <1>6, <2>2 DEF Series!ReadCard, Series!Goes, Series!Moves
    <3>2. QED BY <2>3, <2>5, <3>1
  <2>7. k \in SlotSteps(sc) /\ SlotNamed(k, DOMAIN slot)
    BY <2>5 DEF SlotSteps, SlotNamed
  <2>8. SlotTold(sc) => SlotCallTrue(sc, k)
    <3> SUFFICES ASSUME SlotCallTrue(sc, p) PROVE SlotCallTrue(sc, k)
      BY <1>4
    <3>1. /\ Series(sc)!Unsettled(k) <=> Series(sc)!Unsettled(p)
          /\ Series(sc)!Unwritten(k)
      BY <2>1, <2>5 DEF Series!Unsettled, Series!Unwritten
    <3>2. SlotSettled(sc, k) /\ SlotDisplayed(sc, k)
      BY <1>3, <2>5, <3>1 DEF SlotCallTrue, SlotSettled, SlotDisplayed
    <3>3. k.last = "todo" => k.who \in apart \/ Series(sc)!HeldBy(k.who) = {}
      BY <1>3, <2>1, <2>5 DEF SlotCallTrue
    <3>4. QED BY <2>2, <2>5, <3>2, <3>3 DEF SlotCallTrue
  <2>9. \A n \in sc.moderators : ~SlotBusy(slot_call[c], n)
    BY <1>2, <2>1 DEF SlotBusy
  <2>10. QED BY <1>1, <2>6, <2>7, <2>8, <2>9, SlotsResting
<1>7. QED BY <1>5, <1>6

\* The free slots are listed, when all come or on request.
LEMMA SlotsListSound ==
  ASSUME NEW sc, SlotAssumed(sc), SlotShape(sc), NEW c \in sc.calls,
         Series(sc)!CloseSeriesIfComplete(c) \/ Series(sc)!ListOpenSlots(c)
  PROVE  SlotShape(sc)' /\ (SlotTold(sc) => SlotTold(sc)') /\ (SlotCovered(sc) => SlotCovered(sc)')
<1>1. UNCHANGED <<slot, task, card, apart, behind>> /\ made' = made
  BY DEF Series!CloseSeriesIfComplete, Series!ListOpenSlots, Series!Goes, Series!Moves
<1>2. slot_call[c].at \in {"complete", "list"} /\ slot_call[c].at \in SlotLight
  BY DEF Series!CloseSeriesIfComplete, Series!ListOpenSlots, SlotLight
<1>3. PICK k \in SlotSteps(sc) :
          /\ slot_call' = [slot_call EXCEPT ![c] = k]
          /\ k.at \in {"list", "idle", "delete"}
          /\ k.at = "delete" => k.gone \subseteq Series(sc)!OpenSlots
  <2>1. [at |-> "list"] \in SlotSteps(sc)
    BY DEF SlotSteps, SlotEnds
  <2>2. CASE Series(sc)!CloseSeriesIfComplete(c)
    BY <2>1, <2>2, SlotsOver DEF Series!CloseSeriesIfComplete, Series!Goes, Series!Moves
  <2>3. CASE Series(sc)!ListOpenSlots(c)
    <3>1. PICK unheld : unheld = Series(sc)!OpenSlots /\ unheld \in SUBSET Nat
      BY SlotsTyped DEF Series!OpenSlots, Series!HeldBy
    <3> DEFINE k == [at |-> "delete", gone |-> unheld, wanted |-> {}]
    <3>2. k \in SlotSteps(sc) /\ k.at = "delete" /\ k.gone \subseteq Series(sc)!OpenSlots
      BY <3>1 DEF SlotSteps, SlotEnds, SlotDeletes
    <3>3. slot_call' = [slot_call EXCEPT ![c] = k]
      BY <2>3, <3>1 DEF Series!ListOpenSlots, Series!Goes, Series!Moves
    <3>4. QED BY <3>2, <3>3
  <2>4. QED BY <2>2, <2>3
<1>4. SlotNamed(k, DOMAIN slot)
  BY <1>3 DEF SlotNamed
<1>5. SlotTold(sc) => SlotCallTrue(sc, k)
  <2> SUFFICES ASSUME SlotTold(sc) PROVE SlotCallTrue(sc, k)
    OBVIOUS
  <2>1. SlotCallTrue(sc, slot_call[c])
    BY DEF SlotTold
  <2>2. /\ \A m \in sc.moderators : m \in apart \/ SlotOwn(sc, m)
        /\ behind \/ card = Series(sc)!Taken
    BY <1>2, <2>1, SlotsLight
  <2>3. QED BY <1>3, <2>2 DEF SlotCallTrue, SlotSettled, SlotDisplayed
<1>6. \A m : ~SlotBusy(slot_call[c], m)
  BY <1>2, SlotsLight
<1>7. QED BY <1>1, <1>3, <1>4, <1>5, <1>6, SlotsResting

\* One slot is written in place.
LEMMA SlotsWriting ==
  ASSUME NEW sc, SlotAssumed(sc), SlotShape(sc), NEW s \in DOMAIN slot, NEW e \in SlotPlaces(sc),
         slot' = [slot EXCEPT ![s] = e], e.on = slot[s].on
  PROVE  /\ slot' \in Seq(SlotPlaces(sc)) /\ Len(slot') = Len(slot) /\ DOMAIN slot' = DOMAIN slot
         /\ slot'[s] = e /\ \A t \in DOMAIN slot : t # s => slot'[t] = slot[t]
         /\ e.holder = slot[s].holder => \A n : Series(sc)!HeldBy(n)' = Series(sc)!HeldBy(n)
         /\ e.holder = slot[s].holder /\ (e.hour = slot[s].hour \/ s \notin Series(sc)!TakenSlots)
              => Series(sc)!Taken' = Series(sc)!Taken
<1>1. /\ slot' \in Seq(SlotPlaces(sc)) /\ Len(slot') = Len(slot) /\ DOMAIN slot' = DOMAIN slot
      /\ slot'[s] = e /\ \A t \in DOMAIN slot : t # s => slot'[t] = slot[t]
  BY SequenceWritten DEF SlotShape
<1>2. ASSUME e.holder = slot[s].holder
      PROVE  \A n : Series(sc)!HeldBy(n)' = Series(sc)!HeldBy(n)
  BY <1>1, <1>2 DEF Series!HeldBy
<1>3. ASSUME e.holder = slot[s].holder,
             e.hour = slot[s].hour \/ s \notin Series(sc)!TakenSlots
      PROVE  Series(sc)!Taken' = Series(sc)!Taken
  <2>1. Series(sc)!TakenSlots' = Series(sc)!TakenSlots
    BY <1>1, <1>3 DEF Series!TakenSlots
  <2>2. \A t \in Series(sc)!TakenSlots :
          slot'[t].hour = slot[t].hour /\ slot'[t].holder = slot[t].holder
    BY <1>1, <1>3 DEF Series!TakenSlots
  <2>3. QED BY <2>1, <2>2 DEF Series!Taken
<1>4. QED BY <1>1, <1>2, <1>3

\* Who holds what, then.
LEMMA SlotsWritingHeld ==
  ASSUME NEW sc, SlotAssumed(sc), SlotShape(sc), NEW s \in DOMAIN slot, NEW e \in SlotPlaces(sc),
         slot' = [slot EXCEPT ![s] = e], e.on = slot[s].on, NEW n
  PROVE  Series(sc)!HeldBy(n)' = IF e.on /\ e.holder = n THEN Series(sc)!HeldBy(n) \union {s}
                                 ELSE Series(sc)!HeldBy(n) \ {s}
<1>1. /\ DOMAIN slot' = DOMAIN slot /\ slot'[s] = e
      /\ \A t \in DOMAIN slot : t # s => slot'[t] = slot[t]
  BY SequenceWritten DEF SlotShape
<1>2. QED BY <1>1 DEF Series!HeldBy

\* What is answered there, then.
LEMMA SlotsWritingAnswers ==
  ASSUME NEW sc, SlotAssumed(sc), SlotShape(sc), SlotTold(sc), NEW s \in DOMAIN slot,
         NEW e \in SlotPlaces(sc), slot' = [slot EXCEPT ![s] = e],
         \A n \in sc.moderators : e.answer[n] # "none" => e.roll /\ e.holder = n
  PROVE  SlotAnswersTrue(sc)'
<1>1. /\ DOMAIN slot' = DOMAIN slot /\ slot'[s] = e
      /\ \A t \in DOMAIN slot : t # s => slot'[t] = slot[t]
  BY SequenceWritten DEF SlotShape
<1>2. QED BY <1>1 DEF SlotTold, SlotAnswersTrue

\* A slot is given to who asked for it, unless it is lost.
LEMMA SlotsClaimSound ==
  ASSUME NEW sc, SlotAssumed(sc), SlotShape(sc), NEW c \in sc.calls, Series(sc)!Claim(c)
  PROVE  SlotShape(sc)' /\ (SlotTold(sc) => SlotTold(sc)') /\ (SlotCovered(sc) => SlotCovered(sc)')
<1>1. PICK p \in SlotChains(sc) : p = slot_call[c] /\ p.at = "claim"
  BY SlotsStepping DEF Series!Claim, SlotWays
<1>2. PICK m \in sc.moderators : m = p.who
  BY <1>1 DEF SlotChains
<1>3. /\ UNCHANGED <<task, card, apart, behind>> /\ made' = made
      /\ IF Series(sc)!Wins(p.slot)
           THEN /\ slot' = [slot EXCEPT ![p.slot].holder = m]
                /\ slot_call' = [slot_call EXCEPT ![c] = [p EXCEPT !.at = "held"]]
           ELSE slot_call' = [slot_call EXCEPT ![c] = Series(sc)!Idle] /\ UNCHANGED slot
  BY <1>1, <1>2 DEF Series!Claim, Series!Goes, Series!Moves
<1>4. \A n : ~SlotBusy(slot_call[c], n)
  BY <1>1, SlotsLight
<1>5. SlotTold(sc) => /\ p.last # "todo"
                      /\ \A n \in sc.moderators : n \in apart \/ SlotOwn(sc, n)
                      /\ behind \/ card = Series(sc)!Taken
  BY <1>1, SlotsLight DEF SlotTold, SlotCallTrue
<1>6. CASE ~Series(sc)!Wins(p.slot)
  <2> DEFINE k == Series(sc)!Idle
  <2>1. k \in SlotSteps(sc) /\ k.at = "idle" /\ k.at \in SlotLight /\ SlotNamed(k, DOMAIN slot)
    BY SlotsOver DEF SlotLight, SlotNamed
  <2>2. SlotTold(sc) => SlotCallTrue(sc, k)
    BY <1>5, <2>1, SlotsLight
  <2> HIDE DEF k
  <2>3. QED BY <1>3, <1>4, <1>6, <2>1, <2>2, SlotsResting DEF k
<1>7. CASE Series(sc)!Wins(p.slot)
  <2>1. PICK s \in DOMAIN slot : s = p.slot /\ slot[s].on /\ slot[s].holder = sc.nobody
    BY <1>7 DEF Series!Wins, Series!There
  <2>2. PICK q \in SlotPlaces(sc) : q = slot[s]
    BY SlotsTyped
  <2>3. PICK e \in SlotPlaces(sc) : /\ e = [q EXCEPT !.holder = m] /\ e.on = q.on
                                    /\ e.hour = q.hour /\ e.holder = m /\ e.roll = q.roll
                                    /\ e.answer = q.answer
    BY SlotsHolderSet
  <2>4. slot' = [slot EXCEPT ![s] = e] /\ e.on = slot[s].on /\ e.on
    BY <1>3, <1>7, <2>1, <2>2, <2>3
  <2>5. PICK k \in SlotChains(sc) : /\ k = [p EXCEPT !.at = "held"] /\ k.at = "held"
                                    /\ k.slot = s /\ k.who = m /\ k.last = p.last
    BY <1>2, <2>1, SlotsAtSet DEF SlotWays
  <2>6. k \in SlotSteps(sc) /\ slot_call' = [slot_call EXCEPT ![c] = k]
    BY <1>3, <1>7, <2>5 DEF SlotSteps
  <2>7. SlotNamed(k, DOMAIN slot')
    BY <2>5 DEF SlotNamed
  <2>8. slot' \in Seq(SlotPlaces(sc)) /\ Len(slot') = Len(slot) /\ DOMAIN slot' = DOMAIN slot
    BY <2>4, SlotsWriting
  <2>9. SlotShape(sc)'
    BY <1>3, <2>6, <2>7, <2>8, SlotsShapeGoes DEF SlotShape
  <2>10. /\ Series(sc)!HeldBy(m)' = Series(sc)!HeldBy(m) \union {s}
         /\ \A n \in sc.moderators : n # m => Series(sc)!HeldBy(n)' = Series(sc)!HeldBy(n)
    <3>1. \A n \in sc.moderators : s \notin Series(sc)!HeldBy(n)
      BY <2>1 DEF SlotAssumed, Series!HeldBy, Series!NobodyAssumption
    <3>2. \A n : Series(sc)!HeldBy(n)' =
                   IF e.on /\ e.holder = n THEN Series(sc)!HeldBy(n) \union {s}
                   ELSE Series(sc)!HeldBy(n) \ {s}
      BY <2>4, SlotsWritingHeld
    <3>3. e.holder = m /\ e.on
      BY <2>3, <2>4
    <3>4. QED BY <3>1, <3>2, <3>3
  <2>11. ASSUME SlotTold(sc) PROVE SlotTold(sc)'
    <3>1. Series(sc)!Unsettled(k) /\ Series(sc)!Unwritten(k)
      BY <1>5, <2>5, <2>11 DEF Series!Unsettled, Series!Unwritten
    <3>2. \A n \in sc.moderators : n # m => n \in apart' \/ SlotOwn(sc, n)'
      BY <1>3, <1>5, <2>10, <2>11 DEF SlotOwn
    <3>3. SlotSettled(sc, k)' /\ SlotDisplayed(sc, k)'
      BY <2>5, <3>1, <3>2 DEF SlotSettled, SlotDisplayed
    <3>4. SlotCallTrue(sc, k)'
      BY <1>5, <2>5, <2>10, <2>11, <3>3 DEF SlotCallTrue
    <3>5. \A n \in sc.moderators : e.answer[n] # "none" => e.roll /\ e.holder = n
      <4>1. \A n \in sc.moderators : slot[s].answer[n] = "none"
        BY <2>1, <2>11 DEF SlotAssumed, SlotTold, SlotAnswersTrue, Series!NobodyAssumption
      <4>2. QED BY <2>2, <2>3, <4>1
    <3>6. SlotAnswersTrue(sc)'
      BY <2>4, <2>11, <3>5, SlotsWritingAnswers
    <3>7. QED BY <2>6, <2>11, <3>4, <3>6, SlotsTelling
  <2>12. ASSUME SlotCovered(sc) PROVE SlotCovered(sc)'
    <3>1. SlotBusy(k, m)
      BY <2>5 DEF SlotBusy
    <3>2. \A n \in sc.moderators :
            \/ Series(sc)!HeldBy(n)' \subseteq Series(sc)!HeldBy(n)
               /\ (SlotBusy(slot_call[c], n) => SlotBusy(k, n))
            \/ SlotBusy(k, n)
            \/ \A x, y \in Series(sc)!HeldBy(n)' : x = y
      BY <1>4, <2>10, <3>1
    <3>3. Len(slot') <= sc.slots
      BY <2>8, <2>12 DEF SlotCovered
    <3>4. QED BY <2>6, <2>12, <3>2, <3>3, SlotsCovering
  <2>13. QED BY <2>9, <2>11, <2>12
<1>8. QED BY <1>6, <1>7

\* Those asked on the slot to free are asked no more.
LEMMA SlotsRosterSound ==
  ASSUME NEW sc, SlotAssumed(sc), SlotShape(sc), NEW c \in sc.calls, Series(sc)!ClearRoster(c)
  PROVE  SlotShape(sc)' /\ (SlotTold(sc) => SlotTold(sc)') /\ (SlotCovered(sc) => SlotCovered(sc)')
<1>1. PICK p \in SlotChains(sc) : p = slot_call[c] /\ p.at = "free"
  BY SlotsStepping DEF Series!ClearRoster, SlotWays
<1>2. PICK m \in sc.moderators : m = p.who
  BY <1>1 DEF SlotChains
<1>3. PICK s \in p.held :
        /\ UNCHANGED <<task, card, apart, behind>> /\ made' = made
        /\ slot' = IF Series(sc)!There(s) THEN [slot EXCEPT ![s].answer = Series(sc)!NoAnswer]
                   ELSE slot
        /\ slot_call' = [slot_call EXCEPT ![c] = [p EXCEPT !.at = "name", !.now = s]]
  BY <1>1 DEF Series!ClearRoster, Series!Goes, Series!Moves
<1>4. s \in DOMAIN slot /\ p.held \subseteq DOMAIN slot /\ s \in Nat
  BY <1>1, <1>3, SlotsTyped DEF SlotShape, SlotNamed
<1>5. PICK q \in SlotChains(sc) : q = [p EXCEPT !.at = "name"] /\ q.at = "name"
        /\ q.slot = p.slot /\ q.who = m /\ q.last = p.last /\ q.held = p.held
  BY <1>2, SlotsAtSet DEF SlotWays
<1>6. PICK k \in SlotChains(sc) : SlotNowIs(k, q, s)
  BY <1>4, SlotsNowSet
<1>7. k = [q EXCEPT !.now = s] /\ k.at = "name" /\ k.slot = p.slot /\ k.who = m
      /\ k.last = p.last /\ k.held = p.held /\ k.now = s
  BY <1>5, <1>6 DEF SlotNowIs
<1>8. k \in SlotSteps(sc) /\ slot_call' = [slot_call EXCEPT ![c] = k]
      /\ SlotNamed(k, DOMAIN slot)
  BY <1>3, <1>4, <1>5, <1>7 DEF SlotSteps, SlotNamed
<1>9. \A n : SlotBusy(slot_call[c], n) => SlotBusy(k, n)
  BY <1>1, <1>2, <1>7 DEF SlotBusy
<1>10. SlotTold(sc) => SlotCallTrue(sc, p) /\ SlotToFree(sc, p) /\ s \in Series(sc)!HeldBy(m)
  BY <1>1, <1>2, <1>3 DEF SlotTold, SlotCallTrue, SlotToFree
<1>11. CASE ~Series(sc)!There(s)
  <2>1. ~SlotTold(sc)
    BY <1>10, <1>11 DEF Series!There, Series!HeldBy
  <2>2. QED BY <1>3, <1>8, <1>9, <1>11, <2>1, SlotsResting
<1>12. CASE Series(sc)!There(s)
  <2>1. PICK o \in SlotPlaces(sc) : o = slot[s]
    BY <1>4, SlotsTyped
  <2>2. PICK e \in SlotPlaces(sc) : /\ e = [o EXCEPT !.answer = Series(sc)!NoAnswer]
                                    /\ e.on = o.on /\ e.hour = o.hour /\ e.holder = o.holder
                                    /\ e.roll = o.roll /\ e.answer = Series(sc)!NoAnswer
    BY SlotsAnswerSet, SlotsNoAnswer
  <2>3. slot' = [slot EXCEPT ![s] = e] /\ e.on = slot[s].on
    BY <1>3, <1>12, <2>1, <2>2
  <2>4. /\ slot' \in Seq(SlotPlaces(sc)) /\ Len(slot') = Len(slot) /\ DOMAIN slot' = DOMAIN slot
        /\ slot'[s] = e
        /\ \A n : Series(sc)!HeldBy(n)' = Series(sc)!HeldBy(n)
        /\ Series(sc)!Taken' = Series(sc)!Taken
    BY <1>4, <2>1, <2>2, <2>3, SlotsWriting
  <2>5. SlotShape(sc)'
    BY <1>3, <1>8, <2>4, SlotsShapeGoes DEF SlotShape
  <2>6. \A n \in sc.moderators : e.answer[n] = "none"
    BY <2>2, SlotsNoAnswer
  <2>7. ASSUME SlotTold(sc) PROVE SlotTold(sc)'
    <3>1. /\ Series(sc)!Unsettled(k) <=> Series(sc)!Unsettled(p)
          /\ Series(sc)!Unwritten(k) <=> Series(sc)!Unwritten(p)
      BY <1>1, <1>7 DEF Series!Unsettled, Series!Unwritten
    <3>2. \A n : SlotOwn(sc, n)' = SlotOwn(sc, n)
      BY <1>3, <2>4 DEF SlotOwn
    <3>3. SlotSettled(sc, k)' /\ SlotDisplayed(sc, k)'
      BY <1>2, <1>3, <1>7, <1>10, <2>4, <2>7, <3>1, <3>2
         DEF SlotCallTrue, SlotSettled, SlotDisplayed
    <3>4. SlotToFree(sc, k)'
      BY <1>2, <1>3, <1>7, <1>10, <2>4, <2>7 DEF SlotToFree
    <3>5. SlotCallTrue(sc, k)'
      BY <1>7, <2>4, <2>6, <3>3, <3>4 DEF SlotCallTrue
    <3>6. SlotAnswersTrue(sc)'
      BY <1>4, <2>3, <2>6, <2>7, SlotsWritingAnswers
    <3>7. QED BY <1>8, <2>7, <3>5, <3>6, SlotsTelling
  <2>8. SlotCovered(sc) => SlotCovered(sc)'
    BY <1>8, <1>9, <2>4, SlotsCovering DEF SlotCovered
  <2>9. QED BY <2>5, <2>7, <2>8
<1>13. QED BY <1>11, <1>12

\* Of two slots, the one that is freed or gone leaves one.
LEMMA SlotsOneLeft ==
  ASSUME NEW sc, SlotAssumed(sc), SlotShape(sc), SlotCovered(sc), NEW s \in DOMAIN slot
  PROVE  \A x, y \in DOMAIN slot \ {s} : x = y
<1>1. DOMAIN slot = 1 .. Len(slot) /\ Len(slot) \in Nat /\ Len(slot) <= 2
  BY SlotsTyped DEF SlotCovered
<1>2. QED BY <1>1

\* A slot is freed, whoever holds it by then; one that is gone makes the request throw.
LEMMA SlotsNameSound ==
  ASSUME NEW sc, SlotAssumed(sc), SlotShape(sc), NEW c \in sc.calls, Series(sc)!ClearName(c)
  PROVE  SlotShape(sc)' /\ (SlotTold(sc) => SlotTold(sc)') /\ (SlotCovered(sc) => SlotCovered(sc)')
<1>1. PICK p \in SlotChains(sc) : p = slot_call[c] /\ p.at = "name"
  BY SlotsStepping DEF Series!ClearName, SlotWays
<1>2. PICK m \in sc.moderators : m = p.who
  BY <1>1 DEF SlotChains
<1>3. PICK s \in DOMAIN slot : s = p.now /\ s \in p.held /\ p.held \subseteq DOMAIN slot
  BY <1>1 DEF SlotShape, SlotNamed
<1>4. UNCHANGED <<task, card>> /\ made' = made
  BY DEF Series!ClearName, Series!Goes, Series!Moves
<1>5. ASSUME SlotCovered(sc), NEW n, NEW H, H \subseteq DOMAIN slot \ {s}
      PROVE  \A x, y \in H : x = y
  BY <1>5, SlotsOneLeft
<1>6. CASE ~Series(sc)!There(s)
  <2>1. Series(sc)!Throws(c) /\ UNCHANGED slot
    BY <1>1, <1>3, <1>6 DEF Series!ClearName
  <2>2. \A n : Series(sc)!HeldBy(n) \subseteq DOMAIN slot \ {s}
    BY <1>6 DEF Series!There, Series!HeldBy
  <2>3. SlotCovered(sc) => \A n : \A x, y \in Series(sc)!HeldBy(n) : x = y
    BY <1>5, <2>2
  <2>4. QED BY <1>4, <2>1, <2>3, SlotsThrowSound
<1>7. CASE Series(sc)!There(s)
  <2>1. /\ slot' = [slot EXCEPT ![s].holder = sc.nobody, ![s].roll = FALSE]
        /\ UNCHANGED <<apart, behind>>
        /\ slot_call' = [slot_call EXCEPT ![c] =
                           [p EXCEPT !.at = IF p.last = "todo" THEN "card" ELSE "free",
                                     !.held = p.held \ {s}]]
    BY <1>1, <1>3, <1>7 DEF Series!ClearName, Series!Goes, Series!Moves
  <2>2. PICK o \in SlotPlaces(sc) : o = slot[s]
    BY SlotsTyped
  <2>3. PICK f \in SlotPlaces(sc) : /\ f = [o EXCEPT !.holder = sc.nobody] /\ f.on = o.on
                                    /\ f.hour = o.hour /\ f.holder = sc.nobody
                                    /\ f.roll = o.roll /\ f.answer = o.answer
    BY SlotsHolderSet
  <2>4. PICK e \in SlotPlaces(sc) : SlotRollIs(e, f, FALSE)
    BY SlotsRollSet
  <2>5. slot' = [slot EXCEPT ![s] = e] /\ e.on = slot[s].on /\ e.holder = sc.nobody
    <3>1. slot' = [slot EXCEPT ![s] = [[slot[s] EXCEPT !.holder = sc.nobody] EXCEPT !.roll = FALSE]]
      BY <2>1
    <3>2. QED BY <2>2, <2>3, <2>4, <3>1 DEF SlotRollIs
  <2>6. /\ slot' \in Seq(SlotPlaces(sc)) /\ Len(slot') = Len(slot) /\ DOMAIN slot' = DOMAIN slot
        /\ slot'[s] = e
    BY <2>5, SlotsWriting
  <2>7. \A n \in sc.moderators : Series(sc)!HeldBy(n)' = Series(sc)!HeldBy(n) \ {s}
    <3>1. \A n : Series(sc)!HeldBy(n)' =
                   IF e.on /\ e.holder = n THEN Series(sc)!HeldBy(n) \union {s}
                   ELSE Series(sc)!HeldBy(n) \ {s}
      BY <2>5, SlotsWritingHeld
    <3>2. \A n \in sc.moderators : e.holder # n
      BY <2>5 DEF SlotAssumed, Series!NobodyAssumption
    <3>3. QED BY <3>1, <3>2
  <2>8. PICK a \in SlotWays : a = IF p.last = "todo" THEN "card" ELSE "free"
    BY DEF SlotWays
  <2>9. PICK q \in SlotChains(sc) : q = [p EXCEPT !.at = a] /\ q.at = a
          /\ q.slot = p.slot /\ q.who = m /\ q.last = p.last /\ q.held = p.held
    BY <1>2, SlotsAtSet
  <2>10. PICK H \in SUBSET Nat : H = p.held \ {s}
    BY DEF SlotChains
  <2>11. PICK k \in SlotChains(sc) : SlotHeldIs(k, q, H)
    BY SlotsHeldSet
  <2>12. k = [q EXCEPT !.held = H] /\ k.at = a /\ k.slot = p.slot /\ k.who = m
         /\ k.last = p.last /\ k.held = H
    BY <2>9, <2>11 DEF SlotHeldIs
  <2>13. k \in SlotSteps(sc) /\ slot_call' = [slot_call EXCEPT ![c] = k]
    BY <2>1, <2>8, <2>9, <2>10, <2>12 DEF SlotSteps
  <2>14. SlotNamed(k, DOMAIN slot')
    BY <1>3, <2>6, <2>8, <2>10, <2>12 DEF SlotNamed
  <2>15. SlotShape(sc)'
    BY <1>4, <2>1, <2>6, <2>13, <2>14, SlotsShapeGoes DEF SlotShape
  <2>16. ASSUME SlotTold(sc) PROVE SlotTold(sc)'
    <3>1. SlotCallTrue(sc, p) /\ SlotToFree(sc, p)
      BY <1>1, <2>16 DEF SlotTold, SlotCallTrue
    <3>2. \A n \in sc.moderators : n # m => Series(sc)!HeldBy(n)' = Series(sc)!HeldBy(n)
      <4>1. s \in Series(sc)!HeldBy(m)
        BY <1>2, <1>3, <3>1 DEF SlotToFree
      <4>2. QED BY <2>7, <4>1 DEF Series!HeldBy
    <3>3. /\ Series(sc)!Unsettled(k) /\ Series(sc)!Unwritten(k)
          /\ Series(sc)!Unsettled(p) => p.who = m
      BY <1>2, <2>8, <2>12 DEF Series!Unsettled, Series!Unwritten
    <3>4. \A n \in sc.moderators : n # m => n \in apart' \/ SlotOwn(sc, n)'
      BY <1>2, <1>4, <2>1, <3>1, <3>2 DEF SlotCallTrue, SlotSettled, SlotOwn
    <3>5. SlotSettled(sc, k)' /\ SlotDisplayed(sc, k)'
      BY <2>12, <3>3, <3>4 DEF SlotSettled, SlotDisplayed
    <3>6. ASSUME p.last = "todo" PROVE m \in apart' \/ Series(sc)!HeldBy(m)' = {}
      BY <1>2, <1>3, <2>1, <2>7, <3>1, <3>6 DEF SlotToFree
    <3>7. ASSUME p.last # "todo" PROVE SlotToFree(sc, k)'
      <4>1. /\ p.slot \in Series(sc)!HeldBy(m) /\ p.slot \notin p.held
            /\ Series(sc)!HeldBy(m) = p.held \union {p.slot}
        BY <1>2, <3>1, <3>7 DEF SlotToFree
      <4>2. /\ p.slot \in Series(sc)!HeldBy(m)' /\ p.slot \notin H
            /\ Series(sc)!HeldBy(m)' = H \union {p.slot}
        BY <1>3, <2>7, <2>10, <4>1
      <4>3. QED BY <2>12, <3>7, <4>2 DEF SlotToFree
    <3>8. SlotCallTrue(sc, k)'
      BY <2>8, <2>12, <3>5, <3>6, <3>7 DEF SlotCallTrue
    <3>9. \A n \in sc.moderators : e.answer[n] # "none" => e.roll /\ e.holder = n
      BY <1>1, <1>3, <2>2, <2>3, <2>4, <3>1 DEF SlotCallTrue, SlotRollIs
    <3>10. SlotAnswersTrue(sc)'
      BY <2>5, <2>16, <3>9, SlotsWritingAnswers
    <3>11. QED BY <2>13, <2>16, <3>8, <3>10, SlotsTelling
  <2>17. ASSUME SlotCovered(sc) PROVE SlotCovered(sc)'
    <3>1. \A n \in sc.moderators : Series(sc)!HeldBy(n)' \subseteq DOMAIN slot \ {s}
      BY <2>7 DEF Series!HeldBy
    <3>2. \A n \in sc.moderators : \A x, y \in Series(sc)!HeldBy(n)' : x = y
      BY <1>5, <2>17, <3>1
    <3>3. Len(slot') <= sc.slots
      BY <2>6, <2>17 DEF SlotCovered
    <3>4. QED BY <2>13, <2>17, <3>2, <3>3, SlotsCovering
  <2>18. QED BY <2>15, <2>16, <2>17
<1>8. QED BY <1>6, <1>7

\* The task of who holds one slot is done.
LEMMA SlotsDoneSound ==
  ASSUME NEW sc, SlotAssumed(sc), SlotShape(sc), NEW c \in sc.calls, Series(sc)!TaskDone(c)
  PROVE  SlotShape(sc)' /\ (SlotTold(sc) => SlotTold(sc)') /\ (SlotCovered(sc) => SlotCovered(sc)')
<1>1. PICK p \in SlotChains(sc) : p = slot_call[c] /\ p.at = "free" /\ p.held = {}
  BY SlotsStepping DEF Series!TaskDone, SlotWays
<1>2. PICK m \in sc.moderators : m = p.who
  BY <1>1 DEF SlotChains
<1>3. PICK a \in SlotWays : a = IF p.placed THEN "convene" ELSE "card"
  BY DEF SlotWays
<1>4. /\ UNCHANGED <<slot, card, behind>> /\ made' = made
      /\ task' = [task EXCEPT ![m] = "done"] /\ apart' = apart \ {m}
      /\ slot_call' = [slot_call EXCEPT ![c] = [p EXCEPT !.at = a]]
  BY <1>1, <1>2, <1>3 DEF Series!TaskDone, Series!Moves
<1>5. PICK k \in SlotChains(sc) : k = [p EXCEPT !.at = a] /\ k.at = a
        /\ k.slot = p.slot /\ k.who = m /\ k.last = p.last
  BY <1>2, SlotsAtSet
<1>6. k \in SlotSteps(sc) /\ slot_call' = [slot_call EXCEPT ![c] = k]
      /\ SlotNamed(k, DOMAIN slot')
  BY <1>3, <1>4, <1>5 DEF SlotSteps, SlotNamed
<1>7. task' \in [sc.moderators -> {"todo", "done"}] /\ task'[m] = "done"
      /\ \A n \in sc.moderators : n # m => task'[n] = task[n]
  BY <1>4 DEF SlotShape
<1>8. SlotShape(sc)'
  BY <1>4, <1>6, <1>7, SlotsShapeGoes DEF SlotShape
<1>9. \A n : Series(sc)!HeldBy(n)' = Series(sc)!HeldBy(n)
  BY <1>4, SlotsSame
<1>10. ASSUME SlotTold(sc) PROVE SlotTold(sc)'
  <2>1. SlotCallTrue(sc, p) /\ SlotToFree(sc, p)
    BY <1>1, <1>10 DEF SlotTold, SlotCallTrue
  <2>2. p.last # "todo" /\ Series(sc)!HeldBy(m) = {p.slot}
    BY <1>1, <1>2, <2>1 DEF SlotToFree
  <2>3. SlotOwn(sc, m)'
    BY <1>7, <1>9, <2>2 DEF SlotOwn
  <2>4. \A n \in sc.moderators : n # m => n \in apart' \/ SlotOwn(sc, n)'
    BY <1>2, <1>4, <1>7, <1>9, <2>1 DEF SlotCallTrue, SlotSettled, SlotOwn
  <2>5. Series(sc)!Unwritten(k)
    BY <1>3, <1>5, <2>2 DEF Series!Unwritten
  <2>6. SlotSettled(sc, k)' /\ SlotDisplayed(sc, k)'
    BY <2>3, <2>4, <2>5 DEF SlotSettled, SlotDisplayed
  <2>7. SlotCallTrue(sc, k)'
    BY <1>3, <1>5, <1>9, <2>2, <2>6 DEF SlotCallTrue
  <2>8. SlotAnswersTrue(sc)'
    BY <1>4, <1>10 DEF SlotTold, SlotAnswersTrue
  <2>9. QED BY <1>6, <1>10, <2>7, <2>8, SlotsTelling
<1>11. SlotCovered(sc) => SlotCovered(sc)'
  <2>1. \A n : ~SlotBusy(slot_call[c], n)
    BY <1>1 DEF SlotBusy
  <2>2. QED BY <1>4, <1>6, <1>9, <2>1, SlotsCovering DEF SlotCovered
<1>12. QED BY <1>8, <1>10, <1>11

\* Who lost their slot has to choose again.
LEMMA SlotsTodoSound ==
  ASSUME NEW sc, SlotAssumed(sc), SlotShape(sc), NEW c \in sc.calls, Series(sc)!TaskTodo(c)
  PROVE  SlotShape(sc)' /\ (SlotTold(sc) => SlotTold(sc)') /\ (SlotCovered(sc) => SlotCovered(sc)')
<1>1. PICK p \in SlotChains(sc) : p = slot_call[c] /\ p.at = "todo"
  BY SlotsStepping DEF Series!TaskTodo, SlotWays
<1>2. PICK m \in sc.moderators : m = p.who
  BY <1>1 DEF SlotChains
<1> DEFINE k == Series(sc)!Idle
<1>3. k \in SlotSteps(sc) /\ k.at = "idle" /\ k.at \in SlotLight /\ SlotNamed(k, DOMAIN slot')
  BY SlotsOver DEF SlotLight, SlotNamed
<1>4. /\ UNCHANGED <<slot, card, behind>> /\ made' = made
      /\ task' = [task EXCEPT ![m] = "todo"]
      /\ apart' = IF Series(sc)!HeldBy(m) = {} THEN apart \ {m} ELSE apart
      /\ slot_call' = [slot_call EXCEPT ![c] = k]
  BY <1>1, <1>2 DEF Series!TaskTodo, Series!Moves
<1> HIDE DEF k
<1>5. task' \in [sc.moderators -> {"todo", "done"}] /\ task'[m] = "todo"
      /\ \A n \in sc.moderators : n # m => task'[n] = task[n]
  BY <1>4 DEF SlotShape
<1>6. SlotShape(sc)'
  BY <1>3, <1>4, <1>5, SlotsShapeGoes DEF SlotShape
<1>7. /\ \A n : Series(sc)!HeldBy(n)' = Series(sc)!HeldBy(n)
      /\ Series(sc)!Taken' = Series(sc)!Taken
  BY <1>4, SlotsSame
<1>8. ASSUME SlotTold(sc) PROVE SlotTold(sc)'
  <2>1. SlotCallTrue(sc, p)
    BY <1>1, <1>8 DEF SlotTold
  <2>2. m \in apart \/ Series(sc)!HeldBy(m) = {}
    BY <1>1, <1>2, <2>1 DEF SlotCallTrue
  <2>3. m \in apart' \/ SlotOwn(sc, m)'
    BY <1>4, <1>5, <1>7, <2>2 DEF SlotOwn
  <2>4. \A n \in sc.moderators : n # m => n \in apart' \/ SlotOwn(sc, n)'
    BY <1>2, <1>4, <1>5, <1>7, <2>1 DEF SlotCallTrue, SlotSettled, SlotOwn
  <2>5. behind' \/ card' = Series(sc)!Taken'
    BY <1>1, <1>4, <1>7, <2>1 DEF SlotCallTrue, SlotDisplayed, Series!Unwritten
  <2>6. SlotAnswersTrue(sc)'
    BY <1>4, <1>8 DEF SlotTold, SlotAnswersTrue
  <2>7. QED BY <1>3, <1>4, <1>8, <2>3, <2>4, <2>5, <2>6, SlotsLightTelling
<1>9. SlotCovered(sc) => SlotCovered(sc)'
  <2>1. \A n : ~SlotBusy(slot_call[c], n)
    BY <1>1 DEF SlotBusy
  <2>2. QED BY <1>3, <1>4, <1>7, <2>1, SlotsCovering DEF SlotCovered
<1>10. QED BY <1>6, <1>8, <1>9

\* The roll-call of a slot is opened, then who was placed is asked; a slot that is gone makes the
\* request throw.
LEMMA SlotsConveneSound ==
  ASSUME NEW sc, SlotAssumed(sc), SlotShape(sc), NEW c \in sc.calls,
         Series(sc)!Convene(c) \/ Series(sc)!SyncRoster(c)
  PROVE  SlotShape(sc)' /\ (SlotTold(sc) => SlotTold(sc)') /\ (SlotCovered(sc) => SlotCovered(sc)')
<1>1. PICK p \in SlotChains(sc) : p = slot_call[c] /\ p.at \in {"convene", "row"}
  BY SlotsStepping DEF Series!Convene, Series!SyncRoster, SlotWays
<1>2. PICK m \in sc.moderators : m = p.who
  BY <1>1 DEF SlotChains
<1>3. UNCHANGED <<task, card>> /\ made' = made
  BY DEF Series!Convene, Series!SyncRoster, Series!Goes, Series!Moves
<1>4. \A n : ~SlotBusy(slot_call[c], n)
  BY <1>1 DEF SlotBusy
<1>5. CASE ~Series(sc)!There(p.slot)
  <2>1. Series(sc)!Throws(c) /\ UNCHANGED slot
    BY <1>1, <1>5 DEF Series!Convene, Series!SyncRoster
  <2>2. QED BY <1>3, <1>4, <2>1, SlotsThrowSound
<1>6. CASE Series(sc)!There(p.slot)
  <2>1. PICK s \in DOMAIN slot : s = p.slot
    BY <1>6 DEF Series!There
  <2>2. PICK o \in SlotPlaces(sc) : o = slot[s]
    BY SlotsTyped
  <2>3. PICK e \in SlotPlaces(sc), a \in {"row", "card"} :
          /\ slot' = [slot EXCEPT ![s] = e]
          /\ e.on = o.on /\ e.hour = o.hour /\ e.holder = o.holder
          /\ \A n \in sc.moderators : n # m => e.answer[n] = o.answer[n]
          /\ p.at = "convene" => a = "row" /\ e.roll /\ e.answer = o.answer
          /\ p.at = "row" => a = "card" /\ e.roll = o.roll
          /\ slot_call' = [slot_call EXCEPT ![c] = [p EXCEPT !.at = a]]
          /\ UNCHANGED <<apart, behind>>
    <3>1. CASE Series(sc)!Convene(c)
      <4>1. PICK e \in SlotPlaces(sc) : SlotRollIs(e, o, TRUE)
        BY SlotsRollSet
      <4>2. /\ slot' = [slot EXCEPT ![s] = e]
            /\ slot_call' = [slot_call EXCEPT ![c] = [p EXCEPT !.at = "row"]]
            /\ UNCHANGED <<apart, behind>>
        BY <1>1, <1>6, <2>1, <2>2, <3>1, <4>1
           DEF Series!Convene, Series!Goes, Series!Moves, SlotRollIs
      <4>3. p.at = "convene"
        BY <1>1, <3>1 DEF Series!Convene
      <4>4. QED BY <4>1, <4>2, <4>3 DEF SlotRollIs
    <3>2. CASE Series(sc)!SyncRoster(c)
      <4>1. PICK b \in Series(sc)!Answers : b = IF o.answer[m] = "none" THEN "pending"
                                                ELSE o.answer[m]
        BY DEF SlotPlaces, Series!Answers
      <4>2. PICK e \in SlotPlaces(sc) :
              /\ e = [o EXCEPT !.answer[m] = b] /\ e.on = o.on
              /\ e.hour = o.hour /\ e.holder = o.holder
              /\ e.roll = o.roll
              /\ \A n \in sc.moderators : n # m => e.answer[n] = o.answer[n]
        BY SlotsOneAnswerSet
      <4>3. /\ slot' = [slot EXCEPT ![s].answer[m] =
                          IF slot[s].answer[m] = "none" THEN "pending" ELSE slot[s].answer[m]]
            /\ slot_call' = [slot_call EXCEPT ![c] = [p EXCEPT !.at = "card"]]
            /\ UNCHANGED <<apart, behind>>
        BY <1>1, <1>2, <1>6, <2>1, <3>2 DEF Series!SyncRoster, Series!Goes, Series!Moves
      <4>4. slot' = [slot EXCEPT ![s] = e]
        BY <2>2, <4>1, <4>2, <4>3
      <4>5. p.at = "row"
        BY <1>1, <3>2 DEF Series!SyncRoster
      <4>6. QED BY <4>2, <4>3, <4>4, <4>5
    <3>3. QED BY <3>1, <3>2
  <2>4. PICK k \in SlotChains(sc) : k = [p EXCEPT !.at = a] /\ k.at = a
          /\ k.slot = p.slot /\ k.who = m /\ k.last = p.last
    <3>1. a \in SlotWays
      BY <2>3 DEF SlotWays
    <3>2. QED BY <1>2, <3>1, SlotsAtSet
  <2>5. k \in SlotSteps(sc) /\ slot_call' = [slot_call EXCEPT ![c] = k]
        /\ SlotNamed(k, DOMAIN slot')
    BY <2>3, <2>4 DEF SlotSteps, SlotNamed
  <2>6. e.on = slot[s].on /\ e.hour = slot[s].hour /\ e.holder = slot[s].holder
    BY <2>2, <2>3
  <2>7. /\ slot' \in Seq(SlotPlaces(sc)) /\ Len(slot') = Len(slot) /\ DOMAIN slot' = DOMAIN slot
        /\ slot'[s] = e
        /\ \A n : Series(sc)!HeldBy(n)' = Series(sc)!HeldBy(n)
        /\ Series(sc)!Taken' = Series(sc)!Taken
    BY <2>3, <2>6, SlotsWriting
  <2>8. SlotShape(sc)'
    BY <1>3, <2>3, <2>5, <2>7, SlotsShapeGoes DEF SlotShape
  <2>9. ASSUME SlotTold(sc) PROVE SlotTold(sc)'
    <3>1. SlotCallTrue(sc, p)
      BY <1>1, <2>9 DEF SlotTold
    <3>2. p.last # "todo" /\ s \in Series(sc)!HeldBy(m) /\ (p.at = "row" => o.roll)
      BY <1>1, <1>2, <2>1, <2>2, <3>1 DEF SlotCallTrue
    <3>3. Series(sc)!Unwritten(k) /\ ~Series(sc)!Unsettled(p)
      BY <1>1, <2>3, <2>4, <3>2 DEF Series!Unwritten, Series!Unsettled
    <3>4. SlotSettled(sc, k)' /\ SlotDisplayed(sc, k)'
      <4>1. \A n \in sc.moderators : n \in apart' \/ SlotOwn(sc, n)'
        BY <1>3, <2>3, <2>7, <3>1, <3>3 DEF SlotCallTrue, SlotSettled, SlotOwn
      <4>2. QED BY <3>3, <4>1 DEF SlotSettled, SlotDisplayed
    <3>5. SlotCallTrue(sc, k)'
      BY <1>1, <2>1, <2>3, <2>4, <2>7, <3>2, <3>4 DEF SlotCallTrue
    <3>6. \A n \in sc.moderators : e.answer[n] # "none" => e.roll /\ e.holder = n
      <4>1. e.roll /\ e.holder = m
        BY <1>1, <2>2, <2>3, <3>2 DEF Series!HeldBy
      <4>2. \A n \in sc.moderators : o.answer[n] # "none" => o.holder = n
        BY <2>2, <2>9 DEF SlotTold, SlotAnswersTrue
      <4>3. QED BY <2>3, <4>1, <4>2
    <3>7. SlotAnswersTrue(sc)'
      BY <2>3, <2>9, <3>6, SlotsWritingAnswers
    <3>8. QED BY <2>5, <2>9, <3>5, <3>7, SlotsTelling
  <2>10. SlotCovered(sc) => SlotCovered(sc)'
    BY <1>4, <2>5, <2>7, SlotsCovering DEF SlotCovered
  <2>11. QED BY <2>8, <2>9, <2>10
<1>7. QED BY <1>5, <1>6

\* What comes after the card.
SlotLastIs(sc, k, p) ==
    /\ k = Series(sc)!Last(p) /\ k.at \in {"idle", "complete", "todo"}
    /\ k.at = "todo" => k.last = "todo" /\ k.who = p.who /\ p.last = "todo"
    /\ k.at # "todo" => p.last # "todo"
LEMMA SlotsLast ==
  ASSUME NEW sc, NEW p \in SlotChains(sc)
  PROVE  \E k \in SlotSteps(sc) : SlotLastIs(sc, k, p)
<1>1. p.last \in {"complete", "over", "todo"} /\ p.slot \in Nat
  BY DEF SlotChains
<1>2. CASE p.last = "over"
  <2>1. Series(sc)!Last(p) = Series(sc)!Idle
    BY <1>2 DEF Series!Last
  <2>2. SlotLastIs(sc, Series(sc)!Idle, p)
    BY <1>2, <2>1, SlotsOver DEF SlotLastIs
  <2>3. QED BY <2>2, SlotsOver
<1>3. CASE p.last = "complete"
  <2> DEFINE k == [at |-> "complete", slot |-> p.slot]
  <2>1. Series(sc)!Last(p) = k
    BY <1>3 DEF Series!Last
  <2>2. k \in SlotSteps(sc) /\ k.at = "complete"
    BY <1>1 DEF SlotSteps, SlotEnds
  <2> HIDE DEF k
  <2>3. SlotLastIs(sc, k, p)
    BY <1>3, <2>1, <2>2 DEF SlotLastIs
  <2>4. QED BY <2>2, <2>3
<1>4. CASE p.last = "todo"
  <2>1. PICK k \in SlotChains(sc) : k = [p EXCEPT !.at = "todo"] /\ k.at = "todo"
          /\ k.who = p.who /\ k.last = p.last
    BY SlotsAtSet DEF SlotWays
  <2>2. Series(sc)!Last(p) = k
    BY <1>4, <2>1 DEF Series!Last
  <2>3. SlotLastIs(sc, k, p)
    BY <1>4, <2>1, <2>2 DEF SlotLastIs
  <2>4. QED BY <2>1, <2>3 DEF SlotSteps
<1>5. QED BY <1>1, <1>2, <1>3, <1>4

\* The card is written, or left behind when the slot it is found by is gone.
LEMMA SlotsCardSound ==
  ASSUME NEW sc, SlotAssumed(sc), SlotShape(sc), NEW c \in sc.calls,
         Series(sc)!SyncSeriesMeeting(c)
         \/ (Series(sc)!ReadCard(c) /\ ~Series(sc)!There(slot_call[c].from))
  PROVE  SlotShape(sc)' /\ (SlotTold(sc) => SlotTold(sc)') /\ (SlotCovered(sc) => SlotCovered(sc)')
<1>1. PICK p \in SlotChains(sc) : p = slot_call[c] /\ p.at \in {"card", "write"}
        /\ (p.at = "card" => ~Series(sc)!SyncSeriesMeeting(c))
  BY SlotsStepping DEF Series!SyncSeriesMeeting, Series!ReadCard, SlotWays
<1>2. p.taken \in SlotCards(sc)
  BY DEF SlotChains
<1>3. PICK k \in SlotSteps(sc) : SlotLastIs(sc, k, p)
  BY SlotsLast
<1>4. /\ UNCHANGED <<slot, task, apart>> /\ made' = made
      /\ slot_call' = [slot_call EXCEPT ![c] = k]
      /\ \/ card' = card /\ behind'
         \/ p.at = "write" /\ card' = p.taken /\ behind' = FALSE
      /\ behind' \in BOOLEAN
  BY <1>1, <1>3 DEF Series!SyncSeriesMeeting, Series!ReadCard, Series!Moves, SlotLastIs
<1>5. SlotNamed(k, DOMAIN slot')
  BY <1>3 DEF SlotNamed, SlotLastIs
<1>6. SlotShape(sc)'
  BY <1>2, <1>4, <1>5, SlotsShapeGoes DEF SlotShape
<1>7. /\ \A n : Series(sc)!HeldBy(n)' = Series(sc)!HeldBy(n)
      /\ Series(sc)!Taken' = Series(sc)!Taken
  BY <1>4, SlotsSame
<1>8. ASSUME SlotTold(sc) PROVE SlotTold(sc)'
  <2>1. SlotCallTrue(sc, p)
    BY <1>1, <1>8 DEF SlotTold
  <2>2. behind' \/ card' = Series(sc)!Taken'
    BY <1>4, <1>7, <2>1 DEF SlotCallTrue
  <2>3. Series(sc)!Unsettled(p) <=> Series(sc)!Unsettled(k)
    BY <1>1, <1>3 DEF Series!Unsettled, SlotLastIs
  <2>4. \A n : SlotOwn(sc, n)' = SlotOwn(sc, n)
    BY <1>4, <1>7 DEF SlotOwn
  <2>5. SlotSettled(sc, k)' /\ SlotDisplayed(sc, k)'
    <3>1. Series(sc)!Unsettled(k) => k.who = p.who
      BY <1>3 DEF Series!Unsettled, SlotLastIs
    <3>2. QED BY <1>4, <2>1, <2>2, <2>3, <2>4, <3>1
             DEF SlotCallTrue, SlotSettled, SlotDisplayed
  <2>6. k.at = "todo" => k.who \in apart' \/ Series(sc)!HeldBy(k.who)' = {}
    BY <1>1, <1>3, <1>4, <1>7, <2>1 DEF SlotCallTrue, SlotLastIs
  <2>7. SlotCallTrue(sc, k)'
    BY <1>3, <2>5, <2>6 DEF SlotCallTrue, SlotLastIs
  <2>8. SlotAnswersTrue(sc)'
    BY <1>4, <1>8 DEF SlotTold, SlotAnswersTrue
  <2>9. QED BY <1>4, <1>8, <2>7, <2>8, SlotsTelling
<1>9. SlotCovered(sc) => SlotCovered(sc)'
  <2>1. \A n : ~SlotBusy(slot_call[c], n)
    BY <1>1 DEF SlotBusy
  <2>2. QED BY <1>4, <1>7, <2>1, SlotsCovering DEF SlotCovered
<1>10. QED BY <1>6, <1>8, <1>9

\* The roll-call is answered, by its moderator or for them.
LEMMA SlotsAnswerSound ==
  ASSUME NEW sc, SlotAssumed(sc), SlotShape(sc), NEW c \in sc.calls, NEW s \in DOMAIN slot,
         NEW m \in sc.moderators,
         Series(sc)!RespondToRollCall(c, s, m) \/ Series(sc)!MoveOnRollCall(c, s, m)
  PROVE  SlotShape(sc)' /\ (SlotTold(sc) => SlotTold(sc)') /\ (SlotCovered(sc) => SlotCovered(sc)')
<1>1. PICK k \in SlotSteps(sc) :
        /\ slot_call' = [slot_call EXCEPT ![c] = k] /\ k.at \in {"complete", "idle"}
  <2>1. [at |-> "complete", slot |-> s] \in SlotSteps(sc)
        /\ [at |-> "complete", slot |-> s].at = "complete"
    BY SlotsTyped DEF SlotSteps, SlotEnds
  <2>2. QED BY <2>1, SlotsOver DEF Series!RespondToRollCall, Series!MoveOnRollCall, Series!Ask
<1>2. /\ slot_call[c].at = "idle" /\ slot[s].answer[m] # "none"
      /\ UNCHANGED <<task, card, apart, behind>> /\ made < sc.made /\ made' = made + 1
  BY SlotsOver DEF Series!RespondToRollCall, Series!MoveOnRollCall, Series!Ask, Series!Counts
<1>3. PICK a \in Series(sc)!Answers : slot' = [slot EXCEPT ![s].answer[m] = a]
  BY DEF Series!RespondToRollCall, Series!MoveOnRollCall, Series!Answers
<1>4. PICK o \in SlotPlaces(sc) : o = slot[s]
  BY SlotsTyped
<1>5. PICK e \in SlotPlaces(sc) : /\ e = [o EXCEPT !.answer[m] = a] /\ e.on = o.on
                                  /\ e.hour = o.hour /\ e.holder = o.holder
                                  /\ e.roll = o.roll
                                  /\ \A n \in sc.moderators : n # m => e.answer[n] = o.answer[n]
  BY SlotsOneAnswerSet
<1>6. slot' = [slot EXCEPT ![s] = e] /\ e.on = slot[s].on
  BY <1>3, <1>4, <1>5
<1>7. /\ slot' \in Seq(SlotPlaces(sc)) /\ Len(slot') = Len(slot) /\ DOMAIN slot' = DOMAIN slot
      /\ \A n : Series(sc)!HeldBy(n)' = Series(sc)!HeldBy(n)
      /\ Series(sc)!Taken' = Series(sc)!Taken
  BY <1>4, <1>5, <1>6, SlotsWriting
<1>8. SlotNamed(k, DOMAIN slot') /\ k.at \in SlotLight /\ slot_call[c].at \in SlotLight
  BY <1>1, <1>2 DEF SlotNamed, SlotLight
<1>9. SlotShape(sc)'
  BY <1>1, <1>2, <1>7, <1>8, SlotsShapeGoes DEF SlotShape
<1>10. ASSUME SlotTold(sc) PROVE SlotTold(sc)'
  <2>1. /\ \A n \in sc.moderators : n \in apart \/ SlotOwn(sc, n)
        /\ behind \/ card = Series(sc)!Taken
    BY <1>8, <1>10, SlotsLight DEF SlotTold
  <2>2. /\ \A n \in sc.moderators : n \in apart' \/ SlotOwn(sc, n)'
        /\ behind' \/ card' = Series(sc)!Taken'
    BY <1>2, <1>7, <2>1 DEF SlotOwn
  <2>3. \A n \in sc.moderators : e.answer[n] # "none" => e.roll /\ e.holder = n
    BY <1>2, <1>4, <1>5, <1>10 DEF SlotTold, SlotAnswersTrue
  <2>4. SlotAnswersTrue(sc)'
    BY <1>6, <1>10, <2>3, SlotsWritingAnswers
  <2>5. QED BY <1>1, <1>8, <1>10, <2>2, <2>4, SlotsLightTelling
<1>11. SlotCovered(sc) => SlotCovered(sc)'
  <2>1. \A n : ~SlotBusy(slot_call[c], n)
    BY <1>8, SlotsLight
  <2>2. QED BY <1>1, <1>7, <2>1, SlotsCovering DEF SlotCovered
<1>12. QED BY <1>9, <1>10, <1>11

\* A slot dragged to another hour stays with its holder; the card does not follow.
LEMMA SlotsDragSound ==
  ASSUME NEW sc, SlotAssumed(sc), SlotShape(sc), NEW c \in sc.calls, NEW s \in DOMAIN slot,
         Series(sc)!MoveEntry(c, s)
  PROVE  SlotShape(sc)' /\ (SlotTold(sc) => SlotTold(sc)') /\ (SlotCovered(sc) => SlotCovered(sc)')
<1> DEFINE k == Series(sc)!Idle
<1>1. /\ slot_call[c].at = "idle" /\ slot_call' = [slot_call EXCEPT ![c] = k]
      /\ UNCHANGED <<task, card, apart>> /\ made < sc.made /\ made' = made + 1
      /\ behind' = (behind \/ s \in Series(sc)!TakenSlots)
  BY SlotsOver DEF Series!MoveEntry, Series!Ask, Series!Counts
<1>2. k \in SlotSteps(sc) /\ k.at = "idle" /\ k.at \in SlotLight /\ SlotNamed(k, DOMAIN slot')
      /\ slot_call[c].at \in SlotLight
  BY <1>1, SlotsOver DEF SlotLight, SlotNamed
<1> HIDE DEF k
<1>3. PICK h \in sc.hours : slot' = [slot EXCEPT ![s].hour = h]
  BY DEF Series!MoveEntry
<1>4. PICK o \in SlotPlaces(sc) : o = slot[s]
  BY SlotsTyped
<1>5. PICK e \in SlotPlaces(sc) : /\ e = [o EXCEPT !.hour = h] /\ e.on = o.on
                                  /\ e.hour = h /\ e.holder = o.holder /\ e.roll = o.roll
                                  /\ e.answer = o.answer
  BY SlotsHourSet
<1>6. slot' = [slot EXCEPT ![s] = e] /\ e.on = slot[s].on
  BY <1>3, <1>4, <1>5
<1>7. /\ slot' \in Seq(SlotPlaces(sc)) /\ Len(slot') = Len(slot) /\ DOMAIN slot' = DOMAIN slot
      /\ \A n : Series(sc)!HeldBy(n)' = Series(sc)!HeldBy(n)
      /\ s \notin Series(sc)!TakenSlots => Series(sc)!Taken' = Series(sc)!Taken
  BY <1>4, <1>5, <1>6, SlotsWriting
<1>8. SlotShape(sc)'
  BY <1>1, <1>2, <1>7, SlotsShapeGoes DEF SlotShape
<1>9. ASSUME SlotTold(sc) PROVE SlotTold(sc)'
  <2>1. /\ \A n \in sc.moderators : n \in apart \/ SlotOwn(sc, n)
        /\ behind \/ card = Series(sc)!Taken
    BY <1>2, <1>9, SlotsLight DEF SlotTold
  <2>2. /\ \A n \in sc.moderators : n \in apart' \/ SlotOwn(sc, n)'
        /\ behind' \/ card' = Series(sc)!Taken'
    <3>1. \A n \in sc.moderators : SlotOwn(sc, n)' <=> SlotOwn(sc, n)
      BY <1>1, <1>7 DEF SlotOwn
    <3>2. behind' \/ card' = Series(sc)!Taken'
      BY <1>1, <1>7, <2>1
    <3>3. QED BY <1>1, <2>1, <3>1, <3>2
  <2>3. \A n \in sc.moderators : e.answer[n] # "none" => e.roll /\ e.holder = n
    BY <1>4, <1>5, <1>9 DEF SlotTold, SlotAnswersTrue
  <2>4. SlotAnswersTrue(sc)'
    BY <1>6, <1>9, <2>3, SlotsWritingAnswers
  <2>5. QED BY <1>1, <1>2, <1>9, <2>2, <2>4, SlotsLightTelling
<1>10. SlotCovered(sc) => SlotCovered(sc)'
  <2>1. \A n : ~SlotBusy(slot_call[c], n)
    BY <1>2, SlotsLight
  <2>2. QED BY <1>1, <1>2, <1>7, <2>1, SlotsCovering DEF SlotCovered
<1>11. QED BY <1>8, <1>9, <1>10

\* A task ticked by hand leaves its moderator apart.
LEMMA SlotsTickSound ==
  ASSUME NEW sc, SlotAssumed(sc), SlotShape(sc), NEW c \in sc.calls, NEW m \in sc.moderators,
         Series(sc)!SetTaskDone(c, m)
  PROVE  SlotShape(sc)' /\ (SlotTold(sc) => SlotTold(sc)') /\ (SlotCovered(sc) => SlotCovered(sc)')
<1> DEFINE k == Series(sc)!Idle
<1>1. /\ slot_call[c].at = "idle" /\ slot_call' = [slot_call EXCEPT ![c] = k]
      /\ UNCHANGED <<slot, card, behind>> /\ made < sc.made /\ made' = made + 1
      /\ apart' = apart \union {m}
  BY SlotsOver DEF Series!SetTaskDone, Series!Ask, Series!Counts
<1>2. k \in SlotSteps(sc) /\ k.at = "idle" /\ k.at \in SlotLight /\ SlotNamed(k, DOMAIN slot')
      /\ slot_call[c].at \in SlotLight
  BY <1>1, SlotsOver DEF SlotLight, SlotNamed
<1> HIDE DEF k
<1>3. PICK d \in {"todo", "done"} : task' = [task EXCEPT ![m] = d]
  BY DEF Series!SetTaskDone
<1>4. task' \in [sc.moderators -> {"todo", "done"}]
      /\ \A n \in sc.moderators : n # m => task'[n] = task[n]
  BY <1>3 DEF SlotShape
<1>5. SlotShape(sc)'
  BY <1>1, <1>2, <1>4, SlotsShapeGoes DEF SlotShape
<1>6. /\ \A n : Series(sc)!HeldBy(n)' = Series(sc)!HeldBy(n)
      /\ Series(sc)!Taken' = Series(sc)!Taken
  BY <1>1, SlotsSame
<1>7. ASSUME SlotTold(sc) PROVE SlotTold(sc)'
  <2>1. /\ \A n \in sc.moderators : n \in apart \/ SlotOwn(sc, n)
        /\ behind \/ card = Series(sc)!Taken
    BY <1>2, <1>7, SlotsLight DEF SlotTold
  <2>2. ASSUME NEW n \in sc.moderators PROVE n \in apart' \/ SlotOwn(sc, n)'
    <3>1. CASE n = m
      BY <1>1, <3>1
    <3>2. CASE n # m
      <4>1. task'[n] = task[n] /\ Series(sc)!HeldBy(n)' = Series(sc)!HeldBy(n)
        BY <1>4, <1>6, <3>2
      <4>2. SlotOwn(sc, n)' <=> SlotOwn(sc, n)
        BY <4>1 DEF SlotOwn
      <4>3. QED BY <1>1, <2>1, <4>2
    <3>3. QED BY <3>1, <3>2
  <2>3. behind' \/ card' = Series(sc)!Taken'
    BY <1>1, <1>6, <2>1
  <2>4. SlotAnswersTrue(sc)'
    BY <1>1, <1>7 DEF SlotTold, SlotAnswersTrue
  <2>5. QED BY <1>1, <1>2, <1>7, <2>2, <2>3, <2>4, SlotsLightTelling
<1>8. SlotCovered(sc) => SlotCovered(sc)'
  <2>1. \A n : ~SlotBusy(slot_call[c], n)
    BY <1>2, SlotsLight
  <2>2. QED BY <1>1, <1>2, <1>6, <2>1, SlotsCovering DEF SlotCovered
<1>9. QED BY <1>5, <1>7, <1>8

\* A sequence rewritten place by place.
LEMMA SequenceMapped ==
  ASSUME NEW S, NEW T, NEW q \in Seq(T), NEW f, f = [i \in DOMAIN q |-> f[i]],
         \A i \in DOMAIN q : f[i] \in S
  PROVE  f \in Seq(S) /\ DOMAIN f = DOMAIN q /\ Len(f) = Len(q)
<1>1. DOMAIN q = 1 .. Len(q) /\ Len(q) \in Nat
  OBVIOUS
<1>2. f \in [1 .. Len(q) -> S]
  BY <1>1
<1>3. f \in Seq(S) /\ DOMAIN f = DOMAIN q
  BY <1>1, <1>2, SeqDef
<1>4. QED BY <1>1, <1>3

\* A new slot.
LEMMA SlotsEmpty ==
  ASSUME NEW sc, SlotAssumed(sc), NEW h \in sc.hours
  PROVE  /\ Series(sc)!Empty(h) \in SlotPlaces(sc) /\ Series(sc)!Empty(h).on = TRUE
         /\ Series(sc)!Empty(h).holder = sc.nobody
         /\ Series(sc)!Empty(h).answer = Series(sc)!NoAnswer
  BY SlotsNoAnswer DEF Series!Empty, SlotPlaces

\* Slots that go.
LEMMA SlotsWithout ==
  ASSUME NEW sc, SlotAssumed(sc), SlotShape(sc), NEW G, slot' = Series(sc)!Without(G)
  PROVE  /\ slot' \in Seq(SlotPlaces(sc)) /\ DOMAIN slot' = DOMAIN slot /\ Len(slot') = Len(slot)
         /\ \A s \in DOMAIN slot :
              /\ s \in G => /\ slot'[s].on = FALSE /\ slot'[s].holder = sc.nobody
                            /\ slot'[s].answer = Series(sc)!NoAnswer
              /\ s \notin G => slot'[s] = slot[s]
<1>1. slot' = [s \in DOMAIN slot |-> IF s \in G THEN Series(sc)!Gone(s) ELSE slot[s]]
  BY DEF Series!Without
<1>2. ASSUME NEW s \in DOMAIN slot
      PROVE  /\ s \in G => /\ slot'[s] \in SlotPlaces(sc) /\ slot'[s].on = FALSE
                           /\ slot'[s].holder = sc.nobody
                           /\ slot'[s].answer = Series(sc)!NoAnswer
             /\ s \notin G => slot'[s] = slot[s]
  <2>1. PICK h \in sc.hours : h = slot[s].hour
    BY SlotsTyped DEF SlotPlaces
  <2>2. PICK e \in SlotPlaces(sc) : e = Series(sc)!Empty(h) /\ e.answer = Series(sc)!NoAnswer
                                    /\ e.holder = sc.nobody
    <3>1. /\ Series(sc)!Empty(h) \in SlotPlaces(sc)
          /\ Series(sc)!Empty(h).answer = Series(sc)!NoAnswer
          /\ Series(sc)!Empty(h).holder = sc.nobody
      BY SlotsEmpty
    <3>2. QED BY <3>1
  <2> DEFINE g == [e EXCEPT !.on = FALSE]
  <2>3. g \in SlotPlaces(sc) /\ g.on = FALSE /\ g.answer = Series(sc)!NoAnswer
        /\ g.holder = sc.nobody
    BY <2>2 DEF SlotPlaces
  <2>4. s \in G => slot'[s] = g
    BY <1>1, <2>1, <2>2 DEF Series!Gone
  <2>5. s \notin G => slot'[s] = slot[s]
    BY <1>1
  <2> HIDE DEF g
  <2>6. QED BY <2>3, <2>4, <2>5
<1>3. slot' \in Seq(SlotPlaces(sc)) /\ DOMAIN slot' = DOMAIN slot /\ Len(slot') = Len(slot)
  <2>1. \A s \in DOMAIN slot : slot'[s] \in SlotPlaces(sc)
    BY <1>2, SlotsTyped
  <2>2. slot' = [s \in DOMAIN slot |-> slot'[s]]
    BY <1>1
  <2>3. slot \in Seq(SlotPlaces(sc))
    BY DEF SlotShape
  <2>4. QED BY <2>1, <2>2, <2>3, SequenceMapped
<1>4. QED BY <1>2, <1>3

\* Nobody holds a slot that went.
LEMMA SlotsWithoutHeld ==
  ASSUME NEW sc, SlotAssumed(sc), SlotShape(sc), NEW G, slot' = Series(sc)!Without(G), NEW n
  PROVE  Series(sc)!HeldBy(n)' = Series(sc)!HeldBy(n) \ G
<1>1. DOMAIN slot' = DOMAIN slot
  BY SlotsWithout
<1>2. ASSUME NEW s \in DOMAIN slot
      PROVE  s \in Series(sc)!HeldBy(n)' <=> s \in Series(sc)!HeldBy(n) \ G
  <2>1. /\ s \in G => slot'[s].on = FALSE
        /\ s \notin G => slot'[s] = slot[s]
    BY SlotsWithout
  <2>2. QED BY <1>1, <2>1 DEF Series!HeldBy
<1>3. QED BY <1>1, <1>2 DEF Series!HeldBy

\* The card tells nothing of those nobody held, nor do answers.
LEMMA SlotsWithoutTold ==
  ASSUME NEW sc, SlotAssumed(sc), SlotShape(sc), NEW G, slot' = Series(sc)!Without(G)
  PROVE  /\ G \intersect Series(sc)!TakenSlots = {} => Series(sc)!Taken' = Series(sc)!Taken
         /\ SlotTold(sc) => SlotAnswersTrue(sc)'
<1>1. DOMAIN slot' = DOMAIN slot
      /\ \A s \in DOMAIN slot :
           /\ s \in G => /\ slot'[s].on = FALSE /\ slot'[s].holder = sc.nobody
                         /\ slot'[s].answer = Series(sc)!NoAnswer
           /\ s \notin G => slot'[s] = slot[s]
  BY SlotsWithout
<1>2. ASSUME G \intersect Series(sc)!TakenSlots = {}
      PROVE  Series(sc)!Taken' = Series(sc)!Taken
  <2>1. Series(sc)!TakenSlots' = Series(sc)!TakenSlots
    BY <1>1, <1>2 DEF Series!TakenSlots
  <2>2. \A t \in Series(sc)!TakenSlots : slot'[t] = slot[t]
    BY <1>1, <1>2 DEF Series!TakenSlots
  <2>3. QED BY <2>1, <2>2 DEF Series!Taken
<1>3. ASSUME SlotTold(sc) PROVE SlotAnswersTrue(sc)'
  <2>1. ASSUME NEW s \in DOMAIN slot, NEW m \in sc.moderators
        PROVE  slot'[s].answer[m] # "none" => slot'[s].roll /\ slot'[s].holder = m
    <3>1. CASE s \in G
      <4>1. slot'[s].answer = Series(sc)!NoAnswer
        BY <1>1, <3>1
      <4>2. slot'[s].answer[m] = "none"
        BY <4>1, SlotsNoAnswer
      <4>3. QED BY <4>2
    <3>2. CASE s \notin G
      <4>1. slot'[s] = slot[s]
        BY <1>1, <3>2
      <4>2. QED BY <1>3, <4>1 DEF SlotTold, SlotAnswersTrue
    <3>3. QED BY <3>1, <3>2
  <2>2. QED BY <1>1, <2>1 DEF SlotAnswersTrue
<1>4. QED BY <1>2, <1>3

\* Slots removed by hand leave those who held them apart.
LEMMA SlotsDropSound ==
  ASSUME NEW sc, SlotAssumed(sc), SlotShape(sc), NEW c \in sc.calls, NEW S \in SUBSET DOMAIN slot,
         Series(sc)!RemoveEntries(c, S)
  PROVE  SlotShape(sc)' /\ (SlotTold(sc) => SlotTold(sc)') /\ (SlotCovered(sc) => SlotCovered(sc)')
<1> DEFINE k == Series(sc)!Idle
           holders == {slot[s].holder : s \in S \intersect Series(sc)!TakenSlots}
<1>1. /\ slot_call[c].at = "idle" /\ slot_call' = [slot_call EXCEPT ![c] = k]
      /\ UNCHANGED <<task, card>> /\ made < sc.made /\ made' = made + 1
      /\ slot' = Series(sc)!Without(S)
      /\ apart' = apart \union holders
      /\ behind' = (behind \/ S \intersect Series(sc)!TakenSlots # {})
  BY SlotsOver DEF Series!RemoveEntries, Series!Ask, Series!Counts
<1>2. k \in SlotSteps(sc) /\ k.at = "idle" /\ k.at \in SlotLight /\ SlotNamed(k, DOMAIN slot')
      /\ slot_call[c].at \in SlotLight
  BY <1>1, SlotsOver DEF SlotLight, SlotNamed
<1>3. holders \subseteq sc.moderators
  BY SlotsTyped DEF Series!TakenSlots, SlotPlaces
<1>4. \A n \in sc.moderators : n \notin holders => S \intersect Series(sc)!HeldBy(n) = {}
  BY DEF Series!HeldBy, Series!TakenSlots, SlotAssumed, Series!NobodyAssumption
<1> HIDE DEF k, holders
<1>5. /\ slot' \in Seq(SlotPlaces(sc)) /\ DOMAIN slot' = DOMAIN slot /\ Len(slot') = Len(slot)
      /\ \A n : Series(sc)!HeldBy(n)' = Series(sc)!HeldBy(n) \ S
      /\ S \intersect Series(sc)!TakenSlots = {} => Series(sc)!Taken' = Series(sc)!Taken
      /\ SlotTold(sc) => SlotAnswersTrue(sc)'
  BY <1>1, SlotsWithout, SlotsWithoutHeld, SlotsWithoutTold
<1>6. SlotShape(sc)'
  BY <1>1, <1>2, <1>3, <1>5, SlotsShapeGoes DEF SlotShape
<1>7. ASSUME SlotTold(sc) PROVE SlotTold(sc)'
  <2>1. /\ \A n \in sc.moderators : n \in apart \/ SlotOwn(sc, n)
        /\ behind \/ card = Series(sc)!Taken
    BY <1>2, <1>7, SlotsLight DEF SlotTold
  <2>2. ASSUME NEW n \in sc.moderators PROVE n \in apart' \/ SlotOwn(sc, n)'
    <3>1. CASE n \in holders
      BY <1>1, <3>1
    <3>2. CASE n \notin holders
      <4>1. Series(sc)!HeldBy(n)' = Series(sc)!HeldBy(n)
        BY <1>4, <1>5, <3>2
      <4>2. SlotOwn(sc, n)' <=> SlotOwn(sc, n)
        BY <1>1, <4>1 DEF SlotOwn
      <4>3. QED BY <1>1, <2>1, <4>2
    <3>3. QED BY <3>1, <3>2
  <2>3. behind' \/ card' = Series(sc)!Taken'
    BY <1>1, <1>5, <2>1
  <2>4. QED BY <1>1, <1>2, <1>5, <1>7, <2>2, <2>3, SlotsLightTelling
<1>8. SlotCovered(sc) => SlotCovered(sc)'
  <2>1. \A n : ~SlotBusy(slot_call[c], n)
    BY <1>2, SlotsLight
  <2>2. QED BY <1>1, <1>2, <1>5, <2>1, SlotsCovering DEF SlotCovered
<1>9. QED BY <1>6, <1>7, <1>8

\* The slots listed go, whoever took them since.
LEMMA SlotsDeleteSound ==
  ASSUME NEW sc, SlotAssumed(sc), SlotShape(sc), NEW c \in sc.calls, Series(sc)!DeleteSlots(c)
  PROVE  SlotShape(sc)' /\ (SlotTold(sc) => SlotTold(sc)') /\ (SlotCovered(sc) => SlotCovered(sc)')
<1>1. PICK p \in SlotDeletes(sc) : p = slot_call[c] /\ p.at = "delete"
  BY SlotsStepping DEF Series!DeleteSlots
<1>2. PICK k \in SlotSteps(sc) : k = [at |-> "create", wanted |-> p.wanted] /\ k.at = "create"
  <2>1. /\ [at |-> "create", wanted |-> p.wanted] \in SlotSteps(sc)
        /\ [at |-> "create", wanted |-> p.wanted].at = "create"
    BY <1>1 DEF SlotSteps, SlotEnds, SlotDeletes, SlotCreates
  <2>2. QED BY <2>1
<1>3. /\ slot_call' = [slot_call EXCEPT ![c] = k] /\ UNCHANGED <<task, card, apart, behind>>
      /\ made' = made /\ slot' = Series(sc)!Without(p.gone)
  BY <1>1, <1>2 DEF Series!DeleteSlots, Series!Goes, Series!Moves
<1>4. /\ slot' \in Seq(SlotPlaces(sc)) /\ DOMAIN slot' = DOMAIN slot /\ Len(slot') = Len(slot)
      /\ \A n : Series(sc)!HeldBy(n)' = Series(sc)!HeldBy(n) \ p.gone
      /\ p.gone \intersect Series(sc)!TakenSlots = {} => Series(sc)!Taken' = Series(sc)!Taken
      /\ SlotTold(sc) => SlotAnswersTrue(sc)'
  <2>1. slot' = Series(sc)!Without(p.gone)
    BY <1>3
  <2>2. slot' \in Seq(SlotPlaces(sc)) /\ DOMAIN slot' = DOMAIN slot /\ Len(slot') = Len(slot)
    BY <2>1, SlotsWithout
  <2>3. \A n : Series(sc)!HeldBy(n)' = Series(sc)!HeldBy(n) \ p.gone
    BY <2>1, SlotsWithoutHeld
  <2>4. QED BY <2>1, <2>2, <2>3, SlotsWithoutTold
<1>5. SlotNamed(k, DOMAIN slot') /\ k.at \in SlotLight
  BY <1>2 DEF SlotNamed, SlotLight
<1>6. SlotShape(sc)'
  BY <1>2, <1>3, <1>4, <1>5, SlotsShapeGoes DEF SlotShape
<1>7. ASSUME SlotTold(sc) PROVE SlotTold(sc)'
  <2>1. /\ \A n \in sc.moderators : n \in apart \/ SlotOwn(sc, n)
        /\ behind \/ card = Series(sc)!Taken
        /\ p.gone \subseteq Series(sc)!OpenSlots
    BY <1>1, <1>7, SlotsLight DEF SlotTold, SlotCallTrue
  <2>2. p.gone \intersect Series(sc)!TakenSlots = {}
        /\ \A n \in sc.moderators : p.gone \intersect Series(sc)!HeldBy(n) = {}
    BY <2>1 DEF SlotAssumed, Series!OpenSlots, Series!HeldBy, Series!TakenSlots,
          Series!NobodyAssumption
  <2>3. \A n \in sc.moderators : Series(sc)!HeldBy(n)' = Series(sc)!HeldBy(n)
    BY <1>4, <2>2
  <2>4. /\ \A n \in sc.moderators : n \in apart' \/ SlotOwn(sc, n)'
        /\ behind' \/ card' = Series(sc)!Taken'
    BY <1>3, <1>4, <2>1, <2>2, <2>3 DEF SlotOwn
  <2>5. QED BY <1>2, <1>3, <1>4, <1>5, <1>7, <2>4, SlotsLightTelling
<1>8. SlotCovered(sc) => SlotCovered(sc)'
  <2>1. \A n : ~SlotBusy(slot_call[c], n)
    BY <1>1, SlotsLight
  <2>2. QED BY <1>2, <1>3, <1>4, <2>1, SlotsCovering DEF SlotCovered
<1>9. QED BY <1>6, <1>7, <1>8

\* An hour without a slot gets one.
LEMMA SlotsCreateSound ==
  ASSUME NEW sc, SlotAssumed(sc), SlotShape(sc), NEW c \in sc.calls, Series(sc)!CreateSlot(c)
  PROVE  SlotShape(sc)' /\ (SlotTold(sc) => SlotTold(sc)') /\ (SlotCovered(sc) => SlotCovered(sc)')
<1>1. PICK p \in SlotCreates(sc) : p = slot_call[c] /\ p.at = "create"
  BY SlotsStepping DEF Series!CreateSlot
<1>2. UNCHANGED <<task, card, apart, behind>> /\ made' = made
  BY DEF Series!CreateSlot, Series!Goes, Series!Moves
<1>3. \A n : ~SlotBusy(slot_call[c], n)
  BY <1>1 DEF SlotBusy
<1>4. SlotTold(sc) => /\ \A n \in sc.moderators : n \in apart \/ SlotOwn(sc, n)
                      /\ behind \/ card = Series(sc)!Taken
  BY <1>1, SlotsLight DEF SlotTold, SlotLight
<1>5. CASE slot_call' = [slot_call EXCEPT ![c] = Series(sc)!Idle] /\ UNCHANGED slot
  <2> DEFINE k == Series(sc)!Idle
  <2>1. k \in SlotSteps(sc) /\ k.at = "idle" /\ k.at \in SlotLight /\ SlotNamed(k, DOMAIN slot)
    BY SlotsOver DEF SlotLight, SlotNamed
  <2>2. SlotTold(sc) => SlotCallTrue(sc, k)
    BY <1>4, <2>1, SlotsLight
  <2> HIDE DEF k
  <2>3. QED BY <1>2, <1>3, <1>5, <2>1, <2>2, SlotsResting DEF k
<1>6. CASE Len(slot) # sc.slots /\ \E h \in p.wanted :
             /\ slot' = Append(slot, Series(sc)!Empty(h))
             /\ slot_call' = [slot_call EXCEPT ![c] = [p EXCEPT !.wanted = p.wanted \ {h}]]
  <2>1. PICK h \in p.wanted :
             /\ slot' = Append(slot, Series(sc)!Empty(h))
             /\ slot_call' = [slot_call EXCEPT ![c] = [p EXCEPT !.wanted = p.wanted \ {h}]]
    BY <1>6
  <2>2. PICK k \in SlotSteps(sc) : k = [p EXCEPT !.wanted = p.wanted \ {h}] /\ k.at = "create"
    <3> DEFINE k == [p EXCEPT !.wanted = p.wanted \ {h}]
    <3>1. k \in SlotCreates(sc) /\ k.at = "create"
      BY DEF SlotCreates
    <3>2. QED BY <3>1 DEF SlotSteps, SlotEnds
  <2>3. PICK e \in SlotPlaces(sc) : e = Series(sc)!Empty(h) /\ e.on = TRUE /\ e.holder = sc.nobody
             /\ e.answer = Series(sc)!NoAnswer
    <3>1. h \in sc.hours
      BY DEF SlotCreates
    <3>2. /\ Series(sc)!Empty(h) \in SlotPlaces(sc) /\ Series(sc)!Empty(h).on = TRUE
          /\ Series(sc)!Empty(h).holder = sc.nobody
          /\ Series(sc)!Empty(h).answer = Series(sc)!NoAnswer
      BY <3>1, SlotsEmpty
    <3>3. QED BY <3>2
  <2>4. slot \in Seq(SlotPlaces(sc)) /\ slot' = Append(slot, e) /\ Len(slot) \in Nat
        /\ DOMAIN slot = 1 .. Len(slot)
    BY <2>1, <2>3 DEF SlotShape
  <2>5. /\ slot' \in Seq(SlotPlaces(sc)) /\ Len(slot') = Len(slot) + 1
        /\ DOMAIN slot' = DOMAIN slot \union {Len(slot) + 1} /\ Len(slot) + 1 \notin DOMAIN slot
        /\ slot'[Len(slot) + 1] = e /\ \A t \in DOMAIN slot : slot'[t] = slot[t]
    BY <2>4
  <2>6. SlotNamed(k, DOMAIN slot') /\ k.at \in SlotLight
    BY <2>2 DEF SlotNamed, SlotLight
  <2>7. SlotShape(sc)'
    BY <1>2, <2>1, <2>2, <2>5, <2>6, SlotsShapeGoes DEF SlotShape
  <2>8. \A n \in sc.moderators : Series(sc)!HeldBy(n)' = Series(sc)!HeldBy(n)
    BY <2>3, <2>5 DEF SlotAssumed, Series!HeldBy, Series!NobodyAssumption
  <2>9. ASSUME SlotTold(sc) PROVE SlotTold(sc)'
    <3>1. Series(sc)!Taken' = Series(sc)!Taken
      <4>1. Series(sc)!TakenSlots' = Series(sc)!TakenSlots
        BY <2>3, <2>5 DEF Series!TakenSlots
      <4>2. \A t \in Series(sc)!TakenSlots : slot'[t] = slot[t]
        BY <2>5 DEF Series!TakenSlots
      <4>3. QED BY <4>1, <4>2 DEF Series!Taken
    <3>2. /\ \A n \in sc.moderators : n \in apart' \/ SlotOwn(sc, n)'
          /\ behind' \/ card' = Series(sc)!Taken'
      BY <1>2, <1>4, <2>8, <2>9, <3>1 DEF SlotOwn
    <3>3. SlotAnswersTrue(sc)'
      <4>1. \A m \in sc.moderators : e.answer[m] = "none"
        BY <2>3, SlotsNoAnswer
      <4>2. QED BY <2>5, <2>9, <4>1 DEF SlotTold, SlotAnswersTrue
    <3>4. QED BY <2>1, <2>2, <2>6, <2>9, <3>2, <3>3, SlotsLightTelling
  <2>10. ASSUME SlotCovered(sc) PROVE SlotCovered(sc)'
    <3>1. Len(slot') <= sc.slots
      BY <1>6, <2>4, <2>5, <2>10 DEF SlotCovered
    <3>2. QED BY <1>3, <2>1, <2>2, <2>8, <2>10, <3>1, SlotsCovering
  <2>11. QED BY <2>7, <2>9, <2>10
<1>7. QED BY <1>1, <1>5, <1>6 DEF Series!CreateSlot, Series!Goes, Series!Moves

\* A query that fails ends the request there.
LEMMA SlotsFailSound ==
  ASSUME NEW sc, SlotAssumed(sc), SlotShape(sc), NEW c \in sc.calls, Series(sc)!Fail(c)
  PROVE  SlotShape(sc)' /\ (SlotTold(sc) => SlotTold(sc)') /\ (SlotCovered(sc) => SlotCovered(sc)')
<1>1. /\ Series(sc)!Throws(c) /\ UNCHANGED <<slot, task, card>>
      /\ made < sc.made /\ made' = made + 1
  BY DEF Series!Fail, Series!Counts
<1>2. ~SlotCovered(sc)
  BY DEF Series!Fail, SlotCovered
<1>3. QED BY <1>1, <1>2, SlotsThrowSound

\* Every step of a series leaves it as it should.
LEMMA SlotsStepSound ==
  ASSUME NEW sc, SlotAssumed(sc), SlotShape(sc), Series(sc)!Next
  PROVE  SlotShape(sc)' /\ (SlotTold(sc) => SlotTold(sc)') /\ (SlotCovered(sc) => SlotCovered(sc)')
<1>1. PICK c \in sc.calls :
        \/ \E s \in DOMAIN slot, m \in sc.moderators : Series(sc)!TakeSlot(c, s, m)
           \/ Series(sc)!PlaceSlot(c, s, m)
        \/ \E s, t \in DOMAIN slot : Series(sc)!MoveSlot(c, s, t)
        \/ \E s \in DOMAIN slot : Series(sc)!CancelSlot(c, s)
        \/ Series(sc)!RemoveOpenSlots(c) \/ Series(sc)!ReshapeSeries(c)
        \/ \E s \in DOMAIN slot, m \in sc.moderators :
             Series(sc)!RespondToRollCall(c, s, m) \/ Series(sc)!MoveOnRollCall(c, s, m)
        \/ \E s \in DOMAIN slot : Series(sc)!MoveEntry(c, s)
        \/ \E m \in sc.moderators : Series(sc)!SetTaskDone(c, m)
        \/ \E S \in SUBSET DOMAIN slot : Series(sc)!RemoveEntries(c, S)
        \/ Series(sc)!FindHeld(c) \/ Series(sc)!CloseSeriesIfComplete(c)
        \/ Series(sc)!ListOpenSlots(c)
        \/ Series(sc)!ReadCard(c) \/ Series(sc)!SyncSeriesMeeting(c)
        \/ Series(sc)!Claim(c) \/ Series(sc)!ClearRoster(c) \/ Series(sc)!ClearName(c)
        \/ Series(sc)!TaskDone(c) \/ Series(sc)!TaskTodo(c)
        \/ Series(sc)!Convene(c) \/ Series(sc)!SyncRoster(c)
        \/ Series(sc)!DeleteSlots(c) \/ Series(sc)!CreateSlot(c)
        \/ Series(sc)!Fail(c)
  BY DEF Series!Next
<1>2. CASE \/ \E s \in DOMAIN slot, m \in sc.moderators : Series(sc)!TakeSlot(c, s, m)
              \/ Series(sc)!PlaceSlot(c, s, m)
           \/ \E s, t \in DOMAIN slot : Series(sc)!MoveSlot(c, s, t)
           \/ \E s \in DOMAIN slot : Series(sc)!CancelSlot(c, s)
           \/ Series(sc)!RemoveOpenSlots(c) \/ Series(sc)!ReshapeSeries(c)
  BY <1>2, SlotsAskSound
<1>3. CASE \E s \in DOMAIN slot, m \in sc.moderators :
             Series(sc)!RespondToRollCall(c, s, m) \/ Series(sc)!MoveOnRollCall(c, s, m)
  BY <1>3, SlotsAnswerSound
<1>4. CASE \E s \in DOMAIN slot : Series(sc)!MoveEntry(c, s)
  BY <1>4, SlotsDragSound
<1>5. CASE \E m \in sc.moderators : Series(sc)!SetTaskDone(c, m)
  BY <1>5, SlotsTickSound
<1>6. CASE \E S \in SUBSET DOMAIN slot : Series(sc)!RemoveEntries(c, S)
  BY <1>6, SlotsDropSound
<1>7. CASE Series(sc)!FindHeld(c) \/ (Series(sc)!ReadCard(c) /\ Series(sc)!There(slot_call[c].from))
  BY <1>7, SlotsReadSound
<1>8. CASE Series(sc)!CloseSeriesIfComplete(c) \/ Series(sc)!ListOpenSlots(c)
  BY <1>8, SlotsListSound
<1>9. CASE Series(sc)!SyncSeriesMeeting(c)
           \/ (Series(sc)!ReadCard(c) /\ ~Series(sc)!There(slot_call[c].from))
  BY <1>9, SlotsCardSound
<1>10. CASE Series(sc)!Claim(c) \/ Series(sc)!ClearRoster(c) \/ Series(sc)!ClearName(c)
  BY <1>10, SlotsClaimSound, SlotsRosterSound, SlotsNameSound
<1>11. CASE Series(sc)!TaskDone(c) \/ Series(sc)!TaskTodo(c)
  BY <1>11, SlotsDoneSound, SlotsTodoSound
<1>12. CASE Series(sc)!Convene(c) \/ Series(sc)!SyncRoster(c)
  BY <1>12, SlotsConveneSound
<1>13. CASE Series(sc)!DeleteSlots(c) \/ Series(sc)!CreateSlot(c) \/ Series(sc)!Fail(c)
  BY <1>13, SlotsDeleteSound, SlotsCreateSound, SlotsFailSound
<1>14. QED
  BY <1>1, <1>2, <1>3, <1>4, <1>5, <1>6, <1>7, <1>8, <1>9, <1>10, <1>11, <1>12, <1>13

\* A series that opens.
LEMMA SlotsInitial ==
  ASSUME NEW sc, SlotAssumed(sc), Series(sc)!Init
  PROVE  /\ SlotShape(sc)
         /\ SlotInTurn(sc) => SlotTold(sc)
         /\ /\ sc.slots \in Nat /\ sc.slots <= 2 /\ sc.opened <= sc.slots
            /\ "fail" \notin sc.requests
            => SlotCovered(sc)
<1>1. sc.opened \in Nat /\ 1 .. sc.opened \subseteq sc.hours /\ sc.made \in Nat
  BY DEF Series!HoursAssumption, Series!BoundsAssumption, SlotAssumed
<1>2. ASSUME NEW h \in sc.hours
      PROVE  /\ Series(sc)!Empty(h) \in SlotPlaces(sc) /\ Series(sc)!Empty(h).on = TRUE
             /\ Series(sc)!Empty(h).holder = sc.nobody
             /\ Series(sc)!Empty(h).answer = Series(sc)!NoAnswer
  BY SlotsEmpty
<1>3. slot \in Seq(SlotPlaces(sc)) /\ Len(slot) = sc.opened /\ DOMAIN slot = 1 .. sc.opened
  <2>1. slot \in [1 .. sc.opened -> SlotPlaces(sc)]
    BY <1>1, <1>2 DEF Series!Init
  <2>2. slot \in Seq(SlotPlaces(sc))
    BY <1>1, <2>1, SeqDef
  <2>3. QED BY <1>1, <2>1, <2>2
<1>4. \A s \in DOMAIN slot : slot[s].holder = sc.nobody /\ slot[s].answer = Series(sc)!NoAnswer
  BY <1>1, <1>2, <1>3 DEF Series!Init
<1>5. \A m \in sc.moderators : Series(sc)!HeldBy(m) = {}
  BY <1>4 DEF SlotAssumed, Series!HeldBy, Series!NobodyAssumption
<1>6. Series(sc)!Taken = {}
  BY <1>4 DEF Series!Taken, Series!TakenSlots
<1>7. /\ task = [m \in sc.moderators |-> "todo"] /\ card = {}
      /\ slot_call = [c \in sc.calls |-> Series(sc)!Idle]
      /\ made = 0 /\ apart = {} /\ behind = FALSE
  BY DEF Series!Init
<1>8. Series(sc)!Idle \in SlotSteps(sc) /\ Series(sc)!Idle.at = "idle"
      /\ SlotNamed(Series(sc)!Idle, DOMAIN slot)
  BY SlotsOver DEF SlotNamed
<1>9. SlotShape(sc)
  <2>1. task \in [sc.moderators -> {"todo", "done"}] /\ made \in Nat /\ made <= sc.made
    BY <1>1, <1>7
  <2>2. card \in SlotCards(sc) /\ apart \in SUBSET sc.moderators /\ behind \in BOOLEAN
    BY <1>7, Zenon DEF SlotCards
  <2>3. /\ slot_call \in [sc.calls -> SlotSteps(sc)]
        /\ \A c \in sc.calls : SlotNamed(slot_call[c], DOMAIN slot)
    BY <1>7, <1>8
  <2>4. QED BY <1>3, <2>1, <2>2, <2>3 DEF SlotShape
<1>10. SlotInTurn(sc) => SlotTold(sc)
  <2>1. \A m \in sc.moderators : SlotOwn(sc, m)
    BY <1>5, <1>7 DEF SlotOwn
  <2>2. SlotAnswersTrue(sc)
    BY <1>4, SlotsNoAnswer DEF SlotAnswersTrue
  <2>3. SlotCallTrue(sc, Series(sc)!Idle)
    BY <1>6, <1>7, <1>8, <2>1, SlotsLight DEF SlotLight
  <2>4. QED BY <1>7, <2>2, <2>3 DEF SlotTold
<1>11. /\ sc.slots \in Nat /\ sc.slots <= 2 /\ sc.opened <= sc.slots /\ "fail" \notin sc.requests
       => SlotCovered(sc)
  BY <1>3, <1>5 DEF SlotCovered
<1>12. QED BY <1>9, <1>10, <1>11

\* A set without two elements.
LEMMA SlotsAtMostOne ==
  ASSUME NEW S, \A s, t \in S : s = t
  PROVE  Cardinality(S) <= 1
<1>1. CASE S = {}
  BY <1>1, FS_EmptySet
<1>2. CASE S # {}
  <2>1. PICK s : S = {s}
    BY <1>2
  <2>2. Cardinality(S) = 1
    BY <2>1, FS_Singleton
  <2>3. QED BY <2>2
<1>3. QED BY <1>1, <1>2

\* The instance counts as the library does.
LEMMA SlotsCounts ==
  ASSUME NEW sc, NEW S
  PROVE  Series(sc)!Cardinality(S) = Cardinality(S)
  BY DEF Series!Cardinality, Cardinality

\* What the records say: whoever holds what, once every call is over.
LEMMA SlotsFinal ==
  ASSUME NEW sc, SlotAssumed(sc), SlotShape(sc)
  PROVE  /\ Series(sc)!TypeOK
         /\ SlotTold(sc) => /\ Series(sc)!TaskFollows /\ Series(sc)!AnswersTrue
                            /\ Series(sc)!CardTrue
         /\ SlotCovered(sc) => Series(sc)!AtMostOne
<1>1. Series(sc)!TypeOK
  BY SlotsTyped DEF SlotShape, SlotCards, Series!TypeOK, SlotPlaces
<1>2. ASSUME SlotTold(sc)
      PROVE  Series(sc)!TaskFollows /\ Series(sc)!AnswersTrue /\ Series(sc)!CardTrue
  <2>1. Series(sc)!Quiet => /\ \A m \in sc.moderators : m \in apart \/ SlotOwn(sc, m)
                            /\ behind \/ card = Series(sc)!Taken
    BY <1>2, SlotsOver, SlotsLight DEF SlotTold, SlotLight
  <2>2. Series(sc)!TaskFollows
    <3>1. ASSUME Series(sc)!Quiet, NEW m \in sc.moderators \ apart
          PROVE  /\ Series(sc)!Cardinality(Series(sc)!HeldBy(m)) <= 1
                 /\ task[m] = "done" <=> Series(sc)!HeldBy(m) # {}
      <4>1. SlotOwn(sc, m)
        BY <2>1, <3>1
      <4>2. QED BY <4>1, SlotsAtMostOne, SlotsCounts DEF SlotOwn
    <3>2. QED BY <3>1 DEF Series!TaskFollows
  <2>3. Series(sc)!AnswersTrue
    BY <1>2 DEF Series!AnswersTrue, SlotTold, SlotAnswersTrue
  <2>4. Series(sc)!CardTrue
    BY <2>1 DEF Series!CardTrue
  <2>5. QED BY <2>2, <2>3, <2>4
<1>3. ASSUME SlotCovered(sc) PROVE Series(sc)!AtMostOne
  <2>1. ASSUME Series(sc)!Quiet, NEW m \in sc.moderators
        PROVE  \A s, t \in Series(sc)!HeldBy(m) : s = t
    <3>1. \A c \in sc.calls : slot_call[c].at = "idle"
      BY <2>1 DEF Series!Quiet, Series!Idle
    <3>2. \A c \in sc.calls : ~SlotBusy(slot_call[c], m)
      BY <3>1 DEF SlotBusy
    <3>3. QED BY <1>3, <3>2 DEF SlotCovered
  <2>2. QED BY <2>1, SlotsAtMostOne, SlotsCounts DEF Series!AtMostOne
<1>4. QED BY <1>1, <1>2, <1>3

\* A step elsewhere leaves the series as it is.
LEMMA SlotsRests ==
  ASSUME NEW sc, SlotAssumed(sc), SlotShape(sc), UNCHANGED slot_vars
  PROVE  SlotShape(sc)' /\ (SlotTold(sc) => SlotTold(sc)') /\ (SlotCovered(sc) => SlotCovered(sc)')
<1> USE DEF slot_vars
<1>1. SlotShape(sc)'
  BY DEF SlotShape
<1>2. /\ \A n : Series(sc)!HeldBy(n)' = Series(sc)!HeldBy(n)
      /\ Series(sc)!OpenSlots' = Series(sc)!OpenSlots /\ Series(sc)!Taken' = Series(sc)!Taken
  BY SlotsSame
<1>3. \A m : SlotOwn(sc, m)' <=> SlotOwn(sc, m)
  BY <1>2 DEF SlotOwn
<1>4. ASSUME NEW k, SlotCallTrue(sc, k) PROVE SlotCallTrue(sc, k)'
  <2>1. SlotSettled(sc, k)' /\ SlotDisplayed(sc, k)'
    BY <1>2, <1>3, <1>4 DEF SlotCallTrue, SlotSettled, SlotDisplayed
  <2>2. SlotToFree(sc, k)' <=> SlotToFree(sc, k)
    BY <1>2 DEF SlotToFree
  <2>3. QED BY <1>2, <1>4, <2>1, <2>2 DEF SlotCallTrue
<1>5. SlotTold(sc) => SlotTold(sc)'
  <2>1. Series(sc)!Quiet' = Series(sc)!Quiet /\ SlotAnswersTrue(sc)' = SlotAnswersTrue(sc)
    BY DEF Series!Quiet, SlotAnswersTrue
  <2>2. (\A c \in sc.calls : SlotCallTrue(sc, slot_call[c]))
          => \A c \in sc.calls : SlotCallTrue(sc, slot_call[c])'
    BY <1>4
  <2>3. SlotCallTrue(sc, Series(sc)!Idle) => SlotCallTrue(sc, Series(sc)!Idle)'
    BY <1>4
  <2>4. QED BY <2>1, <2>2, <2>3 DEF SlotTold, SlotInTurn
<1>6. SlotCovered(sc) => SlotCovered(sc)'
  BY <1>2 DEF SlotCovered
<1>7. QED BY <1>1, <1>5, <1>6

\* The series is the one of one of the two scopes, for good.
SlotsHold ==
    IF part = "races" THEN SlotShape(RacesScope) /\ SlotCovered(RacesScope)
    ELSE SlotShape(SlotsScope) /\ SlotTold(SlotsScope)

\* What is assumed of the scopes.
LEMMA SlotsScoped ==
  /\ SlotAssumed(SlotsScope) /\ \A c, d \in SlotsScope.calls : c = d
  /\ SlotAssumed(RacesScope) /\ RacesScope.slots <= 2 /\ "fail" \notin RacesScope.requests
  BY OnceAssumption DEF SlotAssumed

LEMMA SlotsOpen == OnceInit => SlotsHold
<1>1. CASE part = "races"
  <2>1. RacesScope.slots \in Nat /\ RacesScope.opened <= RacesScope.slots
    BY SlotsScoped DEF SlotAssumed, Series!BoundsAssumption
  <2>2. QED BY SlotsScoped, <1>1, <2>1, SlotsInitial DEF OnceInit, SlotsHold
<1>2. CASE part # "races"
  BY SlotsScoped, <1>2, SlotsInitial DEF OnceInit, SlotsHold, SlotInTurn
<1>3. QED BY <1>1, <1>2

\* Every step of the whole leaves the slots sound.
LEMMA SlotsKept == SlotsHold /\ [OnceNext]_all_vars => SlotsHold'
<1> SUFFICES ASSUME SlotsHold, [OnceNext]_all_vars PROVE SlotsHold'
  OBVIOUS
<1>1. CASE OnSlots /\ Series(SlotsScope)!Next
  BY SlotsScoped, <1>1, SlotsStepSound DEF OnSlots, On, SlotsHold
<1>2. CASE OnRaces /\ Series(RacesScope)!Next
  BY SlotsScoped, <1>2, SlotsStepSound DEF OnRaces, On, SlotsHold
<1>3. CASE UNCHANGED <<part, slot_vars>>
  BY SlotsScoped, <1>3, SlotsRests DEF SlotsHold
<1>4. QED
  BY <1>1, <1>2, <1>3 DEF OnceNext, OnTour, OnSent, OnKept, OnWrite, On, all_vars

\* SlotsSound: for any moderators, hours and slots, and any requests in turn, whatever is ticked,
\* dragged or removed by hand and wherever a query fails, a moderator holds one slot at most, and
\* their task is done exactly while they hold one, unless their task was ticked, their slot removed
\* or a request about them failed since one settled them; answers are those of who holds the slot;
\* and the card shows who holds what, unless the slots changed by hand or a request failed since it
\* was written.  Of two slots, however any number of requests of every kind cross, a moderator is
\* left one at most, as long as no query fails.
THEOREM SlotsSettle == OnceSpec => []SlotsSound
<1>1. OnceInit => SlotsHold
  BY SlotsOpen
<1>2. SlotsHold /\ [OnceNext]_all_vars => SlotsHold'
  BY SlotsKept
<1>3. SlotsHold => SlotsSound
  BY SlotsScoped, SlotsFinal DEF SlotsHold, SlotsSound, Series!SlotsSound
<1>4. QED BY <1>1, <1>2, <1>3, PTL DEF OnceSpec

\* One slot is written, with its holder or none.
LEMMA SlotsHolderStays ==
  ASSUME NEW sc, SlotAssumed(sc), SlotShape(sc), NEW s \in DOMAIN slot, NEW e,
         slot' = [slot EXCEPT ![s] = e], e.holder \in {slot[s].holder, sc.nobody}
  PROVE  Series(sc)!HolderKept
  BY SlotsTyped DEF Series!HolderKept

\* A slot's answers are written.
LEMMA SlotsHolderAnswers ==
  ASSUME NEW sc, SlotAssumed(sc), SlotShape(sc), NEW s \in DOMAIN slot, NEW a,
         slot' = [slot EXCEPT ![s].answer = a]
  PROVE  Series(sc)!HolderKept
<1>1. PICK p \in SlotPlaces(sc) : p = slot[s]
  BY SlotsTyped
<1>2. [p EXCEPT !.answer = a].holder = p.holder
  BY DEF SlotPlaces
<1>3. slot' = [slot EXCEPT ![s] = [p EXCEPT !.answer = a]]
  BY <1>1
<1>4. QED BY <1>1, <1>2, <1>3, SlotsHolderStays

\* A claim takes a slot nobody holds, and whatever else writes a slot keeps its holder or frees it.
LEMMA SlotsHolderKept ==
  ASSUME NEW sc, SlotAssumed(sc), SlotShape(sc), Series(sc)!Next
  PROVE  Series(sc)!HolderKept
<1>1. PICK c \in sc.calls :
        \/ \E s \in DOMAIN slot, m \in sc.moderators : Series(sc)!TakeSlot(c, s, m)
           \/ Series(sc)!PlaceSlot(c, s, m)
        \/ \E s, t \in DOMAIN slot : Series(sc)!MoveSlot(c, s, t)
        \/ \E s \in DOMAIN slot : Series(sc)!CancelSlot(c, s)
        \/ Series(sc)!RemoveOpenSlots(c) \/ Series(sc)!ReshapeSeries(c)
        \/ \E m \in sc.moderators : Series(sc)!SetTaskDone(c, m)
        \/ Series(sc)!FindHeld(c) \/ Series(sc)!CloseSeriesIfComplete(c)
        \/ Series(sc)!ListOpenSlots(c)
        \/ Series(sc)!ReadCard(c) \/ Series(sc)!SyncSeriesMeeting(c)
        \/ Series(sc)!TaskDone(c) \/ Series(sc)!TaskTodo(c) \/ Series(sc)!Fail(c)
        \/ \E s \in DOMAIN slot, m \in sc.moderators :
             Series(sc)!RespondToRollCall(c, s, m) \/ Series(sc)!MoveOnRollCall(c, s, m)
        \/ \E s \in DOMAIN slot : Series(sc)!MoveEntry(c, s)
        \/ \E S \in SUBSET DOMAIN slot : Series(sc)!RemoveEntries(c, S)
        \/ Series(sc)!Claim(c) \/ Series(sc)!ClearRoster(c) \/ Series(sc)!ClearName(c)
        \/ Series(sc)!Convene(c) \/ Series(sc)!SyncRoster(c)
        \/ Series(sc)!DeleteSlots(c) \/ Series(sc)!CreateSlot(c)
  BY DEF Series!Next
<1>0. CASE \/ \E s \in DOMAIN slot, m \in sc.moderators : Series(sc)!TakeSlot(c, s, m)
              \/ Series(sc)!PlaceSlot(c, s, m)
           \/ \E s, t \in DOMAIN slot : Series(sc)!MoveSlot(c, s, t)
           \/ \E s \in DOMAIN slot : Series(sc)!CancelSlot(c, s)
           \/ Series(sc)!RemoveOpenSlots(c) \/ Series(sc)!ReshapeSeries(c)
           \/ \E m \in sc.moderators : Series(sc)!SetTaskDone(c, m)
           \/ Series(sc)!FindHeld(c) \/ Series(sc)!CloseSeriesIfComplete(c)
           \/ Series(sc)!ListOpenSlots(c)
           \/ Series(sc)!ReadCard(c) \/ Series(sc)!SyncSeriesMeeting(c)
           \/ Series(sc)!TaskDone(c) \/ Series(sc)!TaskTodo(c) \/ Series(sc)!Fail(c)
  <2>1. UNCHANGED slot
    BY <1>0 DEF Series!TakeSlot, Series!PlaceSlot, Series!MoveSlot, Series!CancelSlot,
          Series!RemoveOpenSlots, Series!ReshapeSeries, Series!FindHeld, Series!ReadCard,
          Series!CloseSeriesIfComplete, Series!ListOpenSlots, Series!TaskDone, Series!TaskTodo,
          Series!SyncSeriesMeeting, Series!SetTaskDone, Series!Fail
  <2>2. QED BY <2>1 DEF Series!HolderKept
<1>2. CASE UNCHANGED slot
  BY <1>2 DEF Series!HolderKept
<1>3. CASE Series(sc)!Claim(c)
  <2>1. PICK s : s = slot_call[c].slot
    OBVIOUS
  <2>2. CASE Series(sc)!Wins(s)
    <3>1. /\ s \in DOMAIN slot /\ slot[s].holder = sc.nobody
          /\ slot' = [slot EXCEPT ![s].holder = slot_call[c].who]
      BY <1>3, <2>1, <2>2 DEF Series!Claim, Series!Wins, Series!There
    <3>2. \A t \in DOMAIN slot : t # s => slot'[t] = slot[t]
      BY <3>1, SlotsTyped
    <3>3. QED BY <3>1, <3>2 DEF Series!HolderKept
  <2>3. CASE ~Series(sc)!Wins(s)
    BY <1>2, <1>3, <2>1, <2>3 DEF Series!Claim
  <2>4. QED BY <2>2, <2>3
<1>4. CASE Series(sc)!ClearRoster(c)
  <2>1. \/ UNCHANGED slot
        \/ \E s \in DOMAIN slot : slot' = [slot EXCEPT ![s].answer = Series(sc)!NoAnswer]
    BY <1>4 DEF Series!ClearRoster, Series!There
  <2>2. QED BY <1>2, <2>1, SlotsHolderAnswers
<1>5. CASE Series(sc)!ClearName(c) /\ ~UNCHANGED slot
  <2>1. PICK s \in DOMAIN slot : slot' = [slot EXCEPT ![s].holder = sc.nobody, ![s].roll = FALSE]
    BY <1>5 DEF Series!ClearName, Series!There
  <2>2. PICK p \in SlotPlaces(sc) : p = slot[s]
    BY SlotsTyped
  <2>3. PICK q \in SlotPlaces(sc) : q = [p EXCEPT !.holder = sc.nobody] /\ q.holder = sc.nobody
    BY SlotsHolderSet
  <2>4. [q EXCEPT !.roll = FALSE].holder = sc.nobody
    BY <2>3 DEF SlotPlaces
  <2>5. slot' = [slot EXCEPT ![s] = [q EXCEPT !.roll = FALSE]]
    BY <2>1, <2>2, <2>3
  <2>6. QED BY <2>4, <2>5, SlotsHolderStays
<1>6. CASE \E s \in DOMAIN slot, m \in sc.moderators :
             Series(sc)!RespondToRollCall(c, s, m) \/ Series(sc)!MoveOnRollCall(c, s, m)
  <2>1. PICK s \in DOMAIN slot, m \in sc.moderators :
          Series(sc)!RespondToRollCall(c, s, m) \/ Series(sc)!MoveOnRollCall(c, s, m)
    BY <1>6
  <2>2. \E x : slot' = [slot EXCEPT ![s].answer[m] = x]
    BY <2>1 DEF Series!RespondToRollCall, Series!MoveOnRollCall
  <2>3. \E a : slot' = [slot EXCEPT ![s].answer = a]
    BY <2>2
  <2>4. QED BY <2>3, SlotsHolderAnswers
<1>7. CASE Series(sc)!SyncRoster(c) /\ ~UNCHANGED slot
  <2>1. PICK s \in DOMAIN slot : \E m, x : slot' = [slot EXCEPT ![s].answer[m] = x]
    BY <1>7 DEF Series!SyncRoster, Series!There
  <2>2. \E a : slot' = [slot EXCEPT ![s].answer = a]
    BY <2>1
  <2>3. QED BY <2>2, SlotsHolderAnswers
<1>8. CASE Series(sc)!Convene(c) /\ ~UNCHANGED slot
  <2>1. PICK s \in DOMAIN slot : slot' = [slot EXCEPT ![s].roll = TRUE]
    BY <1>8 DEF Series!Convene, Series!There
  <2>2. PICK p \in SlotPlaces(sc) : p = slot[s]
    BY SlotsTyped
  <2>3. PICK q \in SlotPlaces(sc) : SlotRollIs(q, p, TRUE)
    BY SlotsRollSet
  <2>4. slot' = [slot EXCEPT ![s] = q] /\ q.holder = slot[s].holder
    BY <2>1, <2>2, <2>3 DEF SlotRollIs
  <2>5. QED BY <2>4, SlotsHolderStays
<1>9. CASE \E s \in DOMAIN slot : Series(sc)!MoveEntry(c, s)
  <2>1. PICK s \in DOMAIN slot, h \in sc.hours : slot' = [slot EXCEPT ![s].hour = h]
    BY <1>9 DEF Series!MoveEntry
  <2>2. PICK p \in SlotPlaces(sc) : p = slot[s]
    BY SlotsTyped
  <2>3. PICK q \in SlotPlaces(sc) : q = [p EXCEPT !.hour = h] /\ q.holder = p.holder
    BY SlotsHourSet
  <2>4. slot' = [slot EXCEPT ![s] = q] /\ q.holder = slot[s].holder
    BY <2>1, <2>2, <2>3
  <2>5. QED BY <2>4, SlotsHolderStays
<1>10. CASE \/ Series(sc)!DeleteSlots(c)
            \/ \E S \in SUBSET DOMAIN slot : Series(sc)!RemoveEntries(c, S)
  <2>1. PICK G : slot' = Series(sc)!Without(G)
    BY <1>10 DEF Series!DeleteSlots, Series!RemoveEntries
  <2>2. ASSUME NEW s \in DOMAIN slot PROVE slot'[s].holder \in {slot[s].holder, sc.nobody}
    <3>1. /\ s \in G => slot'[s].holder = sc.nobody
          /\ s \notin G => slot'[s] = slot[s]
      BY <2>1, SlotsWithout
    <3>2. QED BY <3>1
  <2>3. QED BY <2>2 DEF Series!HolderKept
<1>11. CASE Series(sc)!CreateSlot(c)
  <2>1. slot' = slot \/ \E e : slot' = Append(slot, e)
    BY <1>11 DEF Series!CreateSlot
  <2>2. \A t \in DOMAIN slot : slot'[t] = slot[t]
    BY <2>1 DEF SlotShape
  <2>3. QED BY <2>2 DEF Series!HolderKept
<1>12. QED
  BY <1>0, <1>1, <1>2, <1>3, <1>4, <1>5, <1>6, <1>7, <1>8, <1>9, <1>10, <1>11

\* HolderKept: for any moderators, hours and slots, requests in turn that may fail, and any number
\* of requests that cross over two slots, no moderator is given a slot another one holds: between
\* two holders the slot was free.
THEOREM HoldersNeverReplaced ==
  OnceSpec => [][IF part = "races" THEN Series(RacesScope)!HolderKept
                 ELSE Series(SlotsScope)!HolderKept]_all_vars
<1> DEFINE Kept == IF part = "races" THEN Series(RacesScope)!HolderKept
                   ELSE Series(SlotsScope)!HolderKept
<1>1. OnceInit => SlotsHold
  BY SlotsOpen
<1>2. SlotsHold /\ [OnceNext]_all_vars => SlotsHold'
  BY SlotsKept
<1>3. SlotsHold /\ [OnceNext]_all_vars => [Kept]_all_vars
  <2> SUFFICES ASSUME SlotsHold, OnceNext PROVE Kept
    OBVIOUS
  <2>1. CASE UNCHANGED slot
    BY <2>1 DEF Series!HolderKept
  <2>2. CASE ~UNCHANGED slot
    <3>1. (OnSlots /\ Series(SlotsScope)!Next) \/ (OnRaces /\ Series(RacesScope)!Next)
      BY <2>2 DEF OnceNext, OnTour, OnSent, OnKept, OnWrite, slot_vars
    <3>2. QED BY <3>1, SlotsScoped, SlotsHolderKept DEF OnSlots, OnRaces, On, SlotsHold
  <2>3. QED BY <2>1, <2>2
<1>4. QED BY <1>1, <1>2, <1>3, PTL DEF OnceSpec
=============================================================================
