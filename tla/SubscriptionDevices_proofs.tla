--------------------- MODULE SubscriptionDevices_proofs ---------------------
(* Proofs about SubscriptionDevices, for any sets of concurrent requests,   *)
(* devices and limits.                                                      *)
EXTENDS SubscriptionDevices, FiniteSetTheorems, TLAPS

\* Every reachable state has the declared types.
THEOREM TypeCorrect == Spec => []TypeOK
<1>1. Init => TypeOK
  BY DevicesAssumption DEF Init, TypeOK, Keys, Stored
<1>2. TypeOK /\ [Next]_vars => TypeOK'
  <2> SUFFICES ASSUME TypeOK, [Next]_vars
               PROVE  TypeOK'
    OBVIOUS
  <2> USE DEF TypeOK, Goto, Keys, Working, Answers
  <2>1. ASSUME NEW h \in Handlers, NEW k \in Keys, Begin(h, k)
        PROVE  TypeOK'
    BY <2>1 DEF Begin, historyVars
  <2>2. ASSUME NEW h \in Handlers, Record(h)
        PROVE  TypeOK'
    BY <2>2 DEF Record, historyVars
  <2>3. ASSUME NEW h \in Handlers, Lookup(h) \/ Count(h)
        PROVE  TypeOK'
    BY <2>3 DEF Lookup, Count, historyVars
  <2>4. ASSUME NEW h \in Handlers, Insert(h)
        PROVE  TypeOK'
    BY <2>4 DEF Insert, historyVars
  <2>5. ASSUME NEW h \in Handlers, Build(h) \/ Fail(h) \/ NotFound(h)
        PROVE  TypeOK'
    BY <2>5 DEF Build, Fail, NotFound, historyVars
  <2>6. ASSUME NEW n \in Limits, SetLimit(n)
        PROVE  TypeOK'
    BY <2>6, DevicesAssumption DEF SetLimit, Stored, handlerVars
  <2>7. CASE DeleteUser
    BY <2>7 DEF DeleteUser, handlerVars, historyVars
  <2>8. CASE UNCHANGED vars
    BY <2>8 DEF vars, handlerVars, historyVars
  <2> QED
    BY <2>1, <2>2, <2>3, <2>4, <2>5, <2>6, <2>7, <2>8 DEF Next, Step
<1> QED
  BY <1>1, <1>2, PTL DEF Spec

-----------------------------------------------------------------------------
\* The sets counted are finite.
LEMMA CountsFinite ==
  /\ IsFiniteSet(Counted) /\ Cardinality(Counted) \in Nat
  /\ IsFiniteSet(Admitted) /\ Cardinality(Admitted) \in Nat
  /\ Cardinality(Handlers) \in Nat
  /\ Cardinality(Admitted) <= Cardinality(Handlers)
<1>1. IsFiniteSet(Counted)
  BY DevicesAssumption, FS_Intersection DEF Counted
<1>2. Admitted \in SUBSET Handlers
  BY DEF Admitted
<1>3. IsFiniteSet(Admitted) /\ Cardinality(Admitted) <= Cardinality(Handlers)
  BY <1>2, DevicesAssumption, FS_Subset
<1> QED
  BY <1>1, <1>3, DevicesAssumption, FS_CardinalityType
\* The same after a step.
LEMMA CountsFiniteNext ==
  /\ IsFiniteSet(Counted') /\ Cardinality(Counted') \in Nat
  /\ IsFiniteSet(Admitted') /\ Cardinality(Admitted') \in Nat
  /\ Cardinality(Admitted') <= Cardinality(Handlers)
<1>1. IsFiniteSet(Counted')
  BY DevicesAssumption, FS_Intersection DEF Counted
<1>2. Admitted' \in SUBSET Handlers
  BY DEF Admitted
<1>3. IsFiniteSet(Admitted') /\ Cardinality(Admitted') <= Cardinality(Handlers)
  BY <1>2, DevicesAssumption, FS_Subset
<1> QED
  BY <1>1, <1>3, DevicesAssumption, FS_CardinalityType

\* The bound of AdmittedInv on its own.
Bound == Cardinality(Counted) + Cardinality(Admitted)
           <= highest + Cardinality(Handlers) - 1

\* Fewer handlers let in and no more devices stay within the bound.
LEMMA BoundKept ==
  ASSUME TypeOK, TypeOK', Bound, Counted' = Counted, Admitted' \subseteq Admitted,
         highest <= highest'
  PROVE  Bound'
<1>1. Cardinality(Admitted') <= Cardinality(Admitted)
  BY CountsFinite, FS_Subset
<1>2. highest \in Nat /\ highest' \in Nat
  BY DevicesAssumption DEF TypeOK
<1> QED
  BY <1>1, <1>2, CountsFinite, CountsFiniteNext DEF Bound

\* AdmittedInv holds initially and every step preserves it: a handler is let in
\* when fewer than highest devices are there, all handlers let in together are
\* at most all handlers, and an insert turns a handler let in into a device.
THEOREM AdmittedInvariant == Spec => []AdmittedInv
<1>1. Init => AdmittedInv
  <2> SUFFICES ASSUME Init, ~unlimited PROVE AdmittedInv
    BY DEF AdmittedInv
  <2>1. limit \in Nat /\ limit >= 1 /\ highest = limit
    <3>1. limit \in Nat
      <4>1. PICK n \in Limits : limit = Stored(n)
        BY Zenon DEF Init
      <4> QED
        BY <4>1, DevicesAssumption DEF Stored
    <3>2. limit # 0
      BY DEF Init
    <3> QED
      BY <3>1, <3>2 DEF Init
  <2>2. Counted = {} /\ Admitted = {}
    BY DEF Init, Counted, Admitted
  <2>3. Cardinality(Counted) = 0 /\ Cardinality(Admitted) = 0
    BY <2>2, FS_EmptySet
  <2>4. \A h \in Handlers : seenLimit[h] \in 1 .. highest
    BY <2>1 DEF Init
  <2>5. \A h \in Handlers : pc[h] = "idle"
    BY DEF Init
  <2> QED
    BY <2>1, <2>3, <2>4, <2>5, CountsFinite DEF AdmittedInv
<1>2. TypeOK /\ TypeOK' /\ AdmittedInv /\ [Next]_vars => AdmittedInv'
  <2> SUFFICES ASSUME TypeOK, TypeOK', AdmittedInv, [Next]_vars, ~unlimited'
               PROVE  AdmittedInv'
    BY DEF AdmittedInv
  <2> USE DEF TypeOK, Goto
  <2>u. /\ ~unlimited
        /\ \/ limit' = limit /\ highest' = highest
           \/ \E n \in Limits : SetLimit(n)
    <3>1. CASE \E n \in Limits : SetLimit(n)
      BY <3>1, Zenon DEF SetLimit
    <3>2. CASE UNCHANGED <<limit, historyVars>>
      BY <3>2, Zenon DEF historyVars
    <3> QED
      BY <3>1, <3>2, Zenon
         DEF Next, Step, Begin, Record, Lookup, Count, Insert, Build, Fail, NotFound,
             DeleteUser, vars
  <2>i. /\ limit \in 1 .. highest
        /\ \A h \in Handlers : seenLimit[h] \in 1 .. highest
        /\ Bound
        /\ \A h \in Handlers :
             pc[h] \in {"count", "insert"} => key[h] \in Identified
    BY <2>u DEF AdmittedInv, Bound
  <2>l. limit' \in 1 .. highest' /\ highest <= highest'
    <3>1. CASE limit' = limit /\ highest' = highest
      BY <3>1, <2>i
    <3>2. ASSUME NEW n \in Limits, SetLimit(n)
          PROVE  limit' \in 1 .. highest' /\ highest <= highest'
      <4>1. Stored(n) # 0
        BY <3>2, Zenon DEF SetLimit
      <4>2. Stored(n) \in Nat /\ n \in Int
        BY DevicesAssumption DEF Stored
      <4> QED
        BY <3>2, <4>1, <4>2 DEF SetLimit
    <3> QED
      BY <2>u, <3>1, <3>2
  <2>s. \A h \in Handlers : seenLimit'[h] \in 1 .. highest'
    <3>1. ASSUME NEW h \in Handlers, seenLimit'[h] \in {seenLimit[h], limit}
          PROVE  seenLimit'[h] \in 1 .. highest'
      BY <3>1, <2>i, <2>l
    <3>2. \A h \in Handlers : seenLimit'[h] \in {seenLimit[h], limit}
      BY DEF Next, Step, Begin, Record, Lookup, Count, Insert, Build, Fail, NotFound,
             SetLimit, DeleteUser, vars, handlerVars
    <3> QED
      BY <3>1, <3>2
  <2>k. \A h \in Handlers : pc'[h] \in {"count", "insert"} => key'[h] \in Identified
    <3> SUFFICES ASSUME NEW g \in Handlers, pc'[g] \in {"count", "insert"}
                 PROVE  key'[g] \in Identified
      OBVIOUS
    <3>1. ASSUME NEW h \in Handlers, NEW k \in Keys, Begin(h, k)
          PROVE  key'[g] \in Identified
      BY <3>1, <2>i DEF Begin
    <3>2. ASSUME NEW h \in Handlers, Record(h) \/ Insert(h)
          PROVE  key'[g] \in Identified
      BY <3>2, <2>i DEF Record, Insert
    <3>3. ASSUME NEW h \in Handlers, Lookup(h)
          PROVE  key'[g] \in Identified
      BY <3>3, <2>i DEF Lookup, Keys
    <3>4. ASSUME NEW h \in Handlers, Count(h) \/ Build(h) \/ Fail(h) \/ NotFound(h)
          PROVE  key'[g] \in Identified
      BY <3>4, <2>i DEF Count, Build, Fail, NotFound
    <3>5. CASE (\E n \in Limits : SetLimit(n)) \/ DeleteUser \/ UNCHANGED vars
      BY <3>5, <2>i DEF SetLimit, DeleteUser, vars, handlerVars
    <3> QED
      BY <3>1, <3>2, <3>3, <3>4, <3>5 DEF Next, Step
  <2>b. Bound'
    <3>1. ASSUME NEW h \in Handlers, NEW k \in Keys, Begin(h, k)
          PROVE  Bound'
      <4>1. Admitted' \subseteq Admitted /\ Counted' = Counted
        BY <3>1 DEF Begin, Admitted, Counted
      <4> QED
        BY <4>1, <2>i, <2>l, BoundKept
    <3>2. ASSUME NEW h \in Handlers, Record(h) \/ Build(h) \/ Fail(h) \/ NotFound(h)
          PROVE  Bound'
      <4>1. Admitted' \subseteq Admitted /\ Counted' = Counted
        BY <3>2 DEF Record, Build, Fail, NotFound, Admitted, Counted
      <4> QED
        BY <4>1, <2>i, <2>l, BoundKept
    <3>3. ASSUME NEW h \in Handlers, Lookup(h)
          PROVE  Bound'
      <4>1. Admitted' \subseteq Admitted /\ Counted' = Counted
        BY <3>3, <2>i DEF Lookup, Admitted, Counted
      <4> QED
        BY <4>1, <2>i, <2>l, BoundKept
    <3>4. ASSUME NEW h \in Handlers, Count(h)
          PROVE  Bound'
      <4>1. CASE Cardinality(Counted) >= seenLimit[h]
        <5>1. Admitted' \subseteq Admitted /\ Counted' = Counted
          BY <3>4, <4>1 DEF Count, Admitted, Counted
        <5> QED
          BY <5>1, <2>i, <2>l, BoundKept
      <4>2. CASE ~(Cardinality(Counted) >= seenLimit[h])
        <5>1. Counted' = Counted
          BY <3>4 DEF Count, Counted
        <5>2. Cardinality(Counted) <= highest - 1 /\ highest <= highest'
          BY <4>2, <2>i, <2>l, CountsFinite
        <5> QED
          BY <5>1, <5>2, CountsFinite, CountsFiniteNext DEF Bound
      <4> QED
        BY <4>1, <4>2
    <3>5. ASSUME NEW h \in Handlers, Insert(h)
          PROVE  Bound'
      <4>1. CASE ~exists \/ key[h] \in devices
        <5>1. Admitted' \subseteq Admitted /\ Counted' = Counted
          BY <3>5, <4>1 DEF Insert, Admitted, Counted
        <5> QED
          BY <5>1, <2>i, <2>l, BoundKept
      <4>2. CASE exists /\ key[h] \notin devices
        <5>1. Counted' = Counted \cup {key[h]}
          BY <3>5, <4>2, <2>i DEF Insert, Counted
        <5>2. Cardinality(Counted') <= Cardinality(Counted) + 1
          <6>1. Cardinality(Counted \cup {key[h]}) \in
                  {Cardinality(Counted), Cardinality(Counted) + 1}
            BY CountsFinite, FS_AddElement, Zenon
          <6> QED
            BY <5>1, <6>1, CountsFinite
        <5>3. h \in Admitted
          BY <3>5, <4>2 DEF Insert, Admitted
        <5>4. Admitted' \subseteq Admitted \ {h}
          BY <3>5, <4>2 DEF Insert, Admitted
        <5>5. /\ IsFiniteSet(Admitted \ {h})
              /\ Cardinality(Admitted \ {h}) = Cardinality(Admitted) - 1
          BY <5>3, CountsFinite, FS_RemoveElement
        <5>6. Cardinality(Admitted') <= Cardinality(Admitted) - 1
          BY <5>4, <5>5, FS_Subset
        <5> QED
          BY <5>2, <5>6, <2>i, <2>l, CountsFinite, CountsFiniteNext DEF Bound
      <4> QED
        BY <4>1, <4>2
    <3>6. CASE (\E n \in Limits : SetLimit(n)) \/ UNCHANGED vars
      <4>1. Admitted' \subseteq Admitted /\ Counted' = Counted
        BY <3>6 DEF SetLimit, vars, handlerVars, Admitted, Counted
      <4> QED
        BY <4>1, <2>i, <2>l, BoundKept
    <3>7. CASE DeleteUser
      <4>1. Counted' = {}
        BY <3>7 DEF DeleteUser, Counted
      <4>2. Cardinality(Counted') = 0
        BY <4>1, FS_EmptySet
      <4>3. highest' >= 1
        BY <2>l
      <4> QED
        BY <4>2, <4>3, CountsFinite, CountsFiniteNext DEF Bound
    <3> QED
      BY <3>1, <3>2, <3>3, <3>4, <3>5, <3>6, <3>7 DEF Next, Step
  <2> QED
    BY <2>l, <2>s, <2>k, <2>b DEF AdmittedInv, Bound
<1> QED
  BY <1>1, <1>2, TypeCorrect, PTL DEF Spec

\* As long as there always was a limit, the devices counted exceed it by at most
\* the number of concurrent requests less one.
THEOREM OvershootIsBounded == Spec => []OvershootBounded
<1>1. TypeOK /\ AdmittedInv => OvershootBounded
  BY CountsFinite DEF AdmittedInv, OvershootBounded, TypeOK
<1> QED
  BY <1>1, AdmittedInvariant, TypeCorrect, PTL
-----------------------------------------------------------------------------
\* The inductive form of RegisteredNeverDenied: while the user exists, a device
\* that was registered when its request began still is, so that the look-up
\* finds it and the count is skipped.
KnownInv ==
  exists => \A h \in Handlers :
    known[h] => key[h] \in devices /\ pc[h] \notin {"count", "denied"}

\* A device that was registered when its request began is never turned away.
THEOREM RegisteredIsNeverDenied == Spec => []RegisteredNeverDenied
<1>1. Init => KnownInv
  BY DEF Init, KnownInv
<1>2. TypeOK /\ KnownInv /\ [Next]_vars => KnownInv'
  <2> SUFFICES ASSUME TypeOK, KnownInv, [Next]_vars
               PROVE  KnownInv'
    OBVIOUS
  <2> USE DEF TypeOK, KnownInv, Goto
  <2>1. ASSUME NEW h \in Handlers, NEW k \in Keys, Begin(h, k)
        PROVE  KnownInv'
    BY <2>1 DEF Begin
  <2>2. ASSUME NEW h \in Handlers, Lookup(h)
        PROVE  KnownInv'
    BY <2>2 DEF Lookup
  <2>3. ASSUME NEW h \in Handlers, Count(h)
        PROVE  KnownInv'
    BY <2>3 DEF Count
  <2>4. ASSUME NEW h \in Handlers, Insert(h)
        PROVE  KnownInv'
    BY <2>4 DEF Insert
  <2>5. ASSUME NEW h \in Handlers, Record(h) \/ Build(h) \/ Fail(h) \/ NotFound(h)
        PROVE  KnownInv'
    BY <2>5 DEF Record, Build, Fail, NotFound
  <2>6. CASE (\E n \in Limits : SetLimit(n)) \/ DeleteUser \/ UNCHANGED vars
    BY <2>6 DEF SetLimit, DeleteUser, vars, handlerVars
  <2> QED
    BY <2>1, <2>2, <2>3, <2>4, <2>5, <2>6 DEF Next, Step
<1>3. KnownInv => RegisteredNeverDenied
  BY DEF KnownInv, RegisteredNeverDenied
<1> QED
  BY <1>1, <1>2, <1>3, TypeCorrect, PTL DEF Spec

\* What is served is registered and recorded, and so it stays while the user
\* exists: nothing but the user's deletion removes a device or an event.
THEOREM ServedAreRegistered == Spec => []ServedIsRegistered
<1>1. Init => ServedIsRegistered
  BY DEF Init, ServedIsRegistered
<1>2. TypeOK /\ ServedIsRegistered /\ [Next]_vars => ServedIsRegistered'
  <2> SUFFICES ASSUME TypeOK, ServedIsRegistered, [Next]_vars
               PROVE  ServedIsRegistered'
    OBVIOUS
  <2> USE DEF TypeOK, ServedIsRegistered, Goto
  <2>1. ASSUME NEW h \in Handlers, NEW k \in Keys, Begin(h, k)
        PROVE  ServedIsRegistered'
    BY <2>1 DEF Begin
  <2>2. ASSUME NEW h \in Handlers, Record(h)
        PROVE  ServedIsRegistered'
    BY <2>2 DEF Record
  <2>3. ASSUME NEW h \in Handlers, Lookup(h)
        PROVE  ServedIsRegistered'
    BY <2>3 DEF Lookup
  <2>4. ASSUME NEW h \in Handlers, Count(h)
        PROVE  ServedIsRegistered'
    BY <2>4 DEF Count
  <2>5. ASSUME NEW h \in Handlers, Insert(h)
        PROVE  ServedIsRegistered'
    BY <2>5 DEF Insert
  <2>6. ASSUME NEW h \in Handlers, Build(h) \/ Fail(h) \/ NotFound(h)
        PROVE  ServedIsRegistered'
    BY <2>6 DEF Build, Fail, NotFound
  <2>7. CASE (\E n \in Limits : SetLimit(n)) \/ DeleteUser \/ UNCHANGED vars
    BY <2>7 DEF SetLimit, DeleteUser, vars, handlerVars
  <2> QED
    BY <2>1, <2>2, <2>3, <2>4, <2>5, <2>6, <2>7 DEF Next, Step
<1> QED
  BY <1>1, <1>2, TypeCorrect, PTL DEF Spec
=============================================================================
