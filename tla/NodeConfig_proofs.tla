-------------------------- MODULE NodeConfig_proofs -------------------------
(* Proofs about GlobalConfig, ConfigMerge and NodeConfig, for any requests,  *)
(* configurations, overrides and bound.                                      *)
EXTENDS NodeConfig, FiniteSetTheorems, SequenceTheorems, WellFoundedInduction, TLAPS

\* Normalising does not change what a configuration means.
LEMMA NormalMeans == \A c \in Saves : Normal(c) = Meaning(c) /\ Normal(c) \in Saves
BY DEF Normal, Meaning, Saves

\* Meaning is idempotent.
LEMMA MeaningIdempotent == \A c \in Saves : Meaning(Meaning(c)) = Meaning(c)
BY ConfigAssumption DEF Meaning, Saves

\* ConfigInv is inductive.
THEOREM ConfigInvariant == Spec => []ConfigInv
<1> USE ConfigAssumption DEF ConfigInv, TypeOK, SaveSticks
<1>1. Init => ConfigInv
  BY DEF Init, Saves
<1>2. ConfigInv /\ [Next]_vars => ConfigInv'
  <2> SUFFICES ASSUME ConfigInv, [Next]_vars
               PROVE  ConfigInv'
    OBVIOUS
  <2> USE DEF requestVars, historyVars, Goto, AfterGet
  <2>1. ASSUME NEW h \in Handlers, NEW b \in Saves \cup {None}, Begin(h, b)
        PROVE  ConfigInv'
    BY <2>1 DEF Begin, Saves
  <2>2. ASSUME NEW h \in Handlers, Select(h)
        PROVE  ConfigInv'
    <3>1. CASE rows = {} /\ Goto(h, "insert") /\ UNCHANGED <<row, copy>>
      BY <2>2, <3>1 DEF Select, Meaning
    <3>2. ASSUME NEW r \in rows,
                 row' = [row EXCEPT ![h] = r],
                 copy' = [copy EXCEPT ![h] = Normal(config[r])],
                 Goto(h, IF config[r] = Broken THEN AfterGet(h) ELSE "repair")
          PROVE  ConfigInv'
      BY <2>2, <3>2, NormalMeans DEF Select
    <3> QED
      BY <2>2, <3>1, <3>2 DEF Select
  <2>3. ASSUME NEW h \in Handlers, Insert(h)
        PROVE  ConfigInv'
    BY <2>3 DEF Insert, Saves, Meaning
  <2>4. ASSUME NEW h \in Handlers, Repair(h)
        PROVE  ConfigInv'
    <3>1. /\ pc[h] = "repair" /\ row[h] \in rows /\ copy[h] \in Saves
          /\ Meaning(latest) \in Saves
      BY <2>4 DEF Repair, Meaning, Saves
    <3>2. raced = "no" => Meaning(copy[h]) = Meaning(latest)
      BY <3>1, MeaningIdempotent
    <3>3. CASE config' = config
      BY <2>4, <3>3 DEF Repair
    <3>4. CASE config' = [config EXCEPT ![row[h]] = copy[h]]
      BY <2>4, <3>1, <3>2, <3>4 DEF Repair
    <3> QED
      BY <2>4, <3>3, <3>4 DEF Repair
  <2>5. ASSUME NEW h \in Handlers, Update(h)
        PROVE  ConfigInv'
    <3>1. TypeOK'
      BY <2>5 DEF Update
    <3>2. CASE raced' = "no"
      <4>1. rows = {row[h]} /\ Due(h) = {}
        BY <2>5, <3>2 DEF Update
      <4>2. \A g \in Handlers : pc'[g] \notin {"insert", "repair"}
        BY <2>5, <4>1 DEF Update, Due
      <4>3. \A r \in rows' : config'[r] = latest'
        BY <2>5, <4>1 DEF Update
      <4> QED
        BY <2>5, <3>1, <4>2, <4>3 DEF Update
    <3>3. CASE raced' # "no"
      BY <2>5, <3>1, <3>3 DEF Update
    <3> QED
      BY <3>2, <3>3
  <2>6. ASSUME NEW h \in Handlers, Fail(h)
        PROVE  ConfigInv'
    BY <2>6 DEF Fail
  <2>7. CASE UNCHANGED vars
    BY <2>7 DEF vars
  <2> QED
    BY <2>1, <2>2, <2>3, <2>4, <2>5, <2>6, <2>7 DEF Next, Step
<1> HIDE DEF ConfigInv, TypeOK, SaveSticks
<1> QED
  BY <1>1, <1>2, PTL DEF Spec

\* A save that met no other request on its way to a write stays.
THEOREM UnracedSaveSticks == Spec => []SaveSticks
<1>1. ConfigInv => SaveSticks
  BY DEF ConfigInv, SaveSticks
<1> QED
  BY <1>1, ConfigInvariant, PTL

-----------------------------------------------------------------------------
(* Induction, over a set instead of an operator.                            *)

\* A set with 0 that every number leads on from has all the numbers.
LEMMA NatSetInduction ==
  ASSUME NEW S, 0 \in S, \A n \in Nat : n \in S => n + 1 \in S
  PROVE  Nat \subseteq S
<1> DEFINE T == Nat \ S
<1>1. ASSUME T # {}
      PROVE  FALSE
  <2>1. \E x \in T : \A y \in T : ~ (<<y, x>> \in OpToRel(<, Nat))
    BY <1>1, NatLessThanWellFounded, WFMin
  <2>2. PICK x \in T : \A y \in T : ~ (<<y, x>> \in OpToRel(<, Nat))
    BY <2>1
  <2>3. x # 0 /\ x - 1 \in Nat /\ x - 1 < x
    OBVIOUS
  <2>4. x - 1 \in S
    BY <2>2, <2>3 DEF OpToRel
  <2> QED
    BY <2>3, <2>4
<1> QED
  BY <1>1

-----------------------------------------------------------------------------
(* Lists.                                                                   *)

\* A sequence of whatever elements is a list.
LEMMA SequenceIsList == ASSUME NEW S, NEW s \in Seq(S) PROVE IsList(s)
<1>1. s \in [1..Len(s) -> {s[i] : i \in DOMAIN s}]
  BY LenProperties
<1> QED
  BY <1>1, LenProperties, SeqDef DEF IsList

\* The domain of a list.
LEMMA ListDomain ==
  ASSUME NEW s, IsList(s)
  PROVE  Len(s) \in Nat /\ DOMAIN s = 1..Len(s) /\ s = [i \in 1..Len(s) |-> s[i]]
BY LenProperties DEF IsList

\* The empty list.
LEMMA EmptyIsList == IsList(<<>>) /\ Len(<<>>) = 0 /\ DOMAIN <<>> = {}
<1>1. <<>> \in Seq({})
  BY EmptySeq
<1>2. IsList(<<>>)
  BY <1>1, SequenceIsList
<1> QED
  BY <1>1, <1>2, EmptySeq, LenProperties

\* Appending to a list.
LEMMA ListAppend ==
  ASSUME NEW s, NEW e, IsList(s)
  PROVE  /\ IsList(Append(s, e))
         /\ Len(Append(s, e)) = Len(s) + 1
         /\ \A i \in 1..Len(s) : Append(s, e)[i] = s[i]
         /\ Append(s, e)[Len(s) + 1] = e
<1> DEFINE S == {s[i] : i \in DOMAIN s} \cup {e}
<1>1. s \in Seq(S) /\ e \in S
  BY SeqMonotonic DEF IsList
<1>2. Append(s, e) \in Seq(S)
  BY <1>1, AppendProperties
<1> HIDE DEF S
<1>3. IsList(Append(s, e))
  BY <1>2, SequenceIsList
<1> QED
  BY <1>1, <1>3, AppendProperties

\* Replacing an element of a list.
LEMMA ListExcept ==
  ASSUME NEW s, NEW e, NEW j \in DOMAIN s, IsList(s)
  PROVE  /\ IsList([s EXCEPT ![j] = e])
         /\ Len([s EXCEPT ![j] = e]) = Len(s)
<1> DEFINE S == {s[i] : i \in DOMAIN s} \cup {e}
<1>1. s \in Seq(S) /\ e \in S /\ j \in 1..Len(s)
  BY SeqMonotonic, ListDomain DEF IsList
<1> HIDE DEF S
<1> QED
  BY <1>1, ExceptSeq, SequenceIsList

-----------------------------------------------------------------------------
(* Sanitising.                                                              *)

\* Kept is what its definition says of it.
LEMMA KeptUnfolds ==
  ASSUME NEW list, IsList(list)
  PROVE  Kept(list) =
           [i \in 0..Len(list) |->
              IF i = 0 THEN <<>>
              ELSE IF Redefines(list[i]) THEN Kept(list)[i - 1]
              ELSE Append(Kept(list)[i - 1], list[i])]
<1> DEFINE IsKept(f, n) ==
             f = [i \in 0..n |-> IF i = 0 THEN <<>>
                                 ELSE IF Redefines(list[i]) THEN f[i - 1]
                                 ELSE Append(f[i - 1], list[i])]
           S == {n \in Nat : \E f : IsKept(f, n)}
<1>1. 0 \in S
  <2>1. IsKept([i \in 0..0 |-> <<>>], 0)
    OBVIOUS
  <2> QED
    BY <2>1
<1>2. ASSUME NEW n \in Nat, n \in S
      PROVE  n + 1 \in S
  <2>1. PICK f : IsKept(f, n)
    BY <1>2
  <2> DEFINE e == IF Redefines(list[n + 1]) THEN f[n] ELSE Append(f[n], list[n + 1])
             g == [i \in 0..n + 1 |-> IF i = n + 1 THEN e ELSE f[i]]
  <2>2. \A i \in 0..n : f[i] = IF i = 0 THEN <<>>
                               ELSE IF Redefines(list[i]) THEN f[i - 1]
                               ELSE Append(f[i - 1], list[i])
    BY <2>1
  <2>3. \A i \in 0..n + 1 : g[i] = IF i = 0 THEN <<>>
                                   ELSE IF Redefines(list[i]) THEN g[i - 1]
                                   ELSE Append(g[i - 1], list[i])
    BY <2>2
  <2>4. IsKept(g, n + 1)
    BY <2>3
  <2>5. \E h : IsKept(h, n + 1)
    <3> HIDE DEF g, IsKept
    <3> QED
      BY <2>4
  <2> QED
    BY <2>5
<1>3. Len(list) \in S
  <2> HIDE DEF S
  <2> QED
    BY <1>1, <1>2, NatSetInduction, ListDomain
<1>4. PICK f : IsKept(f, Len(list))
  BY <1>3
<1> QED
  BY <1>4 DEF Kept

\* Kept, one item at a time.
LEMMA KeptNext ==
  ASSUME NEW list, IsList(list)
  PROVE  /\ Kept(list)[0] = <<>>
         /\ \A i \in 1..Len(list) :
              Kept(list)[i] = IF Redefines(list[i]) THEN Kept(list)[i - 1]
                              ELSE Append(Kept(list)[i - 1], list[i])
<1> DEFINE K == Kept(list)
<1>1. K = [i \in 0..Len(list) |->
             IF i = 0 THEN <<>>
             ELSE IF Redefines(list[i]) THEN K[i - 1] ELSE Append(K[i - 1], list[i])]
  BY KeptUnfolds
<1>2. Len(list) \in Nat
  BY ListDomain
<1> HIDE DEF K
<1>3. \A i \in 0..Len(list) :
        K[i] = IF i = 0 THEN <<>>
               ELSE IF Redefines(list[i]) THEN K[i - 1] ELSE Append(K[i - 1], list[i])
  BY <1>1, Zenon
<1>4. /\ K[0] = <<>>
      /\ \A i \in 1..Len(list) :
           K[i] = IF Redefines(list[i]) THEN K[i - 1] ELSE Append(K[i - 1], list[i])
  BY <1>2, <1>3
<1> QED
  BY <1>4 DEF K

\* What is kept of a list is a list.
LEMMA KeptIsList ==
  ASSUME NEW list, IsList(list)
  PROVE  IsList(Kept(list)[Len(list)])
<1> DEFINE S == {n \in Nat : n <= Len(list) => IsList(Kept(list)[n])}
<1>1. Len(list) \in Nat
  BY ListDomain
<1>2. 0 \in S
  BY <1>1, KeptNext, EmptyIsList
<1>3. ASSUME NEW n \in Nat, n \in S
      PROVE  n + 1 \in S
  <2>1. CASE n + 1 > Len(list)
    BY <2>1, <1>1
  <2>2. CASE n + 1 <= Len(list)
    <3>1. IsList(Kept(list)[n]) /\ n + 1 \in 1..Len(list) /\ n + 1 - 1 = n
      BY <1>1, <1>3, <2>2
    <3>2. Kept(list)[n + 1] = IF Redefines(list[n + 1]) THEN Kept(list)[n]
                              ELSE Append(Kept(list)[n], list[n + 1])
      BY <3>1, KeptNext
    <3> QED
      BY <3>1, <3>2, ListAppend
  <2> QED
    BY <2>1, <2>2, <1>1
<1> HIDE DEF S
<1>4. Len(list) \in S
  BY <1>1, <1>2, <1>3, NatSetInduction
<1> QED
  BY <1>1, <1>4 DEF S

-----------------------------------------------------------------------------
(* Merging inbounds.                                                        *)

\* A string that both sides have the same stays, as does a missing one.
LEMMA StringStays ==
  ASSUME NEW a, NEW b, NEW key, key # "inbounds", StringAt(a, key) = StringAt(b, key)
  PROVE  StringAt(MergeObject(a, b), key) = StringAt(a, key)
<1> DEFINE m == MergeObject(a, b)
<1>1. DOMAIN m = DOMAIN a \cup DOMAIN b
  BY DEF MergeObject
<1>2. CASE key \notin DOMAIN b
  <2>1. key \in DOMAIN a => m[key] = a[key]
    BY <1>2 DEF MergeObject
  <2> QED
    BY <1>1, <1>2, <2>1 DEF StringAt
<1>3. CASE key \in DOMAIN b /\ key \notin DOMAIN a
  <2>1. m[key] = b[key]
    BY <1>3 DEF MergeObject, Merges
  <2> QED
    BY <1>1, <1>3, <2>1 DEF StringAt
<1>4. CASE key \in DOMAIN b /\ key \in DOMAIN a
  <2>1. m[key] = IF IsObj(b[key]) /\ IsObj(a[key])
                 THEN Obj(MergeNested(a[key], b[key])) ELSE b[key]
    BY <1>4 DEF MergeObject, Merges, Like, IsObj, IsArr
  <2> QED
    BY <1>1, <1>4, <2>1 DEF StringAt, IsStr, IsObj, Obj
<1> QED
  BY <1>2, <1>3, <1>4

\* The key of an object.
LEMMA KeyOfObject ==
  ASSUME NEW v, IsObj(v)
  PROVE  KeyOf(v) = IF StringAt(v.object, "tag") # "" THEN <<"tag", StringAt(v.object, "tag")>>
                    ELSE IF StringAt(v.object, "type") # ""
                         THEN <<"type", StringAt(v.object, "type")>>
                         ELSE NoKey
BY DEF KeyOf

\* What is merged of two inbounds with the same key has that key.
LEMMA KeyKept ==
  ASSUME NEW v, NEW w, KeyOf(v) = KeyOf(w), KeyOf(v) # NoKey
  PROVE  KeyOf(Obj(MergeObject(v.object, w.object))) = KeyOf(v)
<1> DEFINE m == MergeObject(v.object, w.object)
<1>1. IsObj(v) /\ IsObj(w) /\ IsObj(Obj(m)) /\ Obj(m).object = m
  BY DEF KeyOf, IsObj, Obj
<1> HIDE DEF m
<1> DEFINE T(u) == StringAt(u, "tag")
           Y(u) == StringAt(u, "type")
           Key(u) == IF T(u) # "" THEN <<"tag", T(u)>>
                     ELSE IF Y(u) # "" THEN <<"type", Y(u)>> ELSE NoKey
<1>2. T(v.object) = T(w.object) /\ (T(v.object) = "" => Y(v.object) = Y(w.object))
  <2>1. KeyOf(v) = Key(v.object) /\ KeyOf(w) = Key(w.object)
    BY <1>1, KeyOfObject
  <2> HIDE DEF T, Y
  <2>2. Key(v.object) = Key(w.object) /\ Key(v.object) # NoKey
    BY <2>1
  <2> QED
    BY <2>2 DEF NoKey
<1>3. T(m) = T(v.object)
  BY <1>2, StringStays DEF m
<1>4. T(v.object) = "" => Y(m) = Y(v.object)
  BY <1>2, StringStays DEF m
<1>5. KeyOf(Obj(m)) = Key(m) /\ KeyOf(v) = Key(v.object)
  BY <1>1, KeyOfObject
<1> HIDE DEF T, Y
<1>6. KeyOf(Obj(m)) = KeyOf(v)
  BY <1>3, <1>4, <1>5
<1> QED
  BY <1>6 DEF m

\* mergeInboundArrays starts from the global list.
First(base) == [list |-> base, at |-> Index(base)]

\* Merging is what its definition says of it.
LEMMA MergingUnfolds ==
  ASSUME NEW base, NEW overlay, IsList(overlay)
  PROVE  Merging(base, overlay) =
           [i \in 0..Len(overlay) |->
              IF i = 0 THEN First(base) ELSE MergeInbound(Merging(base, overlay)[i - 1], overlay[i])]
<1> DEFINE IsMerging(f, n) ==
             f = [i \in 0..n |-> IF i = 0 THEN First(base) ELSE MergeInbound(f[i - 1], overlay[i])]
           S == {n \in Nat : \E f : IsMerging(f, n)}
<1>1. 0 \in S
  <2>1. IsMerging([i \in 0..0 |-> First(base)], 0)
    OBVIOUS
  <2> QED
    BY <2>1
<1>2. ASSUME NEW n \in Nat, n \in S
      PROVE  n + 1 \in S
  <2>1. PICK f : IsMerging(f, n)
    BY <1>2
  <2> DEFINE g == [i \in 0..n + 1 |-> IF i = n + 1 THEN MergeInbound(f[n], overlay[n + 1]) ELSE f[i]]
  <2>2. \A i \in 0..n : f[i] = IF i = 0 THEN First(base) ELSE MergeInbound(f[i - 1], overlay[i])
    BY <2>1
  <2>3. \A i \in 0..n + 1 : g[i] = IF i = 0 THEN First(base) ELSE MergeInbound(g[i - 1], overlay[i])
    BY <2>2
  <2>4. IsMerging(g, n + 1)
    BY <2>3
  <2>5. \E h : IsMerging(h, n + 1)
    <3> HIDE DEF g, IsMerging
    <3> QED
      BY <2>4
  <2> QED
    BY <2>5
<1>3. Len(overlay) \in S
  <2> HIDE DEF S
  <2> QED
    BY <1>1, <1>2, NatSetInduction, ListDomain
<1>4. PICK f : IsMerging(f, Len(overlay))
  BY <1>3
<1>5. Merging(base, overlay) = CHOOSE h : IsMerging(h, Len(overlay))
  BY DEF Merging, First
<1> QED
  BY <1>4, <1>5

\* Merging, one inbound of the override at a time.
LEMMA MergingNext ==
  ASSUME NEW base, NEW overlay, IsList(overlay)
  PROVE  /\ Merging(base, overlay)[0] = First(base)
         /\ \A i \in 1..Len(overlay) :
              Merging(base, overlay)[i] = MergeInbound(Merging(base, overlay)[i - 1], overlay[i])
<1> DEFINE K == Merging(base, overlay)
<1>1. K = [i \in 0..Len(overlay) |-> IF i = 0 THEN First(base) ELSE MergeInbound(K[i - 1], overlay[i])]
  BY MergingUnfolds
<1>2. Len(overlay) \in Nat
  BY ListDomain
<1> HIDE DEF K
<1>3. \A i \in 0..Len(overlay) :
        K[i] = IF i = 0 THEN First(base) ELSE MergeInbound(K[i - 1], overlay[i])
  BY <1>1, Zenon
<1>4. /\ K[0] = First(base)
      /\ \A i \in 1..Len(overlay) : K[i] = MergeInbound(K[i - 1], overlay[i])
  BY <1>2, <1>3
<1> QED
  BY <1>4 DEF K

\* What holds of the list so far: no two inbounds have the same key, and every
\* inbound with a key is found by it.
Found(acc) ==
  /\ DOMAIN acc = {"list", "at"}
  /\ IsList(acc.list)
  /\ KeysUnique(acc.list)
  /\ DOMAIN acc.at = {KeyOf(acc.list[i]) : i \in DOMAIN acc.list} \ {NoKey}
  /\ \A k \in DOMAIN acc.at : acc.at[k] \in DOMAIN acc.list /\ KeyOf(acc.list[acc.at[k]]) = k

\* It holds of a global list without two inbounds of the same key,
LEMMA FoundFirst ==
  ASSUME NEW base, IsList(base), KeysUnique(base)
  PROVE  Found(First(base))
<1>1. ASSUME NEW k \in {KeyOf(base[i]) : i \in DOMAIN base} \ {NoKey}
      PROVE  Index(base)[k] \in DOMAIN base /\ KeyOf(base[Index(base)[k]]) = k
  <2>1. PICK i \in DOMAIN base : KeyOf(base[i]) = k
    OBVIOUS
  <2>2. {j \in DOMAIN base : KeyOf(base[j]) = k} = {i} /\ i \in Int
    BY <2>1, ListDomain DEF KeysUnique
  <2>3. Index(base)[k] = Max({i})
    BY <2>2 DEF Index
  <2>4. Max({i}) = i
    BY <2>2 DEF Max
  <2> QED
    BY <2>1, <2>3, <2>4
<1>2. DOMAIN Index(base) = {KeyOf(base[i]) : i \in DOMAIN base} \ {NoKey}
  BY DEF Index
<1> QED
  BY <1>1, <1>2 DEF Found, First

\* and merging or appending an inbound keeps it.
LEMMA FoundNext ==
  ASSUME NEW acc, NEW raw, Found(acc)
  PROVE  Found(MergeInbound(acc, raw))
<1> DEFINE k == KeyOf(raw)
           n == Len(acc.list)
           new == MergeInbound(acc, raw)
<1>1. n \in Nat /\ DOMAIN acc.list = 1..n
  BY ListDomain DEF Found
<1>2. CASE k \in DOMAIN acc.at
  <2> DEFINE at == acc.at[k]
             v == Obj(MergeObject(acc.list[at].object, raw.object))
  <2>1. at \in DOMAIN acc.list /\ KeyOf(acc.list[at]) = k /\ k # NoKey
    BY <1>2 DEF Found
  <2>2. KeyOf(v) = k
    BY <2>1, KeyKept
  <2>3. new = [acc EXCEPT !.list[at] = v]
    BY <1>2 DEF MergeInbound
  <2> HIDE DEF v, new
  <2>4. DOMAIN new = {"list", "at"} /\ new.list = [acc.list EXCEPT ![at] = v] /\ new.at = acc.at
    BY <2>3 DEF Found
  <2>5. IsList(new.list)
    <3>1. IsList(acc.list)
      BY DEF Found
    <3> HIDE DEF at
    <3>2. IsList([acc.list EXCEPT ![at] = v])
      BY <2>1, <3>1, ListExcept
    <3> QED
      BY <2>4, <3>2
  <2>6. DOMAIN new.list = DOMAIN acc.list /\ \A i \in DOMAIN acc.list : KeyOf(new.list[i]) = KeyOf(acc.list[i])
    BY <2>1, <2>2, <2>4
  <2>7. {KeyOf(new.list[i]) : i \in DOMAIN new.list} = {KeyOf(acc.list[i]) : i \in DOMAIN acc.list}
    BY <2>6
  <2>8. KeysUnique(new.list)
    BY <2>6 DEF Found, KeysUnique
  <2>9. Found(new)
    BY <2>4, <2>5, <2>6, <2>7, <2>8 DEF Found
  <2> QED
    BY <2>9 DEF new
<1>3. CASE k \notin DOMAIN acc.at
  <2>1. new = [list |-> Append(acc.list, raw), at |-> Noted(acc, k)]
    BY <1>3 DEF MergeInbound
  <2> HIDE DEF new
  <2>2. DOMAIN new = {"list", "at"} /\ new.list = Append(acc.list, raw) /\ new.at = Noted(acc, k)
    BY <2>1
  <2>3. /\ IsList(new.list) /\ DOMAIN new.list = 1..n + 1
        /\ \A i \in 1..n : new.list[i] = acc.list[i]
        /\ new.list[n + 1] = raw
    BY <2>2, ListAppend, ListDomain DEF Found
  <2>4. \A i \in 1..n : KeyOf(acc.list[i]) = k => k = NoKey
    BY <1>1, <1>3 DEF Found
  <2>5. KeysUnique(new.list)
    BY <1>1, <2>3, <2>4 DEF Found, KeysUnique
  <2>6. {KeyOf(new.list[i]) : i \in DOMAIN new.list} = {KeyOf(acc.list[i]) : i \in DOMAIN acc.list} \cup {k}
    BY <1>1, <2>3
  <2>7. DOMAIN new.at = {KeyOf(new.list[i]) : i \in DOMAIN new.list} \ {NoKey}
    BY <2>2, <2>6 DEF Noted, Found
  <2>8. ASSUME NEW j \in DOMAIN new.at
        PROVE  new.at[j] \in DOMAIN new.list /\ KeyOf(new.list[new.at[j]]) = j
    <3>1. new.at[j] = IF j = k THEN n + 1 ELSE acc.at[j]
      BY <2>2, <2>8 DEF Noted
    <3>2. j # k => j \in DOMAIN acc.at
      BY <2>2, <2>8 DEF Noted
    <3> QED
      BY <1>1, <2>3, <3>1, <3>2 DEF Found
  <2>9. Found(new)
    BY <2>2, <2>3, <2>5, <2>7, <2>8 DEF Found
  <2> QED
    BY <2>9 DEF new
<1> QED
  BY <1>2, <1>3

\* So it always holds,
LEMMA FoundAlways ==
  ASSUME NEW base, NEW overlay, IsList(base), KeysUnique(base), IsList(overlay)
  PROVE  \A i \in 0..Len(overlay) : Found(Merging(base, overlay)[i])
<1> DEFINE S == {n \in Nat : n <= Len(overlay) => Found(Merging(base, overlay)[n])}
<1>1. Len(overlay) \in Nat
  BY ListDomain
<1>2. 0 \in S
  BY MergingNext, FoundFirst
<1>3. ASSUME NEW n \in Nat, n \in S
      PROVE  n + 1 \in S
  <2>1. CASE n + 1 <= Len(overlay)
    <3>1. Found(Merging(base, overlay)[n]) /\ n + 1 \in 1..Len(overlay) /\ n + 1 - 1 = n
      BY <1>1, <1>3, <2>1
    <3>2. Merging(base, overlay)[n + 1] = MergeInbound(Merging(base, overlay)[n], overlay[n + 1])
      BY <3>1, MergingNext
    <3> QED
      BY <3>1, <3>2, FoundNext
  <2> QED
    BY <2>1, <1>1
<1> HIDE DEF S
<1>4. Nat \subseteq S
  BY <1>2, <1>3, NatSetInduction
<1> QED
  BY <1>1, <1>4 DEF S

\* and merging an override into a list without two inbounds of the same key
\* makes no two.
LEMMA MergedKeysUnique ==
  ASSUME NEW base, NEW overlay, IsList(base), base # <<>>, KeysUnique(base), IsList(overlay)
  PROVE  KeysUnique(MergeInbounds(base, overlay))
<1>1. Found(Merging(base, overlay)[Len(overlay)])
  BY FoundAlways, ListDomain
<1>2. KeysUnique(Merging(base, overlay)[Len(overlay)].list)
  BY <1>1 DEF Found
<1> QED
  BY <1>2 DEF MergeInbounds

-----------------------------------------------------------------------------
(* Merging inbounds is laying them over by key.                             *)

\* A set of numbers up to a bound has a greatest one.
LEMMA HasGreatest ==
  ASSUME NEW n \in Nat, NEW S, S \subseteq 1..n, S # {}
  PROVE  \E x \in S : \A y \in S : y <= x
<1> DEFINE T == {k \in Nat : \A Q : Q \subseteq 1..k /\ Q # {} => \E x \in Q : \A y \in Q : y <= x}
<1>1. 0 \in T
  OBVIOUS
<1>2. ASSUME NEW k \in Nat, k \in T
      PROVE  k + 1 \in T
  <2> SUFFICES ASSUME NEW Q, Q \subseteq 1..k + 1, Q # {}
               PROVE  \E x \in Q : \A y \in Q : y <= x
    OBVIOUS
  <2>1. CASE k + 1 \in Q
    BY <2>1
  <2>2. CASE k + 1 \notin Q
    <3>1. Q \subseteq 1..k
      BY <2>2
    <3> QED
      BY <1>2, <3>1
  <2> QED
    BY <2>1, <2>2
<1>3. n \in T
  <2> HIDE DEF T
  <2> QED
    BY <1>1, <1>2, NatSetInduction
<1> QED
  BY <1>3

\* A set of numbers up to a bound has a least one.
LEMMA HasLeast ==
  ASSUME NEW n \in Nat, NEW S, S \subseteq 1..n, S # {}
  PROVE  \E x \in S : \A y \in S : x <= y
<1> DEFINE T == {k \in Nat : \A Q : Q \subseteq 1..k /\ Q # {} => \E x \in Q : \A y \in Q : x <= y}
<1>1. 0 \in T
  OBVIOUS
<1>2. ASSUME NEW k \in Nat, k \in T
      PROVE  k + 1 \in T
  <2> SUFFICES ASSUME NEW Q, Q \subseteq 1..k + 1, Q # {}
               PROVE  \E x \in Q : \A y \in Q : x <= y
    OBVIOUS
  <2>1. CASE Q = {k + 1}
    BY <2>1
  <2>2. CASE Q # {k + 1}
    <3>1. Q \ {k + 1} \subseteq 1..k /\ Q \ {k + 1} # {}
      BY <2>2
    <3>2. PICK x \in Q \ {k + 1} : \A y \in Q \ {k + 1} : x <= y
      BY <1>2, <3>1
    <3> QED
      BY <3>1, <3>2
  <2> QED
    BY <2>1, <2>2
<1>3. n \in T
  <2> HIDE DEF T
  <2> QED
    BY <1>1, <1>2, NatSetInduction
<1> QED
  BY <1>3

\* One patch, the one at place i.
Patch(v, patches, old, i) ==
  IF KeyOf(v) \in {KeyOf(patches[i])} \ {NoKey}
  THEN Obj(MergeObject(old.object, patches[i].object)) ELSE old

\* Patching is what its definition says of it.
LEMMA PatchingUnfolds ==
  ASSUME NEW v, NEW patches, NEW from \in Nat, IsList(patches)
  PROVE  Patching(v, patches, from) =
           [i \in 0..Len(patches) |->
              IF i <= from THEN v
              ELSE Patch(v, patches, Patching(v, patches, from)[i - 1], i)]
<1> DEFINE IsPatching(f, n) ==
             f = [i \in 0..n |-> IF i <= from THEN v ELSE Patch(v, patches, f[i - 1], i)]
           S == {n \in Nat : \E f : IsPatching(f, n)}
<1>1. 0 \in S
  <2>1. IsPatching([i \in 0..0 |-> v], 0)
    OBVIOUS
  <2> QED
    BY <2>1
<1>2. ASSUME NEW n \in Nat, n \in S
      PROVE  n + 1 \in S
  <2>1. PICK f : IsPatching(f, n)
    BY <1>2
  <2> DEFINE e == IF n + 1 <= from THEN v ELSE Patch(v, patches, f[n], n + 1)
             g == [i \in 0..n + 1 |-> IF i = n + 1 THEN e ELSE f[i]]
  <2>2. \A i \in 0..n : f[i] = IF i <= from THEN v ELSE Patch(v, patches, f[i - 1], i)
    BY <2>1
  <2>3. \A i \in 0..n + 1 : g[i] = IF i <= from THEN v ELSE Patch(v, patches, g[i - 1], i)
    BY <2>2
  <2>4. IsPatching(g, n + 1)
    BY <2>3
  <2>5. \E h : IsPatching(h, n + 1)
    <3> HIDE DEF g, IsPatching
    <3> QED
      BY <2>4
  <2> QED
    BY <2>5
<1>3. Len(patches) \in S
  <2> HIDE DEF S
  <2> QED
    BY <1>1, <1>2, NatSetInduction, ListDomain
<1>4. PICK f : IsPatching(f, Len(patches))
  BY <1>3
<1>5. Patching(v, patches, from) = CHOOSE h : IsPatching(h, Len(patches))
  BY DEF Patching, Patch
<1> QED
  BY <1>4, <1>5

\* Patching, one patch at a time.
LEMMA PatchingNext ==
  ASSUME NEW v, NEW patches, NEW from \in Nat, IsList(patches)
  PROVE  \A i \in 0..Len(patches) :
           Patching(v, patches, from)[i] =
             IF i <= from THEN v ELSE Patch(v, patches, Patching(v, patches, from)[i - 1], i)
<1> DEFINE K == Patching(v, patches, from)
<1>1. K = [i \in 0..Len(patches) |-> IF i <= from THEN v ELSE Patch(v, patches, K[i - 1], i)]
  BY PatchingUnfolds
<1> HIDE DEF K
<1>2. \A i \in 0..Len(patches) :
        K[i] = IF i <= from THEN v ELSE Patch(v, patches, K[i - 1], i)
  BY <1>1, Zenon
<1> QED
  BY <1>2 DEF K

\* The new inbounds among the first m of the override.
Upto(base, overlay, m) == {j \in NewOnes(base, overlay) : j <= m}

\* How their number grows.
LEMMA UptoNext ==
  ASSUME NEW base, NEW overlay, IsList(overlay)
  PROVE  /\ \A m \in Nat : Cardinality(Upto(base, overlay, m)) \in Nat
         /\ Upto(base, overlay, 0) = {} /\ Cardinality(Upto(base, overlay, 0)) = 0
         /\ Upto(base, overlay, Len(overlay)) = NewOnes(base, overlay)
         /\ \A m \in 0 .. Len(overlay) - 1 :
              IF m + 1 \in NewOnes(base, overlay)
              THEN /\ Upto(base, overlay, m + 1) = Upto(base, overlay, m) \cup {m + 1}
                   /\ Cardinality(Upto(base, overlay, m + 1)) =
                        Cardinality(Upto(base, overlay, m)) + 1
              ELSE Upto(base, overlay, m + 1) = Upto(base, overlay, m)
<1> DEFINE New == NewOnes(base, overlay)
           U(m) == Upto(base, overlay, m)
<1>1. New \subseteq 1..Len(overlay) /\ Len(overlay) \in Nat
  BY ListDomain DEF NewOnes
<1> HIDE DEF New
<1>2. \A m \in Nat : U(m) \subseteq 1..m
  BY <1>1 DEF Upto, New
<1>3. ASSUME NEW m \in Nat
      PROVE  IsFiniteSet(U(m)) /\ Cardinality(U(m)) \in Nat
  <2>1. IsFiniteSet(1..m)
    BY FS_Interval
  <2>2. IsFiniteSet(U(m))
    BY <1>2, <2>1, FS_Subset
  <2> QED
    BY <2>2, FS_CardinalityType
<1>4. U(0) = {} /\ Cardinality(U(0)) = 0
  BY <1>2, FS_EmptySet
<1>5. U(Len(overlay)) = New
  BY <1>1 DEF Upto, New
<1>6. ASSUME NEW m \in 0 .. Len(overlay) - 1
      PROVE  IF m + 1 \in New
             THEN U(m + 1) = U(m) \cup {m + 1} /\ Cardinality(U(m + 1)) = Cardinality(U(m)) + 1
             ELSE U(m + 1) = U(m)
  <2>1. m \in Nat /\ m + 1 \notin U(m) /\ IsFiniteSet(U(m))
    BY <1>1, <1>3 DEF Upto
  <2>2. CASE m + 1 \in New
    <3>1. U(m + 1) = U(m) \cup {m + 1}
      BY <1>1, <2>1, <2>2 DEF Upto, New
    <3> QED
      BY <2>1, <2>2, <3>1, FS_AddElement
  <2>3. CASE m + 1 \notin New
    BY <1>1, <2>1, <2>3 DEF Upto, New
  <2> QED
    BY <2>2, <2>3
<1> QED
  BY <1>3, <1>4, <1>5, <1>6 DEF New

\* Where the merged list stands after m inbounds of the override: every place
\* has the inbound that belongs there, with the patches so far, and every key
\* leads to the place that takes its patches.
Stands(base, overlay, acc, m) ==
  /\ DOMAIN acc = {"list", "at"}
  /\ IsList(acc.list)
  /\ Len(acc.list) = Len(base) + Cardinality(Upto(base, overlay, m))
  /\ \A i \in DOMAIN base :
       acc.list[i] = IF IsLast(base, i) THEN Patching(base[i], overlay, 0)[m] ELSE base[i]
  /\ \A j \in Upto(base, overlay, m) :
       /\ Place(base, overlay, j) \in Len(base) + 1 .. Len(acc.list)
       /\ acc.list[Place(base, overlay, j)] = Patching(overlay[j], overlay, j)[m]
  /\ \A i, j \in Upto(base, overlay, m) :
       Place(base, overlay, i) = Place(base, overlay, j) => i = j
  /\ \A n \in Len(base) + 1 .. Len(acc.list) :
       \E j \in Upto(base, overlay, m) : Place(base, overlay, j) = n
  /\ DOMAIN acc.at =
       ({KeyOf(base[i]) : i \in DOMAIN base} \cup {KeyOf(overlay[j]) : j \in 1..m}) \ {NoKey}
  /\ \A i \in DOMAIN base :
       IsLast(base, i) /\ KeyOf(base[i]) # NoKey => acc.at[KeyOf(base[i])] = i
  /\ \A j \in Upto(base, overlay, m) :
       KeyOf(overlay[j]) # NoKey => acc.at[KeyOf(overlay[j])] = Place(base, overlay, j)

\* Every key of a list has a last inbound,
LEMMA HasLast ==
  ASSUME NEW base, IsList(base), NEW i \in DOMAIN base
  PROVE  \E l \in DOMAIN base : KeyOf(base[l]) = KeyOf(base[i]) /\ IsLast(base, l)
<1> DEFINE S == {l \in DOMAIN base : KeyOf(base[l]) = KeyOf(base[i])}
<1>1. Len(base) \in Nat /\ DOMAIN base = 1..Len(base)
  BY ListDomain
<1>2. PICK l \in S : \A y \in S : y <= l
  BY <1>1, HasGreatest
<1>3. IsLast(base, l)
  BY <1>1, <1>2 DEF IsLast
<1> QED
  BY <1>2, <1>3

\* and only one.
LEMMA LastIsUnique ==
  ASSUME NEW base, IsList(base), NEW i \in DOMAIN base, NEW l \in DOMAIN base,
         KeyOf(base[i]) = KeyOf(base[l]), IsLast(base, i), IsLast(base, l)
  PROVE  i = l
<1>1. Len(base) \in Nat /\ DOMAIN base = 1..Len(base)
  BY ListDomain
<1> QED
  BY <1>1 DEF IsLast

\* At first the list is the global one,
LEMMA StandsFirst ==
  ASSUME NEW base, NEW overlay, IsList(base), IsList(overlay)
  PROVE  Stands(base, overlay, First(base), 0)
<1>1. /\ Upto(base, overlay, 0) = {} /\ Cardinality(Upto(base, overlay, 0)) = 0
      /\ Len(base) \in Nat /\ DOMAIN base = 1..Len(base) /\ Len(overlay) \in Nat
  BY UptoNext, ListDomain
<1>2. \A i \in DOMAIN base : Patching(base[i], overlay, 0)[0] = base[i]
  BY <1>1, PatchingNext
<1>3. ASSUME NEW i \in DOMAIN base, IsLast(base, i), KeyOf(base[i]) # NoKey
      PROVE  Index(base)[KeyOf(base[i])] = i
  <2> DEFINE S == {l \in DOMAIN base : KeyOf(base[l]) = KeyOf(base[i])}
  <2>1. Index(base)[KeyOf(base[i])] = Max(S)
    BY <1>3 DEF Index
  <2>2. i \in S /\ \A l \in S : i >= l
    BY <1>1, <1>3 DEF IsLast
  <2>3. S \subseteq Int
    BY <1>1
  <2>4. Max(S) = i
    <3> HIDE DEF S
    <3> QED
      BY <2>2, <2>3 DEF Max
  <2> QED
    BY <2>1, <2>4
<1>4. DOMAIN Index(base) = {KeyOf(base[i]) : i \in DOMAIN base} \ {NoKey}
  BY DEF Index
<1>5. DOMAIN First(base) = {"list", "at"} /\ First(base).list = base /\ First(base).at = Index(base)
  BY DEF First
<1> QED
  BY <1>1, <1>2, <1>3, <1>4, <1>5 DEF Stands

\* one that is merged goes to the place that its key leads to,
LEMMA StandsMerged ==
  ASSUME NEW base, NEW overlay, NEW acc, IsList(base), IsList(overlay),
         NEW m \in 0 .. Len(overlay) - 1, Stands(base, overlay, acc, m),
         KeyOf(overlay[m + 1]) \in DOMAIN acc.at
  PROVE  Stands(base, overlay, MergeInbound(acc, overlay[m + 1]), m + 1)
<1> DEFINE raw == overlay[m + 1]
           k == KeyOf(raw)
           p == acc.at[k]
           v == Obj(MergeObject(acc.list[p].object, raw.object))
           new == MergeInbound(acc, raw)
           New == NewOnes(base, overlay)
           U == Upto(base, overlay, m)
           Pl(j) == Place(base, overlay, j)
<1>1. /\ m \in Nat /\ m + 1 \in DOMAIN overlay /\ Len(overlay) \in Nat /\ DOMAIN overlay = 1..Len(overlay)
      /\ Len(base) \in Nat /\ DOMAIN base = 1..Len(base)
      /\ Len(acc.list) \in Nat /\ DOMAIN acc.list = 1..Len(acc.list)
      /\ Len(acc.list) >= Len(base)
  <2>1. /\ m \in Nat /\ m + 1 \in DOMAIN overlay /\ Len(overlay) \in Nat /\ DOMAIN overlay = 1..Len(overlay)
        /\ Len(base) \in Nat /\ DOMAIN base = 1..Len(base)
    BY ListDomain
  <2>2. Len(acc.list) \in Nat /\ DOMAIN acc.list = 1..Len(acc.list)
    BY ListDomain DEF Stands
  <2>3. Cardinality(U) \in Nat
    BY <2>1, UptoNext
  <2>4. Len(acc.list) = Len(base) + Cardinality(U)
    BY DEF Stands
  <2> HIDE DEF U
  <2> QED
    BY <2>1, <2>2, <2>3, <2>4
<1>2. /\ k # NoKey
      /\ \/ \E i \in DOMAIN base : KeyOf(base[i]) = k
         \/ \E j \in 1..m : KeyOf(overlay[j]) = k
  BY DEF Stands
<1>3. m + 1 \notin New
  BY <1>1, <1>2 DEF NewOnes
<1>4. Upto(base, overlay, m + 1) = U
  BY <1>3, UptoNext
<1>5. U \subseteq New /\ U \subseteq 1..m /\ New \subseteq DOMAIN overlay
  BY <1>1 DEF Upto, NewOnes
<1>6. \A j \in U : KeyOf(overlay[j]) = k =>
        /\ \A i \in DOMAIN base : KeyOf(base[i]) # k
        /\ \A i \in U : KeyOf(overlay[i]) = k => i = j
  <2>1. \A j \in New : KeyOf(overlay[j]) = k =>
          /\ \A i \in DOMAIN base : KeyOf(base[i]) # k
          /\ \A i \in 1 .. j - 1 : KeyOf(overlay[i]) # k
    BY <1>2 DEF NewOnes
  <2> HIDE DEF New, U, k
  <2> QED
    BY <1>1, <1>5, <2>1
<1>7. /\ \A i \in DOMAIN base :
           Patching(base[i], overlay, 0)[m + 1] =
             IF KeyOf(base[i]) = k
             THEN Obj(MergeObject(Patching(base[i], overlay, 0)[m].object, raw.object))
             ELSE Patching(base[i], overlay, 0)[m]
      /\ \A j \in U :
           Patching(overlay[j], overlay, j)[m + 1] =
             IF KeyOf(overlay[j]) = k
             THEN Obj(MergeObject(Patching(overlay[j], overlay, j)[m].object, raw.object))
             ELSE Patching(overlay[j], overlay, j)[m]
  <2>1. m + 1 \in 0..Len(overlay) /\ ~(m + 1 <= 0) /\ m + 1 - 1 = m /\ \A j \in U : ~(m + 1 <= j)
    BY <1>1, <1>5
  <2>2. ASSUME NEW i \in DOMAIN base
        PROVE  Patching(base[i], overlay, 0)[m + 1] =
                 Patch(base[i], overlay, Patching(base[i], overlay, 0)[m], m + 1)
    BY <2>1, PatchingNext
  <2>3. ASSUME NEW j \in U
        PROVE  Patching(overlay[j], overlay, j)[m + 1] =
                 Patch(overlay[j], overlay, Patching(overlay[j], overlay, j)[m], m + 1)
    BY <1>5, <2>1, PatchingNext
  <2> QED
    BY <1>2, <2>2, <2>3 DEF Patch
<1>8. new = [acc EXCEPT !.list[p] = v]
  BY DEF MergeInbound
<1> HIDE DEF new, v, p, U, New, Pl
<1>9. DOMAIN new = {"list", "at"} /\ new.list = [acc.list EXCEPT ![p] = v] /\ new.at = acc.at
  BY <1>8 DEF Stands
\* The place is that of the last global inbound with the key, or of the new one.
<1>10. /\ p \in DOMAIN acc.list
       /\ \A i \in DOMAIN base : i = p <=> IsLast(base, i) /\ KeyOf(base[i]) = k
       /\ \A j \in U : Pl(j) = p <=> KeyOf(overlay[j]) = k
  <2>1. CASE \E i \in DOMAIN base : KeyOf(base[i]) = k
    <3>1. PICK l \in DOMAIN base : KeyOf(base[l]) = k /\ IsLast(base, l)
      BY <2>1, HasLast
    <3>2. p = l
      BY <1>2, <3>1 DEF Stands, p
    <3>3. \A i \in DOMAIN base : IsLast(base, i) /\ KeyOf(base[i]) = k => i = l
      BY <3>1, LastIsUnique
    <3>4. \A j \in U : KeyOf(overlay[j]) # k /\ Pl(j) # l
      BY <1>1, <1>6, <2>1, <3>1 DEF Stands, U, Pl
    <3> QED
      BY <1>1, <3>1, <3>2, <3>3, <3>4
  <2>2. CASE ~ \E i \in DOMAIN base : KeyOf(base[i]) = k
    <3>1. \E j \in U : KeyOf(overlay[j]) = k
      <4> DEFINE S == {j \in 1..m : KeyOf(overlay[j]) = k}
      <4>1. PICK j \in S : \A y \in S : j <= y
        BY <1>1, <1>2, <2>2, HasLeast
      <4>2. j \in U
        BY <1>1, <2>2, <4>1 DEF U, Upto, NewOnes
      <4> QED
        BY <4>1, <4>2
    <3>2. PICK j \in U : KeyOf(overlay[j]) = k
      BY <3>1
    <3>3. p = Pl(j) /\ Pl(j) \in Len(base) + 1 .. Len(acc.list)
      BY <1>2, <3>2 DEF Stands, p, U, Pl
    <3>4. \A i \in U : Pl(i) = Pl(j) => i = j
      BY <3>2 DEF Stands, U, Pl
    <3> QED
      BY <1>1, <1>6, <2>2, <3>2, <3>3, <3>4
  <2> QED
    BY <2>1, <2>2
<1>11. IsList(new.list) /\ Len(new.list) = Len(acc.list)
  <2>1. IsList(acc.list)
    BY DEF Stands
  <2>2. /\ IsList([acc.list EXCEPT ![p] = v])
        /\ Len([acc.list EXCEPT ![p] = v]) = Len(acc.list)
    BY <1>10, <2>1, ListExcept
  <2> QED
    BY <1>9, <2>2
<1>12. ASSUME NEW i \in DOMAIN base
       PROVE  new.list[i] = IF IsLast(base, i) THEN Patching(base[i], overlay, 0)[m + 1] ELSE base[i]
  <2>1. acc.list[i] = IF IsLast(base, i) THEN Patching(base[i], overlay, 0)[m] ELSE base[i]
    BY DEF Stands
  <2>2. new.list[i] = IF i = p THEN v ELSE acc.list[i]
    BY <1>1, <1>9
  <2> QED
    BY <1>7, <1>10, <2>1, <2>2 DEF v
<1>13. ASSUME NEW j \in U
       PROVE  /\ Pl(j) \in Len(base) + 1 .. Len(acc.list)
              /\ new.list[Pl(j)] = Patching(overlay[j], overlay, j)[m + 1]
  <2>1. /\ Pl(j) \in Len(base) + 1 .. Len(acc.list)
        /\ acc.list[Pl(j)] = Patching(overlay[j], overlay, j)[m]
    BY DEF Stands, U, Pl
  <2>2. new.list[Pl(j)] = IF Pl(j) = p THEN v ELSE acc.list[Pl(j)]
    BY <1>1, <1>9, <2>1
  <2> QED
    BY <1>7, <1>10, <2>1, <2>2 DEF v
<1>14. ({KeyOf(base[i]) : i \in DOMAIN base} \cup {KeyOf(overlay[j]) : j \in 1 .. m + 1}) \ {NoKey}
       = ({KeyOf(base[i]) : i \in DOMAIN base} \cup {KeyOf(overlay[j]) : j \in 1..m}) \ {NoKey}
  BY <1>1, <1>2
<1>15. Stands(base, overlay, new, m + 1)
  BY <1>4, <1>9, <1>11, <1>12, <1>13, <1>14 DEF Stands, U, Pl
<1> QED
  BY <1>15 DEF new

\* and one that is appended is a new one, at the next place.
LEMMA StandsAppended ==
  ASSUME NEW base, NEW overlay, NEW acc, IsList(base), IsList(overlay),
         NEW m \in 0 .. Len(overlay) - 1, Stands(base, overlay, acc, m),
         KeyOf(overlay[m + 1]) \notin DOMAIN acc.at
  PROVE  Stands(base, overlay, MergeInbound(acc, overlay[m + 1]), m + 1)
<1> DEFINE raw == overlay[m + 1]
           k == KeyOf(raw)
           n == Len(acc.list)
           new == MergeInbound(acc, raw)
           New == NewOnes(base, overlay)
           U == Upto(base, overlay, m)
           Pl(j) == Place(base, overlay, j)
<1>1. /\ m \in Nat /\ m + 1 \in DOMAIN overlay /\ Len(overlay) \in Nat /\ DOMAIN overlay = 1..Len(overlay)
      /\ Len(base) \in Nat /\ DOMAIN base = 1..Len(base)
      /\ n \in Nat /\ DOMAIN acc.list = 1..n
      /\ n >= Len(base)
  <2>1. /\ m \in Nat /\ m + 1 \in DOMAIN overlay /\ Len(overlay) \in Nat /\ DOMAIN overlay = 1..Len(overlay)
        /\ Len(base) \in Nat /\ DOMAIN base = 1..Len(base)
    BY ListDomain
  <2>2. n \in Nat /\ DOMAIN acc.list = 1..n
    BY ListDomain DEF Stands
  <2>3. Cardinality(U) \in Nat
    BY <2>1, UptoNext
  <2>4. n = Len(base) + Cardinality(U)
    BY DEF Stands
  <2> HIDE DEF U, n
  <2> QED
    BY <2>1, <2>2, <2>3, <2>4
<1>2. k # NoKey => /\ \A i \in DOMAIN base : KeyOf(base[i]) # k
                   /\ \A j \in 1..m : KeyOf(overlay[j]) # k
  BY DEF Stands
<1>3. m + 1 \in New
  BY <1>1, <1>2 DEF NewOnes
<1>4. /\ Upto(base, overlay, m + 1) = U \cup {m + 1}
      /\ Cardinality(Upto(base, overlay, m + 1)) = Cardinality(U) + 1
  BY <1>3, UptoNext
<1>5. Pl(m + 1) = n + 1
  <2>1. Pl(m + 1) = Len(base) + Cardinality(Upto(base, overlay, m + 1))
    BY DEF Place, Upto
  <2>2. n = Len(base) + Cardinality(U) /\ Cardinality(U) \in Nat
    BY <1>1, UptoNext DEF Stands
  <2> HIDE DEF U, n, Pl
  <2> QED
    BY <1>1, <1>4, <2>1, <2>2
<1>6. U \subseteq 1..m
  BY <1>1 DEF Upto, NewOnes
<1>7. /\ \A i \in DOMAIN base : Patching(base[i], overlay, 0)[m + 1] = Patching(base[i], overlay, 0)[m]
      /\ \A j \in U : Patching(overlay[j], overlay, j)[m + 1] = Patching(overlay[j], overlay, j)[m]
      /\ Patching(raw, overlay, m + 1)[m + 1] = raw
  <2>1. m + 1 \in 0..Len(overlay) /\ ~(m + 1 <= 0) /\ m + 1 - 1 = m /\ \A j \in U : ~(m + 1 <= j)
    BY <1>1, <1>6
  <2>2. ASSUME NEW i \in DOMAIN base
        PROVE  Patching(base[i], overlay, 0)[m + 1] =
                 Patch(base[i], overlay, Patching(base[i], overlay, 0)[m], m + 1)
    BY <2>1, PatchingNext
  <2>3. ASSUME NEW j \in U
        PROVE  Patching(overlay[j], overlay, j)[m + 1] =
                 Patch(overlay[j], overlay, Patching(overlay[j], overlay, j)[m], m + 1)
    <3>1. j \in Nat /\ ~(m + 1 <= j)
      BY <1>1, <1>6
    <3> HIDE DEF U
    <3> QED
      BY <2>1, <3>1, PatchingNext
  <2>4. Patching(raw, overlay, m + 1)[m + 1] = raw
    BY <1>1, <2>1, PatchingNext
  <2> QED
    BY <1>2, <1>6, <2>2, <2>3, <2>4 DEF Patch
<1>8. new = [list |-> Append(acc.list, raw), at |-> Noted(acc, k)]
  BY DEF MergeInbound
<1> HIDE DEF new, U, New, Pl
<1>9. DOMAIN new = {"list", "at"} /\ new.list = Append(acc.list, raw) /\ new.at = Noted(acc, k)
  BY <1>8
<1>10. /\ IsList(new.list) /\ Len(new.list) = n + 1
       /\ \A i \in 1..n : new.list[i] = acc.list[i]
       /\ new.list[n + 1] = raw
  BY <1>9, ListAppend DEF Stands
<1>11. ASSUME NEW i \in DOMAIN base
       PROVE  new.list[i] = IF IsLast(base, i) THEN Patching(base[i], overlay, 0)[m + 1] ELSE base[i]
  <2>1. acc.list[i] = IF IsLast(base, i) THEN Patching(base[i], overlay, 0)[m] ELSE base[i]
    BY DEF Stands
  <2>2. i \in 1..n
    BY <1>1
  <2>3. new.list[i] = acc.list[i]
    BY <1>10, <2>2
  <2>4. Patching(base[i], overlay, 0)[m + 1] = Patching(base[i], overlay, 0)[m]
    BY <1>7
  <2> QED
    BY <2>1, <2>3, <2>4
<1>12. ASSUME NEW j \in U
       PROVE  /\ Pl(j) \in Len(base) + 1 .. n
              /\ new.list[Pl(j)] = Patching(overlay[j], overlay, j)[m + 1]
  <2>1. /\ Pl(j) \in Len(base) + 1 .. n
        /\ acc.list[Pl(j)] = Patching(overlay[j], overlay, j)[m]
    BY DEF Stands, U, Pl
  <2> QED
    BY <1>1, <1>7, <1>10, <2>1
<1>13. \A i, j \in U : Pl(i) = Pl(j) => i = j
  BY DEF Stands, U, Pl
<1>14. \A i, j \in U \cup {m + 1} : Pl(i) = Pl(j) => i = j
  BY <1>1, <1>5, <1>12, <1>13
<1>15. \A q \in Len(base) + 1 .. n : \E j \in U : Pl(j) = q
  BY DEF Stands, U, Pl
<1>16. \A q \in Len(base) + 1 .. n + 1 : \E j \in U \cup {m + 1} : Pl(j) = q
  BY <1>1, <1>5, <1>15
<1>17. new.at = [j \in (DOMAIN acc.at \cup {k}) \ {NoKey} |-> IF j = k THEN n + 1 ELSE acc.at[j]]
  BY <1>9 DEF Noted
<1>18. DOMAIN new.at =
         ({KeyOf(base[i]) : i \in DOMAIN base} \cup {KeyOf(overlay[j]) : j \in 1 .. m + 1}) \ {NoKey}
  <2>1. DOMAIN acc.at =
          ({KeyOf(base[i]) : i \in DOMAIN base} \cup {KeyOf(overlay[j]) : j \in 1..m}) \ {NoKey}
    BY DEF Stands
  <2>2. {KeyOf(overlay[j]) : j \in 1 .. m + 1} = {KeyOf(overlay[j]) : j \in 1..m} \cup {k}
    BY <1>1
  <2>3. DOMAIN new.at = (DOMAIN acc.at \cup {k}) \ {NoKey}
    BY <1>17
  <2> QED
    BY <2>1, <2>2, <2>3
<1>19. ASSUME NEW i \in DOMAIN base, IsLast(base, i), KeyOf(base[i]) # NoKey
       PROVE  new.at[KeyOf(base[i])] = i
  <2>1. acc.at[KeyOf(base[i])] = i /\ KeyOf(base[i]) \in DOMAIN acc.at
    BY <1>19 DEF Stands
  <2> QED
    BY <1>17, <1>19, <2>1
<1>20. ASSUME NEW j \in U, KeyOf(overlay[j]) # NoKey
       PROVE  new.at[KeyOf(overlay[j])] = Pl(j)
  <2>1. acc.at[KeyOf(overlay[j])] = Pl(j)
    BY <1>20 DEF Stands, U, Pl
  <2>2. KeyOf(overlay[j]) \in DOMAIN acc.at
    BY <1>6, <1>20 DEF Stands
  <2> QED
    BY <1>17, <1>20, <2>1, <2>2
<1>21. k # NoKey => new.at[k] = Pl(m + 1)
  BY <1>5, <1>17
<1>22. /\ \A j \in U \cup {m + 1} :
            /\ Pl(j) \in Len(base) + 1 .. n + 1
            /\ new.list[Pl(j)] = Patching(overlay[j], overlay, j)[m + 1]
       /\ \A j \in U \cup {m + 1} : KeyOf(overlay[j]) # NoKey => new.at[KeyOf(overlay[j])] = Pl(j)
  <2>1. n + 1 \in Len(base) + 1 .. n + 1 /\ Len(base) + 1 .. n \subseteq Len(base) + 1 .. n + 1
    BY <1>1
  <2> HIDE DEF n
  <2> QED
    BY <1>5, <1>7, <1>10, <1>12, <1>20, <1>21, <2>1
<1>23. Len(new.list) = Len(base) + Cardinality(Upto(base, overlay, m + 1))
  <2>1. n = Len(base) + Cardinality(U) /\ Cardinality(U) \in Nat
    BY <1>1, UptoNext DEF Stands, U
  <2> QED
    BY <1>1, <1>4, <1>10, <2>1
<1>24. Stands(base, overlay, new, m + 1)
  BY <1>4, <1>9, <1>10, <1>11, <1>14, <1>16, <1>18, <1>19, <1>22, <1>23 DEF Stands, Pl
<1> QED
  BY <1>24 DEF new

\* So mergeInboundArrays is laying inbounds over by key, for all lists.
THEOREM MergingIsByKey ==
  ASSUME NEW base, NEW overlay, IsList(base), IsList(overlay), base # <<>>
  PROVE  MergeInbounds(base, overlay) = InboundsByKey(base, overlay)
<1> DEFINE S == {m \in Nat : m <= Len(overlay) => Stands(base, overlay, Merging(base, overlay)[m], m)}
           L == Len(overlay)
<1>1. L \in Nat
  BY ListDomain
<1>2. 0 \in S
  BY MergingNext, StandsFirst
<1>3. ASSUME NEW m \in Nat, m \in S
      PROVE  m + 1 \in S
  <2>1. CASE m + 1 <= L
    <3>1. Stands(base, overlay, Merging(base, overlay)[m], m) /\ m + 1 \in 1..L /\ m + 1 - 1 = m
          /\ m \in 0 .. L - 1
      BY <1>1, <1>3, <2>1
    <3>2. Merging(base, overlay)[m + 1] = MergeInbound(Merging(base, overlay)[m], overlay[m + 1])
      BY <3>1, MergingNext
    <3> DEFINE acc == Merging(base, overlay)[m]
    <3> HIDE DEF acc
    <3>3. CASE KeyOf(overlay[m + 1]) \in DOMAIN acc.at
      <4>1. Stands(base, overlay, MergeInbound(acc, overlay[m + 1]), m + 1)
        BY <3>1, <3>3, StandsMerged DEF acc
      <4> QED
        BY <3>2, <4>1 DEF acc
    <3>4. CASE KeyOf(overlay[m + 1]) \notin DOMAIN acc.at
      BY <3>1, <3>2, <3>4, StandsAppended DEF acc
    <3> QED
      BY <3>3, <3>4
  <2> QED
    BY <1>1, <2>1
<1> HIDE DEF S
<1>4. Nat \subseteq S
  BY <1>2, <1>3, NatSetInduction
<1> DEFINE acc == Merging(base, overlay)[L]
           New == NewOnes(base, overlay)
           Pl(j) == Place(base, overlay, j)
<1>5. Stands(base, overlay, acc, L)
  BY <1>1, <1>4 DEF S
<1>6. Upto(base, overlay, L) = New
  BY UptoNext
<1>7. MergeInbounds(base, overlay) = acc.list
  BY DEF MergeInbounds
<1>8. /\ Len(base) \in Nat /\ DOMAIN base = 1..Len(base)
      /\ acc.list = [n \in 1..Len(acc.list) |-> acc.list[n]]
      /\ Len(acc.list) = Len(base) + Cardinality(New)
  BY <1>5, <1>6, ListDomain DEF Stands
<1> HIDE DEF acc, New, Pl
<1>9. ASSUME NEW n \in 1..Len(acc.list), n \in DOMAIN base
      PROVE  acc.list[n] = IF IsLast(base, n) THEN Patched(base[n], overlay, 0) ELSE base[n]
  BY <1>5, <1>9 DEF Stands, Patched
<1>10. ASSUME NEW n \in 1..Len(acc.list), n \notin DOMAIN base
       PROVE  acc.list[n] = LET j == CHOOSE j \in New : Pl(j) = n
                            IN Patched(overlay[j], overlay, j)
  <2>1. Len(acc.list) \in Nat
    BY <1>5, ListDomain DEF Stands
  <2>2. n \in Len(base) + 1 .. Len(acc.list)
    BY <1>8, <1>10, <2>1
  <2>3. \E j \in New : Pl(j) = n
    BY <1>5, <1>6, <2>2 DEF Stands, Pl
  <2> DEFINE j == CHOOSE j \in New : Pl(j) = n
  <2>4. j \in New /\ Pl(j) = n
    BY <2>3
  <2> HIDE DEF j
  <2>5. acc.list[n] = Patched(overlay[j], overlay, j)
    BY <1>5, <1>6, <2>4 DEF Stands, Patched, Pl
  <2> QED
    BY <2>5 DEF j
<1>11. InboundsByKey(base, overlay) =
         [n \in 1..Len(acc.list) |->
            IF n \in DOMAIN base
            THEN IF IsLast(base, n) THEN Patched(base[n], overlay, 0) ELSE base[n]
            ELSE LET j == CHOOSE j \in New : Pl(j) = n IN Patched(overlay[j], overlay, j)]
  BY <1>8 DEF InboundsByKey, New, Pl
<1>12. acc.list = InboundsByKey(base, overlay)
  BY <1>8, <1>9, <1>10, <1>11
<1> QED
  BY <1>7, <1>12

-----------------------------------------------------------------------------
(* Merging configurations.                                                  *)

\* The constructors.
LEMMA Shapes ==
  \A x : /\ IsObj(Obj(x)) /\ Obj(x).object = x /\ ~IsArr(Obj(x))
         /\ IsArr(Arr(x)) /\ Arr(x).array = x /\ ~IsObj(Arr(x))
BY DEF IsObj, IsArr, Obj, Arr

\* Sanitising an override gives one.
LEMMA SanitizedIsConfig ==
  ASSUME NEW o, IsConfig(o)
  PROVE  IsConfig(Sanitized(o))
<1> DEFINE fields == o.object
           list == fields["inbounds"].array
           new == [fields EXCEPT !["inbounds"] = Arr(Kept(list)[Len(list)])]
<1>1. CASE "inbounds" \in DOMAIN fields /\ IsArr(fields["inbounds"])
  <2>1. IsList(Kept(list)[Len(list)])
    BY <1>1, KeptIsList DEF IsConfig, InboundsOf
  <2>2. "inbounds" \in DOMAIN new /\ new["inbounds"] = Arr(Kept(list)[Len(list)])
    BY <1>1
  <2>3. InboundsOf(new) = Kept(list)[Len(list)]
    BY <2>2, Shapes DEF InboundsOf
  <2>4. Sanitized(o) = Obj(new)
    BY <1>1 DEF Sanitized
  <2>5. new = [key \in DOMAIN new |-> new[key]]
    OBVIOUS
  <2> HIDE DEF new
  <2> QED
    BY <2>1, <2>2, <2>3, <2>4, <2>5, Shapes DEF IsConfig
<1>2. CASE ~("inbounds" \in DOMAIN fields /\ IsArr(fields["inbounds"]))
  BY <1>2 DEF Sanitized
<1> QED
  BY <1>1, <1>2

\* An override laid over a configuration without two inbounds of the same key
\* makes no two.
LEMMA MergeMapKeysUnique ==
  ASSUME NEW g, NEW o, IsConfig(g), IsConfig(o),
         InboundsOf(g.object) # <<>>, KeysUnique(InboundsOf(g.object))
  PROVE  KeysUnique(InboundsOf(MergeMap(g.object, o.object)))
<1> DEFINE a == g.object
           b == o.object
           m == MergeMap(a, b)
           key == "inbounds"
<1>1. key \in DOMAIN a /\ IsArr(a[key]) /\ InboundsOf(a) = a[key].array
  BY DEF InboundsOf
<1>2. key \in DOMAIN m
  BY <1>1 DEF MergeMap, Merges
<1>3. CASE key \notin DOMAIN b
  <2>1. m[key] = a[key]
    BY <1>1, <1>3 DEF MergeMap, Merges
  <2> QED
    BY <1>1, <1>2, <2>1 DEF InboundsOf
<1>4. CASE key \in DOMAIN b /\ IsArr(b[key])
  <2>1. m[key] = Arr(MergeInbounds(a[key].array, b[key].array))
    BY <1>1, <1>4 DEF MergeMap, Merges, Like, MergeValue, IsArr, IsObj
  <2>2. IsList(b[key].array)
    BY <1>4 DEF IsConfig, InboundsOf
  <2>3. KeysUnique(MergeInbounds(a[key].array, b[key].array))
    BY <1>1, <2>2, MergedKeysUnique DEF IsConfig
  <2>4. IsArr(m[key]) /\ KeysUnique(m[key].array)
    BY <2>1, <2>3, Shapes
  <2> QED
    BY <1>2, <2>4 DEF InboundsOf
<1>5. CASE key \in DOMAIN b /\ ~IsArr(b[key])
  <2>1. ~IsObj(a[key])
    BY <1>1 DEF IsArr, IsObj
  <2>2. m[key] = b[key]
    BY <1>1, <1>5, <2>1 DEF MergeMap, Merges, Like, MergeValue, IsArr, IsObj
  <2>3. InboundsOf(m) = <<>>
    BY <1>5, <2>2 DEF InboundsOf
  <2> QED
    BY <2>3, EmptyIsList DEF KeysUnique
<1> QED
  BY <1>3, <1>4, <1>5

\* Merging configurations is laying the second over the first.
THEOREM MergingIsOverlaying ==
  ASSUME NEW g, NEW o, IsConfig(g), IsConfig(o)
  PROVE  MergeMap(g.object, o.object) = Overlaid(g.object, o.object)
<1> DEFINE a == g.object
           b == o.object
           Value(key) ==
             CASE key \notin DOMAIN b -> a[key]
               [] key \in DOMAIN b /\ key = "inbounds" /\ IsArr(b[key]) ->
                    Arr(IF InboundsOf(a) = <<>> THEN b[key].array
                        ELSE InboundsByKey(InboundsOf(a), b[key].array))
               [] key \in DOMAIN a \cap DOMAIN b /\ IsObj(a[key]) /\ IsObj(b[key]) ->
                    Obj(MergeObject(a[key].object, b[key].object))
               [] OTHER -> b[key]
<1>1. ASSUME NEW key \in DOMAIN a \cup DOMAIN b
      PROVE  MergeMap(a, b)[key] = Value(key)
  <2>1. CASE key \notin DOMAIN b
    BY <2>1 DEF MergeMap, Merges
  <2>2. CASE key \in DOMAIN b /\ key \notin DOMAIN a
    <3>1. MergeMap(a, b)[key] = b[key]
      BY <2>2 DEF MergeMap, Merges
    <3>2. CASE key = "inbounds" /\ IsArr(b[key])
      <4>1. InboundsOf(a) = <<>> /\ b[key] = Arr(b[key].array)
        BY <2>2, <3>2 DEF InboundsOf, IsConfig
      <4> QED
        BY <2>2, <3>1, <3>2, <4>1
    <3>3. CASE ~(key = "inbounds" /\ IsArr(b[key]))
      BY <2>2, <3>1, <3>3
    <3> QED
      BY <3>2, <3>3
  <2>3. CASE key \in DOMAIN b /\ key \in DOMAIN a
    <3>1. CASE key = "inbounds" /\ IsArr(b[key])
      <4> DEFINE list == IF IsArr(a[key]) THEN a[key].array ELSE <<>>
                 patches == b[key].array
      <4>1. MergeMap(a, b)[key] = Arr(MergeInbounds(list, patches))
        BY <2>3, <3>1 DEF MergeMap, Merges, Like, MergeValue, IsArr, IsObj
      <4>2. InboundsOf(a) = list /\ IsList(list)
        BY <2>3, <3>1, EmptyIsList DEF InboundsOf, IsConfig
      <4>3. IsList(patches)
        BY <2>3, <3>1 DEF InboundsOf, IsConfig
      <4>4. ~IsObj(b[key])
        BY <3>1 DEF IsArr, IsObj
      <4> HIDE DEF list, patches
      <4>5. CASE list = <<>>
        <5>1. MergeInbounds(list, patches) = patches
          BY <4>5 DEF MergeInbounds
        <5> QED
          BY <2>3, <3>1, <4>1, <4>2, <4>4, <4>5, <5>1 DEF patches
      <4>6. CASE list # <<>>
        <5>1. MergeInbounds(list, patches) = InboundsByKey(list, patches)
          BY <4>2, <4>3, <4>6, MergingIsByKey
        <5> QED
          BY <2>3, <3>1, <4>1, <4>2, <4>4, <4>6, <5>1 DEF patches
      <4> QED
        BY <4>5, <4>6
    <3>2. CASE ~(key = "inbounds" /\ IsArr(b[key]))
      <4>1. MergeMap(a, b)[key] = IF IsObj(b[key]) /\ IsObj(a[key])
                                  THEN Obj(MergeObject(a[key].object, b[key].object))
                                  ELSE b[key]
        BY <2>3, <3>2 DEF MergeMap, Merges, Like, MergeValue, IsArr, IsObj
      <4> QED
        BY <2>3, <3>2, <4>1
    <3> QED
      BY <3>1, <3>2
  <2> QED
    BY <2>1, <2>2, <2>3
<1>2. MergeMap(a, b) = [key \in DOMAIN a \cup DOMAIN b |-> MergeMap(a, b)[key]]
  BY DEF MergeMap, Merges
<1>3. Overlaid(a, b) = [key \in DOMAIN a \cup DOMAIN b |-> Value(key)]
  BY DEF Overlaid
<1> HIDE DEF Value
<1> QED
  BY <1>1, <1>2, <1>3

\* An override that may be saved has nothing to be sanitised.
LEMMA ValidIsSanitized ==
  ASSUME NEW o, IsConfig(o), Valid(o)
  PROVE  Sanitized(o) = o
<1> DEFINE fields == o.object
           list == InboundsOf(fields)
           L == Len(list)
<1>1. CASE "inbounds" \in DOMAIN fields /\ IsArr(fields["inbounds"])
  <2>1. IsList(list) /\ fields["inbounds"] = Arr(list) /\ list = fields["inbounds"].array
    BY <1>1 DEF IsConfig, InboundsOf
  <2>2. /\ L \in Nat /\ DOMAIN list = 1..L /\ list = [i \in 1..L |-> list[i]]
        /\ \A i \in 1..L : ~Redefines(list[i])
    BY <2>1, ListDomain DEF Valid
  <2> DEFINE K == Kept(list)
             S == {n \in Nat : n <= L =>
                     IsList(K[n]) /\ Len(K[n]) = n /\ \A i \in 1..n : K[n][i] = list[i]}
  <2>3. 0 \in S
    BY <2>1, KeptNext, EmptyIsList
  <2>4. ASSUME NEW n \in Nat, n \in S
        PROVE  n + 1 \in S
    <3>1. CASE n + 1 <= L
      <4>1. /\ n + 1 \in 1..L /\ n + 1 - 1 = n
            /\ IsList(K[n]) /\ Len(K[n]) = n /\ \A i \in 1..n : K[n][i] = list[i]
        BY <2>2, <2>4, <3>1
      <4>2. K[n + 1] = Append(K[n], list[n + 1])
        <5>1. \A i \in 1..L : K[i] = IF Redefines(list[i]) THEN K[i - 1]
                                     ELSE Append(K[i - 1], list[i])
          BY <2>1, KeptNext
        <5>2. ~Redefines(list[n + 1])
          BY <2>2, <4>1
        <5> HIDE DEF K, list, L
        <5>3. K[n + 1] = IF Redefines(list[n + 1]) THEN K[n + 1 - 1]
                         ELSE Append(K[n + 1 - 1], list[n + 1])
          BY <4>1, <5>1
        <5> QED
          BY <4>1, <5>2, <5>3
      <4> HIDE DEF K, list, L
      <4>3. /\ IsList(K[n + 1]) /\ Len(K[n + 1]) = n + 1 /\ K[n + 1][n + 1] = list[n + 1]
            /\ \A i \in 1..n : K[n + 1][i] = list[i]
        BY <4>1, <4>2, ListAppend
      <4> QED
        BY <4>3
    <3> QED
      BY <2>2, <3>1
  <2> HIDE DEF S
  <2>5. Nat \subseteq S
    BY <2>3, <2>4, NatSetInduction
  <2>6. IsList(K[L]) /\ Len(K[L]) = L /\ \A i \in 1..L : K[L][i] = list[i]
    BY <2>2, <2>5 DEF S
  <2>7. K[L] = [i \in 1..L |-> K[L][i]]
    BY <2>6, ListDomain
  <2> HIDE DEF K
  <2>8. K[L] = list
    <3> HIDE DEF L, list
    <3> QED
      BY <2>2, <2>6, <2>7
  <2>9. Sanitized(o) = Obj([fields EXCEPT !["inbounds"] = Arr(K[L])])
    BY <1>1, <2>1 DEF Sanitized, K
  <2>10. [fields EXCEPT !["inbounds"] = Arr(K[L])] = fields
    BY <1>1, <2>1, <2>8 DEF IsConfig
  <2> QED
    BY <2>9, <2>10 DEF IsConfig
<1>2. CASE ~("inbounds" \in DOMAIN fields /\ IsArr(fields["inbounds"]))
  BY <1>2 DEF Sanitized
<1> QED
  BY <1>1, <1>2

\* What is stripped has nothing to do with inbounds.
LEMMA StrippedKeepsInbounds == ASSUME NEW f PROVE InboundsOf(Stripped(f)) = InboundsOf(f)
BY DEF Stripped, InboundsOf

-----------------------------------------------------------------------------
(* The requests of a node.                                                  *)

\* To the global configuration, the requests of nodes and the saves of overrides
\* are requests and steps of GlobalConfig.
THEOREM NodesAreRequests == NodeSpec => Spec
<1>1. NodeInit => Init
  BY DEF NodeInit
<1>2. [NodeNext]_<<vars, nodeVars>> => [Next]_vars
  <2> SUFFICES ASSUME [NodeNext]_<<vars, nodeVars>>
               PROVE  [Next]_vars
    OBVIOUS
  <2>1. ASSUME NEW h \in Handlers, Authenticate(h) \/ Build(h)
        PROVE  Next
    BY <2>1 DEF Authenticate, Build, Next
  <2>2. ASSUME NEW h \in Handlers, Proceed(h) \/ Drop(h)
        PROVE  Next
    BY <2>2 DEF Proceed, Drop, Next
  <2>3. ASSUME NEW h \in Handlers, NEW b \in Saves \cup {None}, AdminRequest(h, b)
        PROVE  Next
    BY <2>3 DEF AdminRequest, Next
  <2>4. ASSUME NEW o, PatchOverride(o)
        PROVE  UNCHANGED vars
    BY <2>4 DEF PatchOverride
  <2>5. CASE UNCHANGED <<vars, nodeVars>>
    BY <2>5
  <2> QED
    BY <2>1, <2>2, <2>3, <2>4, <2>5 DEF NodeNext
<1> QED
  BY <1>1, <1>2, PTL DEF NodeSpec, Spec

\* What the requests hold has the shape of configurations, and what is stored is
\* what may be saved.
NodeInv ==
  /\ override = Null \/ (IsConfig(override) /\ Valid(override))
  /\ built \subseteq Handlers
  /\ held \in [Handlers -> {held[h] : h \in Handlers}]
  /\ copy \in [Handlers -> Bodies \cup {Default, Broken}]
  /\ \A h \in Handlers : held[h] = None \/ held[h] = Null \/ IsConfig(held[h])
  /\ \A h \in built : held[h] # None

\* NodeInv is an invariant.
THEOREM NodeInvariant == NodeSpec => []NodeInv
<1> USE ConfigAssumption DEF NodeInv
<1>1. NodeInit => NodeInv
  <2> SUFFICES ASSUME NodeInit
               PROVE  NodeInv
    OBVIOUS
  <2>1. IsConfig(override) /\ Valid(override)
    <3> DEFINE none == [k \in {} |-> Null]
    <3>1. /\ DOMAIN none = {} /\ override = Obj(none)
          /\ none = [key \in DOMAIN none |-> none[key]]
      BY DEF NodeInit
    <3> HIDE DEF none
    <3>2. InboundsOf(none) = <<>>
      BY <3>1 DEF InboundsOf
    <3> QED
      BY <3>1, <3>2, Shapes, EmptyIsList DEF IsConfig, Valid
  <2> QED
    BY <2>1 DEF NodeInit, Init
<1>2. NodeInv /\ ConfigInv /\ [NodeNext]_<<vars, nodeVars>> => NodeInv'
  <2> SUFFICES ASSUME NodeInv, ConfigInv, [NodeNext]_<<vars, nodeVars>>
               PROVE  NodeInv'
    OBVIOUS
  <2>1. ASSUME NEW h \in Handlers, Authenticate(h)
        PROVE  NodeInv'
    BY <2>1 DEF Authenticate, Begin
  <2>2. ASSUME NEW h \in Handlers, Build(h)
        PROVE  NodeInv'
    BY <2>2 DEF Build, Begin
  <2>3. ASSUME NEW h \in Handlers, Proceed(h)
        PROVE  NodeInv'
    <3>1. copy' \in [Handlers -> Bodies \cup {Default, Broken}]
      <4>1. CASE Select(h)
        <5>1. \A c \in Saves : Normal(c) \in Bodies \cup {Default, Broken}
          BY DEF Normal, Saves
        <5>2. \A r \in rows : config[r] \in Saves
          BY DEF ConfigInv, TypeOK
        <5> QED
          BY <4>1, <5>1, <5>2 DEF Select
      <4>2. CASE Insert(h) \/ Repair(h) \/ Update(h)
        BY <4>2 DEF Insert, Repair, Update, requestVars
      <4> QED
        BY <2>3, <4>1, <4>2 DEF Proceed, Step
    <3> QED
      BY <2>3, <3>1 DEF Proceed
  <2>4. ASSUME NEW h \in Handlers, NEW b \in Saves \cup {None}, AdminRequest(h, b)
        PROVE  NodeInv'
    BY <2>4 DEF AdminRequest, Begin
  <2>5. ASSUME NEW h \in Handlers, Drop(h)
        PROVE  NodeInv'
    BY <2>5 DEF Drop, Fail
  <2>6. ASSUME NEW o \in Overrides \cup {Null}, PatchOverride(o)
        PROVE  NodeInv'
    <3>1. override' = Null \/ (IsConfig(override') /\ Valid(override'))
      BY <2>6, ShapeAssumption, ValidIsSanitized DEF PatchOverride
    <3> QED
      BY <2>6, <3>1 DEF PatchOverride, vars, requestVars
  <2>7. CASE UNCHANGED <<vars, nodeVars>>
    BY <2>7 DEF vars, nodeVars, requestVars
  <2> QED
    BY <2>1, <2>2, <2>3, <2>4, <2>5, <2>6, <2>7 DEF NodeNext
<1> QED
  BY <1>1, <1>2, NodesAreRequests, ConfigInvariant, PTL DEF NodeSpec

\* sing-box is given no two inbounds of the same tag, by any merge, unless the
\* global list has two itself or is empty.
THEOREM NoInboundTwice == NodeSpec => []OneInboundPerKey
<1>1. NodeInv => OneInboundPerKey
  <2> SUFFICES ASSUME NodeInv, NEW h \in Handlers, Answered(h), copy[h] # Broken,
                      InboundsOf(copy[h].object) # <<>>,
                      KeysUnique(InboundsOf(copy[h].object))
               PROVE  KeysUnique(InboundsOf(Given(h).object))
    BY DEF OneInboundPerKey
  <2> DEFINE g == copy[h]
             o == held[h]
  <2>1. IsConfig(g) /\ (o = Null \/ IsConfig(o))
    BY ShapeAssumption DEF NodeInv, Answered
  <2>2. InboundsOf(Given(h).object) = InboundsOf(Merged(g, o))
    BY StrippedKeepsInbounds, Shapes DEF Given
  <2> HIDE DEF g, o
  <2>3. CASE o = Null
    BY <2>2, <2>3 DEF Merged, g
  <2>4. CASE o # Null
    <3>1. IsConfig(Sanitized(o))
      BY <2>1, <2>4, SanitizedIsConfig
    <3>2. KeysUnique(InboundsOf(MergeMap(g.object, Sanitized(o).object)))
      BY <2>1, <3>1, MergeMapKeysUnique DEF g
    <3> QED
      BY <2>2, <2>4, <3>2 DEF Merged
  <2> QED
    BY <2>3, <2>4
<1> QED
  BY <1>1, NodeInvariant, PTL

-----------------------------------------------------------------------------
(* What a node is answered.                                                 *)

\* A request that began after the last save, of either kind, is answered from
\* what was saved, if that save had not raced.
AnswersCurrent ==
  \A h \in Handlers : Answered(h) /\ fresh[h] = "yes" /\ raced = "no" =>
    copy[h] = Meaning(latest) /\ held[h] = override

\* The inductive form of AnswersCurrent: a request that builds is no save, so
\* what it has read it has read since, and a save makes all requests stale.
CurrentInv ==
  /\ AnswersCurrent
  /\ built \subseteq Handlers
  /\ held \in [Handlers -> {held[h] : h \in Handlers}]
  /\ fresh \in [Handlers -> {"yes", "no"}]
  /\ \A h \in built : body[h] = None /\ pc[h] # "update" /\ held[h] # None
  /\ \A h \in Handlers : fresh[h] = "yes" => held[h] \in {override, None}

\* CurrentInv is an invariant.
THEOREM CurrentInvariant == NodeSpec => []CurrentInv
<1> USE ConfigAssumption DEF CurrentInv, AnswersCurrent, Answered
<1>1. NodeInit => CurrentInv
  BY DEF NodeInit, Init
<1>2. CurrentInv /\ ConfigInv /\ [NodeNext]_<<vars, nodeVars>> => CurrentInv'
  <2> SUFFICES ASSUME CurrentInv, ConfigInv, [NodeNext]_<<vars, nodeVars>>
               PROVE  CurrentInv'
    OBVIOUS
  <2>0. TypeOK
    BY DEF ConfigInv
  <2>1. ASSUME NEW h \in Handlers, Authenticate(h)
        PROVE  CurrentInv'
    BY <2>0, <2>1 DEF Authenticate, Begin, Goto, TypeOK
  <2>2. ASSUME NEW h \in Handlers, Build(h)
        PROVE  CurrentInv'
    BY <2>0, <2>2 DEF Build, Begin, Goto, TypeOK
  <2>3. ASSUME NEW h \in Handlers, Proceed(h)
        PROVE  CurrentInv'
    <3> USE <2>0 DEF TypeOK, Goto, AfterGet, requestVars, historyVars
    <3>1. CASE Select(h)
      <4>1. pc[h] = "select" /\ fresh' = fresh /\ UNCHANGED <<override, held, built>>
        BY <2>3, <3>1 DEF Proceed, Select
      <4>2. CASE rows = {} /\ Goto(h, "insert") /\ UNCHANGED <<row, copy>>
        BY <3>1, <4>1, <4>2 DEF Select
      <4>3. ASSUME NEW r \in rows,
                   copy' = [copy EXCEPT ![h] = Normal(config[r])],
                   Goto(h, IF config[r] = Broken THEN AfterGet(h) ELSE "repair")
            PROVE  CurrentInv'
        <5>1. raced = "no" => Normal(config[r]) = Meaning(latest)
          BY <4>3, NormalMeans DEF ConfigInv, SaveSticks
        <5> QED
          BY <3>1, <4>1, <4>3, <5>1 DEF Select
      <4> QED
        BY <3>1, <4>2, <4>3 DEF Select
    <3>2. CASE Insert(h)
      <4>1. raced = "no" => Default = Meaning(latest)
        BY <3>2 DEF Insert, ConfigInv
      <4> QED
        BY <2>3, <3>2, <4>1 DEF Proceed, Insert
    <3>3. CASE Repair(h)
      <4>1. raced = "no" => copy[h] = Meaning(latest)
        BY <3>3 DEF Repair, ConfigInv
      <4> QED
        BY <2>3, <3>3, <4>1 DEF Proceed, Repair
    <3>4. CASE Update(h)
      <4>1. fresh' = Stale /\ UNCHANGED <<override, held, built>>
        BY <2>3, <3>4 DEF Proceed, Update
      <4> QED
        BY <3>4, <4>1 DEF Update, Stale
    <3> QED
      BY <2>3, <3>1, <3>2, <3>3, <3>4 DEF Proceed, Step
  <2>4. ASSUME NEW h \in Handlers, NEW b \in Saves \cup {None}, AdminRequest(h, b)
        PROVE  CurrentInv'
    BY <2>0, <2>4 DEF AdminRequest, Begin, Goto, TypeOK
  <2>5. ASSUME NEW h \in Handlers, Drop(h)
        PROVE  CurrentInv'
    BY <2>0, <2>5 DEF Drop, Fail, Goto, TypeOK, historyVars
  <2>6. ASSUME NEW o \in Overrides \cup {Null}, PatchOverride(o)
        PROVE  CurrentInv'
    BY <2>6 DEF PatchOverride, Stale, vars, requestVars, historyVars
  <2>7. CASE UNCHANGED <<vars, nodeVars>>
    BY <2>7 DEF vars, nodeVars, requestVars, historyVars
  <2> QED
    BY <2>1, <2>2, <2>3, <2>4, <2>5, <2>6, <2>7 DEF NodeNext
<1> QED
  BY <1>1, <1>2, NodesAreRequests, ConfigInvariant, PTL DEF NodeSpec

\* A request that began after the last save, of either kind, gives the node what
\* was saved, the override laid over the global configuration, as long as the
\* last save of the global configuration had not raced.
THEOREM NodesGetWhatWasSaved == NodeSpec => []NodeGetsSaved
<1>1. ConfigInv /\ NodeInv /\ CurrentInv => NodeGetsSaved
  <2> SUFFICES ASSUME NodeInv, CurrentInv, ConfigInv, NEW h \in Handlers,
                      Answered(h), fresh[h] = "yes", raced = "no"
               PROVE  Given(h) = Intended(Meaning(latest), override)
    BY DEF NodeGetsSaved
  <2> DEFINE g == copy[h]
             o == override
  <2>1. g = Meaning(latest) /\ o = held[h]
    BY DEF CurrentInv, AnswersCurrent
  <2>2. g \in Bodies \cup {Default, Broken} /\ (o = Null \/ (IsConfig(o) /\ Valid(o)))
    BY DEF NodeInv
  <2>3. Given(h) = IF g = Broken THEN Broken ELSE Obj(Stripped(Merged(g, o)))
    BY <2>1 DEF Given
  <2> HIDE DEF g, o
  <2>4. CASE g = Broken
    BY <2>1, <2>3, <2>4 DEF Intended, o
  <2>5. CASE g # Broken /\ o = Null
    BY <2>1, <2>3, <2>5 DEF Intended, Merged, o
  <2>6. CASE g # Broken /\ o # Null
    <3>1. IsConfig(g) /\ IsConfig(o) /\ Sanitized(o) = o
      BY <2>2, <2>6, ShapeAssumption, ValidIsSanitized
    <3>2. Merged(g, o) = Overlaid(g.object, o.object)
      BY <2>6, <3>1, MergingIsOverlaying DEF Merged
    <3> QED
      BY <2>1, <2>3, <2>6, <3>2 DEF Intended, o
  <2> QED
    BY <2>4, <2>5, <2>6
<1> QED
  BY <1>1, NodeInvariant, CurrentInvariant, NodesAreRequests, ConfigInvariant, PTL
=============================================================================
