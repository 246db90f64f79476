------------------------ MODULE WorkflowGraph_proofs ------------------------
(***************************************************************************)
(* Proofs about WorkflowGraph, for graphs of any size, any event ceiling   *)
(* and any number of retries and items.                                    *)
(*                                                                         *)
(* First what the algorithms compute, by induction over a SET of numbers   *)
(* or subsets (InductionLemmas): Among selects in order, Emit keeps the    *)
(* log's ceiling, TopoSort sorts (TopoSorted), ReachableFrom is the least  *)
(* closure (Reaching), RunnableNodes a component (RunnableIsComponent).    *)
(*                                                                         *)
(* Then four inductive invariants. GraphInv: the types, where a run stands *)
(* in its orders, and that the log is ended exactly when the run is.       *)
(* MainInv: the main loop and each iteration of a loop run in order, and   *)
(* the main loop only for a node that led there.                           *)
(* RecordInv: one graph only is started, and the log accounts for it.      *)
(* ReviewInv: what a reviewer approved is kept until it is read.           *)
(***************************************************************************)
EXTENDS WorkflowGraph, InductionLemmas, SequenceTheorems

-----------------------------------------------------------------------------
(* Sequences: counting, and what Among selects.                            *)

(* How many of the first k elements of s are in U.                         *)
Count(s, k, U) == Cardinality({i \in 1 .. k : s[i] \in U})

(* Part of an interval is finite.                                          *)
LEMMA IntervalPart ==
  ASSUME NEW k \in Nat, NEW A, A \subseteq 1 .. k
  PROVE  IsFiniteSet(A)
<1>1. IsFiniteSet(1 .. k)
  BY FS_Interval
<1> QED BY <1>1, FS_Subset

(* Counting goes on element by element.                                    *)
LEMMA CountNext ==
  ASSUME NEW s, NEW k \in Nat, NEW U
  PROVE  /\ Count(s, k, U) \in 0 .. k
         /\ Count(s, 0, U) = 0
         /\ Count(s, k + 1, U) = Count(s, k, U) + IF s[k + 1] \in U THEN 1 ELSE 0
<1> DEFINE A == {i \in 1 .. k : s[i] \in U}
           B == {i \in 1 .. k + 1 : s[i] \in U}
<1>1. /\ IsFiniteSet(1 .. k) /\ Cardinality(1 .. k) = k
      /\ A \subseteq 1 .. k /\ k + 1 \notin A
  BY FS_Interval
<1>2. IsFiniteSet(A) /\ Cardinality(A) \in Nat /\ Cardinality(A) <= k
  <2> HIDE DEF A
  <2> QED BY <1>1, FS_Subset, FS_CardinalityType
<1>3. Count(s, 0, U) = 0
  <2>1. {i \in 1 .. 0 : s[i] \in U} = {}
    OBVIOUS
  <2> QED BY <2>1, FS_EmptySet DEF Count
<1>4. B = IF s[k + 1] \in U THEN A \cup {k + 1} ELSE A
  OBVIOUS
<1>5. Cardinality(A \cup {k + 1}) = Cardinality(A) + 1
  <2> HIDE DEF A
  <2> QED BY <1>1, <1>2, FS_AddElement
<1> QED BY <1>2, <1>3, <1>4, <1>5 DEF Count

(* The same, case by case.                                                 *)
LEMMA CountStep ==
  ASSUME NEW s, NEW k \in Nat, NEW U
  PROVE  /\ s[k + 1] \in U => Count(s, k + 1, U) = Count(s, k, U) + 1
         /\ s[k + 1] \notin U => Count(s, k + 1, U) = Count(s, k, U)
BY CountNext

(* Counting looks at the elements only.                                    *)
LEMMA CountSame ==
  ASSUME NEW s, NEW t, NEW k \in Nat, NEW U, NEW V,
         \A i \in 1 .. k : s[i] \in U <=> t[i] \in V
  PROVE  Count(s, k, U) = Count(t, k, V)
<1>1. {i \in 1 .. k : s[i] \in U} = {i \in 1 .. k : t[i] \in V}
  OBVIOUS
<1> QED BY <1>1 DEF Count

(* Nothing counted, nothing there.                                         *)
LEMMA CountZero ==
  ASSUME NEW s, NEW k \in Nat, NEW U
  PROVE  Count(s, k, U) = 0 <=> \A i \in 1 .. k : s[i] \notin U
<1> DEFINE A == {i \in 1 .. k : s[i] \in U}
<1>1. IsFiniteSet(A)
  BY IntervalPart
<1>2. Cardinality(A) = 0 <=> A = {}
  <2> HIDE DEF A
  <2> QED BY <1>1, FS_EmptySet
<1>3. Count(s, k, U) = Cardinality(A)
  BY DEF Count
<1>4. A = {} <=> \A i \in 1 .. k : s[i] \notin U
  OBVIOUS
<1> QED BY <1>2, <1>3, <1>4

(* Counting in two disjoint parts.                                         *)
LEMMA CountSplit ==
  ASSUME NEW s, NEW k \in Nat, NEW U, NEW V, U \cap V = {}
  PROVE  Count(s, k, U \cup V) = Count(s, k, U) + Count(s, k, V)
<1> DEFINE A == {i \in 1 .. k : s[i] \in U}
           B == {i \in 1 .. k : s[i] \in V}
<1>1. IsFiniteSet(A) /\ IsFiniteSet(B)
  BY IntervalPart
<1>2. A \cap B = {} /\ A \cup B = {i \in 1 .. k : s[i] \in U \cup V}
  OBVIOUS
<1>3. Cardinality(A \cup B) = Cardinality(A) + Cardinality(B)
  <2> HIDE DEF A, B
  <2>1. Cardinality(A \cap B) = 0
    BY <1>2, FS_EmptySet
  <2>2. Cardinality(A \cup B) = Cardinality(A) + Cardinality(B) - Cardinality(A \cap B)
    BY <1>1, FS_Union
  <2>3. Cardinality(A) \in Nat /\ Cardinality(B) \in Nat
    BY <1>1, FS_CardinalityType
  <2> QED BY <2>1, <2>2, <2>3
<1>4. Count(s, k, U) = Cardinality(A) /\ Count(s, k, V) = Cardinality(B)
  BY DEF Count
<1>5. Count(s, k, U \cup V) = Cardinality(A \cup B)
  BY <1>2 DEF Count
<1> QED BY <1>3, <1>4, <1>5

(* Different elements count the set they form.                             *)
LEMMA DistinctCardinality ==
  ASSUME NEW S, NEW s \in Seq(S), IsInjective(s)
  PROVE  IsFiniteSet(ToSet(s)) /\ Cardinality(ToSet(s)) = Len(s)
<1>1. DOMAIN s = 1 .. Len(s) /\ Len(s) \in Nat
  BY LenProperties
<1>2. IsFiniteSet(1 .. Len(s)) /\ Cardinality(1 .. Len(s)) = Len(s)
  BY SMTT(30), <1>1, FS_Interval
<1>3. s \in Bijection(1 .. Len(s), ToSet(s))
  BY <1>1 DEF ToSet, Bijection, Injection, Surjection, IsInjective
<1>4. ExistsBijection(1 .. Len(s), ToSet(s))
  BY <1>3 DEF ExistsBijection
<1> QED BY <1>2, <1>4, FS_Bijection

(* The recursion of Among over its argument s.                              *)
AmongBody(s, T, f) ==
  [k \in 0 .. Len(s) |-> IF k = 0 THEN << >>
                         ELSE IF s[k] \in T THEN Append(f[k - 1], s[k])
                         ELSE f[k - 1]]
AmongIter(s, T) == CHOOSE f : f = AmongBody(s, T, f)

(* Among is the last value of its recursion ...                            *)
LEMMA AmongUnfold ==
  ASSUME NEW s, NEW T PROVE Among(s, T) = AmongIter(s, T)[Len(s)]
BY DEF Among, AmongIter, AmongBody

(* ... which exists.                                                       *)
LEMMA AmongRecursion ==
  ASSUME NEW S, NEW s \in Seq(S), NEW T
  PROVE  /\ AmongIter(s, T)[0] = << >>
         /\ \A k \in 1 .. Len(s) : AmongIter(s, T)[k] =
              IF s[k] \in T THEN Append(AmongIter(s, T)[k - 1], s[k])
              ELSE AmongIter(s, T)[k - 1]
<1> DEFINE D == Seq(S)
           n == Len(s)
           e == << >>
           Next(d, k) == IF s[k] \in T THEN Append(d, s[k]) ELSE d
           G == [d \in D |-> [k \in 1 .. n |-> Next(d, k)]]
<1>1. n \in Nat /\ DOMAIN s = 1 .. n /\ e \in D
  BY LenProperties
<1>2. \A d \in D, k \in 1 .. n : Next(d, k) \in D
  <2> SUFFICES ASSUME NEW d \in D, NEW k \in 1 .. n
               PROVE  (IF s[k] \in T THEN Append(d, s[k]) ELSE d) \in D
    OBVIOUS
  <2>1. s[k] \in S
    BY <1>1, ElementOfSeq
  <2>2. Append(d, s[k]) \in D
    BY <2>1, AppendProperties
  <2> QED BY <2>2
<1>3. PICK f \in [0 .. n -> D] : f[0] = e /\ \A k \in 1 .. n : f[k] = Next(f[k - 1], k)
  <2> HIDE DEF D, Next, n, e
  <2>1. \A d \in D, k \in 1 .. n : G[d][k] = Next(d, k)
    BY <1>2
  <2> HIDE DEF G
  <2>2. Steps(n, D, G)
    BY <1>2, <2>1 DEF Steps
  <2>3. Unfolds(n, D, e, G)
    BY <1>1, <2>2, RecursionExists
  <2>4. PICK f \in [0 .. n -> D] : Unfolding(n, e, G, f)
    BY <2>3 DEF Unfolds
  <2>5. \A k \in 1 .. n : f[k - 1] \in D
    BY <1>1
  <2> QED BY <2>1, <2>4, <2>5 DEF Unfolding
<1>4. f = AmongBody(s, T, f)
  <2>1. \A k \in 0 .. n : f[k] = IF k = 0 THEN e ELSE Next(f[k - 1], k)
    <3> HIDE DEF Next, e
    <3> QED BY <1>1, <1>3
  <2> HIDE DEF G
  <2> QED BY <2>1 DEF AmongBody
<1> DEFINE g == AmongIter(s, T)
<1>5. g = AmongBody(s, T, g)
  BY <1>4 DEF AmongIter
<1> HIDE DEF g
<1>6. \A k \in 0 .. Len(s) : g[k] = IF k = 0 THEN << >>
                                  ELSE IF s[k] \in T THEN Append(g[k - 1], s[k]) ELSE g[k - 1]
  BY <1>5 DEF AmongBody
<1>7. /\ g[0] = << >>
      /\ \A k \in 1 .. Len(s) : g[k] = IF s[k] \in T THEN Append(g[k - 1], s[k]) ELSE g[k - 1]
  BY <1>1, <1>6
<1> QED BY <1>7 DEF g

(* What Append does to a sequence, to its elements and to a count.         *)
LEMMA Appended ==
  ASSUME NEW S, NEW t \in Seq(S), NEW x \in S
  PROVE  /\ Append(t, x) \in Seq(S)
         /\ Len(t) \in Nat /\ Len(Append(t, x)) = Len(t) + 1
         /\ DOMAIN t = 1 .. Len(t) /\ DOMAIN Append(t, x) = 1 .. Len(t) + 1
         /\ \A i \in 1 .. Len(t) : Append(t, x)[i] = t[i]
         /\ Append(t, x)[Len(t) + 1] = x
         /\ ToSet(Append(t, x)) = ToSet(t) \cup {x}
         /\ \A U : /\ x \in U => Count(Append(t, x), Len(t) + 1, U) = Count(t, Len(t), U) + 1
                   /\ x \notin U => Count(Append(t, x), Len(t) + 1, U) = Count(t, Len(t), U)
<1> DEFINE a == Append(t, x)
<1>1. /\ a \in Seq(S) /\ Len(t) \in Nat /\ Len(a) = Len(t) + 1 /\ DOMAIN t = 1 .. Len(t)
      /\ \A i \in 1 .. Len(t) : a[i] = t[i]
      /\ a[Len(t) + 1] = x
  BY AppendProperties, LenProperties
<1>2. DOMAIN a = 1 .. Len(t) + 1
  BY <1>1, LenProperties
<1> HIDE DEF a
<1>3. ToSet(a) = ToSet(t) \cup {x}
  <2>1. ToSet(a) = {a[i] : i \in 1 .. Len(t) + 1} /\ ToSet(t) = {t[i] : i \in 1 .. Len(t)}
    BY <1>1, <1>2 DEF ToSet
  <2>2. \A y : y \in ToSet(a) => y \in ToSet(t) \cup {x}
    <3> SUFFICES ASSUME NEW i \in 1 .. Len(t) + 1 PROVE a[i] \in ToSet(t) \cup {x}
      BY <2>1
    <3>1. CASE i = Len(t) + 1
      BY <1>1, <3>1
    <3>2. CASE i \in 1 .. Len(t)
      BY <1>1, <2>1, <3>2
    <3> QED BY <1>1, <3>1, <3>2
  <2>3. \A y \in ToSet(t) : y \in ToSet(a)
    <3> SUFFICES ASSUME NEW i \in 1 .. Len(t) PROVE t[i] \in ToSet(a)
      BY <2>1
    <3>1. i \in 1 .. Len(t) + 1 /\ a[i] = t[i]
      BY <1>1
    <3> QED BY <2>1, <3>1
  <2>4. x \in ToSet(a)
    <3>1. Len(t) + 1 \in 1 .. Len(t) + 1
      BY <1>1
    <3> QED BY <1>1, <2>1, <3>1
  <2> QED BY <2>2, <2>3, <2>4
<1>4. ASSUME NEW U
      PROVE  /\ x \in U => Count(a, Len(t) + 1, U) = Count(t, Len(t), U) + 1
             /\ x \notin U => Count(a, Len(t) + 1, U) = Count(t, Len(t), U)
  <2>1. /\ a[Len(t) + 1] \in U => Count(a, Len(t) + 1, U) = Count(a, Len(t), U) + 1
        /\ a[Len(t) + 1] \notin U => Count(a, Len(t) + 1, U) = Count(a, Len(t), U)
    BY <1>1, CountStep
  <2>2. Count(a, Len(t), U) = Count(t, Len(t), U)
    BY <1>1, CountSame
  <2> QED BY <1>1, <2>1, <2>2
<1> QED BY <1>1, <1>2, <1>3, <1>4 DEF a

(* The empty sequence.                                                     *)
LEMMA Empty ==
  /\ \A S : << >> \in Seq(S)
  /\ Len(<< >>) = 0 /\ DOMAIN << >> = {} /\ ToSet(<< >>) = {} /\ IsInjective(<< >>)
  /\ \A U : Count(<< >>, 0, U) = 0
<1>1. \A U : Count(<< >>, 0, U) = 0
  BY CountNext
<1> QED BY <1>1 DEF ToSet, IsInjective

(* The elements among the first k.                                         *)
First(s, k) == {s[i] : i \in 1 .. k}

(* a holds what is in T of the first k elements of s, each as often.       *)
Selects(S, s, T, k, a) ==
  /\ a \in Seq(S)
  /\ ToSet(a) = First(s, k) \cap T
  /\ \A U : Count(a, Len(a), U) = Count(s, k, T \cap U)

(* The prefixes of the selection: what they hold and how much of it.       *)
LEMMA AmongPrefix ==
  ASSUME NEW S, NEW s \in Seq(S), NEW T, NEW m \in 0 .. Len(s)
  PROVE  Selects(S, s, T, m, AmongIter(s, T)[m])
<1> DEFINE f == AmongIter(s, T)
           Ok(k) == /\ f[k] \in Seq(S)
                    /\ ToSet(f[k]) = First(s, k) \cap T
                    /\ \A U : Count(f[k], Len(f[k]), U) = Count(s, k, T \cap U)
           P == {k \in Nat : k <= Len(s) => Ok(k)}
<1>1. /\ f[0] = << >>
      /\ \A k \in 1 .. Len(s) : f[k] = IF s[k] \in T THEN Append(f[k - 1], s[k]) ELSE f[k - 1]
  BY AmongRecursion
<1> HIDE DEF f
<1>2. Len(s) \in Nat /\ \A k \in 1 .. Len(s) : s[k] \in S
  BY LenProperties, ElementOfSeq
<1>3. 0 \in P
  <2>1. First(s, 0) = {}
    BY DEF First
  <2>2. \A U : Count(s, 0, U) = 0
    BY CountNext
  <2> QED BY <1>1, <2>1, <2>2, Empty
<1>4. ASSUME NEW k \in Nat, k \in P PROVE k + 1 \in P
  <2> SUFFICES ASSUME k + 1 <= Len(s) PROVE Ok(k + 1)
    OBVIOUS
  <2>1. Ok(k) /\ k + 1 \in 1 .. Len(s) /\ (k + 1) - 1 = k
    BY <1>2, <1>4
  <2>2. f[k + 1] = IF s[k + 1] \in T THEN Append(f[k], s[k + 1]) ELSE f[k]
    BY <1>1, <2>1
  <2>3. First(s, k + 1) = First(s, k) \cup {s[k + 1]}
    <3>1. \A i : i \in 1 .. k + 1 <=> i \in 1 .. k \/ i = k + 1
      OBVIOUS
    <3> QED BY <3>1 DEF First
  <2>4. \A U : /\ s[k + 1] \in T \cap U => Count(s, k + 1, T \cap U) = Count(s, k, T \cap U) + 1
               /\ s[k + 1] \notin T \cap U => Count(s, k + 1, T \cap U) = Count(s, k, T \cap U)
    <3>1. \A V : /\ s[k + 1] \in V => Count(s, k + 1, V) = Count(s, k, V) + 1
                 /\ s[k + 1] \notin V => Count(s, k + 1, V) = Count(s, k, V)
      BY CountStep
    <3> QED BY <3>1
  <2>5. CASE s[k + 1] \in T
    <3>1. f[k + 1] = Append(f[k], s[k + 1]) /\ s[k + 1] \in S
      BY <1>2, <2>1, <2>2, <2>5
    <3> DEFINE t == f[k]
               x == s[k + 1]
    <3>2. t \in Seq(S) /\ x \in S
      BY <2>1, <3>1
    <3> HIDE DEF t, x
    <3>3. /\ Append(t, x) \in Seq(S)
          /\ Len(Append(t, x)) = Len(t) + 1
          /\ ToSet(Append(t, x)) = ToSet(t) \cup {x}
          /\ \A U : /\ x \in U => Count(Append(t, x), Len(t) + 1, U) = Count(t, Len(t), U) + 1
                    /\ x \notin U => Count(Append(t, x), Len(t) + 1, U) = Count(t, Len(t), U)
      BY <3>2, Appended
    <3>4. f[k + 1] = Append(t, x)
      BY <3>1 DEF t, x
    <3>5. /\ ToSet(t) = First(s, k) \cap T
          /\ \A U : Count(t, Len(t), U) = Count(s, k, T \cap U)
      BY <2>1 DEF t
    <3>6. /\ First(s, k + 1) = First(s, k) \cup {x} /\ x \in T
          /\ \A U : /\ x \in T \cap U => Count(s, k + 1, T \cap U) = Count(s, k, T \cap U) + 1
                    /\ x \notin T \cap U => Count(s, k + 1, T \cap U) = Count(s, k, T \cap U)
      BY <2>3, <2>4, <2>5 DEF x
    <3>7. ToSet(f[k + 1]) = First(s, k + 1) \cap T
      <4>1. ToSet(f[k + 1]) = (First(s, k) \cap T) \cup {x}
        BY <3>3, <3>4, <3>5
      <4> QED BY <3>6, <4>1
    <3>8. \A U : Count(f[k + 1], Len(f[k + 1]), U) = Count(s, k + 1, T \cap U)
      <4> SUFFICES ASSUME NEW U
                   PROVE  Count(f[k + 1], Len(f[k + 1]), U) = Count(s, k + 1, T \cap U)
        OBVIOUS
      <4>1. /\ x \in U => Count(f[k + 1], Len(f[k + 1]), U) = Count(t, Len(t), U) + 1
            /\ x \notin U => Count(f[k + 1], Len(f[k + 1]), U) = Count(t, Len(t), U)
        BY <3>3, <3>4, Zenon
      <4>2. /\ x \in T \cap U => Count(s, k + 1, T \cap U) = Count(t, Len(t), U) + 1
            /\ x \notin T \cap U => Count(s, k + 1, T \cap U) = Count(t, Len(t), U)
        BY <3>5, <3>6, Zenon
      <4>3. x \in U <=> x \in T \cap U
        BY <3>6
      <4>4. CASE x \in U
        BY <4>1, <4>2, <4>3, <4>4
      <4>5. CASE x \notin U
        BY <4>1, <4>2, <4>3, <4>5
      <4> QED BY <4>4, <4>5
    <3> QED BY <3>3, <3>4, <3>7, <3>8
  <2>6. CASE s[k + 1] \notin T
    <3>1. \A U : Count(s, k + 1, T \cap U) = Count(s, k, T \cap U)
      BY <2>4, <2>6
    <3>2. f[k + 1] = f[k]
      BY <2>2, <2>6
    <3>3. First(s, k + 1) \cap T = First(s, k) \cap T
      BY <2>3, <2>6
    <3> QED BY <2>1, <3>1, <3>2, <3>3
  <2> QED BY <2>5, <2>6
<1>5. \A k \in Nat : k \in P
  <2> HIDE DEF P
  <2> QED BY <1>3, <1>4, NatSetInduction
<1>6. Ok(m)
  <2> HIDE DEF Ok
  <2> QED BY <1>2, <1>5
<1> QED BY <1>6 DEF f, Selects

(* What SelectSeq keeps: the elements in T, each as often, and no others.  *)
LEMMA AmongProperties ==
  ASSUME NEW S, NEW s \in Seq(S), NEW T
  PROVE  /\ Among(s, T) \in Seq(S) /\ Len(Among(s, T)) \in Nat
         /\ ToSet(Among(s, T)) = ToSet(s) \cap T
         /\ \A U : Count(Among(s, T), Len(Among(s, T)), U) = Count(s, Len(s), T \cap U)
         /\ Len(Among(s, T)) = Count(s, Len(s), T)
<1> DEFINE a == Among(s, T)
<1>1. Len(s) \in Nat /\ DOMAIN s = 1 .. Len(s) /\ Len(s) \in 0 .. Len(s)
  BY LenProperties
<1>2. /\ a \in Seq(S)
      /\ ToSet(a) = First(s, Len(s)) \cap T
      /\ \A U : Count(a, Len(a), U) = Count(s, Len(s), T \cap U)
  <2>1. a = AmongIter(s, T)[Len(s)]
    BY AmongUnfold
  <2>2. Selects(S, s, T, Len(s), AmongIter(s, T)[Len(s)])
    BY <1>1, AmongPrefix
  <2> HIDE DEF a
  <2> QED BY <2>1, <2>2 DEF Selects
<1>3. First(s, Len(s)) = ToSet(s)
  BY <1>1 DEF First, ToSet
<1> HIDE DEF a
<1>4. Len(a) \in Nat /\ DOMAIN a = 1 .. Len(a)
  BY <1>2, LenProperties
<1>5. Len(a) = Count(a, Len(a), T)
  <2>1. \A i \in 1 .. Len(a) : a[i] \in T
    BY <1>2, <1>4 DEF ToSet
  <2>2. {i \in 1 .. Len(a) : a[i] \in T} = 1 .. Len(a)
    BY <2>1
  <2>3. \A m \in Nat : Cardinality(1 .. m) = m
    BY FS_Interval
  <2> QED BY <1>4, <2>2, <2>3 DEF Count
<1>6. Len(a) = Count(s, Len(s), T)
  <2>1. T \cap T = T
    OBVIOUS
  <2> QED BY <1>2, <1>5, <2>1
<1> QED BY <1>2, <1>3, <1>4, <1>6 DEF a

-----------------------------------------------------------------------------
(* Graphs.                                                                 *)

(* The edges a canvas with the nodes N may have.                            *)
Joining(N) == [src : N, dst : N, handle : STRING]

(* Part of the nodes and the edges between them are again a canvas.        *)
LEMMA AmongDistinct ==
  ASSUME NEW S, NEW s \in Seq(S), IsInjective(s), NEW T
  PROVE  IsInjective(Among(s, T))
<1> DEFINE a == Among(s, T)
<1>1. /\ a \in Seq(S) /\ Len(a) \in Nat
      /\ \A U : Count(a, Len(a), U) = Count(s, Len(s), T \cap U)
  BY AmongProperties
<1> HIDE DEF a
<1>2. DOMAIN a = 1 .. Len(a) /\ DOMAIN s = 1 .. Len(s) /\ Len(s) \in Nat
  BY <1>1, LenProperties
<1> SUFFICES ASSUME NEW i \in 1 .. Len(a), NEW j \in 1 .. Len(a), a[i] = a[j], i # j PROVE FALSE
  BY <1>2 DEF IsInjective, a
<1> DEFINE U == {a[i]}
           A == {m \in 1 .. Len(a) : a[m] \in U}
           B == {m \in 1 .. Len(s) : s[m] \in T \cap U}
<1>3. Cardinality(A) = Cardinality(B)
  BY <1>1 DEF Count
<1>4. IsFiniteSet(A) /\ IsFiniteSet(B)
  BY <1>1, <1>2, IntervalPart
<1>5. i \in A /\ j \in A
  OBVIOUS
<1>6. \A m, n \in B : m = n
  BY <1>2 DEF IsInjective
<1> HIDE DEF A, B
<1>7. Cardinality({i, j}) <= Cardinality(A)
  BY <1>4, <1>5, FS_Subset
<1>8. Cardinality({i, j}) = 2
  <2> DEFINE C == {i}
  <2>1. IsFiniteSet(C) /\ Cardinality(C) = 1 /\ j \notin C
    BY FS_Singleton
  <2>2. {i, j} = C \cup {j}
    OBVIOUS
  <2> HIDE DEF C
  <2>3. Cardinality(C \cup {j}) = Cardinality(C) + 1
    BY <2>1, FS_AddElement
  <2>4. Cardinality({i, j}) = Cardinality(C \cup {j})
    BY <2>2, Zenon
  <2>5. Cardinality(C \cup {j}) = 2
    BY <2>1, <2>3
  <2> QED BY <2>4, <2>5, Zenon
<1>9. Cardinality(B) <= 1
  <2>1. CASE B = {}
    <3>1. Cardinality(B) = 0
      BY <2>1, FS_EmptySet
    <3> QED BY <3>1
  <2>2. CASE B # {}
    <3>1. PICK m \in B : TRUE
      BY <2>2
    <3>2. B = {m}
      BY <1>6, <3>1
    <3>3. Cardinality({m}) = 1
      BY FS_Singleton
    <3> QED BY <3>2, <3>3
  <2> QED BY <2>1, <2>2
<1>10. Cardinality(A) \in Nat /\ Cardinality(B) \in Nat
  BY <1>4, FS_CardinalityType
<1> QED BY <1>3, <1>7, <1>8, <1>9, <1>10

(* What is selected from is sequence over what is selected.                *)
LEMMA AmongOver ==
  ASSUME NEW S, NEW s \in Seq(S), NEW T
  PROVE  Among(s, T) \in Seq(ToSet(Among(s, T)))
<1> DEFINE a == Among(s, T)
<1>1. a \in Seq(S)
  BY AmongProperties
<1> HIDE DEF a
<1>2. Len(a) \in Nat /\ DOMAIN a = 1 .. Len(a) /\ a \in [1 .. Len(a) -> S]
  BY <1>1, LenProperties
<1>3. a \in [1 .. Len(a) -> ToSet(a)]
  BY <1>2 DEF ToSet
<1>4. a \in Seq(ToSet(a))
  BY <1>2, <1>3, SeqDef
<1> QED BY <1>4 DEF a

(* Without its tools, a canvas is still one.                               *)
LEMMA StaysWellFormed ==
  ASSUME NEW g, WellFormed(g)
  PROVE  WellFormed(WithoutCodingAgentTools(g))
<1>1. CASE g.only # NoNode
  BY <1>1 DEF WithoutCodingAgentTools
<1>2. CASE g.only = NoNode
  <2> DEFINE N == NodeSet(g) \ g.tools
             K == {e \in EdgeSet(g) : {e.src, e.dst} \cap g.tools = {}}
             ns == Among(g.nodes, N)
             es == Among(g.edges, K)
             h == WithoutCodingAgentTools(g)
  <2>1. h = [g EXCEPT !.nodes = ns, !.edges = es]
    BY <1>2 DEF WithoutCodingAgentTools
  <2>2. ns \in Seq(ToSet(ns)) /\ IsInjective(ns) /\ ToSet(ns) = NodeSet(g) \cap N
    BY AmongOver, AmongDistinct, AmongProperties DEF WellFormed, NodeSet
  <2>3. es \in Seq(ToSet(es)) /\ ToSet(es) = EdgeSet(g) \cap K
    BY AmongOver, AmongProperties DEF WellFormed, EdgeSet
  <2>4. EdgeSet(g) \subseteq Joining(NodeSet(g))
    <3>1. DOMAIN g.edges = 1 .. Len(g.edges)
      BY LenProperties DEF WellFormed
    <3>2. \A i \in 1 .. Len(g.edges) : g.edges[i] \in Joining(NodeSet(g))
      BY ElementOfSeq DEF WellFormed, Joining
    <3> QED BY <3>1, <3>2 DEF EdgeSet, ToSet
  <2> HIDE DEF ns, es
  <2>5. h.nodes = ns /\ h.edges = es /\ DOMAIN h = DOMAIN g
    BY <2>1 DEF WellFormed
  <2>6. ToSet(es) \subseteq Joining(ToSet(ns))
    BY <2>2, <2>3, <2>4 DEF Joining
  <2>7. es \in Seq(Joining(ToSet(ns)))
    BY <2>3, <2>6, SeqMonotonic
  <2> HIDE DEF h
  <2>8. WellFormed(h)
    BY <2>2, <2>5, <2>7 DEF WellFormed, NodeSet, Joining
  <2> QED BY <2>8 DEF h
<1> QED BY <1>1, <1>2

(* What a well-formed graph is made of.                                    *)
LEMMA GraphParts ==
  ASSUME NEW g, WellFormed(g)
  PROVE  /\ g.nodes \in Seq(NodeSet(g)) /\ Len(g.nodes) \in Nat
         /\ DOMAIN g.nodes = 1 .. Len(g.nodes)
         /\ IsFiniteSet(NodeSet(g)) /\ Cardinality(NodeSet(g)) = Len(g.nodes)
         /\ g.edges \in Seq(EdgeSet(g))
         /\ EdgeSet(g) \subseteq Joining(NodeSet(g))
         /\ \A e \in EdgeSet(g) : e.src \in NodeSet(g) /\ e.dst \in NodeSet(g)
         /\ \A n : /\ InEdges(g, n) \in Seq(EdgeSet(g))
                   /\ ToSet(InEdges(g, n)) = {e \in EdgeSet(g) : e.dst = n}
                   /\ OutEdges(g, n) \in Seq(EdgeSet(g))
                   /\ ToSet(OutEdges(g, n)) = {e \in EdgeSet(g) : e.src = n}
<1>1. /\ g.nodes \in Seq(NodeSet(g)) /\ Len(g.nodes) \in Nat
      /\ DOMAIN g.nodes = 1 .. Len(g.nodes)
  BY LenProperties DEF WellFormed
<1>2. IsFiniteSet(NodeSet(g)) /\ Cardinality(NodeSet(g)) = Len(g.nodes)
  BY <1>1, DistinctCardinality DEF WellFormed, NodeSet
<1>3. /\ Len(g.edges) \in Nat /\ DOMAIN g.edges = 1 .. Len(g.edges)
      /\ g.edges \in [1 .. Len(g.edges) -> Joining(NodeSet(g))]
  BY LenProperties DEF WellFormed, Joining
<1>4. EdgeSet(g) \subseteq Joining(NodeSet(g))
  BY <1>3 DEF EdgeSet, ToSet
<1>5. g.edges \in Seq(EdgeSet(g))
  <2>1. g.edges \in [1 .. Len(g.edges) -> EdgeSet(g)]
    BY <1>3 DEF EdgeSet, ToSet
  <2> QED BY <1>3, <2>1, SeqDef
<1>6. \A e \in EdgeSet(g) : e.src \in NodeSet(g) /\ e.dst \in NodeSet(g)
  BY <1>4 DEF Joining
<1>7. ASSUME NEW n
      PROVE  /\ InEdges(g, n) \in Seq(EdgeSet(g))
             /\ ToSet(InEdges(g, n)) = {e \in EdgeSet(g) : e.dst = n}
             /\ OutEdges(g, n) \in Seq(EdgeSet(g))
             /\ ToSet(OutEdges(g, n)) = {e \in EdgeSet(g) : e.src = n}
  <2> DEFINE I == {e \in EdgeSet(g) : e.dst = n}
             O == {e \in EdgeSet(g) : e.src = n}
  <2>1. ToSet(g.edges) \cap I = I /\ ToSet(g.edges) \cap O = O
    BY DEF EdgeSet
  <2>2. InEdges(g, n) = Among(g.edges, I) /\ OutEdges(g, n) = Among(g.edges, O)
    BY DEF InEdges, OutEdges
  <2> HIDE DEF I, O
  <2>3. /\ Among(g.edges, I) \in Seq(EdgeSet(g)) /\ ToSet(Among(g.edges, I)) = ToSet(g.edges) \cap I
        /\ Among(g.edges, O) \in Seq(EdgeSet(g)) /\ ToSet(Among(g.edges, O)) = ToSet(g.edges) \cap O
    BY <1>5, AmongProperties
  <2> QED BY <2>1, <2>2, <2>3 DEF I, O
<1> QED BY <1>1, <1>2, <1>4, <1>5, <1>6, <1>7

-----------------------------------------------------------------------------
(* The event log.                                                          *)

(* The events of a log, and the notice of the ceiling.                      *)
LogTypes == {"run_started", "started", "waiting", "feedback", "output", "completed", "error",
               "edge", "iteration", "iteration_done", "skipped", "truncated",
               "run_completed", "run_error"}
LogEvent(N) == [type : LogTypes, node : N \cup {NoNode}]
Log(N) == [count : Nat, truncated : BOOLEAN, sent : Seq(LogEvent(N))]
Notice == Ev("truncated", NoNode)

(* The recursion of EmitAll.                                                *)
EmitBody(l, evs, f) ==
  [k \in 0 .. Len(evs) |-> IF k = 0 THEN l
                           ELSE CHOOSE r \in {Emit(acc, evs[k]) : acc \in {f[k - 1]}} : TRUE]
EmitIter(l, evs) == CHOOSE f : f = EmitBody(l, evs, f)

(* EmitAll is the last value of its recursion ...                          *)
LEMMA EmitUnfold ==
  ASSUME NEW l, NEW evs PROVE EmitAll(l, evs) = EmitIter(l, evs)[Len(evs)]
BY DEF EmitAll, Fold, EmitIter, EmitBody

(* One event leaves a log, and adds at most itself and the notice.         *)
LEMMA EmitLog ==
  ASSUME NEW N, NEW l \in Log(N), NEW ev \in LogEvent(N)
  PROVE  /\ Emit(l, ev) \in Log(N)
         /\ Emit(l, ev).sent \in {l.sent, Append(l.sent, ev), Append(l.sent, Notice)}
         /\ ~Emit(l, ev).truncated => ~l.truncated /\ Emit(l, ev).sent = Append(l.sent, ev)
         /\ ev.type \in TerminalTypes => Emit(l, ev).sent = Append(l.sent, ev)
         /\ Emit(l, ev).count = l.count + 1
         /\ \/ /\ l.count + 1 <= MaxRunEvents \/ ev.type \in TerminalTypes
               /\ Emit(l, ev).sent = Append(l.sent, ev) /\ Emit(l, ev).truncated = l.truncated
            \/ /\ l.count + 1 > MaxRunEvents /\ Emit(l, ev).truncated /\ l.truncated
               /\ Emit(l, ev).sent = l.sent
            \/ /\ l.count + 1 > MaxRunEvents /\ Emit(l, ev).truncated /\ ~l.truncated
               /\ Emit(l, ev).sent = Append(l.sent, Notice)
<1> DEFINE m == Emit(l, ev)
<1>1. /\ l.count \in Nat /\ l.truncated \in BOOLEAN /\ l.sent \in Seq(LogEvent(N))
      /\ l = [count |-> l.count, truncated |-> l.truncated, sent |-> l.sent]
  BY DEF Log
<1>2. Notice \in LogEvent(N)
  <2>1. "truncated" \in LogTypes
    BY DEF LogTypes
  <2> QED BY <2>1 DEF Notice, Ev, LogEvent
<1>3. Append(l.sent, ev) \in Seq(LogEvent(N)) /\ Append(l.sent, Notice) \in Seq(LogEvent(N))
  BY <1>1, <1>2, AppendProperties
<1>4. m = IF l.count + 1 <= MaxRunEvents \/ ev.type \in TerminalTypes
          THEN [l EXCEPT !.count = l.count + 1, !.sent = Append(@, ev)]
          ELSE IF l.truncated THEN [l EXCEPT !.count = l.count + 1]
          ELSE [count |-> l.count + 1, truncated |-> TRUE, sent |-> Append(l.sent, Notice)]
  BY DEF Emit, Notice
<1> HIDE DEF m
<1>5. /\ m.count = l.count + 1
      /\ m.truncated \in BOOLEAN
      /\ m.sent \in {l.sent, Append(l.sent, ev), Append(l.sent, Notice)}
      /\ m = [count |-> m.count, truncated |-> m.truncated, sent |-> m.sent]
      /\ ~m.truncated => ~l.truncated /\ m.sent = Append(l.sent, ev)
      /\ ev.type \in TerminalTypes => m.sent = Append(l.sent, ev)
      /\ \/ /\ l.count + 1 <= MaxRunEvents \/ ev.type \in TerminalTypes
            /\ m.sent = Append(l.sent, ev) /\ m.truncated = l.truncated
         \/ l.count + 1 > MaxRunEvents /\ m.truncated /\ l.truncated /\ m.sent = l.sent
         \/ /\ l.count + 1 > MaxRunEvents /\ m.truncated /\ ~l.truncated
            /\ m.sent = Append(l.sent, Notice)
  <2> MaxRunEvents \in Nat
    BY GraphBounds
  <2>1. CASE l.count + 1 <= MaxRunEvents \/ ev.type \in TerminalTypes
    <3>1. m = [count |-> l.count + 1, truncated |-> l.truncated, sent |-> Append(l.sent, ev)]
      BY <1>1, <1>4, <2>1
    <3> QED BY <1>1, <1>4, <2>1, <3>1
  <2>2. CASE ~(l.count + 1 <= MaxRunEvents \/ ev.type \in TerminalTypes)
    <3>1. CASE l.truncated
      <4>1. m = [count |-> l.count + 1, truncated |-> l.truncated, sent |-> l.sent]
        BY <1>1, <1>4, <2>2, <3>1
      <4> QED BY <1>1, <2>2, <3>1, <4>1
    <3>2. CASE ~l.truncated
      <4>1. m = [count |-> l.count + 1, truncated |-> TRUE, sent |-> Append(l.sent, Notice)]
        BY <1>4, <2>2, <3>2
      <4>2. /\ m.count = l.count + 1 /\ m.truncated = TRUE /\ m.sent = Append(l.sent, Notice)
            /\ m = [count |-> m.count, truncated |-> m.truncated, sent |-> m.sent]
        BY <4>1
      <4> HIDE DEF Notice
      <4>3. l.count + 1 > MaxRunEvents
        BY <1>1, <2>2
      <4> QED BY <2>2, <3>2, <4>2, <4>3
    <3> QED BY <3>1, <3>2
  <2> QED BY <2>1, <2>2
<1>6. m \in Log(N)
  <2>1. m.count \in Nat
    BY <1>1, <1>5
  <2>2. m.sent \in Seq(LogEvent(N))
    BY <1>1, <1>3, <1>5, Zenon
  <2> QED BY <1>5, <2>1, <2>2 DEF Log
<1> QED BY <1>5, <1>6 DEF m

(* ... which exists, and takes the events one by one.                      *)
LEMMA EmitRecursion ==
  ASSUME NEW N, NEW l \in Log(N), NEW evs \in Seq(LogEvent(N))
  PROVE  /\ EmitIter(l, evs) \in [0 .. Len(evs) -> Log(N)]
         /\ EmitIter(l, evs)[0] = l
         /\ \A k \in 1 .. Len(evs) :
               EmitIter(l, evs)[k] = Emit(EmitIter(l, evs)[k - 1], evs[k])
<1> DEFINE D == Log(N)
           n == Len(evs)
           G == [d \in D |-> [k \in 1 .. n |-> Emit(d, evs[k])]]
<1>1. n \in Nat /\ l \in D
  BY LenProperties
<1>2. \A d \in D, k \in 1 .. n : Emit(d, evs[k]) \in D
  <2> SUFFICES ASSUME NEW d \in D, NEW k \in 1 .. n PROVE Emit(d, evs[k]) \in D
    OBVIOUS
  <2>1. evs[k] \in LogEvent(N)
    BY ElementOfSeq
  <2> QED BY <2>1, EmitLog
<1>3. PICK f \in [0 .. n -> D] : f[0] = l /\ \A k \in 1 .. n : f[k] = Emit(f[k - 1], evs[k])
  <2> HIDE DEF D, n
  <2>1. \A d \in D, k \in 1 .. n : G[d][k] = Emit(d, evs[k])
    BY <1>2
  <2> HIDE DEF G
  <2>2. Steps(n, D, G)
    BY <1>2, <2>1 DEF Steps
  <2>3. Unfolds(n, D, l, G)
    BY <1>1, <2>2, RecursionExists
  <2>4. PICK f \in [0 .. n -> D] : Unfolding(n, l, G, f)
    BY <2>3 DEF Unfolds
  <2>5. \A k \in 1 .. n : f[k - 1] \in D
    BY <1>1
  <2> QED BY <2>1, <2>4, <2>5 DEF Unfolding
<1>4. f = EmitBody(l, evs, f)
  <2>1. \A k \in 0 .. n : f[k] = IF k = 0 THEN l
                                 ELSE CHOOSE r \in {Emit(acc, evs[k]) : acc \in {f[k - 1]}} : TRUE
    <3> SUFFICES ASSUME NEW k \in 1 .. n
                 PROVE  f[k] = CHOOSE r \in {Emit(acc, evs[k]) : acc \in {f[k - 1]}} : TRUE
      BY <1>1, <1>3
    <3>1. {Emit(acc, evs[k]) : acc \in {f[k - 1]}} = {f[k]}
      BY <1>3
    <3> QED BY <3>1
  <2> HIDE DEF G
  <2> QED BY <2>1 DEF EmitBody
<1> DEFINE g == EmitIter(l, evs)
<1>5. g = EmitBody(l, evs, g)
  BY <1>4 DEF EmitIter
<1> HIDE DEF g
<1>6. \A k \in 0 .. n : g[k] = IF k = 0 THEN l
                               ELSE CHOOSE r \in {Emit(acc, evs[k]) : acc \in {g[k - 1]}} : TRUE
  BY <1>5 DEF EmitBody
<1>7. g[0] = l /\ \A k \in 1 .. n : g[k] = Emit(g[k - 1], evs[k])
  <2>1. g[0] = l
    BY <1>1, <1>6
  <2>2. ASSUME NEW k \in 1 .. n PROVE g[k] = Emit(g[k - 1], evs[k])
    <3>1. g[k] = CHOOSE r \in {Emit(acc, evs[k]) : acc \in {g[k - 1]}} : TRUE
      BY <1>1, <1>6
    <3>2. {Emit(acc, evs[k]) : acc \in {g[k - 1]}} = {Emit(g[k - 1], evs[k])}
      OBVIOUS
    <3> QED BY <3>1, <3>2
  <2> QED BY <2>1, <2>2
<1>8. g \in [0 .. n -> D]
  <2>1. \A k \in Nat : k \in 0 .. n => g[k] \in D
    <3> DEFINE P == {k \in Nat : k \in 0 .. n => g[k] \in D}
    <3>1. 0 \in P
      BY <1>1, <1>7
    <3>2. \A k \in Nat : k \in P => k + 1 \in P
      <4> SUFFICES ASSUME NEW k \in Nat, k \in 0 .. n => g[k] \in D, k + 1 \in 0 .. n
                   PROVE  g[k + 1] \in D
        OBVIOUS
      <4>1. k + 1 \in 1 .. n /\ (k + 1) - 1 = k /\ g[k] \in D
        BY <1>1
      <4>2. g[k + 1] = Emit(g[k], evs[k + 1])
        BY <1>7, <4>1
      <4> QED BY <1>2, <4>1, <4>2
    <3>3. \A k \in Nat : k \in P
      <4> HIDE DEF P
      <4> QED BY <3>1, <3>2, NatSetInduction
    <3> QED BY <3>3
  <2>2. DOMAIN g = 0 .. n /\ g = [k \in 0 .. n |-> g[k]]
    BY <1>5 DEF EmitBody
  <2> QED BY <1>1, <2>1, <2>2
<1> QED BY <1>7, <1>8 DEF g

(* The events of a log that report how the run ended.                       *)
EndEvents(N) == {e \in LogEvent(N) : e.type \in TerminalTypes}
Ends(l, N) == Count(l.sent, Len(l.sent), EndEvents(N))

(* How long a log gets: past the ceiling only its notice and its ending.   *)
Bounded(l, N) ==
  /\ l.count <= MaxRunEvents => ~l.truncated /\ Len(l.sent) <= l.count
  /\ Len(l.sent) <= MaxRunEvents + Ends(l, N) + IF l.truncated THEN 1 ELSE 0
Open(l, N) == l \in Log(N) /\ Bounded(l, N) /\ Ends(l, N) = 0
Closed(l, N) ==
  /\ l \in Log(N) /\ Bounded(l, N) /\ Ends(l, N) = 1
  /\ \A k, j \in 1 .. Len(l.sent) :
        k < j /\ l.sent[k].type \in TerminalTypes
          => l.sent[j].type \in {"skipped", "truncated"}

(* What one event adds to the ending.                                      *)
LEMMA EmitEnds ==
  ASSUME NEW N, NEW l \in Log(N), NEW ev \in LogEvent(N), Bounded(l, N)
  PROVE  /\ Emit(l, ev) \in Log(N) /\ Bounded(Emit(l, ev), N)
         /\ Ends(Emit(l, ev), N) = IF ev.type \in TerminalTypes THEN Ends(l, N) + 1 ELSE Ends(l, N)
         /\ Ends(l, N) \in Nat
<1> DEFINE m == Emit(l, ev)
           E == EndEvents(N)
<1>1. /\ m \in Log(N)
      /\ m.count = l.count + 1
      /\ \/ /\ l.count + 1 <= MaxRunEvents \/ ev.type \in TerminalTypes
            /\ m.sent = Append(l.sent, ev) /\ m.truncated = l.truncated
         \/ /\ l.count + 1 > MaxRunEvents /\ m.truncated /\ l.truncated
            /\ m.sent = l.sent
         \/ /\ l.count + 1 > MaxRunEvents /\ m.truncated /\ ~l.truncated
            /\ m.sent = Append(l.sent, Notice)
      /\ ev.type \in TerminalTypes => m.sent = Append(l.sent, ev)
  BY EmitLog
<1>2. /\ l.sent \in Seq(LogEvent(N)) /\ l.count \in Nat /\ l.truncated \in BOOLEAN
      /\ m.truncated \in BOOLEAN /\ MaxRunEvents \in Nat
  BY <1>1, GraphBounds DEF Log
<1>3. Notice \in LogEvent(N) /\ Notice \notin E
  <2>1. "truncated" \in LogTypes /\ "truncated" \notin TerminalTypes
    BY DEF LogTypes, TerminalTypes
  <2> QED BY <2>1 DEF Notice, Ev, LogEvent, EndEvents
<1>4. ev \in E <=> ev.type \in TerminalTypes
  BY DEF EndEvents
<1>5. Len(l.sent) \in Nat /\ Ends(l, N) \in Nat
  <2>1. Len(l.sent) \in Nat
    BY <1>2, LenProperties
  <2>2. Count(l.sent, Len(l.sent), E) \in 0 .. Len(l.sent)
    BY <2>1, CountNext
  <2> QED BY <2>1, <2>2 DEF Ends
<1>6. /\ Len(Append(l.sent, ev)) = Len(l.sent) + 1
      /\ Count(Append(l.sent, ev), Len(l.sent) + 1, E)
           = IF ev.type \in TerminalTypes THEN Ends(l, N) + 1 ELSE Ends(l, N)
      /\ Len(Append(l.sent, Notice)) = Len(l.sent) + 1
      /\ Count(Append(l.sent, Notice), Len(l.sent) + 1, E) = Ends(l, N)
  <2> HIDE DEF E, m
  <2>1. /\ Len(Append(l.sent, ev)) = Len(l.sent) + 1
        /\ ev \in E => Count(Append(l.sent, ev), Len(l.sent) + 1, E) = Count(l.sent, Len(l.sent), E) + 1
        /\ ev \notin E => Count(Append(l.sent, ev), Len(l.sent) + 1, E) = Count(l.sent, Len(l.sent), E)
    BY <1>2, Appended
  <2>2. /\ Len(Append(l.sent, Notice)) = Len(l.sent) + 1
        /\ Notice \notin E => Count(Append(l.sent, Notice), Len(l.sent) + 1, E) = Count(l.sent, Len(l.sent), E)
    BY <1>2, <1>3, Appended
  <2>3. Ends(l, N) = Count(l.sent, Len(l.sent), E)
    BY DEF Ends, E
  <2> QED BY <1>3, <1>4, <2>1, <2>2, <2>3
<1>7. Ends(m, N) = Count(m.sent, Len(m.sent), E)
  BY DEF Ends
<1> HIDE DEF m, E
<1>8. Ends(m, N) = IF ev.type \in TerminalTypes THEN Ends(l, N) + 1 ELSE Ends(l, N)
  <2>1. CASE m.sent = Append(l.sent, ev)
    BY <1>6, <1>7, <2>1
  <2>2. CASE m.sent = l.sent /\ ev.type \notin TerminalTypes
    BY <1>7, <2>2 DEF Ends, E
  <2>3. CASE m.sent = Append(l.sent, Notice) /\ ev.type \notin TerminalTypes
    BY <1>6, <1>7, <2>3
  <2> QED BY <1>1, <2>1, <2>2, <2>3
<1>9. Bounded(m, N)
  <2>1. CASE m.sent = Append(l.sent, ev) /\ m.truncated = l.truncated
    <3>1. Len(m.sent) = Len(l.sent) + 1
      BY <1>6, <2>1
    <3>2. m.count <= MaxRunEvents => ~m.truncated /\ Len(m.sent) <= m.count
      BY <1>1, <1>2, <1>5, <2>1, <3>1 DEF Bounded
    <3>3. Len(m.sent) <= MaxRunEvents + Ends(m, N) + IF m.truncated THEN 1 ELSE 0
      BY <1>1, <1>2, <1>5, <1>8, <2>1, <3>1 DEF Bounded
    <3> QED BY <3>2, <3>3 DEF Bounded
  <2>2. CASE /\ l.count + 1 > MaxRunEvents /\ m.truncated /\ l.truncated
             /\ m.sent = l.sent
    BY <1>1, <1>2, <1>5, <1>8, <2>2 DEF Bounded
  <2>3. CASE /\ l.count + 1 > MaxRunEvents /\ m.truncated /\ ~l.truncated
             /\ m.sent = Append(l.sent, Notice)
    BY <1>1, <1>2, <1>5, <1>6, <1>8, <2>3 DEF Bounded
  <2> QED BY <1>1, <2>1, <2>2, <2>3
<1> QED BY <1>1, <1>5, <1>8, <1>9 DEF m

(* An open log stays open until an ending closes it.                       *)
LEMMA EmitOpen ==
  ASSUME NEW N, NEW l, Open(l, N), NEW ev \in LogEvent(N), ev.type \notin TerminalTypes
  PROVE  Open(Emit(l, ev), N)
BY EmitEnds DEF Open

(* The first ending closes it.                                             *)
LEMMA EmitEnding ==
  ASSUME NEW N, NEW l, Open(l, N), NEW ev \in LogEvent(N), ev.type \in TerminalTypes
  PROVE  Closed(Emit(l, ev), N)
<1> DEFINE m == Emit(l, ev)
<1>1. m \in Log(N) /\ Bounded(m, N) /\ Ends(m, N) = 1 /\ m.sent = Append(l.sent, ev)
  BY EmitEnds, EmitLog DEF Open
<1>2. l.sent \in Seq(LogEvent(N)) /\ Ends(l, N) = 0
  BY DEF Open, Log
<1>3. /\ Len(l.sent) \in Nat /\ Len(m.sent) = Len(l.sent) + 1
      /\ \A k \in 1 .. Len(l.sent) : m.sent[k] = l.sent[k] /\ l.sent[k] \in LogEvent(N)
  BY <1>1, <1>2, Appended, ElementOfSeq
<1>4. \A k \in 1 .. Len(l.sent) : l.sent[k].type \notin TerminalTypes
  <2>1. \A k \in 1 .. Len(l.sent) : l.sent[k] \notin EndEvents(N)
    BY <1>2, <1>3, CountZero DEF Ends
  <2> QED BY <1>3, <2>1 DEF EndEvents
<1> HIDE DEF m
<1>5. \A k, j \in 1 .. Len(m.sent) : k < j => m.sent[k].type \notin TerminalTypes
  <2> SUFFICES ASSUME NEW k \in 1 .. Len(l.sent) + 1, NEW j \in 1 .. Len(l.sent) + 1, k < j
               PROVE  m.sent[k].type \notin TerminalTypes
    BY <1>3
  <2>1. k \in 1 .. Len(l.sent)
    BY <1>3
  <2> QED BY <1>3, <1>4, <2>1
<1> QED BY <1>1, <1>5 DEF Closed, m

(* Only skips and the notice of the ceiling follow.                        *)
LEMMA EmitSkip ==
  ASSUME NEW N, NEW l, Closed(l, N), NEW ev \in LogEvent(N), ev.type = "skipped"
  PROVE  Closed(Emit(l, ev), N)
<1> DEFINE m == Emit(l, ev)
<1>1. "skipped" \notin TerminalTypes
  BY DEF TerminalTypes
<1>2. /\ m \in Log(N) /\ Bounded(m, N) /\ Ends(m, N) = 1
      /\ m.sent \in {l.sent, Append(l.sent, ev), Append(l.sent, Notice)}
  BY <1>1, EmitEnds, EmitLog DEF Closed
<1>3. l.sent \in Seq(LogEvent(N)) /\ Notice \in LogEvent(N)
  <2>1. "truncated" \in LogTypes
    BY DEF LogTypes
  <2> QED BY <2>1 DEF Closed, Log, Notice, Ev, LogEvent
<1> HIDE DEF m
<1>4. CASE m.sent = l.sent
  BY <1>2, <1>4 DEF Closed, m
<1>5. ASSUME NEW x \in LogEvent(N), x.type \in {"skipped", "truncated"}, m.sent = Append(l.sent, x)
      PROVE  Closed(m, N)
  <2>1. /\ Len(l.sent) \in Nat /\ Len(m.sent) = Len(l.sent) + 1
        /\ \A k \in 1 .. Len(l.sent) : m.sent[k] = l.sent[k]
        /\ m.sent[Len(l.sent) + 1] = x
    BY <1>3, <1>5, Appended
  <2>2. ASSUME NEW k \in 1 .. Len(m.sent), NEW j \in 1 .. Len(m.sent), k < j,
               m.sent[k].type \in TerminalTypes
        PROVE  m.sent[j].type \in {"skipped", "truncated"}
    <3>1. k \in 1 .. Len(l.sent)
      BY <2>1, <2>2
    <3>2. CASE j = Len(l.sent) + 1
      BY <1>5, <2>1, <3>2
    <3>3. CASE j \in 1 .. Len(l.sent)
      BY <2>1, <2>2, <3>1, <3>3 DEF Closed
    <3> QED BY <2>1, <3>2, <3>3
  <2> QED BY <1>2, <2>2 DEF Closed
<1>6. ev.type \in {"skipped", "truncated"} /\ Notice.type \in {"skipped", "truncated"}
  BY DEF Notice, Ev
<1> QED BY <1>2, <1>3, <1>4, <1>5, <1>6 DEF m

(* Several events after each other.                                        *)
LEMMA EmitAllOpen ==
  ASSUME NEW N, NEW l, Open(l, N), NEW evs \in Seq(LogEvent(N)), NEW n \in 0 .. Len(evs),
         \A k \in 1 .. n : evs[k].type \notin TerminalTypes
  PROVE  Open(EmitIter(l, evs)[n], N)
<1> DEFINE f == EmitIter(l, evs)
           P == {k \in Nat : k <= n => Open(f[k], N)}
<1>1. l \in Log(N) /\ Len(evs) \in Nat
  BY LenProperties DEF Open
<1>2. f[0] = l /\ \A k \in 1 .. Len(evs) : f[k] = Emit(f[k - 1], evs[k])
  BY <1>1, EmitRecursion
<1> HIDE DEF f
<1>3. 0 \in P
  BY <1>2
<1>4. ASSUME NEW k \in Nat, k \in P PROVE k + 1 \in P
  <2> SUFFICES ASSUME k + 1 <= n PROVE Open(f[k + 1], N)
    OBVIOUS
  <2>1. k + 1 \in 1 .. Len(evs) /\ (k + 1) - 1 = k /\ k + 1 \in 1 .. n
    BY <1>1
  <2>2. f[k + 1] = Emit(f[k], evs[k + 1]) /\ Open(f[k], N)
    BY <1>1, <1>2, <1>4, <2>1
  <2>3. evs[k + 1] \in LogEvent(N) /\ evs[k + 1].type \notin TerminalTypes
    BY <2>1, ElementOfSeq
  <2> QED BY <2>2, <2>3, EmitOpen
<1>5. \A k \in Nat : k \in P
  <2> HIDE DEF P
  <2> QED BY <1>3, <1>4, NatSetInduction
<1> QED BY <1>1, <1>5 DEF f

(* Skips after the end.                                                    *)
LEMMA EmitAllSkips ==
  ASSUME NEW N, NEW l, Closed(l, N), NEW evs \in Seq(LogEvent(N)),
         \A k \in 1 .. Len(evs) : evs[k].type = "skipped"
  PROVE  Closed(EmitAll(l, evs), N)
<1> DEFINE f == EmitIter(l, evs)
           P == {k \in Nat : k <= Len(evs) => Closed(f[k], N)}
<1>1. l \in Log(N) /\ Len(evs) \in Nat
  BY LenProperties DEF Closed
<1>2. f[0] = l /\ \A k \in 1 .. Len(evs) : f[k] = Emit(f[k - 1], evs[k])
  BY <1>1, EmitRecursion
<1>0. EmitAll(l, evs) = f[Len(evs)]
  BY EmitUnfold
<1> HIDE DEF f
<1>3. 0 \in P
  BY <1>2
<1>4. ASSUME NEW k \in Nat, k \in P PROVE k + 1 \in P
  <2> SUFFICES ASSUME k + 1 <= Len(evs) PROVE Closed(f[k + 1], N)
    OBVIOUS
  <2>1. k + 1 \in 1 .. Len(evs) /\ (k + 1) - 1 = k
    BY <1>1
  <2>2. f[k + 1] = Emit(f[k], evs[k + 1]) /\ Closed(f[k], N)
    BY <1>1, <1>2, <1>4, <2>1
  <2>3. evs[k + 1] \in LogEvent(N) /\ evs[k + 1].type = "skipped"
    BY <2>1, ElementOfSeq
  <2> QED BY <2>2, <2>3, EmitSkip
<1>5. \A k \in Nat : k \in P
  <2> HIDE DEF P
  <2> QED BY <1>3, <1>4, NatSetInduction
<1>6. Closed(f[Len(evs)], N)
  BY <1>1, <1>5
<1> QED BY <1>0, <1>6

-----------------------------------------------------------------------------
(* Kahn's algorithm.                                                       *)

(* The working state of the algorithm: degrees, queue and result.           *)
Kahn(N) == [deg : [N -> Int], q : Seq(N), out : Seq(N)]

(* Counting further never counts less.                                     *)
LEMMA CountMono ==
  ASSUME NEW s, NEW m \in Nat, NEW k \in 0 .. m, NEW U
  PROVE  Count(s, k, U) <= Count(s, m, U)
<1> DEFINE A == {i \in 1 .. k : s[i] \in U}
           B == {i \in 1 .. m : s[i] \in U}
<1>1. IsFiniteSet(B) /\ A \subseteq B
  BY IntervalPart
<1>2. Count(s, k, U) = Cardinality(A) /\ Count(s, m, U) = Cardinality(B)
  BY DEF Count
<1> HIDE DEF A, B
<1> QED BY <1>1, <1>2, FS_Subset

(* An edge counts its target down and queues it at zero.                   *)
LEMMA RelaxState ==
  ASSUME NEW N, NEW s \in Kahn(N), NEW e \in Joining(N)
  PROVE  LET d == s.deg[e.dst] - 1 IN
         /\ Relax(s, e) \in Kahn(N)
         /\ Relax(s, e).deg = [s.deg EXCEPT ![e.dst] = d]
         /\ Relax(s, e).q = IF d = 0 THEN Append(s.q, e.dst) ELSE s.q
         /\ Relax(s, e).out = s.out
<1> DEFINE d == s.deg[e.dst] - 1
           nq == IF d = 0 THEN Append(s.q, e.dst) ELSE s.q
           nd == [s.deg EXCEPT ![e.dst] = d]
<1>1. /\ s = [deg |-> s.deg, q |-> s.q, out |-> s.out]
      /\ s.deg \in [N -> Int] /\ s.q \in Seq(N) /\ s.out \in Seq(N) /\ e.dst \in N
  BY DEF Kahn, Joining
<1>2. d \in Int /\ nd \in [N -> Int] /\ nq \in Seq(N)
  <2>1. d \in Int
    BY <1>1
  <2>2. Append(s.q, e.dst) \in Seq(N)
    BY <1>1, AppendProperties
  <2> HIDE DEF d
  <2> QED BY <1>1, <2>1, <2>2
<1>3. Relax(s, e) = [s EXCEPT !.deg[e.dst] = d, !.q = nq]
  BY DEF Relax
<1>4. Relax(s, e) = [deg |-> nd, q |-> nq, out |-> s.out]
  <2> HIDE DEF d, nq
  <2> QED BY <1>1, <1>3
<1> HIDE DEF nq, nd
<1>5. Relax(s, e) \in Kahn(N)
  BY <1>1, <1>2, <1>4 DEF Kahn
<1> QED BY <1>4, <1>5 DEF nq, nd

(* The recursion that relaxes the edges L one by one.                       *)
RelaxBody(s, L, f) ==
  [k \in 0 .. Len(L) |-> IF k = 0 THEN s ELSE CHOOSE r \in {Relax(acc, L[k]) : acc \in {f[k - 1]}} : TRUE]
RelaxIter(s, L) == CHOOSE f : f = RelaxBody(s, L, f)

(* Relaxing several edges is the last value of its recursion ...           *)
LEMMA RelaxUnfold ==
  ASSUME NEW s, NEW L PROVE Fold(Relax, s, L) = RelaxIter(s, L)[Len(L)]
BY DEF Fold, RelaxIter, RelaxBody

(* ... which exists, and takes the edges one by one.                       *)
LEMMA RelaxRecursion ==
  ASSUME NEW N, NEW s \in Kahn(N), NEW L \in Seq(Joining(N))
  PROVE  /\ RelaxIter(s, L) \in [0 .. Len(L) -> Kahn(N)]
         /\ RelaxIter(s, L)[0] = s
         /\ \A k \in 1 .. Len(L) : RelaxIter(s, L)[k] = Relax(RelaxIter(s, L)[k - 1], L[k])
<1> DEFINE D == Kahn(N)
           n == Len(L)
           G == [d \in D |-> [k \in 1 .. n |-> Relax(d, L[k])]]
<1>1. n \in Nat /\ s \in D
  BY LenProperties
<1>2. \A d \in D, k \in 1 .. n : Relax(d, L[k]) \in D
  <2> SUFFICES ASSUME NEW d \in D, NEW k \in 1 .. n PROVE Relax(d, L[k]) \in D
    OBVIOUS
  <2>1. L[k] \in Joining(N)
    BY ElementOfSeq
  <2> QED BY <2>1, RelaxState
<1>3. PICK f \in [0 .. n -> D] : f[0] = s /\ \A k \in 1 .. n : f[k] = Relax(f[k - 1], L[k])
  <2> HIDE DEF D, n
  <2>1. \A d \in D, k \in 1 .. n : G[d][k] = Relax(d, L[k])
    BY <1>2
  <2> HIDE DEF G
  <2>2. Steps(n, D, G)
    BY <1>2, <2>1 DEF Steps
  <2>3. Unfolds(n, D, s, G)
    BY <1>1, <2>2, RecursionExists
  <2>4. PICK f \in [0 .. n -> D] : Unfolding(n, s, G, f)
    BY <2>3 DEF Unfolds
  <2>5. \A k \in 1 .. n : f[k - 1] \in D
    BY <1>1
  <2>6. f[0] = s /\ \A k \in 1 .. n : f[k] = G[f[k - 1]][k]
    BY <2>4 DEF Unfolding
  <2>7. \A k \in 1 .. n : f[k] = Relax(f[k - 1], L[k])
    BY <2>1, <2>5, <2>6
  <2> QED BY <2>6, <2>7
<1>4. f = RelaxBody(s, L, f)
  <2>1. \A k \in 0 .. n : f[k] = IF k = 0 THEN s ELSE CHOOSE r \in {Relax(acc, L[k]) : acc \in {f[k - 1]}} : TRUE
    <3> SUFFICES ASSUME NEW k \in 1 .. n PROVE f[k] = CHOOSE r \in {Relax(acc, L[k]) : acc \in {f[k - 1]}} : TRUE
      BY <1>1, <1>3
    <3>1. {Relax(acc, L[k]) : acc \in {f[k - 1]}} = {f[k]}
      BY <1>3
    <3> QED BY <3>1
  <2> HIDE DEF G
  <2> QED BY <2>1 DEF RelaxBody
<1> DEFINE g == RelaxIter(s, L)
<1>5. g = RelaxBody(s, L, g)
  BY <1>4 DEF RelaxIter
<1> HIDE DEF g
<1>6. \A k \in 0 .. n : g[k] = IF k = 0 THEN s ELSE CHOOSE r \in {Relax(acc, L[k]) : acc \in {g[k - 1]}} : TRUE
  BY <1>5 DEF RelaxBody
<1>7. g[0] = s /\ \A k \in 1 .. n : g[k] = Relax(g[k - 1], L[k])
  <2>1. g[0] = s
    BY <1>1, <1>6
  <2>2. ASSUME NEW k \in 1 .. n PROVE g[k] = Relax(g[k - 1], L[k])
    <3>1. g[k] = CHOOSE r \in {Relax(acc, L[k]) : acc \in {g[k - 1]}} : TRUE
      BY <1>1, <1>6
    <3>2. {Relax(acc, L[k]) : acc \in {g[k - 1]}} = {Relax(g[k - 1], L[k])}
      OBVIOUS
    <3> QED BY <3>1, <3>2
  <2> QED BY <2>1, <2>2
<1>8. g \in [0 .. n -> D]
  <2>1. \A k \in Nat : k \in 0 .. n => g[k] \in D
    <3> DEFINE P == {k \in Nat : k \in 0 .. n => g[k] \in D}
    <3>1. 0 \in P
      BY <1>1, <1>7
    <3>2. \A k \in Nat : k \in P => k + 1 \in P
      <4> SUFFICES ASSUME NEW k \in Nat, k \in 0 .. n => g[k] \in D, k + 1 \in 0 .. n
                   PROVE  g[k + 1] \in D
        OBVIOUS
      <4>1. k + 1 \in 1 .. n /\ (k + 1) - 1 = k /\ g[k] \in D
        BY <1>1
      <4>2. g[k + 1] = Relax(g[k], L[k + 1])
        BY <1>7, <4>1
      <4> QED BY <1>2, <4>1, <4>2
    <3>3. \A k \in Nat : k \in P
      <4> HIDE DEF P
      <4> QED BY <3>1, <3>2, NatSetInduction
    <3> QED BY <3>3
  <2>2. DOMAIN g = 0 .. n /\ g = [k \in 0 .. n |-> g[k]]
    BY <1>5 DEF RelaxBody
  <2> QED BY <1>1, <2>1, <2>2
<1> QED BY <1>7, <1>8 DEF g

(* The edges that lead to n.                                                *)
To(N, n) == {e \in Joining(N) : e.dst = n}

(* After k of the edges L: each counted down its target, those that came   *)
(* to zero are queued, once.                                               *)
Relaxed(N, s, L, k, t) ==
  /\ t \in Kahn(N)
  /\ t.out = s.out
  /\ \A n \in N : t.deg[n] = s.deg[n] - Count(L, k, To(N, n))
  /\ IsInjective(t.q)
  /\ \A n \in N : n \in ToSet(t.q) <=> n \in ToSet(s.q) \/ (s.deg[n] > 0 /\ t.deg[n] = 0)

(* ... as every step of the recursion does.                                *)
LEMMA RelaxStep ==
  ASSUME NEW N, NEW s \in Kahn(N), NEW L \in Seq(Joining(N)), IsInjective(s.q),
         \A n \in N : n \in ToSet(s.q) => s.deg[n] = 0,
         \A n \in N : Count(L, Len(L), To(N, n)) <= s.deg[n],
         NEW k \in Nat, k + 1 <= Len(L), NEW t, Relaxed(N, s, L, k, t)
  PROVE  Relaxed(N, s, L, k + 1, Relax(t, L[k + 1]))
<1> DEFINE e == L[k + 1]
           u == Relax(t, e)
<1>1. Len(L) \in Nat /\ k + 1 \in 1 .. Len(L) /\ e \in Joining(N)
  BY LenProperties, ElementOfSeq
<1> HIDE DEF e, u
<1>2. /\ t \in Kahn(N) /\ t.deg \in [N -> Int] /\ t.q \in Seq(N) /\ s.deg \in [N -> Int]
      /\ e.dst \in N
  BY <1>1 DEF Relaxed, Kahn, Joining
<1>3. /\ u \in Kahn(N)
      /\ u.deg = [t.deg EXCEPT ![e.dst] = t.deg[e.dst] - 1]
      /\ u.q = IF t.deg[e.dst] - 1 = 0 THEN Append(t.q, e.dst) ELSE t.q
      /\ u.out = t.out
  BY <1>1, <1>2, RelaxState DEF u
<1>4. ASSUME NEW n \in N
      PROVE  /\ Count(L, k, To(N, n)) \in Nat /\ Count(L, k + 1, To(N, n)) \in Nat
             /\ Count(L, k + 1, To(N, n)) <= s.deg[n]
             /\ e.dst = n => Count(L, k + 1, To(N, n)) = Count(L, k, To(N, n)) + 1
             /\ e.dst # n => Count(L, k + 1, To(N, n)) = Count(L, k, To(N, n))
  <2> DEFINE U == To(N, n)
  <2>1. e \in U <=> e.dst = n
    BY <1>1 DEF To
  <2> HIDE DEF U
  <2>2. /\ L[k + 1] \in U => Count(L, k + 1, U) = Count(L, k, U) + 1
        /\ L[k + 1] \notin U => Count(L, k + 1, U) = Count(L, k, U)
    BY CountStep
  <2>3. Count(L, k, U) \in 0 .. k
    BY CountNext
  <2>4. Count(L, k + 1, U) \in Nat
    BY <2>2, <2>3
  <2>5. Count(L, k + 1, U) <= Count(L, Len(L), U)
    BY <1>1, CountMono
  <2>6. Count(L, Len(L), U) <= s.deg[n] /\ Count(L, Len(L), U) \in Nat
    <3>1. Count(L, Len(L), U) \in 0 .. Len(L)
      BY <1>1, CountNext
    <3>2. Count(L, Len(L), U) <= s.deg[n]
      BY DEF U
    <3> QED BY <3>1, <3>2
  <2>7. s.deg[n] \in Int
    BY <1>2
  <2>8. Count(L, k + 1, U) <= s.deg[n]
    BY <2>4, <2>5, <2>6, <2>7
  <2> QED BY <2>1, <2>2, <2>3, <2>4, <2>8 DEF U, e
<1>5. \A n \in N : t.deg[n] = s.deg[n] - Count(L, k, To(N, n))
  BY DEF Relaxed
<1>6. \A n \in N : u.deg[n] = s.deg[n] - Count(L, k + 1, To(N, n))
  <2> SUFFICES ASSUME NEW n \in N PROVE u.deg[n] = s.deg[n] - Count(L, k + 1, To(N, n))
    OBVIOUS
  <2>1. CASE n = e.dst
    BY SMTT(30), <1>2, <1>3, <1>4, <1>5, <2>1
  <2>2. CASE n # e.dst
    BY <1>2, <1>3, <1>4, <1>5, <2>2
  <2> QED BY <2>1, <2>2
<1>7. \A n \in N : n \in ToSet(t.q) <=> n \in ToSet(s.q) \/ (s.deg[n] > 0 /\ t.deg[n] = 0)
  BY DEF Relaxed
<1>8. /\ s.deg[e.dst] > 0 /\ e.dst \notin ToSet(s.q) /\ t.deg[e.dst] > 0
  <2>1. /\ Count(L, k + 1, To(N, e.dst)) = Count(L, k, To(N, e.dst)) + 1
        /\ Count(L, k + 1, To(N, e.dst)) <= s.deg[e.dst]
        /\ Count(L, k, To(N, e.dst)) \in Nat /\ s.deg[e.dst] \in Int
    BY <1>2, <1>4
  <2>2. s.deg[e.dst] > 0
    BY <2>1
  <2>3. t.deg[e.dst] = s.deg[e.dst] - Count(L, k, To(N, e.dst))
    BY <1>2, <1>5
  <2> QED BY <1>2, <2>1, <2>2, <2>3
<1>9. \A n \in N : n # e.dst => u.deg[n] = t.deg[n]
  BY <1>2, <1>3
<1>10. u.deg[e.dst] = t.deg[e.dst] - 1
  BY <1>2, <1>3
<1>11. e.dst \notin ToSet(t.q)
  BY <1>2, <1>7, <1>8
<1>12. CASE t.deg[e.dst] - 1 = 0
  <2>1. u.q = Append(t.q, e.dst)
    BY <1>3, <1>12
  <2>2. ToSet(u.q) = ToSet(t.q) \cup {e.dst}
    BY <1>2, <2>1, Appended
  <2>3. \A n \in N : n \in ToSet(u.q) <=> n \in ToSet(s.q) \/ (s.deg[n] > 0 /\ u.deg[n] = 0)
    <3> SUFFICES ASSUME NEW n \in N
                 PROVE  n \in ToSet(u.q) <=> n \in ToSet(s.q) \/ (s.deg[n] > 0 /\ u.deg[n] = 0)
      OBVIOUS
    <3>1. CASE n = e.dst
      BY <1>8, <1>10, <1>12, <2>2, <3>1
    <3>2. CASE n # e.dst
      BY <1>7, <1>9, <2>2, <3>2
    <3> QED BY <3>1, <3>2
  <2>4. IsInjective(u.q)
    <3>1. /\ Len(t.q) \in Nat /\ DOMAIN t.q = 1 .. Len(t.q) /\ DOMAIN u.q = 1 .. Len(t.q) + 1
          /\ \A i \in 1 .. Len(t.q) : u.q[i] = t.q[i]
          /\ u.q[Len(t.q) + 1] = e.dst
      BY <1>2, <2>1, Appended
    <3>2. \A i \in 1 .. Len(t.q) : t.q[i] # e.dst
      BY <1>11, <3>1 DEF ToSet
    <3>3. IsInjective(t.q)
      BY DEF Relaxed
    <3> QED BY <3>1, <3>2, <3>3 DEF IsInjective
  <2> QED BY <1>3, <1>6, <2>3, <2>4 DEF Relaxed, u, e
<1>13. CASE t.deg[e.dst] - 1 # 0
  <2>1. u.q = t.q
    BY <1>3, <1>13
  <2>2. \A n \in N : n \in ToSet(u.q) <=> n \in ToSet(s.q) \/ (s.deg[n] > 0 /\ u.deg[n] = 0)
    <3> SUFFICES ASSUME NEW n \in N
                 PROVE  n \in ToSet(u.q) <=> n \in ToSet(s.q) \/ (s.deg[n] > 0 /\ u.deg[n] = 0)
      OBVIOUS
    <3>1. CASE n = e.dst
      BY <1>2, <1>8, <1>10, <1>11, <1>13, <2>1, <3>1
    <3>2. CASE n # e.dst
      BY <1>7, <1>9, <2>1, <3>2
    <3> QED BY <3>1, <3>2
  <2> QED BY <1>3, <1>6, <2>1, <2>2 DEF Relaxed, u, e
<1> QED BY <1>12, <1>13

(* Relaxing all edges.                                                     *)
LEMMA RelaxAll ==
  ASSUME NEW N, NEW s \in Kahn(N), NEW L \in Seq(Joining(N)), IsInjective(s.q),
         \A n \in N : n \in ToSet(s.q) => s.deg[n] = 0,
         \A n \in N : Count(L, Len(L), To(N, n)) <= s.deg[n]
  PROVE  Relaxed(N, s, L, Len(L), Fold(Relax, s, L))
<1> DEFINE f == RelaxIter(s, L)
           P == {k \in Nat : k <= Len(L) => Relaxed(N, s, L, k, f[k])}
<1>1. Len(L) \in Nat
  BY LenProperties
<1>2. f[0] = s /\ \A k \in 1 .. Len(L) : f[k] = Relax(f[k - 1], L[k])
  BY RelaxRecursion
<1>3. Fold(Relax, s, L) = f[Len(L)]
  BY RelaxUnfold
<1> HIDE DEF f
<1>4. Relaxed(N, s, L, 0, s)
  <2>1. s.deg \in [N -> Int]
    BY DEF Kahn
  <2>2. \A n \in N : Count(L, 0, To(N, n)) = 0
    BY CountNext
  <2> QED BY <2>1, <2>2 DEF Relaxed
<1>5. 0 \in P
  BY <1>2, <1>4
<1>6. ASSUME NEW k \in Nat, k \in P PROVE k + 1 \in P
  <2> SUFFICES ASSUME k + 1 <= Len(L) PROVE Relaxed(N, s, L, k + 1, f[k + 1])
    OBVIOUS
  <2>1. k + 1 \in 1 .. Len(L) /\ (k + 1) - 1 = k
    BY <1>1
  <2>2. f[k + 1] = Relax(f[k], L[k + 1]) /\ Relaxed(N, s, L, k, f[k])
    BY <1>1, <1>2, <1>6, <2>1
  <2>3. Relaxed(N, s, L, k + 1, Relax(f[k], L[k + 1]))
    BY <2>2, RelaxStep
  <2> QED BY <2>2, <2>3
<1>7. \A k \in Nat : k \in P
  <2> HIDE DEF P
  <2> QED BY <1>5, <1>6, NatSetInduction
<1>8. Relaxed(N, s, L, Len(L), f[Len(L)])
  BY <1>1, <1>7
<1> QED BY <1>3, <1>8

(* The edges into n from nodes outside O, and those from h.                *)
Pending(N, n, O) == {e \in Joining(N) : e.dst = n /\ e.src \notin O}
Between(N, h, n) == {e \in Joining(N) : e.dst = n /\ e.src = h}

(* A queue of different nodes, taken from the front.                       *)
LEMMA Dequeued ==
  ASSUME NEW N, NEW q \in Seq(N), IsInjective(q), q # << >>
  PROVE  /\ Head(q) \in N /\ Tail(q) \in Seq(N) /\ IsInjective(Tail(q))
         /\ ToSet(q) = ToSet(Tail(q)) \cup {Head(q)} /\ Head(q) \notin ToSet(Tail(q))
<1> DEFINE r == Tail(q)
           h == Head(q)
<1>1. /\ h \in N /\ r \in Seq(N) /\ Len(r) = Len(q) - 1
      /\ \A i \in 1 .. Len(r) : r[i] = q[i + 1]
  BY HeadTailProperties
<1>2. /\ Len(q) \in Nat /\ DOMAIN q = 1 .. Len(q) /\ DOMAIN r = 1 .. Len(r) /\ Len(r) \in Nat
  BY <1>1, LenProperties
<1>3. h = q[1] /\ Len(q) >= 1
  BY <1>2, EmptySeq, HeadTailProperties
<1> HIDE DEF r, h
<1>4. \A i, j \in 1 .. Len(q) : q[i] = q[j] => i = j
  BY <1>2 DEF IsInjective
<1>5. IsInjective(r)
  <2> SUFFICES ASSUME NEW i \in 1 .. Len(r), NEW j \in 1 .. Len(r), r[i] = r[j] PROVE i = j
    BY <1>2 DEF IsInjective
  <2>1. i + 1 \in 1 .. Len(q) /\ j + 1 \in 1 .. Len(q) /\ q[i + 1] = q[j + 1]
    BY <1>1, <1>2
  <2> QED BY <1>4, <2>1
<1>6. h \notin ToSet(r)
  <2> SUFFICES ASSUME NEW i \in 1 .. Len(r), r[i] = h PROVE FALSE
    BY <1>2 DEF ToSet
  <2>1. i + 1 \in 1 .. Len(q) /\ 1 \in 1 .. Len(q) /\ q[i + 1] = q[1] /\ i + 1 # 1
    BY <1>1, <1>2, <1>3
  <2> QED BY <1>4, <2>1
<1>7. ToSet(q) = ToSet(r) \cup {h}
  <2>1. ASSUME NEW i \in 1 .. Len(q) PROVE q[i] \in ToSet(r) \cup {h}
    <3>1. CASE i = 1
      BY <1>3, <3>1
    <3>2. CASE i # 1
      <4>1. i - 1 \in 1 .. Len(r) /\ r[i - 1] = q[i]
        BY <1>1, <1>2, <3>2
      <4> QED BY <1>2, <4>1 DEF ToSet
    <3> QED BY <3>1, <3>2
  <2>2. ASSUME NEW i \in 1 .. Len(r) PROVE r[i] \in ToSet(q)
    <3>1. i + 1 \in 1 .. Len(q) /\ r[i] = q[i + 1]
      BY <1>1, <1>2
    <3> QED BY <1>2, <3>1 DEF ToSet
  <2>3. h \in ToSet(q)
    <3>1. 1 \in 1 .. Len(q)
      BY <1>2, <1>3
    <3> QED BY <1>2, <1>3, <3>1 DEF ToSet
  <2>4. ToSet(q) \subseteq ToSet(r) \cup {h}
    BY <1>2, <2>1 DEF ToSet
  <2>5. ToSet(r) \subseteq ToSet(q)
    BY <1>2, <2>2 DEF ToSet
  <2> QED BY <2>3, <2>4, <2>5
<1> QED BY <1>1, <1>5, <1>6, <1>7 DEF r, h

(* Where the sort stands: the degrees count what is pending, nodes without *)
(* pending edges are out or queued, once, and parents are out first.       *)
Sorting(N, es, s) ==
  /\ s \in Kahn(N)
  /\ \A n \in N : s.deg[n] = Count(es, Len(es), Pending(N, n, ToSet(s.out)))
  /\ \A n \in N : n \in ToSet(s.out) \cup ToSet(s.q) <=> s.deg[n] = 0
  /\ IsInjective(s.out) /\ IsInjective(s.q) /\ ToSet(s.out) \cap ToSet(s.q) = {}
  /\ \A i \in 1 .. Len(s.out) : \A e \in ToSet(es) :
        e.dst = s.out[i] => \E j \in 1 .. i - 1 : s.out[j] = e.src

(* Visiting the first of the queue keeps it so.                            *)
LEMMA VisitStep ==
  ASSUME NEW N, NEW es \in Seq(Joining(N)), NEW s, Sorting(N, es, s)
  PROVE  /\ Sorting(N, es, Visit(es, s))
         /\ s.q = << >> => Visit(es, s) = s
         /\ s.q # << >> => Len(Visit(es, s).out) = Len(s.out) + 1
<1>1. CASE s.q = << >>
  <2>1. Visit(es, s) = s
    BY <1>1 DEF Visit
  <2> QED BY <1>1, <2>1
<1>2. CASE s.q # << >>
  <2> DEFINE h == Head(s.q)
             r == Tail(s.q)
             O == ToSet(s.out)
             from == {e \in ToSet(es) : e.src = h}
             L == Among(es, from)
             s1 == [s EXCEPT !.q = Tail(@), !.out = Append(@, h)]
             t == Fold(Relax, s1, L)
  <2>1. Visit(es, s) = t
    BY <1>2 DEF Visit
  <2>2. /\ s \in Kahn(N) /\ s = [deg |-> s.deg, q |-> s.q, out |-> s.out]
        /\ s.deg \in [N -> Int] /\ s.q \in Seq(N) /\ s.out \in Seq(N)
    BY DEF Sorting, Kahn
  <2>3. /\ h \in N /\ r \in Seq(N) /\ IsInjective(r)
        /\ ToSet(s.q) = ToSet(r) \cup {h} /\ h \notin ToSet(r)
    BY <1>2, <2>2, Dequeued DEF Sorting
  <2>4. s1 = [deg |-> s.deg, q |-> r, out |-> Append(s.out, h)]
    <3> DEFINE o == Append(s.out, h)
    <3>1. s1 = [s EXCEPT !.q = r, !.out = o]
      OBVIOUS
    <3> HIDE DEF h, r, o, s1
    <3>2. s1 = [deg |-> s.deg, q |-> r, out |-> o]
      BY <2>2, <3>1
    <3> QED BY <3>2 DEF o
  <2> HIDE DEF h, r, s1, t
  <2>5. /\ Append(s.out, h) \in Seq(N) /\ Len(s.out) \in Nat
        /\ Len(Append(s.out, h)) = Len(s.out) + 1
        /\ DOMAIN s.out = 1 .. Len(s.out) /\ DOMAIN Append(s.out, h) = 1 .. Len(s.out) + 1
        /\ \A i \in 1 .. Len(s.out) : Append(s.out, h)[i] = s.out[i]
        /\ Append(s.out, h)[Len(s.out) + 1] = h
        /\ ToSet(Append(s.out, h)) = O \cup {h}
    BY <2>2, <2>3, Appended
  <2>6. /\ s1 \in Kahn(N) /\ s1.deg = s.deg /\ s1.q = r /\ s1.out = Append(s.out, h)
    BY <2>2, <2>3, <2>4, <2>5 DEF Kahn
  <2>7. /\ L \in Seq(Joining(N)) /\ Len(L) \in Nat
        /\ \A U : Count(L, Len(L), U) = Count(es, Len(es), from \cap U)
    BY AmongProperties
  <2>8. Len(es) \in Nat /\ DOMAIN es = 1 .. Len(es) /\ \A i \in 1 .. Len(es) : es[i] \in Joining(N) /\ es[i] \in ToSet(es)
    BY LenProperties, ElementOfSeq DEF ToSet
  <2>9. h \notin O
    BY <2>3 DEF Sorting
  <2> HIDE DEF L
  <2>10. ASSUME NEW n \in N
         PROVE  /\ s.deg[n] = Count(es, Len(es), Pending(N, n, O \cup {h})) + Count(L, Len(L), To(N, n))
                /\ Count(es, Len(es), Pending(N, n, O \cup {h})) \in Nat
                /\ Count(L, Len(L), To(N, n)) \in Nat
    <3> DEFINE A == Pending(N, n, O \cup {h})
               B == Between(N, h, n)
    <3>1. A \cap B = {} /\ A \cup B = Pending(N, n, O)
      BY <2>9 DEF Pending, Between
    <3>2. Count(L, Len(L), To(N, n)) = Count(es, Len(es), from \cap To(N, n))
      BY <2>7
    <3>3. \A i \in 1 .. Len(es) : es[i] \in from \cap To(N, n) <=> es[i] \in B
      BY <2>8 DEF To, Between
    <3> HIDE DEF from, A, B
    <3>4. Count(es, Len(es), from \cap To(N, n)) = Count(es, Len(es), B)
      BY <2>8, <3>3, CountSame
    <3>5. Count(es, Len(es), A \cup B) = Count(es, Len(es), A) + Count(es, Len(es), B)
      BY <2>8, <3>1, CountSplit
    <3>6. s.deg[n] = Count(es, Len(es), Pending(N, n, O))
      BY DEF Sorting
    <3>7. Count(es, Len(es), A) \in 0 .. Len(es) /\ Count(es, Len(es), B) \in 0 .. Len(es)
      BY <2>8, CountNext
    <3>8. /\ Count(L, Len(L), To(N, n)) = Count(es, Len(es), B)
          /\ s.deg[n] = Count(es, Len(es), A) + Count(es, Len(es), B)
      BY <3>1, <3>2, <3>4, <3>5, <3>6
    <3>9. /\ s.deg[n] = Count(es, Len(es), A) + Count(L, Len(L), To(N, n))
          /\ Count(es, Len(es), A) \in Nat /\ Count(L, Len(L), To(N, n)) \in Nat
      BY <2>8, <3>7, <3>8
    <3> QED BY <3>9 DEF A
  <2> HIDE DEF from
  <2>11. Relaxed(N, s1, L, Len(L), t)
    <3>1. IsInjective(s1.q)
      BY <2>3, <2>6
    <3>2. \A n \in N : n \in ToSet(s1.q) => s1.deg[n] = 0
      BY <2>3, <2>6 DEF Sorting
    <3>3. \A n \in N : Count(L, Len(L), To(N, n)) <= s1.deg[n]
      BY <2>6, <2>10
    <3> QED BY <2>6, <2>7, <3>1, <3>2, <3>3, RelaxAll DEF t
  <2>12. /\ t \in Kahn(N) /\ t.out = Append(s.out, h) /\ IsInjective(t.q)
         /\ \A n \in N : t.deg[n] = s.deg[n] - Count(L, Len(L), To(N, n))
         /\ \A n \in N : n \in ToSet(t.q) <=> n \in ToSet(r) \/ (s.deg[n] > 0 /\ t.deg[n] = 0)
    BY <2>6, <2>11 DEF Relaxed
  <2>13. \A n \in N : t.deg[n] = Count(es, Len(es), Pending(N, n, O \cup {h}))
    <3> SUFFICES ASSUME NEW n \in N PROVE t.deg[n] = Count(es, Len(es), Pending(N, n, O \cup {h}))
      OBVIOUS
    <3>1. /\ s.deg[n] = Count(es, Len(es), Pending(N, n, O \cup {h})) + Count(L, Len(L), To(N, n))
          /\ Count(es, Len(es), Pending(N, n, O \cup {h})) \in Nat
          /\ Count(L, Len(L), To(N, n)) \in Nat
          /\ t.deg[n] = s.deg[n] - Count(L, Len(L), To(N, n))
      BY <2>10, <2>12
    <3> QED BY <3>1
  <2>14. \A n \in N : s.deg[n] >= t.deg[n] /\ t.deg[n] \in Nat /\ s.deg[n] \in Nat
    <3> SUFFICES ASSUME NEW n \in N
                 PROVE  s.deg[n] >= t.deg[n] /\ t.deg[n] \in Nat /\ s.deg[n] \in Nat
      OBVIOUS
    <3>1. /\ s.deg[n] = Count(es, Len(es), Pending(N, n, O \cup {h})) + Count(L, Len(L), To(N, n))
          /\ Count(es, Len(es), Pending(N, n, O \cup {h})) \in Nat
          /\ Count(L, Len(L), To(N, n)) \in Nat
          /\ t.deg[n] = Count(es, Len(es), Pending(N, n, O \cup {h}))
      BY <2>10, <2>13
    <3> QED BY <3>1
  <2>15. \A n \in N : n \in O \cup ToSet(s.q) <=> s.deg[n] = 0
    BY DEF Sorting
  <2>16. ToSet(t.q) \subseteq N
    <3>1. t.q \in Seq(N)
      BY <2>12 DEF Kahn
    <3>2. DOMAIN t.q = 1 .. Len(t.q) /\ \A i \in 1 .. Len(t.q) : t.q[i] \in N
      BY <3>1, LenProperties, ElementOfSeq
    <3> QED BY <3>2 DEF ToSet
  <2>17. \A n \in N : n \in ToSet(t.out) \cup ToSet(t.q) <=> t.deg[n] = 0
    <3> SUFFICES ASSUME NEW n \in N PROVE n \in ToSet(t.out) \cup ToSet(t.q) <=> t.deg[n] = 0
      OBVIOUS
    <3>1. ToSet(t.out) = O \cup {h}
      BY <2>5, <2>12
    <3>2. s.deg[n] >= t.deg[n] /\ t.deg[n] \in Nat /\ s.deg[n] \in Nat
      BY <2>14
    <3>3. n \in ToSet(t.q) <=> n \in ToSet(r) \/ (s.deg[n] > 0 /\ t.deg[n] = 0)
      BY <2>12
    <3>4. n \in O \/ n = h \/ n \in ToSet(r) <=> s.deg[n] = 0
      BY <2>3, <2>15
    <3> QED BY <3>1, <3>2, <3>3, <3>4
  <2>18. ToSet(t.out) \cap ToSet(t.q) = {}
    <3> SUFFICES ASSUME NEW n \in ToSet(t.q), n \in ToSet(t.out) PROVE FALSE
      OBVIOUS
    <3>1. n \in N /\ n \in O \cup {h}
      BY <2>5, <2>12, <2>16
    <3>2. n \in ToSet(r) \/ s.deg[n] > 0
      BY <2>12, <3>1
    <3>3. n \in O \cup ToSet(s.q) /\ s.deg[n] = 0
      BY <2>3, <2>15, <3>1
    <3>4. n \in ToSet(r) => n \in ToSet(s.q) /\ n # h
      BY <2>3
    <3>5. O \cap ToSet(s.q) = {}
      BY DEF Sorting
    <3> QED BY <3>1, <3>2, <3>3, <3>4, <3>5
  <2>19. IsInjective(t.out)
    <3>1. IsInjective(s.out)
      BY DEF Sorting
    <3>2. \A i \in 1 .. Len(s.out) : s.out[i] # h
      BY <2>5, <2>9 DEF ToSet
    <3> QED BY <2>5, <2>12, <3>1, <3>2 DEF IsInjective
  <2>20. ASSUME NEW i \in 1 .. Len(t.out), NEW e \in ToSet(es), e.dst = t.out[i]
         PROVE  \E j \in 1 .. i - 1 : t.out[j] = e.src
    <3>1. CASE i \in 1 .. Len(s.out)
      <4>1. PICK j \in 1 .. i - 1 : s.out[j] = e.src
        BY <2>5, <2>12, <2>20, <3>1 DEF Sorting
      <4>2. j \in 1 .. Len(s.out)
        BY <2>5, <3>1
      <4> QED BY <2>5, <2>12, <4>1, <4>2
    <3>2. CASE i = Len(s.out) + 1
      <4>1. e.dst = h
        BY <2>5, <2>12, <2>20, <3>2
      <4>2. h \in ToSet(s.q) /\ s.deg[h] = 0
        BY <2>3, <2>15
      <4>3. Count(es, Len(es), Pending(N, h, O)) = 0
        BY <2>3, <4>2 DEF Sorting
      <4>4. \A k \in 1 .. Len(es) : es[k] \notin Pending(N, h, O)
        <5> DEFINE U == Pending(N, h, O)
        <5> HIDE DEF U
        <5>1. Count(es, Len(es), U) = 0
          BY <4>3 DEF U
        <5>2. \A k \in 1 .. Len(es) : es[k] \notin U
          BY <2>8, <5>1, CountZero
        <5> QED BY <5>2 DEF U
      <4>5. PICK k \in 1 .. Len(es) : e = es[k]
        BY <2>8 DEF ToSet
      <4>6. e.src \in O
        BY <2>8, <4>1, <4>4, <4>5 DEF Pending
      <4>7. PICK j \in 1 .. Len(s.out) : s.out[j] = e.src
        BY <2>5, <4>6 DEF ToSet
      <4> QED BY <2>5, <2>12, <3>2, <4>7
    <3> QED BY <2>5, <2>12, <3>1, <3>2
  <2>21. \A n \in N : t.deg[n] = Count(es, Len(es), Pending(N, n, ToSet(t.out)))
    BY <2>5, <2>12, <2>13
  <2>22. Sorting(N, es, t)
    BY <2>12, <2>17, <2>18, <2>19, <2>20, <2>21 DEF Sorting
  <2> QED BY <1>2, <2>1, <2>5, <2>12, <2>22
<1> QED BY <1>1, <1>2

(* The state the algorithm starts in.                                       *)
SortStart(nodes, edges) ==
  [deg |-> [n \in ToSet(nodes) |-> Degree(edges, n)],
   q   |-> Among(nodes, {n \in ToSet(nodes) : Degree(edges, n) = 0}),
   out |-> << >>]

(* A degree counts the edges into a node.                                  *)
LEMMA DegreeCounts ==
  ASSUME NEW N, NEW es \in Seq(Joining(N)), NEW n \in N
  PROVE  Degree(es, n) \in Nat /\ Degree(es, n) = Count(es, Len(es), Pending(N, n, {}))
<1> DEFINE I == {e \in ToSet(es) : e.dst = n}
           B == Pending(N, n, {})
<1>1. Len(es) \in Nat /\ DOMAIN es = 1 .. Len(es) /\ \A i \in 1 .. Len(es) : es[i] \in Joining(N) /\ es[i] \in ToSet(es)
  BY LenProperties, ElementOfSeq DEF ToSet
<1>2. Degree(es, n) = Len(Among(es, I))
  BY DEF Degree
<1>3. \A i \in 1 .. Len(es) : es[i] \in I <=> es[i] \in B
  BY <1>1 DEF Pending
<1> HIDE DEF I, B
<1>4. Len(Among(es, I)) \in Nat /\ Len(Among(es, I)) = Count(es, Len(es), I)
  BY AmongProperties
<1>5. Count(es, Len(es), I) = Count(es, Len(es), B)
  BY <1>1, <1>3, CountSame
<1> QED BY <1>2, <1>4, <1>5 DEF B

(* Before the first visit.                                                 *)
LEMMA SortingStarts ==
  ASSUME NEW N, NEW nodes \in Seq(N), IsInjective(nodes), ToSet(nodes) = N,
         NEW es \in Seq(Joining(N))
  PROVE  Sorting(N, es, SortStart(nodes, es))
<1> DEFINE Z == {n \in N : Degree(es, n) = 0}
           s == SortStart(nodes, es)
           d == [n \in N |-> Degree(es, n)]
           q == Among(nodes, Z)
<1>1. s = [deg |-> d, q |-> q, out |-> << >>]
  BY DEF SortStart
<1>2. \A n \in N : Degree(es, n) \in Nat /\ Degree(es, n) = Count(es, Len(es), Pending(N, n, {}))
  BY DegreeCounts
<1>3. d \in [N -> Int] /\ \A n \in N : d[n] = Degree(es, n)
  BY <1>2
<1>4. q \in Seq(N) /\ IsInjective(q) /\ ToSet(q) = ToSet(nodes) \cap Z
  BY AmongProperties, AmongDistinct
<1>5. ToSet(q) = Z
  BY <1>4
<1> HIDE DEF d, q, s
<1>6. s.deg = d /\ s.q = q /\ s.out = << >>
  BY <1>1
<1>7. << >> \in Seq(N) /\ ToSet(<< >>) = {} /\ IsInjective(<< >>) /\ Len(<< >>) = 0
  BY Empty
<1>8. s \in Kahn(N)
  BY <1>1, <1>3, <1>4, <1>7 DEF Kahn
<1>9. \A n \in N : s.deg[n] = Count(es, Len(es), Pending(N, n, ToSet(s.out)))
  BY <1>2, <1>3, <1>6, <1>7
<1>10. \A n \in N : n \in ToSet(s.out) \cup ToSet(s.q) <=> s.deg[n] = 0
  BY <1>3, <1>5, <1>6, <1>7
<1>11. IsInjective(s.out) /\ IsInjective(s.q) /\ ToSet(s.out) \cap ToSet(s.q) = {}
  BY <1>4, <1>6, <1>7
<1>12. 1 .. Len(s.out) = {}
  BY <1>6, <1>7
<1> QED BY <1>8, <1>9, <1>10, <1>11, <1>12 DEF Sorting, s

(* The recursion of Acyclic.                                                *)
KahnBody(nodes, es, f) ==
  [k \in 0 .. Len(nodes) |-> IF k = 0 THEN SortStart(nodes, es) ELSE CHOOSE r \in {Visit(es, acc) : acc \in {f[k - 1]}} : TRUE]
KahnIter(nodes, es) == CHOOSE f : f = KahnBody(nodes, es, f)

(* The sorted part is the output of the last value of its recursion ...    *)
LEMMA KahnUnfold ==
  ASSUME NEW nodes, NEW es PROVE Acyclic(nodes, es) = KahnIter(nodes, es)[Len(nodes)].out
BY DEF Acyclic, SortStart, Fold, KahnIter, KahnBody

(* ... which exists, and visits as often as there are nodes.               *)
LEMMA KahnRecursion ==
  ASSUME NEW N, NEW nodes \in Seq(N), IsInjective(nodes), ToSet(nodes) = N,
         NEW es \in Seq(Joining(N))
  PROVE  /\ KahnIter(nodes, es) \in [0 .. Len(nodes) -> {s \in Kahn(N) : Sorting(N, es, s)}]
         /\ KahnIter(nodes, es)[0] = SortStart(nodes, es)
         /\ \A k \in 1 .. Len(nodes) : KahnIter(nodes, es)[k] = Visit(es, KahnIter(nodes, es)[k - 1])
<1> DEFINE D == {s \in Kahn(N) : Sorting(N, es, s)}
           n == Len(nodes)
           G == [d \in D |-> [k \in 1 .. n |-> Visit(es, d)]]
<1>1. n \in Nat /\ SortStart(nodes, es) \in D
  <2>1. Sorting(N, es, SortStart(nodes, es))
    BY SortingStarts
  <2> QED BY <2>1, LenProperties DEF Sorting
<1>2. \A d \in D, k \in 1 .. n : Visit(es, d) \in D
  <2> SUFFICES ASSUME NEW d \in D PROVE Visit(es, d) \in D
    OBVIOUS
  <2>1. Sorting(N, es, Visit(es, d))
    BY VisitStep
  <2> QED BY <2>1 DEF Sorting
<1>3. PICK f \in [0 .. n -> D] : f[0] = SortStart(nodes, es) /\ \A k \in 1 .. n : f[k] = Visit(es, f[k - 1])
  <2> HIDE DEF D, n
  <2>1. \A d \in D, k \in 1 .. n : G[d][k] = Visit(es, d)
    BY <1>2
  <2> HIDE DEF G
  <2>2. Steps(n, D, G)
    BY <1>2, <2>1 DEF Steps
  <2>3. Unfolds(n, D, SortStart(nodes, es), G)
    BY <1>1, <2>2, RecursionExists
  <2>4. PICK f \in [0 .. n -> D] : Unfolding(n, SortStart(nodes, es), G, f)
    BY <2>3 DEF Unfolds
  <2>5. \A k \in 1 .. n : f[k - 1] \in D
    BY <1>1
  <2>6. f[0] = SortStart(nodes, es) /\ \A k \in 1 .. n : f[k] = G[f[k - 1]][k]
    BY <2>4 DEF Unfolding
  <2>7. \A k \in 1 .. n : f[k] = Visit(es, f[k - 1])
    BY <2>1, <2>5, <2>6
  <2> QED BY <2>6, <2>7
<1>4. f = KahnBody(nodes, es, f)
  <2>1. \A k \in 0 .. n : f[k] = IF k = 0 THEN SortStart(nodes, es) ELSE CHOOSE r \in {Visit(es, acc) : acc \in {f[k - 1]}} : TRUE
    <3> SUFFICES ASSUME NEW k \in 1 .. n PROVE f[k] = CHOOSE r \in {Visit(es, acc) : acc \in {f[k - 1]}} : TRUE
      BY <1>1, <1>3
    <3>1. {Visit(es, acc) : acc \in {f[k - 1]}} = {f[k]}
      BY <1>3
    <3> QED BY <3>1
  <2> HIDE DEF G
  <2> QED BY <2>1 DEF KahnBody
<1> DEFINE g == KahnIter(nodes, es)
<1>5. g = KahnBody(nodes, es, g)
  BY <1>4 DEF KahnIter
<1> HIDE DEF g
<1>6. \A k \in 0 .. n : g[k] = IF k = 0 THEN SortStart(nodes, es) ELSE CHOOSE r \in {Visit(es, acc) : acc \in {g[k - 1]}} : TRUE
  BY <1>5 DEF KahnBody
<1>7. g[0] = SortStart(nodes, es) /\ \A k \in 1 .. n : g[k] = Visit(es, g[k - 1])
  <2>1. g[0] = SortStart(nodes, es)
    BY <1>1, <1>6
  <2>2. ASSUME NEW k \in 1 .. n PROVE g[k] = Visit(es, g[k - 1])
    <3>1. g[k] = CHOOSE r \in {Visit(es, acc) : acc \in {g[k - 1]}} : TRUE
      BY <1>1, <1>6
    <3>2. {Visit(es, acc) : acc \in {g[k - 1]}} = {Visit(es, g[k - 1])}
      OBVIOUS
    <3> QED BY <3>1, <3>2
  <2> QED BY <2>1, <2>2
<1>8. g \in [0 .. n -> D]
  <2>1. \A k \in Nat : k \in 0 .. n => g[k] \in D
    <3> DEFINE P == {k \in Nat : k \in 0 .. n => g[k] \in D}
    <3>1. 0 \in P
      BY <1>1, <1>7
    <3>2. \A k \in Nat : k \in P => k + 1 \in P
      <4> SUFFICES ASSUME NEW k \in Nat, k \in 0 .. n => g[k] \in D, k + 1 \in 0 .. n
                   PROVE  g[k + 1] \in D
        OBVIOUS
      <4>1. k + 1 \in 1 .. n /\ (k + 1) - 1 = k /\ g[k] \in D
        BY <1>1
      <4>2. g[k + 1] = Visit(es, g[k])
        BY <1>7, <4>1
      <4> QED BY <1>2, <4>1, <4>2
    <3>3. \A k \in Nat : k \in P
      <4> HIDE DEF P
      <4> QED BY <3>1, <3>2, NatSetInduction
    <3> QED BY <3>3
  <2>2. DOMAIN g = 0 .. n /\ g = [k \in 0 .. n |-> g[k]]
    BY <1>5 DEF KahnBody
  <2> QED BY <1>1, <2>1, <2>2
<1> QED BY <1>7, <1>8 DEF g

(* What is sorted comes after all its parents; what is not has a parent    *)
(* that is not.                                                            *)
LEMMA AcyclicSorted ==
  ASSUME NEW N, NEW nodes \in Seq(N), IsInjective(nodes), ToSet(nodes) = N,
         NEW es \in Seq(Joining(N)), NEW out, out = Acyclic(nodes, es)
  PROVE  /\ out \in Seq(N) /\ IsInjective(out)
         /\ \A i \in 1 .. Len(out) : \A e \in ToSet(es) :
               e.dst = out[i] => \E j \in 1 .. i - 1 : out[j] = e.src
         /\ \A n \in N \ ToSet(out) : \E e \in ToSet(es) : e.dst = n /\ e.src \notin ToSet(out)
<1> DEFINE f == KahnIter(nodes, es)
           m == Len(nodes)
           D == {s \in Kahn(N) : Sorting(N, es, s)}
           P == {k \in Nat : k <= m => f[k].q = << >> \/ Len(f[k].out) = k}
<1>1. m \in Nat
  BY LenProperties
<1>2. /\ f \in [0 .. m -> D] /\ f[0] = SortStart(nodes, es)
      /\ \A k \in 1 .. m : f[k] = Visit(es, f[k - 1])
  BY KahnRecursion
<1>3. out = f[m].out
  BY KahnUnfold
<1> HIDE DEF f, m
<1>4. 0 \in P
  BY <1>2, Empty DEF SortStart
<1>5. ASSUME NEW k \in Nat, k \in P PROVE k + 1 \in P
  <2> SUFFICES ASSUME k + 1 <= m PROVE f[k + 1].q = << >> \/ Len(f[k + 1].out) = k + 1
    OBVIOUS
  <2>1. k + 1 \in 1 .. m /\ (k + 1) - 1 = k /\ k \in 0 .. m
    BY <1>1
  <2>2. f[k + 1] = Visit(es, f[k]) /\ Sorting(N, es, f[k]) /\ (f[k].q = << >> \/ Len(f[k].out) = k)
    BY <1>1, <1>2, <1>5, <2>1
  <2> DEFINE s == f[k]
  <2> HIDE DEF s
  <2>3. Sorting(N, es, s) /\ (s.q = << >> \/ Len(s.out) = k)
    BY <2>2 DEF s
  <2>4. /\ s.q = << >> => Visit(es, s) = s
        /\ s.q # << >> => Len(Visit(es, s).out) = Len(s.out) + 1
    BY <2>3, VisitStep
  <2>5. f[k + 1] = Visit(es, s)
    BY <2>2 DEF s
  <2> QED BY <2>3, <2>4, <2>5
<1>6. \A k \in Nat : k \in P
  <2> HIDE DEF P
  <2> QED BY <1>4, <1>5, NatSetInduction
<1> DEFINE t == f[m]
<1>7. Sorting(N, es, t) /\ (t.q = << >> \/ Len(t.out) = m)
  BY <1>1, <1>2, <1>6
<1>8. out = t.out
  BY <1>3
<1> HIDE DEF t
<1>9. t.out \in Seq(N) /\ t.q \in Seq(N) /\ t.deg \in [N -> Int]
  BY <1>7 DEF Sorting, Kahn
<1>10. IsFiniteSet(N) /\ Cardinality(N) = m
  BY DistinctCardinality DEF m
<1>11. ToSet(t.out) \subseteq N
  <2>1. DOMAIN t.out = 1 .. Len(t.out) /\ \A i \in 1 .. Len(t.out) : t.out[i] \in N
    BY <1>9, LenProperties, ElementOfSeq
  <2> QED BY <2>1 DEF ToSet
<1>12. t.q = << >>
  <2> SUFFICES ASSUME t.q # << >>, Len(t.out) = m PROVE FALSE
    BY <1>7
  <2>1. /\ Head(t.q) \in N /\ Head(t.q) \in ToSet(t.q)
    BY <1>7, <1>9, Dequeued DEF Sorting
  <2>2. Cardinality(ToSet(t.out)) = m
    BY <1>7, <1>9, DistinctCardinality DEF Sorting
  <2>3. ToSet(t.out) = N
    <3> DEFINE O == ToSet(t.out)
    <3> HIDE DEF O
    <3>1. O \subseteq N /\ Cardinality(O) = Cardinality(N)
      BY <1>10, <1>11, <2>2 DEF O
    <3>2. O = N
      BY <1>10, <3>1, FS_Subset
    <3> QED BY <3>2 DEF O
  <2>4. ToSet(t.out) \cap ToSet(t.q) = {}
    BY <1>7 DEF Sorting
  <2> QED BY <2>1, <2>3, <2>4
<1>13. \A n \in N : n \in ToSet(t.out) <=> t.deg[n] = 0
  <2>1. ToSet(t.q) = {}
    BY <1>12, Empty
  <2> QED BY <1>7, <2>1 DEF Sorting
<1>14. ASSUME NEW n \in N \ ToSet(out) PROVE \E e \in ToSet(es) : e.dst = n /\ e.src \notin ToSet(out)
  <2> DEFINE U == Pending(N, n, ToSet(t.out))
  <2>1. t.deg[n] # 0 /\ t.deg[n] = Count(es, Len(es), U)
    BY <1>7, <1>8, <1>13 DEF Sorting
  <2>2. Len(es) \in Nat /\ DOMAIN es = 1 .. Len(es)
    BY LenProperties
  <2> HIDE DEF U
  <2>3. ~ \A i \in 1 .. Len(es) : es[i] \notin U
    BY <2>1, <2>2, CountZero
  <2>4. PICK i \in 1 .. Len(es) : es[i] \in U
    BY <2>3
  <2>5. es[i] \in ToSet(es) /\ es[i].dst = n /\ es[i].src \notin ToSet(out)
    BY <1>8, <2>2, <2>4 DEF U, Pending, ToSet
  <2> QED BY <2>5
<1> QED BY <1>7, <1>8, <1>9, <1>14 DEF Sorting

(* One sequence of different elements after another that shares none.      *)
LEMMA Concatenated ==
  ASSUME NEW S, NEW s \in Seq(S), NEW t \in Seq(S), IsInjective(s), IsInjective(t),
         ToSet(s) \cap ToSet(t) = {}
  PROVE  /\ s \o t \in Seq(S) /\ IsInjective(s \o t)
         /\ ToSet(s \o t) = ToSet(s) \cup ToSet(t)
         /\ DOMAIN (s \o t) = 1 .. Len(s \o t) /\ Len(s) <= Len(s \o t)
         /\ Len(s \o t) \in Nat /\ Len(s) \in Nat
         /\ \A i \in 1 .. Len(s) : (s \o t)[i] = s[i]
<1> DEFINE c == s \o t
           a == Len(s)
           b == Len(t)
<1>1. /\ c \in Seq(S) /\ Len(c) = a + b /\ a \in Nat /\ b \in Nat
      /\ \A i \in 1 .. a + b : c[i] = IF i <= a THEN s[i] ELSE t[i - a]
      /\ DOMAIN s = 1 .. a /\ DOMAIN t = 1 .. b
  BY ConcatProperties, LenProperties
<1>2. DOMAIN c = 1 .. a + b
  BY <1>1, LenProperties
<1>3. /\ \A i, j \in 1 .. a : s[i] = s[j] => i = j
      /\ \A i, j \in 1 .. b : t[i] = t[j] => i = j
      /\ \A i \in 1 .. a, j \in 1 .. b : s[i] # t[j]
  <2> HIDE DEF a, b
  <2>1. /\ \A i, j \in 1 .. a : s[i] = s[j] => i = j
        /\ \A i, j \in 1 .. b : t[i] = t[j] => i = j
    BY <1>1 DEF IsInjective
  <2>2. \A i \in 1 .. a, j \in 1 .. b : s[i] \in ToSet(s) /\ t[j] \in ToSet(t)
    BY <1>1 DEF ToSet
  <2> QED BY <2>1, <2>2
<1> HIDE DEF c, a, b
<1>4. \A i \in 1 .. a : c[i] = s[i]
  BY <1>1
<1>5. \A i \in 1 .. a + b : i > a => i - a \in 1 .. b /\ c[i] = t[i - a]
  BY <1>1
<1>6. IsInjective(c)
  <2> SUFFICES ASSUME NEW i \in 1 .. a + b, NEW j \in 1 .. a + b, c[i] = c[j] PROVE i = j
    BY <1>2 DEF IsInjective
  <2>1. CASE i <= a /\ j <= a
    <3>1. i \in 1 .. a /\ j \in 1 .. a
      BY <1>1, <2>1
    <3> QED BY <1>3, <1>4, <3>1
  <2>2. CASE i > a /\ j > a
    <3>1. i - a = j - a
      BY <1>3, <1>5, <2>2
    <3> QED BY <1>1, <3>1
  <2>3. CASE i <= a /\ j > a
    <3>1. i \in 1 .. a /\ j - a \in 1 .. b /\ c[j] = t[j - a]
      BY <1>1, <1>5, <2>3
    <3> QED BY <1>3, <1>4, <3>1
  <2>4. CASE i > a /\ j <= a
    <3>1. j \in 1 .. a /\ i - a \in 1 .. b /\ c[i] = t[i - a]
      BY <1>1, <1>5, <2>4
    <3> QED BY <1>3, <1>4, <3>1
  <2> QED BY <1>1, <2>1, <2>2, <2>3, <2>4
<1>7. ToSet(c) = ToSet(s) \cup ToSet(t)
  <2>1. ASSUME NEW i \in 1 .. a + b PROVE c[i] \in ToSet(s) \cup ToSet(t)
    <3>1. CASE i <= a
      <4>1. i \in 1 .. a
        BY <1>1, <3>1
      <4> QED BY <1>1, <1>4, <4>1 DEF ToSet
    <3>2. CASE i > a
      BY <1>1, <1>5, <3>2 DEF ToSet
    <3> QED BY <1>1, <3>1, <3>2
  <2>2. ASSUME NEW i \in 1 .. a PROVE s[i] \in ToSet(c)
    <3>1. i \in 1 .. a + b
      BY <1>1
    <3> QED BY <1>2, <1>4, <3>1 DEF ToSet
  <2>3. ASSUME NEW i \in 1 .. b PROVE t[i] \in ToSet(c)
    <3>1. i + a \in 1 .. a + b /\ i + a > a /\ (i + a) - a = i
      BY <1>1
    <3> QED BY <1>2, <1>5, <3>1 DEF ToSet
  <2>4. ToSet(c) \subseteq ToSet(s) \cup ToSet(t)
    BY <1>2, <2>1 DEF ToSet
  <2>5. ToSet(s) \subseteq ToSet(c)
    BY <1>1, <2>2 DEF ToSet
  <2>6. ToSet(t) \subseteq ToSet(c)
    BY <1>1, <2>3 DEF ToSet
  <2> QED BY <2>4, <2>5, <2>6
<1>8. Len(c) \in Nat /\ a <= Len(c) /\ DOMAIN c = 1 .. Len(c)
  BY <1>1, <1>2
<1> QED BY <1>1, <1>4, <1>6, <1>7, <1>8 DEF c, a

(* The nodes on or behind a cycle, which come last.                        *)
Unsorted(nodes, es) == ToSet(nodes) \ ToSet(Acyclic(nodes, es))

(* The order holds every node once, a parent before its child unless the   *)
(* child is unsorted; and an unsorted node has an unsorted parent.         *)
THEOREM TopoSorted ==
  ASSUME NEW N, NEW nodes \in Seq(N), IsInjective(nodes), ToSet(nodes) = N,
         NEW es \in Seq(Joining(N)), NEW o, o = TopoSort(nodes, es)
  PROVE  /\ o \in Seq(N) /\ IsInjective(o) /\ ToSet(o) = N /\ Len(o) = Len(nodes)
         /\ \A i, j \in 1 .. Len(o) : \A e \in ToSet(es) :
               o[i] = e.dst /\ o[j] = e.src /\ i <= j => e.dst \in Unsorted(nodes, es)
         /\ \A n \in Unsorted(nodes, es) :
               \E e \in ToSet(es) : e.dst = n /\ e.src \in Unsorted(nodes, es)
<1> DEFINE out == Acyclic(nodes, es)
           U == N \ ToSet(out)
           rest == Among(nodes, U)
<1>1. /\ out \in Seq(N) /\ IsInjective(out)
      /\ \A i \in 1 .. Len(out) : \A e \in ToSet(es) :
            e.dst = out[i] => \E j \in 1 .. i - 1 : out[j] = e.src
      /\ \A n \in N \ ToSet(out) : \E e \in ToSet(es) : e.dst = n /\ e.src \notin ToSet(out)
  BY AcyclicSorted
<1>2. rest \in Seq(N) /\ IsInjective(rest) /\ ToSet(rest) = U
  <2> HIDE DEF U
  <2>1. rest \in Seq(N) /\ ToSet(rest) = ToSet(nodes) \cap U
    BY AmongProperties
  <2>2. IsInjective(rest)
    BY AmongDistinct
  <2> QED BY <2>1, <2>2 DEF U
<1>3. o = out \o rest
  BY DEF TopoSort
<1>4. Unsorted(nodes, es) = U
  BY DEF Unsorted
<1> HIDE DEF out, rest
<1>5. ToSet(out) \subseteq N /\ DOMAIN out = 1 .. Len(out)
  <2>1. DOMAIN out = 1 .. Len(out) /\ \A i \in 1 .. Len(out) : out[i] \in N
    BY <1>1, LenProperties, ElementOfSeq
  <2> QED BY <2>1 DEF ToSet
<1>6. /\ o \in Seq(N) /\ IsInjective(o) /\ ToSet(o) = ToSet(out) \cup ToSet(rest)
      /\ DOMAIN o = 1 .. Len(o) /\ Len(out) <= Len(o)
      /\ Len(o) \in Nat /\ Len(out) \in Nat
      /\ \A i \in 1 .. Len(out) : o[i] = out[i]
  <2>1. ToSet(out) \cap ToSet(rest) = {}
    BY <1>2
  <2> QED BY <1>1, <1>2, <1>3, <2>1, Concatenated
<1>7. ToSet(o) = N
  BY <1>2, <1>5, <1>6
<1>8. Len(o) = Len(nodes)
  <2>1. Cardinality(ToSet(o)) = Len(o)
    BY <1>6, DistinctCardinality
  <2>2. Cardinality(ToSet(nodes)) = Len(nodes)
    BY DistinctCardinality
  <2> QED BY <1>7, <2>1, <2>2
<1>9. ASSUME NEW i \in 1 .. Len(o), NEW j \in 1 .. Len(o), NEW e \in ToSet(es),
             o[i] = e.dst, o[j] = e.src, i <= j
      PROVE  e.dst \in U
  <2> SUFFICES ASSUME e.dst \in ToSet(out) PROVE FALSE
    BY <1>6, <1>7, <1>9 DEF ToSet
  <2>1. PICK a \in 1 .. Len(out) : out[a] = e.dst
    BY <1>5 DEF ToSet
  <2>2. a \in 1 .. Len(o) /\ o[a] = o[i]
    BY <1>6, <1>9, <2>1
  <2>3. a = i
    BY <1>6, <2>2 DEF IsInjective
  <2>4. PICK b \in 1 .. i - 1 : out[b] = e.src
    BY <1>1, <2>1, <2>3
  <2>5. b \in 1 .. Len(o) /\ b \in 1 .. Len(out) /\ b < i
    BY <1>6, <2>1, <2>3
  <2>6. o[b] = o[j]
    BY <1>6, <1>9, <2>4, <2>5
  <2>7. b = j
    BY <1>6, <2>5, <2>6 DEF IsInjective
  <2> QED BY <1>9, <2>5, <2>7
<1>10. ASSUME NEW n \in U PROVE \E e \in ToSet(es) : e.dst = n /\ e.src \in U
  <2>1. PICK e \in ToSet(es) : e.dst = n /\ e.src \notin ToSet(out)
    BY <1>1
  <2>2. e \in Joining(N)
    <3>1. DOMAIN es = 1 .. Len(es) /\ \A i \in 1 .. Len(es) : es[i] \in Joining(N)
      BY LenProperties, ElementOfSeq
    <3> QED BY <3>1 DEF ToSet
  <2>3. e.src \in N
    BY <2>2 DEF Joining
  <2> QED BY <2>1, <2>3
<1> QED BY <1>4, <1>6, <1>7, <1>8, <1>9, <1>10

-----------------------------------------------------------------------------
(* Reachability.                                                           *)

(* No edge of es leaves T; the edges es join nodes of N.                    *)
ClosedUnder(es, T) == \A e \in es : e.src \in T => e.dst \in T
Within(es, N) == \A e \in es : e.src \in N /\ e.dst \in N

(* The recursion of Closure.                                                *)
GrowBody(es, S, nodes, f) ==
  [k \in 0 .. Len(nodes) |-> IF k = 0 THEN S ELSE CHOOSE r \in {Grow(es, acc) : acc \in {f[k - 1]}} : TRUE]
GrowIter(es, S, nodes) == CHOOSE f : f = GrowBody(es, S, nodes, f)

(* A closure is the last value of its recursion ...                        *)
LEMMA GrowUnfold ==
  ASSUME NEW g, NEW S, NEW es
  PROVE  Closure(g, S, es) = GrowIter(es, S, g.nodes)[Len(g.nodes)]
BY DEF Closure, Fold, GrowIter, GrowBody

(* The stages of a closure only grow, and stop only when closed.            *)
Grows(N, es, S, nodes) ==
  /\ GrowIter(es, S, nodes) \in [0 .. Len(nodes) -> SUBSET N]
  /\ GrowIter(es, S, nodes)[0] = S
  /\ \A k \in 1 .. Len(nodes) :
        GrowIter(es, S, nodes)[k] = Grow(es, GrowIter(es, S, nodes)[k - 1])

(* ... which exists, and grows as often as there are nodes.                *)
LEMMA GrowRecursion ==
  ASSUME NEW N, NEW es, Within(es, N), NEW S \in SUBSET N, NEW nodes \in Seq(N)
  PROVE  Grows(N, es, S, nodes)
<1> DEFINE D == SUBSET N
           n == Len(nodes)
           G == [d \in D |-> [k \in 1 .. n |-> Grow(es, d)]]
<1>1. n \in Nat /\ S \in D
  BY LenProperties
<1>2. \A d \in D, k \in 1 .. n : Grow(es, d) \in D
  BY DEF Grow, Within
<1>3. PICK f \in [0 .. n -> D] : f[0] = S /\ \A k \in 1 .. n : f[k] = Grow(es, f[k - 1])
  <2> HIDE DEF D, n
  <2>1. \A d \in D, k \in 1 .. n : G[d][k] = Grow(es, d)
    BY <1>2
  <2> HIDE DEF G
  <2>2. Steps(n, D, G)
    BY <1>2, <2>1 DEF Steps
  <2>3. Unfolds(n, D, S, G)
    BY <1>1, <2>2, RecursionExists
  <2>4. PICK f \in [0 .. n -> D] : Unfolding(n, S, G, f)
    BY <2>3 DEF Unfolds
  <2>5. \A k \in 1 .. n : f[k - 1] \in D
    BY <1>1
  <2>6. f[0] = S /\ \A k \in 1 .. n : f[k] = G[f[k - 1]][k]
    BY <2>4 DEF Unfolding
  <2>7. \A k \in 1 .. n : f[k] = Grow(es, f[k - 1])
    BY <2>1, <2>5, <2>6
  <2> QED BY <2>6, <2>7
<1>4. f = GrowBody(es, S, nodes, f)
  <2>1. \A k \in 0 .. n : f[k] = IF k = 0 THEN S ELSE CHOOSE r \in {Grow(es, acc) : acc \in {f[k - 1]}} : TRUE
    <3> SUFFICES ASSUME NEW k \in 1 .. n PROVE f[k] = CHOOSE r \in {Grow(es, acc) : acc \in {f[k - 1]}} : TRUE
      BY <1>1, <1>3
    <3>1. {Grow(es, acc) : acc \in {f[k - 1]}} = {f[k]}
      BY <1>3
    <3> QED BY <3>1
  <2> HIDE DEF G
  <2> QED BY <2>1 DEF GrowBody
<1> DEFINE g == GrowIter(es, S, nodes)
<1>5. g = GrowBody(es, S, nodes, g)
  BY <1>4 DEF GrowIter
<1> HIDE DEF g
<1>6. \A k \in 0 .. n : g[k] = IF k = 0 THEN S ELSE CHOOSE r \in {Grow(es, acc) : acc \in {g[k - 1]}} : TRUE
  BY <1>5 DEF GrowBody
<1>7. g[0] = S /\ \A k \in 1 .. n : g[k] = Grow(es, g[k - 1])
  <2>1. g[0] = S
    BY <1>1, <1>6
  <2>2. ASSUME NEW k \in 1 .. n PROVE g[k] = Grow(es, g[k - 1])
    <3>1. g[k] = CHOOSE r \in {Grow(es, acc) : acc \in {g[k - 1]}} : TRUE
      BY <1>1, <1>6
    <3>2. {Grow(es, acc) : acc \in {g[k - 1]}} = {Grow(es, g[k - 1])}
      OBVIOUS
    <3> QED BY <3>1, <3>2
  <2> QED BY <2>1, <2>2
<1>8. g \in [0 .. n -> D]
  <2>1. \A k \in Nat : k \in 0 .. n => g[k] \in D
    <3> DEFINE P == {k \in Nat : k \in 0 .. n => g[k] \in D}
    <3>1. 0 \in P
      BY <1>1, <1>7
    <3>2. \A k \in Nat : k \in P => k + 1 \in P
      <4> SUFFICES ASSUME NEW k \in Nat, k \in 0 .. n => g[k] \in D, k + 1 \in 0 .. n
                   PROVE  g[k + 1] \in D
        OBVIOUS
      <4>1. k + 1 \in 1 .. n /\ (k + 1) - 1 = k /\ g[k] \in D
        BY <1>1
      <4>2. g[k + 1] = Grow(es, g[k])
        BY <1>7, <4>1
      <4> QED BY <1>2, <4>1, <4>2
    <3>3. \A k \in Nat : k \in P
      <4> HIDE DEF P
      <4> QED BY <3>1, <3>2, NatSetInduction
    <3> QED BY <3>3
  <2>2. DOMAIN g = 0 .. n /\ g = [k \in 0 .. n |-> g[k]]
    BY <1>5 DEF GrowBody
  <2> QED BY <1>1, <2>1, <2>2
<1> QED BY <1>7, <1>8 DEF g, Grows

(* After as many rounds as there are nodes nothing is left to add: the     *)
(* closure is the least set around S that the edges do not leave.          *)
LEMMA ClosureIsLeast ==
  ASSUME NEW g, NEW N, g.nodes \in Seq(N), IsFiniteSet(N), Cardinality(N) = Len(g.nodes),
         NEW es, Within(es, N), NEW S \in SUBSET N
  PROVE  /\ S \subseteq Closure(g, S, es) /\ Closure(g, S, es) \subseteq N
         /\ ClosedUnder(es, Closure(g, S, es))
         /\ \A T : S \subseteq T /\ ClosedUnder(es, T) => Closure(g, S, es) \subseteq T
<1> DEFINE nodes == g.nodes
           f == GrowIter(es, S, nodes)
           m == Len(nodes)
           Ok(k) == /\ S \subseteq f[k] /\ f[k] \subseteq N
                    /\ \A T : S \subseteq T /\ ClosedUnder(es, T) => f[k] \subseteq T
                    /\ ClosedUnder(es, f[k]) \/ Cardinality(f[k]) >= k
           P == {k \in Nat : k <= m => Ok(k)}
<1>1. m \in Nat /\ nodes \in Seq(N)
  BY LenProperties
<1>3. Closure(g, S, es) = f[m]
  BY GrowUnfold
<1>9. Cardinality(N) = m
  OBVIOUS
<1> HIDE DEF nodes
<1>2. /\ f \in [0 .. m -> SUBSET N] /\ f[0] = S
      /\ \A k \in 1 .. m : f[k] = Grow(es, f[k - 1])
  <2>1. Grows(N, es, S, nodes)
    BY <1>1, GrowRecursion
  <2> QED BY <2>1 DEF Grows
<1> HIDE DEF f, m
<1>4. 0 \in P
  <2>1. IsFiniteSet(S)
    BY FS_Subset
  <2>2. Cardinality(S) \in Nat
    BY <2>1, FS_CardinalityType
  <2>3. Cardinality(f[0]) >= 0
    BY <1>2, <2>2
  <2> QED BY <1>2, <2>3
<1>5. ASSUME NEW k \in Nat, k \in P PROVE k + 1 \in P
  <2> SUFFICES ASSUME k + 1 <= m PROVE Ok(k + 1)
    OBVIOUS
  <2> DEFINE A == f[k]
             B == f[k + 1]
  <2>1. k + 1 \in 1 .. m /\ (k + 1) - 1 = k
    BY <1>1
  <2>2. B = Grow(es, A)
    BY <1>2, <2>1
  <2>3. Ok(k)
    BY <1>1, <1>5
  <2>4. /\ S \subseteq A /\ A \subseteq N
        /\ \A T : S \subseteq T /\ ClosedUnder(es, T) => A \subseteq T
        /\ ClosedUnder(es, A) \/ Cardinality(A) >= k
    BY <2>3
  <2> HIDE DEF A, B
  <2>5. A \subseteq B /\ B \subseteq N /\ S \subseteq B
    BY <2>2, <2>4 DEF Grow, Within
  <2>6. ASSUME NEW T, S \subseteq T, ClosedUnder(es, T) PROVE B \subseteq T
    BY <2>2, <2>4, <2>6 DEF Grow, ClosedUnder
  <2>7. ClosedUnder(es, B) \/ Cardinality(B) >= k + 1
    <3>1. CASE ClosedUnder(es, A)
      <4>1. B = A
        BY <2>2, <3>1 DEF Grow, ClosedUnder
      <4> QED BY <3>1, <4>1
    <3>2. CASE ~ClosedUnder(es, A)
      <4>1. PICK e \in es : e.src \in A /\ e.dst \notin A
        BY <3>2 DEF ClosedUnder
      <4>2. e.dst \in B
        BY <2>2, <4>1 DEF Grow
      <4>3. IsFiniteSet(A) /\ IsFiniteSet(B)
        BY <2>4, <2>5, FS_Subset
      <4>4. Cardinality(A) \in Nat /\ Cardinality(B) \in Nat
        BY <4>3, FS_CardinalityType
      <4>5. A \cup {e.dst} \subseteq B
        BY <2>5, <4>2
      <4>6. Cardinality(A \cup {e.dst}) = Cardinality(A) + 1
        BY <4>1, <4>3, FS_AddElement
      <4>7. Cardinality(A \cup {e.dst}) <= Cardinality(B)
        BY <4>3, <4>5, FS_Subset
      <4>8. Cardinality(A) >= k
        BY <2>4, <3>2
      <4> QED BY <4>4, <4>6, <4>7, <4>8
    <3> QED BY <3>1, <3>2
  <2> QED BY <2>5, <2>6, <2>7 DEF B
<1>6. \A k \in Nat : k \in P
  <2> HIDE DEF P
  <2> QED BY <1>4, <1>5, NatSetInduction
<1>7. Ok(m)
  <2> HIDE DEF Ok
  <2> QED BY <1>1, <1>6
<1>8. ClosedUnder(es, f[m])
  <2> SUFFICES ASSUME Cardinality(f[m]) >= m PROVE ClosedUnder(es, f[m])
    BY <1>7
  <2> DEFINE C == f[m]
  <2>0. C \subseteq N /\ Cardinality(C) >= Cardinality(N)
    BY <1>7, <1>9
  <2> HIDE DEF C
  <2>1. Cardinality(C) <= Cardinality(N) /\ IsFiniteSet(C)
    BY <2>0, FS_Subset
  <2>2. Cardinality(C) \in Nat /\ Cardinality(N) \in Nat
    BY <2>1, FS_CardinalityType
  <2>3. Cardinality(C) = Cardinality(N)
    BY <2>0, <2>1, <2>2
  <2>4. C = N
    BY <2>0, <2>3, FS_Subset
  <2> QED BY <2>4 DEF C, ClosedUnder, Within
<1> QED BY <1>3, <1>7, <1>8

(* What a well-formed graph gives the closures.                            *)
LEMMA EdgesWithin ==
  ASSUME NEW g, WellFormed(g)
  PROVE  /\ Within(EdgeSet(g), NodeSet(g))
         /\ Within(EdgeSet(g) \cup Reversed(EdgeSet(g)), NodeSet(g))
         /\ \A e \in EdgeSet(g) \cup Reversed(EdgeSet(g)) :
               \E r \in EdgeSet(g) \cup Reversed(EdgeSet(g)) : r.src = e.dst /\ r.dst = e.src
<1> DEFINE E == EdgeSet(g)
           R == Reversed(E)
<1>1. \A e \in E : e \in Joining(NodeSet(g))
  BY GraphParts
<1> HIDE DEF E
<1>2. \A e \in E : [e EXCEPT !.src = e.dst, !.dst = e.src].src = e.dst
                   /\ [e EXCEPT !.src = e.dst, !.dst = e.src].dst = e.src
                   /\ [e EXCEPT !.src = e.dst, !.dst = e.src] \in R
  BY <1>1 DEF Joining, Reversed
<1>3. \A r \in R : \E e \in E : r.src = e.dst /\ r.dst = e.src
  BY ZenonT(30), <1>2 DEF Reversed
<1>4. Within(E, NodeSet(g))
  BY <1>1 DEF Within, Joining
<1>5. Within(E \cup R, NodeSet(g))
  BY <1>3, <1>4 DEF Within
<1>6. \A e \in E \cup R : \E r \in E \cup R : r.src = e.dst /\ r.dst = e.src
  BY <1>2, <1>3
<1> QED BY <1>4, <1>5, <1>6 DEF E

(* Reaching: along at least one edge, transitively.                        *)
THEOREM Reaching ==
  ASSUME NEW g, WellFormed(g), NEW n \in NodeSet(g)
  PROVE  /\ ReachableFrom(g, n) \subseteq NodeSet(g)
         /\ ClosedUnder(EdgeSet(g), ReachableFrom(g, n))
         /\ \A e \in EdgeSet(g) : e.src = n => e.dst \in ReachableFrom(g, n)
         /\ \A T : (\A e \in EdgeSet(g) : e.src = n => e.dst \in T) /\ ClosedUnder(EdgeSet(g), T)
                     => ReachableFrom(g, n) \subseteq T
<1> DEFINE N == NodeSet(g)
           E == EdgeSet(g)
           S == {e.dst : e \in ToSet(OutEdges(g, n))}
<1>1. /\ g.nodes \in Seq(N) /\ IsFiniteSet(N) /\ Cardinality(N) = Len(g.nodes)
      /\ ToSet(OutEdges(g, n)) = {e \in E : e.src = n}
      /\ \A e \in E : e.src \in N /\ e.dst \in N
  BY GraphParts
<1>2. S \in SUBSET N /\ \A T : S \subseteq T <=> \A e \in E : e.src = n => e.dst \in T
  BY <1>1
<1>3. Within(E, N)
  BY EdgesWithin
<1>4. ReachableFrom(g, n) = Closure(g, S, E)
  BY DEF ReachableFrom
<1> HIDE DEF N, E, S
<1>5. /\ S \subseteq Closure(g, S, E) /\ Closure(g, S, E) \subseteq N
      /\ ClosedUnder(E, Closure(g, S, E))
      /\ \A T : S \subseteq T /\ ClosedUnder(E, T) => Closure(g, S, E) \subseteq T
  BY <1>1, <1>2, <1>3, ClosureIsLeast
<1> QED BY <1>2, <1>4, <1>5 DEF N, E

(* ... what is reached reaches no more.                                    *)
LEMMA ReachesFurther ==
  ASSUME NEW g, WellFormed(g), NEW n \in NodeSet(g), NEW m \in ReachableFrom(g, n)
  PROVE  ReachableFrom(g, m) \subseteq ReachableFrom(g, n)
<1> DEFINE T == ReachableFrom(g, n)
<1>1. m \in NodeSet(g) /\ ClosedUnder(EdgeSet(g), T)
  BY Reaching
<1>2. \A e \in EdgeSet(g) : e.src = m => e.dst \in T
  BY <1>1 DEF ClosedUnder
<1> HIDE DEF T
<1>3. ReachableFrom(g, m) \subseteq T
  BY <1>1, <1>2, Reaching
<1> QED BY <1>3 DEF T

(* A node whose ancestors all have an ancestor among them is behind a      *)
(* cycle: take one with the fewest; its parent has no fewer, so is its own.*)
LEMMA BehindSomeCycle ==
  ASSUME NEW g, WellFormed(g), NEW U \in SUBSET NodeSet(g),
         \A n \in U : \E e \in EdgeSet(g) : e.dst = n /\ e.src \in U,
         NEW n \in U
  PROVE  \E m \in NodeSet(g) : m \in ReachableFrom(g, m) /\ n \in ReachableFrom(g, m)
<1> DEFINE A(x) == {m \in U : x \in ReachableFrom(g, m)}
<1>1. \A x \in U : \E p \in U : p \in A(x)
  <2> SUFFICES ASSUME NEW x \in U PROVE \E p \in U : x \in ReachableFrom(g, p)
    OBVIOUS
  <2>1. PICK e \in EdgeSet(g) : e.dst = x /\ e.src \in U
    OBVIOUS
  <2>2. e.dst \in ReachableFrom(g, e.src)
    BY <2>1, Reaching
  <2> QED BY <2>1, <2>2
<1>2. \A x, y, z \in U : x \in A(y) /\ y \in A(z) => x \in A(z)
  <2> SUFFICES ASSUME NEW x \in U, NEW y \in U, NEW z \in U,
                      y \in ReachableFrom(g, x), z \in ReachableFrom(g, y)
               PROVE  z \in ReachableFrom(g, x)
    OBVIOUS
  <2>1. ReachableFrom(g, y) \subseteq ReachableFrom(g, x)
    BY ReachesFurther
  <2> QED BY <2>1
<1>3. \A x : IsFiniteSet(A(x)) /\ Cardinality(A(x)) \in Nat /\ A(x) \subseteq U
  <2>1. IsFiniteSet(U)
    BY GraphParts, FS_Subset
  <2>2. \A x : A(x) \subseteq U
    OBVIOUS
  <2> HIDE DEF A
  <2> QED BY <2>1, <2>2, FS_Subset, FS_CardinalityType
<1> DEFINE Sizes == {Cardinality(A(m)) : m \in A(n)}
<1>4. Sizes \subseteq Nat /\ Sizes # {}
  <2> HIDE DEF A
  <2> QED BY <1>1, <1>3
<1>5. PICK size \in Sizes : \A other \in Sizes : size <= other
  <2> HIDE DEF Sizes
  <2> QED BY <1>4, LeastNumber
<1>6. PICK m \in A(n) : Cardinality(A(m)) = size
  <2> HIDE DEF A
  <2> QED BY <1>5
<1>7. m \in U
  OBVIOUS
<1>8. PICK p \in U : p \in A(m)
  <2> HIDE DEF A
  <2> QED BY <1>1, <1>7
<1> HIDE DEF A
<1>9. p \in A(n)
  BY <1>2, <1>6, <1>7, <1>8
<1>10. A(p) \subseteq A(m)
  BY <1>2, <1>3, <1>7, <1>8
<1>11. Cardinality(A(m)) <= Cardinality(A(p))
  BY <1>5, <1>6, <1>9
<1>12. A(p) = A(m)
  <2> DEFINE P == A(p)
             M == A(m)
  <2>1. P \subseteq M /\ IsFiniteSet(M) /\ Cardinality(M) <= Cardinality(P)
        /\ Cardinality(M) \in Nat /\ Cardinality(P) \in Nat
    BY <1>3, <1>10, <1>11
  <2> HIDE DEF P, M
  <2>2. Cardinality(P) <= Cardinality(M)
    BY <2>1, FS_Subset
  <2>3. Cardinality(P) = Cardinality(M)
    BY <2>1, <2>2
  <2>4. P = M
    BY <2>1, <2>3, FS_Subset
  <2> QED BY <2>4 DEF P, M
<1>13. p \in ReachableFrom(g, p) /\ n \in ReachableFrom(g, p)
  BY <1>8, <1>9, <1>12 DEF A
<1> QED BY <1>13

(* Connected components: closed both ways, so they share all or nothing.   *)
LEMMA Connected ==
  ASSUME NEW g, WellFormed(g), NEW n \in NodeSet(g)
  PROVE  /\ n \in ConnectedComponent(g, n) /\ ConnectedComponent(g, n) \subseteq NodeSet(g)
         /\ ClosedUnder(EdgeSet(g) \cup Reversed(EdgeSet(g)), ConnectedComponent(g, n))
         /\ \A T : n \in T /\ ClosedUnder(EdgeSet(g) \cup Reversed(EdgeSet(g)), T)
                     => ConnectedComponent(g, n) \subseteq T
<1> DEFINE N == NodeSet(g)
           E == EdgeSet(g) \cup Reversed(EdgeSet(g))
           S == {n}
<1>1. g.nodes \in Seq(N) /\ IsFiniteSet(N) /\ Cardinality(N) = Len(g.nodes)
  BY GraphParts
<1>2. S \in SUBSET N /\ \A T : S \subseteq T <=> n \in T
  OBVIOUS
<1>3. Within(E, N)
  BY EdgesWithin
<1>4. ConnectedComponent(g, n) = Closure(g, S, E)
  BY DEF ConnectedComponent
<1> HIDE DEF N, E, S
<1>5. /\ S \subseteq Closure(g, S, E) /\ Closure(g, S, E) \subseteq N
      /\ ClosedUnder(E, Closure(g, S, E))
      /\ \A T : S \subseteq T /\ ClosedUnder(E, T) => Closure(g, S, E) \subseteq T
  BY <1>1, <1>2, <1>3, ClosureIsLeast
<1> QED BY <1>2, <1>4, <1>5 DEF N, E

(* ... every node of a component has that component.                       *)
LEMMA SameComponent ==
  ASSUME NEW g, WellFormed(g), NEW n \in NodeSet(g), NEW m \in ConnectedComponent(g, n)
  PROVE  ConnectedComponent(g, m) = ConnectedComponent(g, n)
<1> DEFINE N == NodeSet(g)
           E == EdgeSet(g) \cup Reversed(EdgeSet(g))
           Cn == ConnectedComponent(g, n)
           Cm == ConnectedComponent(g, m)
           T == N \ Cm
<1>1. /\ n \in Cn /\ Cn \subseteq N /\ ClosedUnder(E, Cn)
      /\ \A V : n \in V /\ ClosedUnder(E, V) => Cn \subseteq V
  BY Connected
<1>2. /\ m \in Cm /\ Cm \subseteq N /\ ClosedUnder(E, Cm)
      /\ \A V : m \in V /\ ClosedUnder(E, V) => Cm \subseteq V
  BY <1>1, Connected
<1>3. Within(E, N) /\ \A e \in E : \E r \in E : r.src = e.dst /\ r.dst = e.src
  BY EdgesWithin
<1> HIDE DEF N, E, Cn, Cm
<1>4. m \in Cn
  BY DEF Cn
<1>5. Cm \subseteq Cn
  BY <1>1, <1>2, <1>4
<1>6. ClosedUnder(E, T)
  <2> SUFFICES ASSUME NEW e \in E, e.src \in T, e.dst \notin T PROVE FALSE
    BY DEF ClosedUnder
  <2>1. e.dst \in Cm
    BY <1>3 DEF Within
  <2>2. PICK r \in E : r.src = e.dst /\ r.dst = e.src
    BY <1>3
  <2>3. e.src \in Cm
    BY <1>2, <2>1, <2>2 DEF ClosedUnder
  <2> QED BY <2>3
<1>7. n \in Cm
  <2> SUFFICES ASSUME n \in T PROVE FALSE
    BY <1>1
  <2> HIDE DEF T
  <2>1. Cn \subseteq T
    BY <1>1, <1>6
  <2>2. m \in T
    BY <1>4, <2>1
  <2> QED BY <1>2, <2>2 DEF T
<1>8. Cn \subseteq Cm
  BY <1>1, <1>2, <1>7
<1> QED BY <1>5, <1>8 DEF Cn, Cm

(* What a node reaches is in its component.                                *)
LEMMA ReachesInComponent ==
  ASSUME NEW g, WellFormed(g), NEW n \in NodeSet(g), NEW m \in NodeSet(g),
         m \in ConnectedComponent(g, n)
  PROVE  /\ ReachableFrom(g, m) \subseteq ConnectedComponent(g, n)
         /\ \A e \in EdgeSet(g) : (e.src = m => e.dst \in ConnectedComponent(g, n))
                                  /\ (e.dst = m => e.src \in ConnectedComponent(g, n))
<1> DEFINE T == ConnectedComponent(g, n)
           E == EdgeSet(g)
           R == Reversed(EdgeSet(g))
<1>1. m \in T /\ ClosedUnder(E \cup R, T)
  BY Connected
<1>2. \A e \in E \cup R : \E r \in E \cup R : r.src = e.dst /\ r.dst = e.src
  BY EdgesWithin
<1>3. ClosedUnder(E, T)
  BY <1>1 DEF ClosedUnder
<1>4. ASSUME NEW e \in E
      PROVE  (e.src = m => e.dst \in T) /\ (e.dst = m => e.src \in T)
  <2>1. PICK r \in E \cup R : r.src = e.dst /\ r.dst = e.src
    BY <1>2
  <2> QED BY <1>1, <1>3, <2>1 DEF ClosedUnder
<1> HIDE DEF T
<1>5. ReachableFrom(g, m) \subseteq T
  BY <1>3, <1>4, Reaching
<1> QED BY <1>4, <1>5 DEF T

(* The graph chosen to run is a component: the entry's, or one that no      *)
(* other outgrows.                                                         *)
THEOREM RunnableIsComponent ==
  ASSUME NEW g, WellFormed(g), NodeSet(g) # {}
  PROVE  \E n \in NodeSet(g) :
            /\ RunnableNodes(g) = ConnectedComponent(g, n)
            /\ g.entry \in NodeSet(g) => n = g.entry
            /\ g.entry \notin NodeSet(g) =>
                  \A m \in NodeSet(g) : Cardinality(ConnectedComponent(g, m))
                                          <= Cardinality(ConnectedComponent(g, n))
<1>1. CASE g.entry \in NodeSet(g)
  BY <1>1 DEF RunnableNodes
<1>2. CASE g.entry \notin NodeSet(g)
  <2> DEFINE N == NodeSet(g)
             C(n) == ConnectedComponent(g, n)
             comps == {C(n) : n \in N}
             first(c) == CHOOSE k \in DOMAIN g.nodes :
                            g.nodes[k] \in c /\ \A j \in 1 .. k - 1 : g.nodes[j] \notin c
             Largest(c) == \A d \in comps \ {c} :
                              \/ Cardinality(c) > Cardinality(d)
                              \/ Cardinality(c) = Cardinality(d) /\ first(c) < first(d)
             size == Cardinality(N)
  <2>1. /\ IsFiniteSet(N) /\ g.nodes \in Seq(N) /\ Len(g.nodes) \in Nat
        /\ DOMAIN g.nodes = 1 .. Len(g.nodes)
        /\ \A n \in N : \E k \in 1 .. Len(g.nodes) : g.nodes[k] = n
        /\ \A k \in 1 .. Len(g.nodes) : g.nodes[k] \in N
    <3>1. /\ IsFiniteSet(N) /\ g.nodes \in Seq(N) /\ Len(g.nodes) \in Nat
          /\ DOMAIN g.nodes = 1 .. Len(g.nodes)
      BY GraphParts
    <3>2. N = {g.nodes[k] : k \in DOMAIN g.nodes}
      BY DEF NodeSet, ToSet
    <3> HIDE DEF N
    <3> QED BY <3>1, <3>2
  <2>0. 1 .. Len(g.nodes) \subseteq Nat /\ \A k \in 1 .. Len(g.nodes) : k \in Nat /\ k >= 1
    OBVIOUS
  <2>2. \A n \in N : n \in C(n) /\ C(n) \subseteq N
    BY Connected
  <2>3. \A n \in N : \A m \in C(n) : C(m) = C(n)
    BY SameComponent
  <2>4. RunnableNodes(g) = CHOOSE c \in comps : Largest(c)
    BY <1>2 DEF RunnableNodes
  <2> HIDE DEF N, C
  <2>5. \A n \in N : IsFiniteSet(C(n)) /\ Cardinality(C(n)) \in 0 .. size /\ size \in Nat
    <3> SUFFICES ASSUME NEW n \in N
                 PROVE  IsFiniteSet(C(n)) /\ Cardinality(C(n)) \in 0 .. size /\ size \in Nat
      OBVIOUS
    <3> DEFINE c == C(n)
    <3>1. c \subseteq N
      BY <2>2
    <3> HIDE DEF c
    <3>2. IsFiniteSet(c) /\ Cardinality(c) <= size /\ size \in Nat
      BY <2>1, <3>1, FS_Subset, FS_CardinalityType
    <3>3. Cardinality(c) \in Nat
      BY <3>2, FS_CardinalityType
    <3>4. IsFiniteSet(c) /\ Cardinality(c) \in 0 .. size /\ size \in Nat
      BY <3>2, <3>3
    <3> QED BY <3>4 DEF c
  <2> HIDE DEF size
  <2>6. PICK x \in N : TRUE
    BY DEF N
  <2> DEFINE Gaps == {size - Cardinality(C(n)) : n \in N}
  <2>7. PICK n \in N : \A m \in N : Cardinality(C(m)) <= Cardinality(C(n))
    <3>1. Gaps \subseteq Nat /\ Gaps # {}
      BY <2>5, <2>6
    <3>2. PICK gap \in Gaps : \A other \in Gaps : gap <= other
      <4> HIDE DEF Gaps
      <4> QED BY <3>1, LeastNumber
    <3>3. PICK n \in N : gap = size - Cardinality(C(n))
      OBVIOUS
    <3>4. \A m \in N : size - Cardinality(C(n)) <= size - Cardinality(C(m))
      BY <3>2, <3>3
    <3>5. \A m \in N : Cardinality(C(m)) <= Cardinality(C(n))
      BY <2>5, <3>4
    <3> QED BY <3>5
  <2> DEFINE most == Cardinality(C(n))
             W == {k \in 1 .. Len(g.nodes) : Cardinality(C(g.nodes[k])) = most}
  <2>8. PICK k0 \in W : \A k \in W : k0 <= k
    <3>1. W \subseteq Nat /\ W # {}
      <4>1. PICK k \in 1 .. Len(g.nodes) : g.nodes[k] = n
        BY <2>1
      <4>2. k \in W
        BY <4>1
      <4> QED BY <2>0, <4>2
    <3> HIDE DEF W
    <3> QED BY <3>1, LeastNumber
  <2>17. W \subseteq 1 .. Len(g.nodes) /\ \A k \in W : k \in Nat /\ k >= 1
    <3>1. W \subseteq 1 .. Len(g.nodes)
      OBVIOUS
    <3> HIDE DEF W
    <3> QED BY <2>0, <3>1
  <2> DEFINE c0 == C(g.nodes[k0])
  <2>9. k0 \in 1 .. Len(g.nodes) /\ g.nodes[k0] \in N /\ Cardinality(c0) = most /\ c0 \in comps
    BY <2>1, <2>8
  <2>10. ASSUME NEW d \in comps, Cardinality(d) = most
         PROVE  /\ first(d) \in 1 .. Len(g.nodes) /\ g.nodes[first(d)] \in d
                /\ \A j \in 1 .. first(d) - 1 : g.nodes[j] \notin d
                /\ C(g.nodes[first(d)]) = d /\ first(d) \in W
    <3>1. PICK m \in N : d = C(m)
      OBVIOUS
    <3> DEFINE Here == {k \in 1 .. Len(g.nodes) : g.nodes[k] \in d}
    <3>2. Here # {} /\ Here \subseteq Nat
      <4>1. PICK k \in 1 .. Len(g.nodes) : g.nodes[k] = m
        BY <2>1
      <4>2. m \in d
        BY <2>2, <3>1
      <4>3. k \in Here
        BY <4>1, <4>2
      <4> QED BY <2>0, <4>3
    <3>3. PICK k \in Here : \A j \in Here : k <= j
      <4> HIDE DEF Here
      <4> QED BY <3>2, LeastNumber
    <3>4. \A j \in 1 .. k - 1 : g.nodes[j] \notin d
      <4> SUFFICES ASSUME NEW j \in 1 .. k - 1, g.nodes[j] \in d PROVE FALSE
        OBVIOUS
      <4>1. k \in Nat /\ k <= Len(g.nodes)
        BY <2>1
      <4>2. j \in 1 .. Len(g.nodes) /\ j < k /\ j \in Nat
        BY <2>1, <4>1
      <4>3. j \in Here
        BY <4>2
      <4>4. k <= j
        <5> HIDE DEF Here
        <5> QED BY <3>3, <4>3
      <4> QED BY <4>1, <4>2, <4>4
    <3>5. k \in DOMAIN g.nodes /\ g.nodes[k] \in d
      BY <2>1
    <3>6. /\ first(d) \in DOMAIN g.nodes /\ g.nodes[first(d)] \in d
          /\ \A j \in 1 .. first(d) - 1 : g.nodes[j] \notin d
      BY <3>4, <3>5
    <3> HIDE DEF first
    <3>7. C(g.nodes[first(d)]) = d
      BY <2>3, <3>1, <3>6
    <3>8. first(d) \in W
      BY <2>1, <2>10, <3>6, <3>7
    <3> QED BY <2>1, <3>6, <3>7, <3>8
  <2> HIDE DEF first
  <2>11. first(c0) = k0
    <3>1. first(c0) \in W /\ g.nodes[first(c0)] \in c0
          /\ \A j \in 1 .. first(c0) - 1 : g.nodes[j] \notin c0
      BY <2>9, <2>10
    <3>2. first(c0) >= k0 /\ first(c0) \in Nat /\ k0 \in Nat /\ k0 >= 1
      <4> HIDE DEF W
      <4> QED BY <2>8, <2>17, <3>1
    <3>3. g.nodes[k0] \in c0
      BY <2>2, <2>9
    <3>4. ~(k0 \in 1 .. first(c0) - 1)
      BY <3>1, <3>3
    <3> QED BY <3>2, <3>4
  <2>12. Largest(c0)
    <3> SUFFICES ASSUME NEW d \in comps, d # c0
                 PROVE  \/ Cardinality(c0) > Cardinality(d)
                        \/ Cardinality(c0) = Cardinality(d) /\ first(c0) < first(d)
      OBVIOUS
    <3>1. PICK m \in N : d = C(m)
      OBVIOUS
    <3>2. Cardinality(d) <= most /\ Cardinality(d) \in Nat /\ most \in Nat
      BY <2>5, <2>7, <3>1
    <3>3. CASE Cardinality(d) = most
      <4>1. C(g.nodes[first(d)]) = d /\ first(d) \in W
        BY <2>10, <3>3
      <4>2. first(d) # k0
        BY <4>1
      <4>3. first(d) \in Nat /\ k0 \in Nat /\ k0 <= first(d)
        <5> HIDE DEF W
        <5> QED BY <2>8, <2>17, <4>1
      <4> QED BY <2>9, <2>11, <3>3, <4>2, <4>3
    <3>4. CASE Cardinality(d) # most
      BY <2>9, <3>2, <3>4
    <3> QED BY <3>3, <3>4
  <2> DEFINE r == CHOOSE c \in comps : Largest(c)
  <2>13. r \in comps /\ Largest(r)
    BY <2>9, <2>12
  <2> HIDE DEF r
  <2>14. PICK m \in N : r = C(m)
    BY <2>13
  <2>15. \A k \in N : Cardinality(C(k)) <= Cardinality(C(m))
    <3> SUFFICES ASSUME NEW k \in N PROVE Cardinality(C(k)) <= Cardinality(r)
      BY <2>14
    <3>1. CASE C(k) = r
      BY <2>5, <2>14, <3>1
    <3>2. CASE C(k) # r
      <4>1. C(k) \in comps \ {r}
        BY <3>2
      <4>2. Cardinality(r) > Cardinality(C(k)) \/ Cardinality(r) = Cardinality(C(k))
        BY <2>13, <4>1
      <4> QED BY <2>5, <2>14, <4>2
    <3> QED BY <3>1, <3>2
  <2>16. RunnableNodes(g) = C(m)
    BY <2>4, <2>14 DEF r
  <2> QED BY <1>2, <2>15, <2>16 DEF N, C
<1> QED BY <1>1, <1>2
-----------------------------------------------------------------------------
(* The types of the run's state, and where a run stands.                    *)

(* The outcomes of a decision, and the records of a loop and a gate.        *)
Handles == {"open", "yes", "no", "none"}
Iterations(N) == [loop : N, items : Nat, item : Nat, pos : Nat \ {0}, ran : SUBSET N,
                  decided : [N -> Handles], outputs : [N -> Nat]]
Gates(N) == [node : N, attempt : Nat, shown : Nat]

(* The graph and its orders, which no step changes.                        *)
GraphFixed ==
  /\ WellFormed(graph)
  /\ order = TopoSort(graph.nodes, graph.edges)
  /\ bodyOrder = [n \in {m \in NodeSet(graph) : graph.kind[m] = "loop"} |->
                    BodySort(graph, ReachableFrom(graph, n))]

(* The ranges of the variables.                                             *)
Typed ==
  /\ runStatus \in {"running", "completed", "error"}
  /\ cursor \in 1 .. Len(order) + 1
  /\ enabled \subseteq NodeSet(graph) /\ executed \subseteq NodeSet(graph)
  /\ rejected \subseteq NodeSet(graph)
  /\ loopHandled \subseteq NodeSet(graph) /\ stale \subseteq NodeSet(graph)
  /\ ran \in Seq(NodeSet(graph)) /\ outputs \in [NodeSet(graph) -> Nat]
  /\ decided \in [NodeSet(graph) -> Handles]
  /\ reviewed \in [NodeSet(graph) -> Nat] /\ execs \in Nat
  /\ iter # NoIter => iter \in Iterations(NodeSet(graph)) /\ iter.item \in 1 .. iter.items + 1
  /\ gate # NoGate => /\ gate \in Gates(NodeSet(graph))
                      /\ gate.attempt \in 1 .. MaxApprovalRetries + 1

(* Whom the run waits for: a loop or a gate in progress is the next node   *)
(* of the main loop, or of the body.                                       *)
Placed ==
  /\ runStatus # "running" => gate = NoGate /\ ~InBody
  /\ InBody => /\ ~Single /\ graph.kind[iter.loop] = "loop"
               /\ Remaining # {} /\ iter.loop = order[NextIndex]
  /\ gate # NoGate => /\ graph.kind[gate.node] = "approval"
                      /\ InBody => gate.node \in Body /\ iter.item <= iter.items
                      /\ ~InBody /\ ~Single => Remaining # {} /\ gate.node = order[NextIndex]

(* A running run has not reported its end; one that ended has, once.       *)
Logged == IF runStatus = "running" THEN Open(runLog, NodeSet(graph))
          ELSE Closed(runLog, NodeSet(graph))

(* The inductive invariant of the engine.                                   *)
GraphInv == GraphFixed /\ Typed /\ Placed /\ Logged

(* The order of a run's nodes.                                             *)
LEMMA OrderOfNodes ==
  ASSUME GraphFixed
  PROVE  /\ order \in Seq(NodeSet(graph)) /\ IsInjective(order)
         /\ ToSet(order) = NodeSet(graph) /\ Len(order) = Len(graph.nodes)
         /\ Len(order) \in Nat /\ DOMAIN order = 1 .. Len(order)
         /\ \A k \in 1 .. Len(order) : order[k] \in NodeSet(graph)
<1>1. /\ graph.nodes \in Seq(NodeSet(graph)) /\ IsInjective(graph.nodes)
      /\ ToSet(graph.nodes) = NodeSet(graph) /\ graph.edges \in Seq(Joining(NodeSet(graph)))
      /\ order = TopoSort(graph.nodes, graph.edges)
  BY DEF GraphFixed, WellFormed, NodeSet, Joining
<1>2. /\ order \in Seq(NodeSet(graph)) /\ IsInjective(order)
      /\ ToSet(order) = NodeSet(graph) /\ Len(order) = Len(graph.nodes)
  BY <1>1, TopoSorted
<1>3. /\ Len(order) \in Nat /\ DOMAIN order = 1 .. Len(order)
      /\ \A k \in 1 .. Len(order) : order[k] \in NodeSet(graph)
  BY <1>2, LenProperties, ElementOfSeq
<1> QED BY <1>2, <1>3

(* The body of a loop is sorted over what its loop node reaches and the    *)
(* edges that join them.                                                   *)
LEMMA BodyIsSorted ==
  ASSUME GraphFixed, NEW n \in NodeSet(graph), graph.kind[n] = "loop",
         NEW B, B = ReachableFrom(graph, n)
  PROVE  /\ B \subseteq NodeSet(graph)
         /\ \E ns \in Seq(B), es \in Seq(Joining(B)) :
               /\ bodyOrder[n] = TopoSort(ns, es) /\ IsInjective(ns) /\ ToSet(ns) = B
               /\ ToSet(es) = {e \in EdgeSet(graph) : {e.src, e.dst} \subseteq B}
<1> DEFINE In == {e \in EdgeSet(graph) : {e.src, e.dst} \subseteq B}
           ns == Among(graph.nodes, B)
           es == Among(graph.edges, In)
<1>1. WellFormed(graph) /\ bodyOrder[n] = BodySort(graph, B)
  BY DEF GraphFixed
<1>2. B \subseteq NodeSet(graph)
  BY <1>1, Reaching
<1>3. bodyOrder[n] = TopoSort(ns, es)
  BY <1>1 DEF BodySort
<1>4. /\ graph.nodes \in Seq(NodeSet(graph)) /\ IsInjective(graph.nodes)
      /\ ToSet(graph.nodes) = NodeSet(graph) /\ graph.edges \in Seq(EdgeSet(graph))
      /\ ToSet(graph.edges) = EdgeSet(graph) /\ EdgeSet(graph) \subseteq Joining(NodeSet(graph))
  BY <1>1, GraphParts DEF WellFormed, NodeSet, EdgeSet
<1>5. In \subseteq EdgeSet(graph) /\ In \subseteq Joining(B)
  BY <1>4 DEF Joining
<1> HIDE DEF In
<1>6. ns \in Seq(ToSet(ns)) /\ ToSet(ns) = NodeSet(graph) \cap B /\ IsInjective(ns)
  BY <1>4, AmongOver, AmongProperties, AmongDistinct
<1>7. es \in Seq(ToSet(es)) /\ ToSet(es) = EdgeSet(graph) \cap In
  BY <1>4, AmongOver, AmongProperties
<1> HIDE DEF ns, es
<1>8. ns \in Seq(B) /\ ToSet(ns) = B
  BY <1>2, <1>6
<1>9. es \in Seq(Joining(B)) /\ ToSet(es) = In
  BY <1>5, <1>7, SeqMonotonic
<1> QED BY <1>2, <1>3, <1>6, <1>8, <1>9 DEF In

(* The body of a loop holds what its loop node reaches, each node once.    *)
LEMMA BodyOfLoop ==
  ASSUME GraphFixed, NEW n \in NodeSet(graph), graph.kind[n] = "loop"
  PROVE  /\ bodyOrder[n] \in Seq(NodeSet(graph)) /\ Len(bodyOrder[n]) \in Nat
         /\ ToSet(bodyOrder[n]) = ReachableFrom(graph, n)
         /\ ReachableFrom(graph, n) \subseteq NodeSet(graph)
         /\ DOMAIN bodyOrder[n] = 1 .. Len(bodyOrder[n])
         /\ \A k \in 1 .. Len(bodyOrder[n]) : bodyOrder[n][k] \in ReachableFrom(graph, n)
         /\ IsInjective(bodyOrder[n])
<1> DEFINE B == ReachableFrom(graph, n)
           b == bodyOrder[n]
<1> HIDE DEF B
<1>1. /\ B \subseteq NodeSet(graph)
      /\ \E ns \in Seq(B), es \in Seq(Joining(B)) :
            b = TopoSort(ns, es) /\ IsInjective(ns) /\ ToSet(ns) = B
  BY BodyIsSorted DEF B
<1> HIDE DEF b
<1>2. b \in Seq(B) /\ ToSet(b) = B /\ IsInjective(b)
  BY <1>1, TopoSorted
<1>3. b \in Seq(NodeSet(graph))
  BY <1>1, <1>2, SeqMonotonic
<1>4. /\ Len(b) \in Nat /\ DOMAIN b = 1 .. Len(b)
      /\ \A k \in 1 .. Len(b) : b[k] \in B
  BY <1>2, LenProperties, ElementOfSeq
<1> QED BY <1>1, <1>2, <1>3, <1>4 DEF b, B

(* In it a parent stands behind its child only on or behind a cycle.       *)
LEMMA BodySorted ==
  ASSUME GraphFixed, NEW n \in NodeSet(graph), graph.kind[n] = "loop",
         NEW i \in 1 .. Len(bodyOrder[n]), NEW j \in 1 .. Len(bodyOrder[n]), i <= j,
         NEW e \in EdgeSet(graph), bodyOrder[n][i] = e.dst, bodyOrder[n][j] = e.src
  PROVE  BehindCycle(e.dst)
<1> DEFINE B == ReachableFrom(graph, n)
           b == bodyOrder[n]
<1>1. e.dst \in B /\ e.src \in B
  BY BodyOfLoop
<1> HIDE DEF B
<1>2. PICK ns \in Seq(B), es \in Seq(Joining(B)) :
         /\ b = TopoSort(ns, es) /\ IsInjective(ns) /\ ToSet(ns) = B
         /\ ToSet(es) = {x \in EdgeSet(graph) : {x.src, x.dst} \subseteq B}
  BY BodyIsSorted DEF B
<1> DEFINE U == Unsorted(ns, es)
<1> HIDE DEF b
<1>3. /\ \A k, m \in 1 .. Len(b) : \A x \in ToSet(es) :
               b[k] = x.dst /\ b[m] = x.src /\ k <= m => x.dst \in U
      /\ \A m \in U : \E x \in ToSet(es) : x.dst = m /\ x.src \in U
  BY <1>2, TopoSorted
<1>4. U \in SUBSET NodeSet(graph)
  <2>1. B \subseteq NodeSet(graph)
    BY BodyIsSorted DEF B
  <2> QED BY <1>2, <2>1 DEF Unsorted
<1> HIDE DEF U
<1>5. e \in ToSet(es)
  BY <1>1, <1>2
<1>6. e.dst \in U
  BY <1>3, <1>5 DEF b
<1>7. \A m \in U : \E x \in EdgeSet(graph) : x.dst = m /\ x.src \in U
  BY <1>2, <1>3
<1> QED BY <1>4, <1>6, <1>7, BehindSomeCycle DEF BehindCycle, GraphFixed

(* The next node of the main loop is one of the graph's.                   *)
LEMMA NextNode ==
  ASSUME GraphFixed, cursor \in 1 .. Len(order) + 1, Remaining # {}
  PROVE  /\ NextIndex \in Remaining /\ NextIndex \in Nat
         /\ cursor <= NextIndex /\ NextIndex <= Len(order)
         /\ order[NextIndex] \in NodeSet(graph)
         /\ order[NextIndex] \in enabled /\ order[NextIndex] \notin loopHandled
<1>1. Len(order) \in Nat /\ \A k \in 1 .. Len(order) : order[k] \in NodeSet(graph)
  BY OrderOfNodes
<1>2. Remaining \subseteq Nat
  BY <1>1 DEF Remaining
<1>3. NextIndex \in Remaining
  <2>1. \E k \in Remaining : \A j \in Remaining : k <= j
    BY <1>2, LeastNumber
  <2> QED BY <2>1 DEF NextIndex
<1> QED BY <1>1, <1>3 DEF Remaining

-----------------------------------------------------------------------------
(* What a step writes to the log.                                          *)

(* Events of a run in progress leave its log open.                         *)
LEMMA LogOpen ==
  ASSUME NEW N, NEW l, Open(l, N), NEW evs \in Seq(LogEvent(N)),
         \A k \in 1 .. Len(evs) : evs[k].type \notin TerminalTypes
  PROVE  Open(EmitAll(l, evs), N)
<1>1. Len(evs) \in 0 .. Len(evs)
  BY LenProperties
<1>2. Open(EmitIter(l, evs)[Len(evs)], N)
  BY <1>1, EmitAllOpen
<1> QED BY <1>2, EmitUnfold

(* An event about a node.                                                  *)
LEMMA NodeEvent ==
  ASSUME NEW N, NEW t \in LogTypes, NEW n \in N \cup {NoNode}
  PROVE  Ev(t, n) \in LogEvent(N) /\ Ev(t, n).type = t /\ Ev(t, n).node = n
BY DEF Ev, LogEvent

(* The types the steps report.                                             *)
LEMMA ReportTypes ==
  /\ {"started", "waiting", "feedback", "output", "completed", "error", "edge", "iteration",
      "iteration_done", "skipped", "run_started"} \subseteq LogTypes \ TerminalTypes
  /\ TerminalTypes = {"run_completed", "run_error"} /\ TerminalTypes \subseteq LogTypes
BY DEF LogTypes, TerminalTypes

(* One event, two, three.                                                  *)
LEMMA LogOne ==
  ASSUME NEW N, NEW l, Open(l, N), NEW t \in LogTypes \ TerminalTypes, NEW n \in N
  PROVE  Open(Emit(l, Ev(t, n)), N)
<1>1. Ev(t, n) \in LogEvent(N) /\ Ev(t, n).type = t
  BY NodeEvent
<1>2. t \notin TerminalTypes
  OBVIOUS
<1> HIDE DEF LogEvent
<1> QED BY <1>1, <1>2, EmitOpen

(* Two events keep the log of a running run open.                           *)
LEMMA LogTwo ==
  ASSUME NEW N, NEW l, Open(l, N), NEW t \in LogTypes \ TerminalTypes, NEW n \in N,
         NEW u \in LogTypes \ TerminalTypes, NEW m \in N
  PROVE  Open(EmitAll(l, <<Ev(t, n), Ev(u, m)>>), N)
<1> DEFINE a == Ev(t, n)
           b == Ev(u, m)
           evs == <<a, b>>
<1>1. a \in LogEvent(N) /\ b \in LogEvent(N) /\ a.type = t /\ b.type = u
  BY NodeEvent
<1> HIDE DEF a, b
<1>2. evs \in Seq(LogEvent(N)) /\ Len(evs) = 2 /\ evs[1] = a /\ evs[2] = b
  BY <1>1
<1> HIDE DEF evs
<1>3. \A k \in 1 .. Len(evs) : evs[k].type \notin TerminalTypes
  BY <1>1, <1>2
<1>4. Open(EmitAll(l, evs), N)
  BY <1>2, <1>3, LogOpen
<1> QED BY <1>4 DEF evs, a, b

(* So do three.                                                             *)
LEMMA LogThree ==
  ASSUME NEW N, NEW l, Open(l, N), NEW t \in LogTypes \ TerminalTypes, NEW n \in N,
         NEW u \in LogTypes \ TerminalTypes, NEW m \in N,
         NEW v \in LogTypes \ TerminalTypes, NEW k \in N
  PROVE  Open(EmitAll(l, <<Ev(t, n), Ev(u, m), Ev(v, k)>>), N)
<1> DEFINE a == Ev(t, n)
           b == Ev(u, m)
           c == Ev(v, k)
           evs == <<a, b, c>>
<1>1. /\ a \in LogEvent(N) /\ b \in LogEvent(N) /\ c \in LogEvent(N)
      /\ a.type = t /\ b.type = u /\ c.type = v
  BY NodeEvent
<1> HIDE DEF a, b, c
<1>2. evs \in Seq(LogEvent(N)) /\ Len(evs) = 3 /\ evs[1] = a /\ evs[2] = b /\ evs[3] = c
  BY <1>1
<1> HIDE DEF evs
<1>3. \A i \in 1 .. Len(evs) : evs[i].type \notin TerminalTypes
  BY <1>1, <1>2
<1>4. Open(EmitAll(l, evs), N)
  BY <1>2, <1>3, LogOpen
<1> QED BY <1>4 DEF evs, a, b, c

(* An event and, perhaps, the start of an iteration.                       *)
LEMMA LogIteration ==
  ASSUME NEW N, NEW l, Open(l, N), NEW t \in LogTypes \ TerminalTypes, NEW n \in N,
         NEW i \in Nat, NEW items \in Nat
  PROVE  Open(EmitAll(l, <<Ev(t, n)>> \o IterationStart(n, i, items)), N)
<1> DEFINE a == Ev(t, n)
           b == Ev("iteration", n)
           evs == <<a>> \o IterationStart(n, i, items)
<1>1. "iteration" \in LogTypes \ TerminalTypes
  BY ReportTypes
<1>2. a \in LogEvent(N) /\ a.type = t /\ b \in LogEvent(N) /\ b.type = "iteration"
  BY <1>1, NodeEvent
<1> DEFINE x == <<a>>
           y == IterationStart(n, i, items)
<1>3. y = <<b>> \/ y = << >>
  BY DEF IterationStart
<1> HIDE DEF a, b, y
<1> DEFINE S == LogEvent(N)
<1> HIDE DEF S
<1>7. /\ x \in Seq(S) /\ Len(x) = 1 /\ x[1] = a
      /\ y \in Seq(S) /\ Len(y) \in {0, 1} /\ (Len(y) = 1 => y[1] = b)
  <2>1. a \in S /\ b \in S
    BY <1>2 DEF S
  <2>2. x \in Seq(S) /\ Len(x) = 1 /\ x[1] = a
    BY <2>1
  <2>3. CASE y = <<b>>
    BY <2>1, <2>2, <2>3
  <2>4. CASE y = << >>
    BY <2>2, <2>4
  <2> QED BY <1>3, <2>2, <2>3, <2>4
<1> HIDE DEF x
<1>8. evs = x \o y
  BY DEF x, y
<1> HIDE DEF evs
<1>4. /\ evs \in Seq(S)
      /\ \A k \in 1 .. Len(evs) : evs[k] = a \/ evs[k] = b
  BY <1>7, <1>8, ConcatProperties
<1>5. \A k \in 1 .. Len(evs) : evs[k].type \notin TerminalTypes
  BY <1>1, <1>2, <1>4
<1>6. Open(EmitAll(l, evs), N)
  BY <1>4, <1>5, LogOpen DEF S
<1> QED BY <1>6 DEF evs, a

(* The reports of the nodes that a failed run left.                        *)
LEMMA SkipReports ==
  ASSUME WellFormed(graph), NEW done
  PROVE  /\ Skips(done) \in Seq(LogEvent(NodeSet(graph)))
         /\ \A k \in 1 .. Len(Skips(done)) : Skips(done)[k].type = "skipped"
         /\ ToSet(Skips(done)) = {Ev("skipped", n) : n \in NodeSet(graph) \ done}
<1> DEFINE N == NodeSet(graph)
           left == Among(graph.nodes, N \ done)
           evs == [k \in DOMAIN left |-> Ev("skipped", left[k])]
<1>1. Skips(done) = evs
  BY DEF Skips
<1>2. graph.nodes \in Seq(N) /\ ToSet(graph.nodes) = N
  BY DEF WellFormed, NodeSet
<1> HIDE DEF N
<1>3. left \in Seq(N) /\ ToSet(left) = N \cap (N \ done)
  BY <1>2, AmongProperties
<1>4. Len(left) \in Nat /\ DOMAIN left = 1 .. Len(left) /\ \A k \in 1 .. Len(left) : left[k] \in N
  BY <1>3, LenProperties, ElementOfSeq
<1>5. ToSet(left) = {left[k] : k \in 1 .. Len(left)}
  BY <1>4 DEF ToSet
<1> HIDE DEF left
<1>6. "skipped" \in LogTypes \ TerminalTypes
  BY ReportTypes
<1>7. \A n \in N : Ev("skipped", n) \in LogEvent(N) /\ Ev("skipped", n).type = "skipped"
  BY <1>6, NodeEvent
<1>8. evs \in [1 .. Len(left) -> LogEvent(N)]
  BY <1>4, <1>7
<1>9. evs \in Seq(LogEvent(N)) /\ Len(evs) = Len(left) /\ DOMAIN evs = 1 .. Len(left)
  BY <1>4, <1>8, SeqDef, LenProperties
<1>10. \A k \in 1 .. Len(evs) : evs[k].type = "skipped"
  BY <1>4, <1>7, <1>9
<1>11. ToSet(evs) = {Ev("skipped", n) : n \in N \ done}
  <2>1. ToSet(evs) = {Ev("skipped", left[k]) : k \in 1 .. Len(left)}
    BY <1>4, <1>9 DEF ToSet
  <2>2. {left[k] : k \in 1 .. Len(left)} = N \ done
    BY <1>3, <1>5
  <2> HIDE DEF evs
  <2> QED BY <2>1, <2>2
<1> QED BY <1>1, <1>9, <1>10, <1>11 DEF N

(* The edges a finished node enables, and their reports.                   *)
LEMMA FollowsEdges ==
  ASSUME WellFormed(graph), NEW n, NEW out, NEW l, Follow(n, out, l)
  PROVE  /\ enabled' = enabled \cup {e.dst : e \in {x \in EdgeSet(graph) :
                                        x.src = n /\ (Decides(n) => x.handle = out)}}
         /\ rejected' = rejected \cup {e.dst : e \in {x \in EdgeSet(graph) :
                                        x.src = n /\ ~(Decides(n) => x.handle = out)}}
         /\ \E evs \in Seq(LogEvent(NodeSet(graph))) :
               /\ runLog' = EmitAll(l, evs)
               /\ \A k \in 1 .. Len(evs) : evs[k].type = "edge"
<1> DEFINE N == NodeSet(graph)
           T == {e \in EdgeSet(graph) : Decides(n) => e.handle = out}
           taken == Among(OutEdges(graph, n), T)
           evs == [k \in DOMAIN taken |-> Ev("edge", taken[k].dst)]
<1>1. /\ OutEdges(graph, n) \in Seq(EdgeSet(graph))
      /\ ToSet(OutEdges(graph, n)) = {e \in EdgeSet(graph) : e.src = n}
      /\ \A e \in EdgeSet(graph) : e.dst \in N
  BY GraphParts
<1>2. taken \in Seq(EdgeSet(graph)) /\ ToSet(taken) = ToSet(OutEdges(graph, n)) \cap T
  <2> HIDE DEF T
  <2> QED BY <1>1, AmongProperties
<1>3. /\ enabled' = enabled \cup {e.dst : e \in ToSet(taken)}
      /\ rejected' = rejected \cup {e.dst : e \in ToSet(OutEdges(graph, n)) \ ToSet(taken)}
      /\ runLog' = EmitAll(l, evs)
  BY DEF Follow
<1> HIDE DEF N, taken
<1>4. /\ ToSet(taken) = {x \in EdgeSet(graph) : x.src = n /\ (Decides(n) => x.handle = out)}
      /\ ToSet(OutEdges(graph, n)) \ ToSet(taken)
            = {x \in EdgeSet(graph) : x.src = n /\ ~(Decides(n) => x.handle = out)}
  BY <1>1, <1>2
<1>5. /\ Len(taken) \in Nat /\ DOMAIN taken = 1 .. Len(taken)
      /\ \A k \in 1 .. Len(taken) : taken[k] \in EdgeSet(graph)
  BY <1>2, LenProperties, ElementOfSeq
<1>6. "edge" \in LogTypes
  BY ReportTypes
<1>7. \A m \in N : Ev("edge", m) \in LogEvent(N) /\ Ev("edge", m).type = "edge"
  BY <1>6, NodeEvent
<1>8. evs \in [1 .. Len(taken) -> LogEvent(N)]
  BY <1>1, <1>5, <1>7
<1>9. evs \in Seq(LogEvent(N)) /\ Len(evs) = Len(taken)
  BY <1>5, <1>8, SeqDef, LenProperties
<1>10. \A k \in 1 .. Len(evs) : evs[k].type = "edge"
  BY <1>1, <1>5, <1>7, <1>9
<1> HIDE DEF evs, T
<1>11. /\ enabled' = enabled \cup {e.dst : e \in {x \in EdgeSet(graph) :
                                      x.src = n /\ (Decides(n) => x.handle = out)}}
       /\ rejected' = rejected \cup {e.dst : e \in {x \in EdgeSet(graph) :
                                      x.src = n /\ ~(Decides(n) => x.handle = out)}}
  BY <1>3, <1>4
<1>12. evs \in Seq(LogEvent(NodeSet(graph)))
  BY <1>9 DEF N
<1> QED BY <1>3, <1>10, <1>11, <1>12

(* No loop is none in progress.                                            *)
LEMMA Absent == NoNode \notin NodeSet(graph) => NoIter \notin Iterations(NodeSet(graph))
BY DEF NoIter, Iterations

(* A node that succeeded, wherever it ran, leaves the state in order.      *)
LEMMA SucceedKeeps ==
  ASSUME GraphInv, runStatus = "running",
         NEW n \in NodeSet(graph), NEW out \in Handles,
         NEW outs \in [NodeSet(graph) -> Nat], NEW l, Open(l, NodeSet(graph)),
         ~InBody /\ ~Single => Remaining # {},
         Succeed(n, out, outs, l), reviewed' \in [NodeSet(graph) -> Nat]
  PROVE  GraphInv'
<1> DEFINE N == NodeSet(graph)
           m == EmitAll(l, <<Ev("output", n), Ev("completed", n)>>)
<1>0. WellFormed(graph) /\ GraphFixed /\ Typed /\ Placed
  BY DEF GraphInv, GraphFixed
<1>1. graph' = graph /\ order' = order /\ bodyOrder' = bodyOrder /\ loopHandled' = loopHandled
  BY DEF Succeed
<1>2. NodeSet(graph)' = N /\ GraphFixed'
  BY <1>0, <1>1 DEF GraphFixed, NodeSet
<1>3. Open(m, N)
  <2>1. {"output", "completed"} \subseteq LogTypes \ TerminalTypes
    BY ReportTypes
  <2>2. "output" \in LogTypes \ TerminalTypes /\ "completed" \in LogTypes \ TerminalTypes
    BY <2>1
  <2> QED BY <2>2, LogTwo
<1>4. /\ execs' = execs + 1 /\ execs' \in Nat
      /\ stale' = stale \cup StaleGates(n) /\ gate' = NoGate
  BY <1>0 DEF Succeed, Typed
<1>5. StaleGates(n) \subseteq N
  <2>1. \A e \in ToSet(InEdges(graph, n)) : e.src \in N
    BY <1>0, GraphParts
  <2> QED BY <2>1 DEF StaleGates
<1>6. CASE InBody
  <2>1. /\ iter' = [iter EXCEPT !.outputs[n] = execs', !.pos = @ + 1,
                                !.ran = @ \cup {n}, !.decided[n] = out]
        /\ outputs' = outs /\ runLog' = m /\ decided' = decided
        /\ UNCHANGED <<runStatus, cursor, enabled, executed, rejected, ran>>
    BY <1>6 DEF Succeed
  <2>2. iter \in Iterations(N) /\ iter.item \in 1 .. iter.items + 1
    BY <1>0, <1>6 DEF Typed, InBody
  <2>3. iter' \in Iterations(N) /\ iter'.item = iter.item /\ iter'.items = iter.items
        /\ iter'.loop = iter.loop
    <3> DEFINE o == [iter.outputs EXCEPT ![n] = execs']
               d == [iter.decided EXCEPT ![n] = out]
               r == iter.ran \cup {n}
    <3>1. /\ iter.loop \in N /\ iter.items \in Nat /\ iter.item \in Nat /\ iter.pos + 1 \in Nat \ {0}
          /\ iter.ran \subseteq N /\ iter.decided \in [N -> Handles]
          /\ iter.outputs \in [N -> Nat]
      BY <2>2 DEF Iterations
    <3>2. o \in [N -> Nat] /\ d \in [N -> Handles] /\ r \in SUBSET N
      BY <1>4, <3>1
    <3>3. iter' = [loop |-> iter.loop, items |-> iter.items, item |-> iter.item,
                   pos |-> iter.pos + 1, ran |-> r, decided |-> d, outputs |-> o]
      BY <2>1, <2>2 DEF Iterations
    <3> HIDE DEF o, d, r
    <3> QED BY <3>1, <3>2, <3>3 DEF Iterations
  <2>4. Typed'
    BY <1>0, <1>1, <1>2, <1>4, <1>5, <2>1, <2>2, <2>3 DEF Typed
  <2>5. Placed'
    BY <1>0, <1>1, <1>4, <1>6, <2>1, <2>3 DEF Placed, InBody, Single, Remaining, NextIndex
  <2>6. Logged'
    BY <1>2, <1>3, <2>1 DEF Logged
  <2> QED BY <1>2, <2>4, <2>5, <2>6 DEF GraphInv
<1>7. CASE ~InBody
  <2>1. /\ executed' = executed \cup {n}
        /\ outputs' = [outs EXCEPT ![n] = execs']
        /\ ran' = Append(ran, n)
        /\ decided' = [decided EXCEPT ![n] = out]
        /\ iter' = iter
    BY <1>7 DEF Succeed
  <2>2. /\ executed' \subseteq N /\ outputs' \in [N -> Nat] /\ decided' \in [N -> Handles]
        /\ stale' \subseteq N /\ loopHandled' \subseteq N
    BY <1>0, <1>1, <1>4, <1>5, <2>1 DEF Typed
  <2>3. ran' \in Seq(N)
    BY <1>0, <2>1, AppendProperties DEF Typed
  <2>4. ~InBody'
    BY <1>7, <2>1 DEF InBody
  <2>5. CASE Single
    <3>1. /\ runLog' = Emit(m, Ev("run_completed", NoNode)) /\ runStatus' = "completed"
          /\ UNCHANGED <<cursor, enabled, rejected>>
      BY <1>7, <2>5 DEF Succeed
    <3>2. Typed'
      BY <1>0, <1>1, <1>2, <1>4, <2>1, <2>2, <2>3, <2>4, <3>1 DEF Typed, InBody
    <3>3. Placed'
      BY <1>4, <2>4 DEF Placed
    <3>4. Closed(runLog', N)
      <4>1. "run_completed" \in LogTypes /\ "run_completed" \in TerminalTypes
        BY ReportTypes
      <4>2. Ev("run_completed", NoNode) \in LogEvent(N)
            /\ Ev("run_completed", NoNode).type = "run_completed"
        BY <4>1, NodeEvent
      <4> HIDE DEF m
      <4> QED BY <1>3, <3>1, <4>1, <4>2, EmitEnding
    <3>5. Logged'
      BY <1>2, <3>1, <3>4 DEF Logged
    <3> QED BY <1>2, <3>2, <3>3, <3>5 DEF GraphInv
  <2>6. CASE ~Single
    <3>1. Follow(n, out, m) /\ cursor' = NextIndex + 1 /\ runStatus' = runStatus
      BY <1>7, <2>6 DEF Succeed
    <3>2. enabled' \subseteq N /\ rejected' \subseteq N
      <4>1. \A e \in EdgeSet(graph) : e.dst \in N
        BY <1>0, GraphParts
      <4>2. /\ enabled' = enabled \cup {e.dst : e \in {x \in EdgeSet(graph) :
                                        x.src = n /\ (Decides(n) => x.handle = out)}}
            /\ rejected' = rejected \cup {e.dst : e \in {x \in EdgeSet(graph) :
                                        x.src = n /\ ~(Decides(n) => x.handle = out)}}
        BY <1>0, <3>1, FollowsEdges
      <4>3. enabled \subseteq N /\ rejected \subseteq N
        BY <1>0 DEF Typed
      <4> QED BY <4>1, <4>2, <4>3
    <3>3. cursor' \in 1 .. Len(order) + 1
      <4>1. cursor \in 1 .. Len(order) + 1 /\ Remaining # {}
        BY <1>0, <1>7, <2>6 DEF Typed
      <4>2. Len(order) \in Nat /\ NextIndex \in Nat /\ cursor <= NextIndex
            /\ NextIndex <= Len(order)
        BY <1>0, <4>1, OrderOfNodes, NextNode
      <4> QED BY <3>1, <4>1, <4>2
    <3>4. Typed'
      BY <1>0, <1>1, <1>2, <1>4, <2>1, <2>2, <2>3, <2>4, <3>1, <3>2, <3>3 DEF Typed, InBody
    <3>5. Placed'
      BY <1>0, <1>4, <2>4, <3>1 DEF Placed
    <3>6. Open(runLog', N)
      <4>1. PICK evs \in Seq(LogEvent(N)) : /\ runLog' = EmitAll(m, evs)
                                            /\ \A k \in 1 .. Len(evs) : evs[k].type = "edge"
        BY <1>0, <3>1, FollowsEdges
      <4>2. "edge" \notin TerminalTypes
        BY ReportTypes
      <4> HIDE DEF m
      <4> QED BY <1>3, <4>1, <4>2, LogOpen
    <3>7. Logged'
      BY <1>2, <3>1, <3>6 DEF Logged
    <3> QED BY <1>2, <3>4, <3>5, <3>7 DEF GraphInv
  <2> QED BY <2>5, <2>6
<1> QED BY <1>6, <1>7

(* So does one that failed: the iteration goes on to its end, a run ends.   *)
LEMMA FailKeeps ==
  ASSUME GraphInv, runStatus = "running", NEW n \in NodeSet(graph),
         NEW l, Open(l, NodeSet(graph)), Fail(n, l), outputs' = outputs, reviewed' = reviewed
  PROVE  GraphInv'
<1> DEFINE N == NodeSet(graph)
           m == Emit(l, Ev("error", n))
           ended == Emit(m, Ev("run_error", NoNode))
<1>0. WellFormed(graph) /\ GraphFixed /\ Typed /\ Placed
  BY DEF GraphInv, GraphFixed
<1>1. /\ UNCHANGED <<graph, order, bodyOrder, cursor, enabled, executed, rejected, loopHandled,
                     ran, decided, stale>>
      /\ execs' = execs + 1 /\ gate' = NoGate
  BY DEF Fail
<1>2. NodeSet(graph)' = N /\ GraphFixed'
  BY <1>0, <1>1 DEF GraphFixed, NodeSet
<1>3. Open(m, N)
  <2>1. "error" \in LogTypes \ TerminalTypes
    BY ReportTypes
  <2> QED BY <2>1, LogOne
<1>4. Closed(ended, N)
  <2>1. "run_error" \in LogTypes /\ "run_error" \in TerminalTypes
    BY ReportTypes
  <2>2. Ev("run_error", NoNode) \in LogEvent(N) /\ Ev("run_error", NoNode).type = "run_error"
    BY <2>1, NodeEvent
  <2> HIDE DEF m
  <2> QED BY <1>3, <2>1, <2>2, EmitEnding
<1>5. CASE InBody
  <2>1. /\ iter' = [iter EXCEPT !.pos = Len(BodyOrder) + 1, !.ran = @ \cup {n}]
        /\ runLog' = m /\ runStatus' = runStatus
    BY <1>5 DEF Fail
  <2>2. iter \in Iterations(N) /\ iter.item \in 1 .. iter.items + 1
    BY <1>0, <1>5 DEF Typed, InBody
  <2>3. Len(BodyOrder) \in Nat
    BY <1>0, <1>5, <2>2, BodyOfLoop DEF Placed, BodyOrder, Iterations
  <2>4. iter' \in Iterations(N) /\ iter'.item = iter.item /\ iter'.items = iter.items
        /\ iter'.loop = iter.loop
    <3> DEFINE r == iter.ran \cup {n}
               p == Len(BodyOrder) + 1
    <3>1. /\ iter.loop \in N /\ iter.items \in Nat /\ iter.item \in Nat
          /\ iter.decided \in [N -> Handles] /\ iter.outputs \in [N -> Nat]
          /\ r \in SUBSET N /\ p \in Nat \ {0}
      BY <2>2, <2>3 DEF Iterations
    <3>2. iter' = [loop |-> iter.loop, items |-> iter.items, item |-> iter.item,
                   pos |-> p, ran |-> r, decided |-> iter.decided, outputs |-> iter.outputs]
      BY <2>1, <2>2 DEF Iterations
    <3> HIDE DEF r, p
    <3> QED BY <3>1, <3>2 DEF Iterations
  <2>5. Typed'
    BY <1>0, <1>1, <1>2, <2>1, <2>2, <2>4 DEF Typed
  <2>6. Placed'
    BY <1>0, <1>1, <1>5, <2>1, <2>4 DEF Placed, InBody, Single, Remaining, NextIndex
  <2>7. Logged'
    BY <1>2, <1>3, <2>1 DEF Logged
  <2> QED BY <1>2, <2>5, <2>6, <2>7 DEF GraphInv
<1>6. CASE ~InBody
  <2>1. /\ iter' = iter /\ runStatus' = "error"
        /\ runLog' = IF Single THEN ended ELSE EmitAll(ended, Skips(executed))
    BY <1>6 DEF Fail
  <2>2. ~InBody'
    BY <1>6, <2>1 DEF InBody
  <2>3. Typed'
    BY <1>0, <1>1, <1>2, <1>6, <2>1, <2>2 DEF Typed, InBody
  <2>4. Placed'
    BY <1>1, <2>2 DEF Placed
  <2>5. Closed(EmitAll(ended, Skips(executed)), N)
    <3>1. /\ Skips(executed) \in Seq(LogEvent(N))
          /\ \A k \in 1 .. Len(Skips(executed)) : Skips(executed)[k].type = "skipped"
      BY <1>0, SkipReports
    <3> HIDE DEF ended
    <3> QED BY <1>4, <3>1, EmitAllSkips
  <2>6. Logged'
    BY <1>2, <1>4, <2>1, <2>5 DEF Logged
  <2> QED BY <1>2, <2>3, <2>4, <2>6 DEF GraphInv
<1> QED BY <1>5, <1>6

(* Initially the log holds the report that the run started.                *)
LEMMA InitKeeps == InitGraph => GraphInv
<1> SUFFICES ASSUME InitGraph PROVE GraphInv
  OBVIOUS
<1> DEFINE N == NodeSet(graph)
           e == Ev("run_started", NoNode)
<1>1. GraphFixed
  <2>1. WellFormed(graph)
    BY GraphsWellFormed, StaysWellFormed DEF InitGraph
  <2> QED BY <2>1 DEF InitGraph, GraphFixed
<1>2. Len(order) \in Nat
  BY <1>1, OrderOfNodes
<1>3. Typed
  <2>1. /\ runStatus = "running" /\ cursor = 1 /\ enabled \subseteq N /\ executed = {}
        /\ rejected = {} /\ loopHandled = {} /\ iter = NoIter /\ gate = NoGate /\ execs = 0
        /\ ran = << >> /\ stale = {}
    BY DEF InitGraph
  <2>2. outputs \in [N -> Nat]
    BY DEF InitGraph, LoopMarker
  <2>3. decided \in [N -> Handles] /\ reviewed \in [N -> Nat]
    BY DEF InitGraph, Handles
  <2>4. << >> \in Seq(N) /\ 1 \in 1 .. Len(order) + 1
    BY <1>2
  <2> QED BY <2>1, <2>2, <2>3, <2>4 DEF Typed
<1>4. Placed
  BY DEF InitGraph, Placed, InBody
<1>5. Open(runLog, N)
  <2>1. "run_started" \in LogTypes /\ "run_started" \notin TerminalTypes
    BY ReportTypes
  <2>2. e \in LogEvent(N) /\ e.type = "run_started"
    BY <2>1, NodeEvent
  <2>3. runLog = [count |-> 1, truncated |-> FALSE, sent |-> <<e>>]
    BY DEF InitGraph
  <2> HIDE DEF e
  <2>4. /\ runLog.sent \in Seq(LogEvent(N)) /\ Len(runLog.sent) = 1 /\ runLog.sent[1] = e
        /\ runLog.count = 1 /\ runLog.truncated = FALSE
    <3> DEFINE S == LogEvent(N)
    <3>1. e \in S
      BY <2>2
    <3> HIDE DEF S
    <3>2. <<e>> \in Seq(S) /\ Len(<<e>>) = 1 /\ <<e>>[1] = e
      BY <3>1
    <3> QED BY <2>3, <3>2 DEF S
  <2>5. runLog \in Log(N)
    BY <2>3, <2>4 DEF Log
  <2>6. Ends(runLog, N) = 0
    <3>1. e \notin EndEvents(N)
      BY <2>1, <2>2 DEF EndEvents
    <3> DEFINE s == runLog.sent
    <3>2. Len(s) \in Nat /\ \A k \in 1 .. Len(s) : s[k] \notin EndEvents(N)
      BY <2>4, <3>1
    <3> HIDE DEF s
    <3>3. Count(s, Len(s), EndEvents(N)) = 0
      BY <3>2, CountZero
    <3> QED BY <3>3 DEF Ends, s
  <2>7. Bounded(runLog, N)
    BY <2>4, <2>6, GraphBounds DEF Bounded
  <2> QED BY <2>5, <2>6, <2>7 DEF Open
<1>6. runStatus = "running"
  BY DEF InitGraph
<1> QED BY <1>1, <1>3, <1>4, <1>5, <1>6 DEF GraphInv, Logged

(* Skip reports and the end of a completed run.                            *)
LEMMA LogEnds ==
  ASSUME NEW N, NEW l, Open(l, N), NEW evs \in Seq(LogEvent(N)),
         \A k \in 1 .. Len(evs) : evs[k].type \notin TerminalTypes,
         NEW ev \in LogEvent(N), ev.type \in TerminalTypes
  PROVE  Closed(EmitAll(l, Append(evs, ev)), N)
<1> DEFINE all == Append(evs, ev)
           n == Len(evs)
           f == EmitIter(l, all)
<1>1. /\ all \in Seq(LogEvent(N)) /\ Len(all) = n + 1 /\ n \in Nat
      /\ \A k \in 1 .. n : all[k] = evs[k]
      /\ all[n + 1] = ev
  <2> DEFINE S == LogEvent(N)
  <2>1. evs \in Seq(S) /\ ev \in S
    OBVIOUS
  <2> HIDE DEF S
  <2>2. /\ all \in Seq(S) /\ Len(all) = n + 1 /\ n \in Nat
        /\ \A k \in 1 .. n : all[k] = evs[k]
        /\ all[n + 1] = ev
    BY <2>1, Appended, LenProperties, AppendProperties
  <2> QED BY <2>2 DEF S
<1> HIDE DEF all, n
<1>2. n \in 0 .. Len(all) /\ \A k \in 1 .. n : all[k].type \notin TerminalTypes
  BY <1>1 DEF n
<1>3. Open(f[n], N)
  BY <1>1, <1>2, EmitAllOpen
<1>4. l \in Log(N)
  BY DEF Open
<1>5. f[n + 1] = Emit(f[n], ev)
  <2>1. \A k \in 1 .. Len(all) : f[k] = Emit(f[k - 1], all[k])
    BY <1>1, <1>4, EmitRecursion
  <2> HIDE DEF f
  <2>2. n + 1 \in 1 .. Len(all) /\ (n + 1) - 1 = n
    BY <1>1
  <2> QED BY <1>1, <2>1, <2>2
<1>6. EmitAll(l, all) = f[n + 1]
  BY <1>1, EmitUnfold
<1> HIDE DEF f
<1>7. Closed(f[n + 1], N)
  BY <1>3, <1>5, EmitEnding
<1> QED BY <1>6, <1>7 DEF all

(* What a gate shows is the output of a node that leads to it.             *)
LEMMA SourceOfGate ==
  ASSUME WellFormed(graph), NEW n
  PROVE  /\ GateSource(n) # NoNode <=> InEdges(graph, n) # << >>
         /\ InEdges(graph, n) # << >> =>
              /\ GateSource(n) = InEdges(graph, n)[1].src /\ GateSource(n) \in NodeSet(graph)
              /\ \E e \in EdgeSet(graph) : e.src = GateSource(n) /\ e.dst = n
<1> DEFINE es == InEdges(graph, n)
<1>1. /\ es \in Seq(EdgeSet(graph)) /\ ToSet(es) = {e \in EdgeSet(graph) : e.dst = n}
      /\ \A e \in EdgeSet(graph) : e.src \in NodeSet(graph)
  BY GraphParts
<1>2. GateSource(n) = IF es = << >> THEN NoNode ELSE es[1].src
  BY DEF GateSource
<1>3. NoNode \notin NodeSet(graph)
  BY DEF WellFormed
<1> HIDE DEF es
<1>4. ASSUME es # << >>
      PROVE  es[1] \in EdgeSet(graph) /\ es[1].dst = n
  <2>1. Len(es) \in Nat /\ Len(es) # 0 /\ DOMAIN es = 1 .. Len(es)
    BY <1>1, <1>4, LenProperties, EmptySeq
  <2>2. es[1] \in ToSet(es)
    BY <2>1 DEF ToSet
  <2> QED BY <1>1, <2>2
<1> QED BY <1>1, <1>2, <1>3, <1>4 DEF es

(* A node about to run in the main loop is the next one, in a body one of  *)
(* the body's.                                                             *)
LEMMA WhoIsDue ==
  ASSUME GraphInv, NEW n, Due(n)
  PROVE  /\ runStatus = "running" /\ gate = NoGate
         /\ ~InBody /\ ~Single => Remaining # {} /\ n = order[NextIndex]
         /\ InBody => /\ n \in Body /\ n = BodyOrder[iter.pos]
                      /\ iter.pos \in 1 .. Len(BodyOrder) /\ iter.item <= iter.items
         /\ Single => ~InBody
<1>1. runStatus = "running" /\ gate = NoGate /\ (Single => ~InBody)
  BY DEF Due, GraphInv, Placed
<1>2. ~InBody /\ ~Single => Remaining # {} /\ n = order[NextIndex]
  BY DEF Due
<1>3. ASSUME InBody
      PROVE  /\ n \in Body /\ n = BodyOrder[iter.pos]
             /\ iter.pos \in 1 .. Len(BodyOrder) /\ iter.item <= iter.items
  <2>1. iter.loop \in NodeSet(graph) /\ graph.kind[iter.loop] = "loop"
        /\ iter.pos \in Nat \ {0} /\ GraphFixed
    BY <1>3 DEF GraphInv, Typed, Placed, InBody, Iterations
  <2>2. Len(BodyOrder) \in Nat /\ DOMAIN BodyOrder = 1 .. Len(BodyOrder)
    BY <2>1, BodyOfLoop DEF BodyOrder
  <2>3. n = BodyOrder[iter.pos] /\ iter.pos \in 1 .. Len(BodyOrder) /\ iter.item <= iter.items
    BY <1>1, <1>3, <2>1, <2>2 DEF Due
  <2>4. n \in Body
    BY <2>2, <2>3 DEF Body, ToSet
  <2> QED BY <2>3, <2>4
<1> QED BY <1>1, <1>2, <1>3

-----------------------------------------------------------------------------
(* Every step keeps the state in order.                                    *)

(* Testing one node without its inputs ends the run.                       *)
LEMMA MissingInputKeeps == GraphInv /\ MissingInput => GraphInv'
<1> SUFFICES ASSUME GraphInv, MissingInput PROVE GraphInv'
  OBVIOUS
<1> DEFINE N == NodeSet(graph)
<1>1. /\ runStatus = "running" /\ gate = NoGate /\ Single /\ runStatus' = "error"
      /\ runLog' = Emit(runLog, Ev("run_error", NoNode))
      /\ UNCHANGED <<graph, order, bodyOrder, cursor, enabled, executed, rejected, loopHandled,
                     outputs, iter, gate, execs, ran, decided, reviewed, stale>>
  BY DEF MissingInput
<1>2. GraphFixed' /\ NodeSet(graph)' = N
  BY <1>1 DEF GraphInv, GraphFixed, NodeSet
<1>3. Typed'
  BY <1>1, <1>2 DEF GraphInv, Typed
<1>4. Placed'
  BY <1>1 DEF GraphInv, Placed, InBody, Single
<1>5. Closed(runLog', N)
  <2>1. "run_error" \in LogTypes /\ "run_error" \in TerminalTypes
    BY ReportTypes
  <2>2. Ev("run_error", NoNode) \in LogEvent(N) /\ Ev("run_error", NoNode).type = "run_error"
    BY <2>1, NodeEvent
  <2>3. Open(runLog, N)
    BY <1>1 DEF GraphInv, Logged
  <2> QED BY <1>1, <2>1, <2>2, <2>3, EmitEnding
<1> QED BY <1>1, <1>2, <1>3, <1>4, <1>5 DEF GraphInv, Logged

(* A node that needs no person succeeds or fails.                          *)
LEMMA RunNodeKeeps ==
  ASSUME GraphInv, NEW n \in NodeSet(graph), RunNode(n)
  PROVE  GraphInv'
<1> DEFINE N == NodeSet(graph)
           l == Emit(runLog, Ev("started", n))
<1>1. /\ runStatus = "running" /\ (~InBody /\ ~Single => Remaining # {})
      /\ outputs \in [N -> Nat] /\ reviewed' = reviewed /\ reviewed \in [N -> Nat]
  BY WhoIsDue DEF RunNode, GraphInv, Typed
<1>2. Open(l, N)
  <2>1. "started" \in LogTypes \ TerminalTypes
    BY ReportTypes
  <2>2. Open(runLog, N)
    BY <1>1 DEF GraphInv, Logged
  <2> QED BY <2>1, <2>2, LogOne
<1>3. ASSUME NEW out \in IF graph.kind[n] = "branch" THEN {"yes", "no"} ELSE {"none"},
             Succeed(n, out, outputs, l)
      PROVE  GraphInv'
  <2>1. out \in Handles
    BY DEF Handles
  <2> QED BY <1>1, <1>2, <1>3, <2>1, SucceedKeeps
<1>4. ASSUME Fail(n, l), outputs' = outputs PROVE GraphInv'
  BY <1>1, <1>2, <1>4, FailKeeps
<1> QED BY <1>3, <1>4 DEF RunNode

(* A gate opens.                                                           *)
LEMMA OpenGateKeeps ==
  ASSUME GraphInv, NEW n \in NodeSet(graph), OpenGate(n)
  PROVE  GraphInv'
<1> DEFINE N == NodeSet(graph)
<1>0. WellFormed(graph) /\ GraphFixed /\ Typed /\ Placed
  BY DEF GraphInv, GraphFixed
<1>1. /\ Due(n) /\ graph.kind[n] = "approval"
      /\ gate' = [node |-> n, attempt |-> 1,
                  shown |-> IF GateSource(n) = NoNode THEN 0 ELSE CurrentOutputs[GateSource(n)]]
      /\ runLog' = EmitAll(runLog, <<Ev("started", n), Ev("waiting", n)>>)
      /\ UNCHANGED <<graph, order, bodyOrder, runStatus, cursor, enabled, executed, rejected,
                     loopHandled, outputs, iter, execs, ran, decided, reviewed, stale>>
  BY DEF OpenGate, Waiting
<1>2. /\ runStatus = "running" /\ gate = NoGate
      /\ ~InBody /\ ~Single => Remaining # {} /\ n = order[NextIndex]
      /\ InBody => n \in Body /\ iter.item <= iter.items
  BY <1>1, WhoIsDue
<1>3. GraphFixed' /\ NodeSet(graph)' = N
  BY <1>0, <1>1 DEF GraphFixed, NodeSet
<1>4. CurrentOutputs \in [N -> Nat]
  BY <1>0 DEF Typed, CurrentOutputs, InBody, Iterations
<1>5. GateSource(n) = NoNode \/ GateSource(n) \in N
  BY <1>0, SourceOfGate
<1>6. gate' \in Gates(N) /\ gate'.attempt = 1 /\ gate'.node = n
  BY <1>1, <1>4, <1>5 DEF Gates
<1>7. Typed'
  BY <1>0, <1>1, <1>3, <1>6, GraphBounds DEF Typed
<1>8. Placed'
  BY <1>0, <1>1, <1>2, <1>6 DEF Placed, InBody, Single, Remaining, NextIndex, Body, BodyOrder
<1>9. Open(runLog', N)
  <2>1. {"started", "waiting"} \subseteq LogTypes \ TerminalTypes
    BY ReportTypes
  <2>2. "started" \in LogTypes \ TerminalTypes /\ "waiting" \in LogTypes \ TerminalTypes
    BY <2>1
  <2>3. Open(runLog, N)
    BY <1>2 DEF GraphInv, Logged
  <2> QED BY <1>1, <2>2, <2>3, LogTwo
<1> QED BY <1>1, <1>2, <1>3, <1>7, <1>8, <1>9 DEF GraphInv, Logged

(* What is known of an open gate.                                          *)
LEMMA GateOpen ==
  ASSUME GraphInv, gate # NoGate
  PROVE  /\ runStatus = "running" /\ gate.node \in NodeSet(graph)
         /\ gate \in Gates(NodeSet(graph)) /\ Open(runLog, NodeSet(graph))
         /\ ~InBody /\ ~Single => Remaining # {} /\ gate.node = order[NextIndex]
BY DEF GraphInv, Typed, Placed, Logged, Gates

(* A reviewer decides, or none does in time.                               *)
LEMMA GateEndsKeeps ==
  ASSUME GraphInv, GateApprove \/ GateReject \/ GateTimeout
  PROVE  GraphInv'
<1> DEFINE N == NodeSet(graph)
<1>1. gate # NoGate
  BY DEF GateApprove, GateReject, GateTimeout
<1>2. /\ runStatus = "running" /\ gate.node \in N /\ gate \in Gates(N) /\ Open(runLog, N)
      /\ ~InBody /\ ~Single => Remaining # {}
  BY <1>1, GateOpen
<1>3. outputs \in [N -> Nat] /\ reviewed \in [N -> Nat]
  BY DEF GraphInv, Typed
<1>4. CASE GateApprove
  <2>1. reviewed' \in [N -> Nat] /\ Succeed(gate.node, "yes", outputs, runLog)
    BY <1>2, <1>3, <1>4 DEF GateApprove, Gates
  <2>2. "yes" \in Handles
    BY DEF Handles
  <2> QED BY <1>2, <1>3, <2>1, <2>2, SucceedKeeps
<1>5. CASE GateReject
  <2>1. reviewed' \in [N -> Nat] /\ Succeed(gate.node, "no", outputs, runLog)
    BY <1>3, <1>5 DEF GateReject
  <2>2. "no" \in Handles
    BY DEF Handles
  <2> QED BY <1>2, <1>3, <2>1, <2>2, SucceedKeeps
<1>6. CASE GateTimeout
  BY <1>2, <1>6, FailKeeps DEF GateTimeout
<1> QED BY <1>4, <1>5, <1>6

(* A reviewer's retry runs the gate's parent again, outside its turn.      *)
LEMMA GateRetryKeeps ==
  ASSUME GraphInv, GateRetry
  PROVE  GraphInv'
<1> DEFINE N == NodeSet(graph)
           src == GateSource(gate.node)
           l == EmitAll(runLog, <<Ev("feedback", gate.node), Ev("started", src)>>)
<1>0. WellFormed(graph) /\ GraphFixed /\ Typed /\ Placed
  BY DEF GraphInv, GraphFixed
<1>1. gate # NoGate /\ CanRetry(gate.node) /\ RetryLeft
  BY DEF GateRetry
<1>2. /\ runStatus = "running" /\ gate.node \in N /\ gate \in Gates(N) /\ Open(runLog, N)
      /\ ~InBody /\ ~Single => Remaining # {} /\ gate.node = order[NextIndex]
  BY <1>1, GateOpen
<1>3. src \in N
  BY <1>0, <1>1, SourceOfGate DEF CanRetry
<1> HIDE DEF src
<1>4. /\ "feedback" \in LogTypes \ TerminalTypes /\ "started" \in LogTypes \ TerminalTypes
      /\ "output" \in LogTypes \ TerminalTypes /\ "completed" \in LogTypes \ TerminalTypes
      /\ "waiting" \in LogTypes \ TerminalTypes /\ "error" \in LogTypes \ TerminalTypes
  <2>1. {"feedback", "started", "output", "completed", "waiting", "error"}
           \subseteq LogTypes \ TerminalTypes
    BY ReportTypes
  <2> QED BY <2>1
<1>5. Open(l, N)
  BY <1>2, <1>3, <1>4, LogTwo
<1>6. \/ /\ execs' = execs + 1
         /\ Publish(src, gate.node)
         /\ gate' = [gate EXCEPT !.attempt = @ + 1, !.shown = execs']
         /\ runLog' = EmitAll(l, <<Ev("output", src), Ev("completed", src),
                                   Ev("waiting", gate.node)>>)
         /\ UNCHANGED <<graph, order, bodyOrder, runStatus, cursor, enabled, executed,
                        rejected, loopHandled, ran, decided, reviewed, stale>>
      \/ Fail(gate.node, Emit(l, Ev("error", src))) /\ UNCHANGED <<outputs, reviewed>>
  BY DEF GateRetry, Waiting, src
<1> HIDE DEF l
<1>7. CASE Fail(gate.node, Emit(l, Ev("error", src))) /\ UNCHANGED <<outputs, reviewed>>
  <2>1. Open(Emit(l, Ev("error", src)), N)
    BY <1>3, <1>4, <1>5, LogOne
  <2> QED BY <1>2, <1>7, <2>1, FailKeeps
<1>8. CASE /\ execs' = execs + 1
           /\ Publish(src, gate.node)
           /\ gate' = [gate EXCEPT !.attempt = @ + 1, !.shown = execs']
           /\ runLog' = EmitAll(l, <<Ev("output", src), Ev("completed", src),
                                     Ev("waiting", gate.node)>>)
           /\ UNCHANGED <<graph, order, bodyOrder, runStatus, cursor, enabled, executed,
                          rejected, loopHandled, ran, decided, reviewed, stale>>
  <2>1. GraphFixed' /\ NodeSet(graph)' = N
    BY <1>0, <1>8 DEF GraphFixed, NodeSet
  <2>2. Open(runLog', N)
    BY <1>2, <1>3, <1>4, <1>5, <1>8, LogThree
  <2>3. execs' \in Nat /\ outputs' \in [N -> Nat]
    BY <1>0, <1>3, <1>8 DEF Publish, Typed
  <2>4. /\ gate' \in Gates(N) /\ gate'.node = gate.node
        /\ gate'.attempt \in 1 .. MaxApprovalRetries + 1
    <3>1. gate.attempt \in 1 .. MaxApprovalRetries + 1 /\ gate.attempt <= MaxApprovalRetries
          /\ MaxApprovalRetries \in Nat
      BY <1>0, <1>1, GraphBounds DEF Typed, RetryLeft
    <3>2. gate.node \in N /\ gate.attempt \in Nat /\ gate.attempt + 1 \in Nat
      BY <1>2, <3>1
    <3>3. gate' = [node |-> gate.node, attempt |-> gate.attempt + 1, shown |-> execs']
      BY <1>2, <1>8 DEF Gates
    <3>4. gate' \in Gates(N)
      BY <2>3, <3>2, <3>3 DEF Gates
    <3> QED BY <3>1, <3>3, <3>4
  <2>5. /\ iter # NoIter => /\ iter' \in Iterations(N) /\ iter'.item = iter.item
                            /\ iter'.items = iter.items /\ iter'.loop = iter.loop
        /\ iter = NoIter => iter' = NoIter
    <3>1. iter' = iter \/ (iter # NoIter /\ iter' = [iter EXCEPT !.outputs[src] = execs + 1])
      BY <1>8 DEF Publish, InBody
    <3>2. ASSUME iter # NoIter, iter' = [iter EXCEPT !.outputs[src] = execs + 1]
          PROVE  /\ iter' \in Iterations(N) /\ iter'.item = iter.item
                 /\ iter'.items = iter.items /\ iter'.loop = iter.loop
      <4> DEFINE o == [iter.outputs EXCEPT ![src] = execs + 1]
      <4>1. iter \in Iterations(N)
        BY <1>0, <3>2 DEF Typed
      <4>2. o \in [N -> Nat]
        BY <1>0, <1>3, <4>1 DEF Iterations, Typed
      <4>3. iter' = [loop |-> iter.loop, items |-> iter.items, item |-> iter.item,
                     pos |-> iter.pos, ran |-> iter.ran, decided |-> iter.decided,
                     outputs |-> o]
        BY <3>2, <4>1 DEF Iterations
      <4> HIDE DEF o
      <4> QED BY <4>1, <4>2, <4>3 DEF Iterations
    <3> QED BY <1>0, <3>1, <3>2 DEF Typed
  <2>6. Typed'
    BY <1>0, <1>8, <2>1, <2>3, <2>4, <2>5 DEF Typed
  <2>7. Placed'
    <3>1. /\ Remaining' = Remaining /\ NextIndex' = NextIndex /\ order' = order
          /\ graph' = graph /\ bodyOrder' = bodyOrder /\ runStatus' = "running"
      BY <1>2, <1>8 DEF Remaining, NextIndex
    <3>2. InBody' = InBody /\ Single' = Single
      BY <1>0, <1>8, <2>1, <2>5, Absent DEF InBody, Single, WellFormed
    <3>3. InBody => Body' = Body
      BY <2>5, <3>1 DEF Body, BodyOrder, InBody
    <3>4. gate'.node = gate.node
      BY <2>4
    <3> QED BY <1>0, <1>1, <2>5, <3>1, <3>2, <3>3, <3>4 DEF Placed, InBody
  <2>8. Logged'
    BY <1>2, <1>8, <2>1, <2>2 DEF Logged
  <2> QED BY <2>1, <2>6, <2>7, <2>8 DEF GraphInv
<1> QED BY <1>6, <1>7, <1>8

(* A new iteration of a loop.                                              *)
LEMMA NewIteration ==
  ASSUME GraphInv, NEW n \in NodeSet(graph), NEW k \in Nat, NEW items \in Nat
  PROVE  /\ Iteration(n, k, items, outputs) \in Iterations(NodeSet(graph))
         /\ Iteration(n, k, items, outputs).loop = n
         /\ Iteration(n, k, items, outputs).item = k
         /\ Iteration(n, k, items, outputs).items = items
<1> DEFINE N == NodeSet(graph)
           d == [m \in N |-> IF m \in ToSet(bodyOrder[n]) THEN "open" ELSE decided[m]]
           o == [outputs EXCEPT ![n] = execs + 1]
<1>1. d \in [N -> Handles]
  BY DEF GraphInv, Typed, Handles
<1>2. o \in [N -> Nat]
  BY DEF GraphInv, Typed
<1>3. Iteration(n, k, items, outputs)
        = [loop |-> n, items |-> items, item |-> k, pos |-> 1, ran |-> {}, decided |-> d,
           outputs |-> o]
  BY DEF Iteration
<1> HIDE DEF d, o
<1> QED BY <1>1, <1>2, <1>3 DEF Iterations

(* A loop starts.                                                          *)
LEMMA StartLoopKeeps ==
  ASSUME GraphInv, NEW n \in NodeSet(graph), StartLoop(n)
  PROVE  GraphInv'
<1> DEFINE N == NodeSet(graph)
<1>0. WellFormed(graph) /\ GraphFixed /\ Typed /\ Placed
  BY DEF GraphInv, GraphFixed
<1>1. PICK items \in 0 .. MaxItems :
          /\ iter' = Iteration(n, 1, items, outputs)
          /\ runLog' = EmitAll(runLog, <<Ev("started", n)>> \o IterationStart(n, 1, items))
  BY DEF StartLoop
<1>2. /\ Due(n) /\ ~Single /\ ~InBody /\ graph.kind[n] = "loop" /\ execs' = execs + 1
      /\ UNCHANGED <<graph, order, bodyOrder, runStatus, cursor, enabled, executed, rejected,
                     loopHandled, outputs, gate, ran, decided, reviewed, stale>>
  BY DEF StartLoop, IteratesHere
<1>3. /\ runStatus = "running" /\ gate = NoGate /\ Remaining # {} /\ n = order[NextIndex]
  BY <1>2, WhoIsDue
<1>4. items \in Nat /\ items >= 0
  BY GraphBounds
<1>5. /\ iter' \in Iterations(N) /\ iter'.loop = n /\ iter'.item = 1 /\ iter'.items = items
  BY <1>1, <1>4, NewIteration
<1>6. GraphFixed' /\ NodeSet(graph)' = N
  BY <1>0, <1>2 DEF GraphFixed, NodeSet
<1>7. Typed'
  BY <1>0, <1>2, <1>4, <1>5, <1>6 DEF Typed
<1>8. Placed'
  BY <1>0, <1>2, <1>3, <1>5 DEF Placed, InBody, Single, Remaining, NextIndex
<1>9. Open(runLog', N)
  <2>1. "started" \in LogTypes \ TerminalTypes
    BY ReportTypes
  <2>2. Open(runLog, N)
    BY <1>3 DEF GraphInv, Logged
  <2> QED BY <1>1, <1>4, <2>1, <2>2, LogIteration
<1> QED BY <1>2, <1>3, <1>6, <1>7, <1>8, <1>9 DEF GraphInv, Logged

(* What is known of a loop in progress.                                    *)
LEMMA LoopOpen ==
  ASSUME GraphInv, InBody
  PROVE  /\ runStatus = "running" /\ ~Single /\ iter.loop \in NodeSet(graph)
         /\ graph.kind[iter.loop] = "loop" /\ iter \in Iterations(NodeSet(graph))
         /\ Remaining # {} /\ iter.loop = order[NextIndex] /\ Open(runLog, NodeSet(graph))
         /\ Body = ReachableFrom(graph, iter.loop) /\ Body \subseteq NodeSet(graph)
<1>1. /\ runStatus = "running" /\ ~Single /\ iter.loop \in NodeSet(graph)
      /\ graph.kind[iter.loop] = "loop" /\ iter \in Iterations(NodeSet(graph))
      /\ Remaining # {} /\ iter.loop = order[NextIndex] /\ Open(runLog, NodeSet(graph))
  BY DEF GraphInv, Typed, Placed, Logged, InBody, Iterations
<1>2. GraphFixed
  BY DEF GraphInv
<1>3. Body = ReachableFrom(graph, iter.loop) /\ Body \subseteq NodeSet(graph)
  BY <1>1, <1>2, BodyOfLoop DEF Body, BodyOrder
<1> QED BY <1>1, <1>3

(* An iteration ends and the next one starts.                              *)
LEMMA EndIterationKeeps ==
  ASSUME GraphInv, EndIteration
  PROVE  GraphInv'
<1> DEFINE N == NodeSet(graph)
<1>0. WellFormed(graph) /\ GraphFixed /\ Typed /\ Placed
  BY DEF GraphInv, GraphFixed
<1>1. /\ InBody /\ gate = NoGate /\ iter.item <= iter.items
      /\ iter' = Iteration(iter.loop, iter.item + 1, iter.items, outputs)
      /\ execs' = execs + 1
      /\ runLog' = EmitAll(runLog, <<Ev("iteration_done", iter.loop)>> \o
                                   IterationStart(iter.loop, iter.item + 1, iter.items))
      /\ UNCHANGED <<graph, order, bodyOrder, runStatus, cursor, enabled, executed, rejected,
                     loopHandled, outputs, gate, ran, decided, reviewed, stale>>
  BY DEF EndIteration
<1>2. /\ runStatus = "running" /\ iter.loop \in N /\ iter \in Iterations(N) /\ Open(runLog, N)
  BY <1>1, LoopOpen
<1>3. /\ iter.item + 1 \in Nat /\ iter.items \in Nat /\ iter.item + 1 \in 1 .. iter.items + 1
  BY <1>1, <1>2 DEF Iterations
<1>4. /\ iter' \in Iterations(N) /\ iter'.loop = iter.loop /\ iter'.item = iter.item + 1
      /\ iter'.items = iter.items
  BY <1>1, <1>2, <1>3, NewIteration
<1>5. GraphFixed' /\ NodeSet(graph)' = N
  BY <1>0, <1>1 DEF GraphFixed, NodeSet
<1>6. Typed'
  BY <1>0, <1>1, <1>3, <1>4, <1>5 DEF Typed
<1>7. Placed'
  BY <1>0, <1>1, <1>4 DEF Placed, InBody, Single, Remaining, NextIndex
<1>8. Open(runLog', N)
  <2>1. "iteration_done" \in LogTypes \ TerminalTypes
    BY ReportTypes
  <2> QED BY <1>1, <1>2, <1>3, <2>1, LogIteration
<1> QED BY <1>1, <1>2, <1>5, <1>6, <1>7, <1>8 DEF GraphInv, Logged

(* A loop ends, and its body counts as executed.                           *)
LEMMA FinishLoopKeeps ==
  ASSUME GraphInv, FinishLoop
  PROVE  GraphInv'
<1> DEFINE N == NodeSet(graph)
<1>0. WellFormed(graph) /\ GraphFixed /\ Typed /\ Placed
  BY DEF GraphInv, GraphFixed
<1>1. /\ InBody
      /\ loopHandled' = loopHandled \cup Body
      /\ executed' = executed \cup Body \cup {iter.loop}
      /\ outputs' = [n \in N |-> IF n = iter.loop THEN execs + 1
                                 ELSE IF n \in Body THEN LoopMarker ELSE outputs[n]]
      /\ execs' = execs + 1 /\ cursor' = NextIndex + 1 /\ ran' = Append(ran, iter.loop)
      /\ iter' = NoIter
      /\ runLog' = EmitAll(runLog, <<Ev("output", iter.loop), Ev("completed", iter.loop)>>)
      /\ UNCHANGED <<graph, order, bodyOrder, runStatus, enabled, rejected, gate, decided,
                     reviewed, stale>>
  BY DEF FinishLoop
<1>2. /\ runStatus = "running" /\ ~Single /\ iter.loop \in N /\ Remaining # {}
      /\ Open(runLog, N) /\ Body \subseteq N
  BY <1>1, LoopOpen
<1>3. GraphFixed' /\ NodeSet(graph)' = N
  BY <1>0, <1>1 DEF GraphFixed, NodeSet
<1>4. cursor' \in 1 .. Len(order) + 1
  <2>1. cursor \in 1 .. Len(order) + 1
    BY <1>0 DEF Typed
  <2>2. /\ Len(order) \in Nat /\ NextIndex \in Nat /\ cursor <= NextIndex
        /\ NextIndex <= Len(order)
    BY <1>0, <1>2, <2>1, OrderOfNodes, NextNode
  <2> QED BY <1>1, <2>1, <2>2
<1>5. ran' \in Seq(N)
  BY <1>0, <1>1, <1>2, AppendProperties DEF Typed
<1>6. outputs' \in [N -> Nat]
  BY <1>0, <1>1 DEF Typed, LoopMarker
<1>7. executed' \subseteq N /\ loopHandled' \subseteq N
  BY <1>0, <1>1, <1>2 DEF Typed
<1>8. Typed'
  BY <1>0, <1>1, <1>3, <1>4, <1>5, <1>6, <1>7 DEF Typed
<1>9. Placed'
  <2>1. ~InBody'
    BY <1>1 DEF InBody
  <2>2. gate' = NoGate
    <3>1. iter.item > iter.items /\ gate' = gate
      BY DEF FinishLoop
    <3>2. iter.item \in Nat /\ iter.items \in Nat
      BY <1>1, LoopOpen DEF Iterations
    <3> QED BY <1>0, <1>1, <3>1, <3>2 DEF Placed
  <2> QED BY <2>1, <2>2 DEF Placed
<1>10. Open(runLog', N)
  <2>1. {"output", "completed"} \subseteq LogTypes \ TerminalTypes
    BY ReportTypes
  <2>2. "output" \in LogTypes \ TerminalTypes /\ "completed" \in LogTypes \ TerminalTypes
    BY <2>1
  <2> QED BY <1>1, <1>2, <2>2, LogTwo
<1> QED BY <1>1, <1>2, <1>3, <1>8, <1>9, <1>10 DEF GraphInv, Logged

(* The run ends when no node is left.                                      *)
LEMMA FinishRunKeeps == GraphInv /\ FinishRun => GraphInv'
<1> SUFFICES ASSUME GraphInv, FinishRun PROVE GraphInv'
  OBVIOUS
<1> DEFINE N == NodeSet(graph)
           e == Ev("run_completed", NoNode)
<1>0. WellFormed(graph) /\ GraphFixed /\ Typed /\ Placed
  BY DEF GraphInv, GraphFixed
<1>1. /\ runStatus = "running" /\ gate = NoGate /\ ~InBody /\ runStatus' = "completed"
      /\ runLog' = EmitAll(runLog, Append(Skips(executed), e))
      /\ UNCHANGED <<graph, order, bodyOrder, cursor, enabled, executed, rejected, loopHandled,
                     outputs, iter, gate, execs, ran, decided, reviewed, stale>>
  BY DEF FinishRun, Idle
<1>2. GraphFixed' /\ NodeSet(graph)' = N
  BY <1>0, <1>1 DEF GraphFixed, NodeSet
<1>3. Typed'
  BY <1>0, <1>1, <1>2 DEF Typed
<1>4. Placed'
  BY <1>1 DEF Placed, InBody
<1>5. Closed(runLog', N)
  <2>1. "run_completed" \in LogTypes /\ "run_completed" \in TerminalTypes
        /\ "skipped" \notin TerminalTypes
    BY ReportTypes
  <2>2. e \in LogEvent(N) /\ e.type = "run_completed"
    BY <2>1, NodeEvent
  <2>3. Open(runLog, N)
    BY <1>1 DEF GraphInv, Logged
  <2>4. /\ Skips(executed) \in Seq(LogEvent(N))
        /\ \A k \in 1 .. Len(Skips(executed)) : Skips(executed)[k].type \notin TerminalTypes
    BY <1>0, <2>1, SkipReports
  <2> HIDE DEF e
  <2> QED BY <1>1, <2>1, <2>2, <2>3, <2>4, LogEnds
<1> QED BY <1>1, <1>2, <1>3, <1>4, <1>5 DEF GraphInv, Logged

(* Every step of the engine keeps the invariant.                           *)
LEMMA StepKeeps == GraphInv /\ [NextGraph]_graphVars => GraphInv'
<1> SUFFICES ASSUME GraphInv, [NextGraph]_graphVars PROVE GraphInv'
  OBVIOUS
<1>1. CASE MissingInput
  BY <1>1, MissingInputKeeps
<1>2. ASSUME NEW n \in NodeSet(graph), RunNode(n) \/ OpenGate(n) \/ StartLoop(n)
      PROVE  GraphInv'
  BY <1>2, RunNodeKeeps, OpenGateKeeps, StartLoopKeeps
<1>3. CASE EndIteration \/ FinishLoop \/ FinishRun
  BY <1>3, EndIterationKeeps, FinishLoopKeeps, FinishRunKeeps
<1>4. CASE GateApprove \/ GateReject \/ GateTimeout
  BY <1>4, GateEndsKeeps
<1>5. CASE GateRetry
  BY <1>5, GateRetryKeeps
<1>6. CASE UNCHANGED graphVars
  <2>1. UNCHANGED <<graph, order, bodyOrder, runStatus, cursor, enabled, executed, rejected,
                    loopHandled, outputs, iter, gate, execs, runLog, ran, decided,
                    reviewed, stale>>
    BY <1>6 DEF graphVars
  <2>2. GraphFixed' /\ NodeSet(graph)' = NodeSet(graph)
    BY <2>1 DEF GraphInv, GraphFixed, NodeSet
  <2>3. Typed'
    BY <2>1, <2>2 DEF GraphInv, Typed
  <2>4. Placed'
    BY <2>1 DEF GraphInv, Placed, InBody, Single, Remaining, NextIndex, Body, BodyOrder
  <2> QED BY <2>1, <2>2, <2>3, <2>4 DEF GraphInv, Logged
<1> QED BY <1>1, <1>2, <1>3, <1>4, <1>5, <1>6 DEF NextGraph, GraphSteps, GateSteps

(* What the invariant says of the run's state.                             *)
LEMMA GraphInvTypes == GraphInv => GraphTypeOK
<1> SUFFICES ASSUME GraphInv PROVE GraphTypeOK
  OBVIOUS
<1> DEFINE N == NodeSet(graph)
<1>1. GraphFixed /\ Typed
  BY DEF GraphInv
<1>2. ToSet(order) = N /\ Len(order) = Len(graph.nodes)
  BY <1>1, OrderOfNodes
<1>3. ToSet(ran) \subseteq N
  <2>1. ran \in Seq(N)
    BY <1>1 DEF Typed
  <2>2. DOMAIN ran = 1 .. Len(ran) /\ \A k \in 1 .. Len(ran) : ran[k] \in N
    BY <2>1, LenProperties, ElementOfSeq
  <2> QED BY <2>2 DEF ToSet
<1>4. UNION {enabled, executed, rejected, loopHandled, ToSet(ran), stale} \subseteq N
  BY <1>1, <1>3 DEF Typed
<1>5. DOMAIN outputs = N
  BY <1>1 DEF Typed
<1> QED BY <1>1, <1>2, <1>4, <1>5 DEF GraphTypeOK, Typed, InBody, Iterations

(* The log of a run, running or not, is as its reader expects it.          *)
LEMMA GraphInvEnding == GraphInv => OneEnding
<1> SUFFICES ASSUME GraphInv PROVE OneEnding
  OBVIOUS
<1> DEFINE N == NodeSet(graph)
           s == runLog.sent
           ends == {k \in DOMAIN s : s[k].type \in TerminalTypes}
<1>1. runLog \in Log(N) /\ Bounded(runLog, N)
  BY DEF GraphInv, Logged, Open, Closed
<1>2. /\ s \in Seq(LogEvent(N)) /\ Len(s) \in Nat /\ DOMAIN s = 1 .. Len(s)
      /\ \A k \in 1 .. Len(s) : s[k] \in LogEvent(N)
  <2>1. s \in Seq(LogEvent(N))
    BY <1>1 DEF Log
  <2> HIDE DEF s
  <2> QED BY <2>1, LenProperties, ElementOfSeq
<1>3. Ends(runLog, N) = Cardinality(ends)
  <2>1. ends = {k \in 1 .. Len(s) : s[k] \in EndEvents(N)}
    BY <1>2 DEF EndEvents
  <2> HIDE DEF ends
  <2> QED BY <2>1 DEF Ends, Count
<1>4. Ends(runLog, N) = IF runStatus = "running" THEN 0 ELSE 1
  BY DEF GraphInv, Logged, Open, Closed
<1>5. ASSUME NEW k \in ends, NEW j \in DOMAIN s, j > k
      PROVE  s[j].type \in {"skipped", "truncated"}
  <2>1. CASE runStatus = "running"
    <3>1. Cardinality(ends) = 0 /\ ends \subseteq 1 .. Len(s)
      BY <1>2, <1>3, <1>4, <2>1
    <3> HIDE DEF ends
    <3>2. IsFiniteSet(ends)
      BY <1>2, <3>1, IntervalPart
    <3> QED BY <3>1, <3>2, FS_EmptySet
  <2>2. CASE runStatus # "running"
    <3>1. Closed(runLog, N)
      BY <2>2 DEF GraphInv, Logged
    <3>2. k \in 1 .. Len(s) /\ j \in 1 .. Len(s) /\ k < j /\ s[k].type \in TerminalTypes
      BY <1>2, <1>5
    <3> QED BY <3>1, <3>2 DEF Closed
  <2> QED BY <2>1, <2>2
<1>6. Len(s) <= MaxRunEvents + 2
  BY <1>1, <1>2, <1>4, GraphBounds DEF Bounded
<1> HIDE DEF s
<1>7. Cardinality(ends) = IF runStatus = "running" THEN 0 ELSE 1
  BY <1>3, <1>4
<1> QED BY <1>5, <1>6, <1>7 DEF OneEnding, s

(* The inductive invariant of the engine.                                  *)
THEOREM GraphInvariant == SpecGraph => []GraphInv
<1>1. InitGraph => GraphInv
  BY InitKeeps
<1>2. GraphInv /\ [NextGraph]_graphVars => GraphInv'
  BY StepKeeps
<1> QED BY <1>1, <1>2, PTL DEF SpecGraph

(* The run's state stays within the graph it was given: the order holds    *)
(* each node once, and no cursor, iteration or attempt leaves its range.   *)
THEOREM GraphTypeCorrect == SpecGraph => []GraphTypeOK
BY GraphInvariant, GraphInvTypes, PTL

(* Whatever the event ceiling cuts, for any ceiling and any graph, the log *)
(* of a run holds one report of how it ended, and only skips follow.       *)
THEOREM RunEndsOnce == SpecGraph => []OneEnding
BY GraphInvariant, GraphInvEnding, PTL

-----------------------------------------------------------------------------
(* The main loop: the order it keeps and the paths it takes.               *)

(* How a step moves the main loop: not at all, by the node tested alone,   *)
(* by the next node and the edges it enables, or by a whole loop.          *)
MainSame ==
  /\ UNCHANGED <<ran, cursor, enabled, decided>>
  /\ runStatus' = "running" => runStatus = "running"
(* A node tested alone ends the run.                                        *)
Tests(n) ==
  /\ Single /\ runStatus = "running" /\ runStatus' # "running"
  /\ ran' = Append(ran, n) /\ enabled' = enabled
(* The main loop finishes its next node.                                    *)
NextIs(n) ==
  /\ ~Single /\ runStatus = "running" /\ Remaining # {} /\ n = order[NextIndex]
  /\ cursor' = NextIndex + 1 /\ ran' = Append(ran, n)
(* ... and enables what its decision selects.                               *)
Advances(n, out) ==
  /\ NextIs(n)
  /\ decided' = [decided EXCEPT ![n] = out]
  /\ enabled' = enabled \cup {e.dst : e \in {x \in EdgeSet(graph) :
                                 x.src = n /\ (Decides(n) => x.handle = out)}}
(* ... or is a loop, which enables nothing.                                 *)
Loops(n) ==
  /\ NextIs(n)
  /\ graph.kind[n] = "loop" /\ decided' = decided /\ enabled' = enabled

(* What a step may do to the main loop.                                     *)
Moving ==
  /\ graph' = graph /\ order' = order
  /\ \/ MainSame
     \/ \E n \in NodeSet(graph) : \/ Tests(n) \/ Loops(n)
                                  \/ \E out \in Handles : Advances(n, out)

(* A node that succeeds moves the main loop unless a loop runs it.         *)
LEMMA SucceedMoves ==
  ASSUME GraphInv, runStatus = "running", NEW n \in NodeSet(graph), NEW out, NEW outs, NEW l,
         out \in Handles, ~InBody /\ ~Single => Remaining # {} /\ n = order[NextIndex],
         Succeed(n, out, outs, l)
  PROVE  Moving
<1> DEFINE m == EmitAll(l, <<Ev("output", n), Ev("completed", n)>>)
<1>1. InBody => MainSame
  BY DEF Succeed, MainSame
<1>2. ~InBody /\ Single => Tests(n)
  BY DEF Succeed, Tests
<1>3. ASSUME ~InBody /\ ~Single PROVE Advances(n, out)
  <2>1. /\ Follow(n, out, m) /\ cursor' = NextIndex + 1 /\ ran' = Append(ran, n)
        /\ decided' = [decided EXCEPT ![n] = out]
    BY <1>3 DEF Succeed
  <2>2. WellFormed(graph)
    BY DEF GraphInv, GraphFixed
  <2>3. enabled' = enabled \cup {e.dst : e \in {x \in EdgeSet(graph) :
                                    x.src = n /\ (Decides(n) => x.handle = out)}}
    BY <2>1, <2>2, FollowsEdges
  <2> QED BY <1>3, <2>1, <2>3 DEF Advances, NextIs
<1>4. graph' = graph /\ order' = order
  BY DEF Succeed
<1> QED BY <1>1, <1>2, <1>3, <1>4 DEF Moving

(* One that fails does not.                                                *)
LEMMA FailMoves ==
  ASSUME runStatus = "running", NEW n, NEW l, Fail(n, l)
  PROVE  Moving
BY DEF Fail, MainSame, Moving

(* So does every step.                                                     *)
LEMMA Moves ==
  ASSUME GraphInv, [NextGraph]_graphVars
  PROVE  Moving
<1>0. {"yes", "no", "none"} \subseteq Handles
  BY DEF Handles
<1>1. CASE MissingInput \/ EndIteration \/ FinishRun \/ UNCHANGED graphVars
  BY <1>1 DEF MissingInput, EndIteration, FinishRun, graphVars, MainSame, Idle, Moving
<1>2. ASSUME NEW n \in NodeSet(graph), OpenGate(n) \/ StartLoop(n) PROVE Moving
  BY <1>2 DEF OpenGate, StartLoop, MainSame, Moving
<1>5. ASSUME NEW n \in NodeSet(graph), RunNode(n) PROVE Moving
  <2>1. /\ runStatus = "running"
        /\ ~InBody /\ ~Single => Remaining # {} /\ n = order[NextIndex]
    BY <1>5, WhoIsDue DEF RunNode
  <2>2. \/ \E out \in {"yes", "no", "none"} :
              Succeed(n, out, outputs, Emit(runLog, Ev("started", n)))
        \/ Fail(n, Emit(runLog, Ev("started", n)))
    BY <1>5 DEF RunNode
  <2> QED BY <1>0, <2>1, <2>2, SucceedMoves, FailMoves
<1>6. CASE GateApprove \/ GateReject \/ GateTimeout \/ GateRetry
  <2>1. gate # NoGate
    BY <1>6 DEF GateApprove, GateReject, GateTimeout, GateRetry
  <2>2. /\ runStatus = "running" /\ gate.node \in NodeSet(graph)
        /\ ~InBody /\ ~Single => Remaining # {} /\ gate.node = order[NextIndex]
    BY <2>1, GateOpen
  <2>3. CASE GateApprove \/ GateReject
    <3>1. \E out \in {"yes", "no", "none"} : Succeed(gate.node, out, outputs, runLog)
      BY <2>3 DEF GateApprove, GateReject
    <3> QED BY <1>0, <2>2, <3>1, SucceedMoves
  <2>4. CASE GateTimeout
    <3>1. Fail(gate.node, runLog)
      BY <2>4 DEF GateTimeout
    <3> QED BY <2>2, <3>1, FailMoves
  <2>5. CASE GateRetry
    <3>1. \/ UNCHANGED <<graph, order, bodyOrder, runStatus, cursor, enabled, executed,
                         rejected, loopHandled, ran, decided, reviewed, stale>>
          \/ \E l : Fail(gate.node, l)
      BY <2>5 DEF GateRetry
    <3>2. CASE UNCHANGED <<graph, order, bodyOrder, runStatus, cursor, enabled, executed,
                           rejected, loopHandled, ran, decided, reviewed, stale>>
      BY <3>2 DEF MainSame, Moving
    <3>3. CASE \E l : Fail(gate.node, l)
      <4> QED BY <2>2, <3>3, FailMoves
    <3> QED BY <3>1, <3>2, <3>3
  <2> QED BY <1>6, <2>3, <2>4, <2>5
<1>7. CASE FinishLoop
  <2>1. /\ runStatus = "running" /\ ~Single /\ iter.loop \in NodeSet(graph)
        /\ graph.kind[iter.loop] = "loop" /\ Remaining # {} /\ iter.loop = order[NextIndex]
    BY <1>7, LoopOpen DEF FinishLoop
  <2>2. Loops(iter.loop) /\ graph' = graph /\ order' = order
    BY <1>7, <2>1 DEF FinishLoop, Loops, NextIs
  <2> QED BY <2>1, <2>2 DEF Moving
<1> QED BY <1>1, <1>2, <1>5, <1>6, <1>7 DEF NextGraph, GraphSteps, GateSteps

(* Where a node stands in the order.                                       *)
Place(o, n) == CHOOSE p \in DOMAIN o : o[p] = n
Pos(n) == Place(order, n)

(* The main loop runs each node at most once, in order.                    *)
InOrder ==
  /\ Single => Len(ran) <= 1 /\ (runStatus = "running" => Len(ran) = 0)
  /\ ~Single => /\ \A k \in 1 .. Len(ran) : Pos(ran[k]) < cursor
                /\ \A i, j \in 1 .. Len(ran) : i < j => Pos(ran[i]) < Pos(ran[j])

(* What led to a node: nothing, or a node that ran and decided for it.     *)
LedTo(n) ==
  \/ InEdges(graph, n) = << >>
  \/ \E i \in 1 .. Len(ran), e \in ToSet(InEdges(graph, n)) :
        e.src = ran[i] /\ (Decides(ran[i]) => decided[ran[i]] = e.handle)
Led == ~Single => \A n \in enabled : LedTo(n)

(* The position of the k-th node of the order is k.                        *)
LEMMA PosOfNode ==
  ASSUME GraphFixed, NEW k \in 1 .. Len(order)
  PROVE  Pos(order[k]) = k
<1>1. DOMAIN order = 1 .. Len(order) /\ IsInjective(order)
  BY OrderOfNodes
<1>2. \A p \in DOMAIN order : order[p] = order[k] => p = k
  BY <1>1 DEF IsInjective
<1>3. \E p \in DOMAIN order : order[p] = order[k]
  BY <1>1
<1> QED BY <1>2, <1>3 DEF Pos, Place

(* The next node has not run, and stands behind those that have.           *)
LEMMA NextIsLater ==
  ASSUME GraphInv, InOrder, NEW n \in NodeSet(graph), NextIs(n)
  PROVE  /\ NextIndex \in Nat /\ cursor \in Nat /\ cursor <= NextIndex /\ Pos(n) = NextIndex
         /\ n \in enabled /\ ran \in Seq(NodeSet(graph)) /\ Len(ran) \in Nat
         /\ Len(ran') = Len(ran) + 1 /\ ran'[Len(ran) + 1] = n
         /\ \A k \in 1 .. Len(ran) : ran'[k] = ran[k] /\ ran[k] # n /\ ran[k] \in NodeSet(graph)
         /\ \A k \in 1 .. Len(ran) : Pos(ran[k]) \in Nat /\ Pos(ran[k]) < cursor
<1>1. /\ GraphFixed /\ cursor \in 1 .. Len(order) + 1 /\ ran \in Seq(NodeSet(graph))
  BY DEF GraphInv, Typed
<1>2. /\ ~Single /\ Remaining # {} /\ n = order[NextIndex] /\ ran' = Append(ran, n)
  BY DEF NextIs
<1>3. /\ NextIndex \in Nat /\ cursor <= NextIndex /\ NextIndex <= Len(order) /\ n \in enabled
  BY <1>1, <1>2, NextNode
<1>4. Len(order) \in Nat
  BY <1>1, OrderOfNodes
<1>5. cursor \in Nat /\ NextIndex \in 1 .. Len(order)
  BY <1>1, <1>3, <1>4
<1>6. Pos(n) = NextIndex
  BY <1>1, <1>2, <1>5, PosOfNode
<1>7. /\ Len(ran) \in Nat /\ Len(ran') = Len(ran) + 1 /\ ran'[Len(ran) + 1] = n
      /\ \A k \in 1 .. Len(ran) : ran'[k] = ran[k] /\ ran[k] \in NodeSet(graph)
  BY <1>1, <1>2, Appended, ElementOfSeq
<1>8. \A m \in NodeSet(graph) : Pos(m) \in Nat
  <2>1. \A m \in NodeSet(graph) : \E p \in DOMAIN order : order[p] = m
    BY <1>1, OrderOfNodes DEF ToSet
  <2>2. DOMAIN order = 1 .. Len(order)
    BY <1>1, OrderOfNodes
  <2> QED BY <1>4, <2>1, <2>2 DEF Pos, Place
<1>9. \A k \in 1 .. Len(ran) : Pos(ran[k]) < cursor
  BY <1>2 DEF InOrder
<1>10. \A k \in 1 .. Len(ran) : ran[k] # n /\ Pos(ran[k]) \in Nat
  BY <1>3, <1>5, <1>6, <1>7, <1>8, <1>9
<1> QED BY <1>1, <1>3, <1>5, <1>6, <1>7, <1>9, <1>10

(* Every step keeps the order.                                             *)
LEMMA OrderKept ==
  ASSUME GraphInv, InOrder, [NextGraph]_graphVars
  PROVE  InOrder'
<1>1. Moving
  BY Moves
<1>2. graph' = graph /\ order' = order /\ Single' = Single /\ (\A n : Pos(n)' = Pos(n))
  BY <1>1 DEF Moving, Single, Pos
<1>3. ran \in Seq(NodeSet(graph)) /\ Len(ran) \in Nat
  BY LenProperties DEF GraphInv, Typed
<1>4. CASE MainSame
  <2>1. ran' = ran /\ cursor' = cursor /\ (runStatus' = "running" => runStatus = "running")
    BY <1>4 DEF MainSame
  <2>2. \A k : Pos(ran[k])' = Pos(ran[k])
    BY <1>2, <2>1 DEF Pos
  <2> QED BY <1>2, <2>1, <2>2 DEF InOrder
<1>5. ASSUME NEW n \in NodeSet(graph), Tests(n) PROVE InOrder'
  <2>1. Len(ran') = Len(ran) + 1
    BY <1>3, <1>5, AppendProperties DEF Tests
  <2> QED BY <1>2, <1>5, <2>1 DEF InOrder, Tests
<1>6. ASSUME NEW n \in NodeSet(graph), NextIs(n) PROVE InOrder'
  <2>1. /\ NextIndex \in Nat /\ cursor \in Nat /\ cursor <= NextIndex /\ Pos(n) = NextIndex
        /\ Len(ran') = Len(ran) + 1 /\ ran'[Len(ran) + 1] = n
        /\ \A k \in 1 .. Len(ran) : ran'[k] = ran[k]
        /\ \A k \in 1 .. Len(ran) : Pos(ran[k]) \in Nat /\ Pos(ran[k]) < cursor
    BY <1>6, NextIsLater
  <2>2. ~Single /\ cursor' = NextIndex + 1
    BY <1>6 DEF NextIs
  <2>3. \A k : Pos(ran[k])' = Place(order, ran'[k])
    BY <1>2 DEF Pos
  <2>4. /\ \A k \in 1 .. Len(ran) : Pos(ran[k])' = Pos(ran[k])
        /\ \A k : k = Len(ran) + 1 => Pos(ran[k])' = NextIndex
    BY <2>1, <2>3 DEF Pos
  <2>5. \A k \in 1 .. Len(ran') : k \in 1 .. Len(ran) \/ k = Len(ran) + 1
    BY <1>3, <2>1
  <2> QED BY <1>2, <2>1, <2>2, <2>4, <2>5 DEF InOrder
<1> QED BY <1>1, <1>4, <1>5, <1>6 DEF Moving, Loops, Advances

(* Every step that enables a node comes from one that leads to it.         *)
LEMMA LedKept ==
  ASSUME GraphInv, InOrder, Led, PathTaken, [NextGraph]_graphVars
  PROVE  Led' /\ PathTaken'
<1> DEFINE N == NodeSet(graph)
<1>1. Moving
  BY Moves
<1>2. /\ graph' = graph /\ Single' = Single /\ (\A n : Decides(n)' = Decides(n))
      /\ \A n : InEdges(graph, n)' = InEdges(graph, n)
  BY <1>1 DEF Moving, Single, Decides, InEdges, EdgeSet
<1>3. /\ ran \in Seq(N) /\ Len(ran) \in Nat /\ DOMAIN ran = 1 .. Len(ran)
      /\ decided \in [N -> Handles] /\ WellFormed(graph)
  BY LenProperties DEF GraphInv, Typed, GraphFixed
<1>4. CASE MainSame
  <2>1. ran' = ran /\ enabled' = enabled /\ decided' = decided
    BY <1>4 DEF MainSame
  <2>2. Led'
    BY <1>2, <2>1 DEF Led, LedTo
  <2>3. PathTaken'
    BY <1>2, <2>1 DEF PathTaken
  <2> QED BY <2>2, <2>3
<1>5. CASE Single
  BY <1>2, <1>5 DEF Led, PathTaken
<1>6. ASSUME NEW n \in N, NextIs(n),
             \A m \in N \ {n} : decided'[m] = decided[m],
             \A m \in enabled' : m \in enabled \/ \E e \in EdgeSet(graph) :
                /\ e.src = n /\ e.dst = m /\ (Decides(n) => decided'[n] = e.handle)
      PROVE  Led' /\ PathTaken'
  <2> DEFINE top == Len(ran) + 1
             Path(j, m) == \E i \in 1 .. j, e \in ToSet(InEdges(graph, m)) :
                              /\ e.src = ran'[i]
                              /\ Decides(ran'[i]) => decided'[ran'[i]] = e.handle
  <2>1. /\ n \in enabled /\ Len(ran') = top /\ ran'[top] = n
        /\ \A k \in 1 .. Len(ran) : ran'[k] = ran[k] /\ ran[k] # n /\ ran[k] \in N
    BY <1>6, NextIsLater
  <2>2. ~Single /\ DOMAIN ran' = 1 .. top
    BY <1>3, <1>6, <2>1, Appended DEF NextIs
  <2>3. top \in Nat /\ top > Len(ran) /\ top \in 1 .. top /\ 1 .. Len(ran) \subseteq 1 .. top
        /\ 1 .. Len(ran) = 1 .. top - 1
    BY <1>3
  <2> HIDE DEF top
  <2>4. \A m \in enabled : InEdges(graph, m) = << >> \/ Path(top - 1, m)
    BY <2>1, <2>2, <2>3, <1>6 DEF Led, LedTo
  <2>5. \A m : Path(top - 1, m) => Path(top, m)
    BY <2>3
  <2>6. \A m \in enabled' : m \in enabled \/ Path(top, m)
    <3> SUFFICES ASSUME NEW m \in enabled', m \notin enabled PROVE Path(top, m)
      OBVIOUS
    <3>1. PICK e \in EdgeSet(graph) :
             e.src = n /\ e.dst = m /\ (Decides(n) => decided'[n] = e.handle)
      BY <1>6
    <3>2. e \in ToSet(InEdges(graph, m))
      BY <1>3, <3>1, GraphParts
    <3> QED BY <2>1, <2>3, <3>1, <3>2
  <2>7. Led'
    <3>1. \A m \in enabled' : InEdges(graph, m) = << >> \/ Path(top, m)
      BY <2>4, <2>5, <2>6
    <3> QED BY <1>2, <2>1, <3>1 DEF Led, LedTo
  <2>8. ASSUME NEW j \in 1 .. top
        PROVE  InEdges(graph, ran'[j]) = << >> \/ Path(j - 1, ran'[j])
    <3>1. CASE j = top
      BY <2>1, <2>4, <3>1
    <3>2. CASE j # top
      <4>1. j \in 1 .. Len(ran) /\ 1 .. j - 1 \subseteq 1 .. Len(ran)
        BY <1>3, <2>3, <3>2
      <4>2. \/ InEdges(graph, ran[j]) = << >>
            \/ \E i \in 1 .. j - 1, e \in ToSet(InEdges(graph, ran[j])) :
                 e.src = ran[i] /\ (Decides(ran[i]) => decided[ran[i]] = e.handle)
        BY <1>3, <2>2, <4>1 DEF PathTaken
      <4> QED BY <1>6, <2>1, <4>1, <4>2
    <3> QED BY <3>1, <3>2
  <2>9. PathTaken'
    BY <1>2, <2>2, <2>8 DEF PathTaken
  <2> QED BY <2>7, <2>9
<1>7. ASSUME NEW n \in N, Loops(n) PROVE Led' /\ PathTaken'
  BY <1>6, <1>7 DEF Loops
<1>8. ASSUME NEW n \in N, NEW out \in Handles, Advances(n, out) PROVE Led' /\ PathTaken'
  <2>1. decided' = [decided EXCEPT ![n] = out]
    BY <1>8 DEF Advances
  <2>2. decided'[n] = out /\ \A m \in N \ {n} : decided'[m] = decided[m]
    BY <1>3, <2>1
  <2>3. \A m \in enabled' : m \in enabled \/ \E e \in EdgeSet(graph) :
                /\ e.src = n /\ e.dst = m /\ (Decides(n) => decided'[n] = e.handle)
    BY <1>8, <2>2 DEF Advances
  <2> QED BY <1>6, <1>8, <2>2, <2>3 DEF Advances
<1> QED BY <1>1, <1>4, <1>5, <1>7, <1>8 DEF Moving, Tests

(* A node's end does not end the loop that runs it.                        *)
LEMMA BodyGoesOn ==
  ASSUME GraphInv, InBody, NEW n,
         \/ \E out, outs, l : Succeed(n, out, outs, l)
         \/ \E l : Fail(n, l)
  PROVE  executed' = executed /\ InBody' /\ iter'.loop = iter.loop
<1>1. iter \in Iterations(NodeSet(graph)) /\ NoNode \notin NodeSet(graph)
  BY LoopOpen DEF GraphInv, GraphFixed, WellFormed
<1>2. executed' = executed /\ iter'.loop = iter.loop
  <2>1. ASSUME NEW out, NEW outs, NEW l, Succeed(n, out, outs, l)
        PROVE  executed' = executed /\ iter'.loop = iter.loop
    <3>1. iter' = [iter EXCEPT !.outputs[n] = execs', !.pos = @ + 1,
                               !.ran = @ \cup {n}, !.decided[n] = out]
          /\ executed' = executed
      BY <2>1 DEF Succeed
    <3> QED BY <1>1, <3>1 DEF Iterations
  <2>2. ASSUME NEW l, Fail(n, l) PROVE executed' = executed /\ iter'.loop = iter.loop
    <3>1. /\ iter' = [iter EXCEPT !.pos = Len(BodyOrder) + 1, !.ran = @ \cup {n}]
          /\ executed' = executed
      BY <2>2 DEF Fail
    <3> QED BY <1>1, <3>1 DEF Iterations
  <2> QED BY <2>1, <2>2
<1>3. iter'.loop # NoNode
  BY <1>1, <1>2 DEF Iterations
<1> QED BY <1>2, <1>3 DEF InBody, NoIter

(* One iteration of a loop runs the body in its order: the nodes that ran   *)
(* are the first of it, and a gate it opened is the one it stands at.       *)
BodyInOrder ==
  InBody =>
    /\ \E m \in 0 .. Len(BodyOrder) :
          /\ iter.ran = First(BodyOrder, m)
          /\ iter.pos \in {m + 1, Len(BodyOrder) + 1}
    /\ gate # NoGate => iter.pos <= Len(BodyOrder) /\ gate.node = BodyOrder[iter.pos]

(* The end of the node the iteration stands at keeps that.                 *)
LEMMA BodyAdvances ==
  ASSUME GraphInv, BodyInOrder, NEW n,
         InBody => iter.pos <= Len(BodyOrder) /\ n = BodyOrder[iter.pos],
         \/ \E out, outs, l : Succeed(n, out, outs, l)
         \/ \E l : Fail(n, l)
  PROVE  BodyInOrder'
<1>1. CASE ~InBody
  <2>1. ~InBody'
    BY <1>1 DEF Succeed, Fail, InBody
  <2> QED BY <2>1 DEF BodyInOrder
<1>2. CASE InBody
  <2> DEFINE o == BodyOrder
  <2>1. iter \in Iterations(NodeSet(graph)) /\ iter.loop \in NodeSet(graph)
        /\ graph.kind[iter.loop] = "loop" /\ GraphFixed
    BY <1>2, LoopOpen DEF GraphInv
  <2>2. Len(o) \in Nat
    BY <2>1, BodyOfLoop DEF BodyOrder
  <2>3. InBody' /\ iter'.loop = iter.loop /\ bodyOrder' = bodyOrder /\ gate' = NoGate
    <3>1. bodyOrder' = bodyOrder /\ gate' = NoGate
      BY DEF Succeed, Fail
    <3> QED BY <1>2, <3>1, BodyGoesOn
  <2>4. BodyOrder' = o
    BY <2>3 DEF BodyOrder
  <2>5. iter'.ran = iter.ran \cup {n} /\ iter'.pos \in {iter.pos + 1, Len(o) + 1}
    <3>1. ASSUME NEW out, NEW outs, NEW l, Succeed(n, out, outs, l)
          PROVE  iter'.ran = iter.ran \cup {n} /\ iter'.pos = iter.pos + 1
      <4>1. iter' = [iter EXCEPT !.outputs[n] = execs', !.pos = @ + 1,
                                 !.ran = @ \cup {n}, !.decided[n] = out]
        BY <1>2, <3>1 DEF Succeed
      <4> QED BY <2>1, <4>1 DEF Iterations
    <3>2. ASSUME NEW l, Fail(n, l)
          PROVE  iter'.ran = iter.ran \cup {n} /\ iter'.pos = Len(o) + 1
      <4>1. iter' = [iter EXCEPT !.pos = Len(o) + 1, !.ran = @ \cup {n}]
        BY <1>2, <3>2 DEF Fail
      <4> QED BY <2>1, <4>1 DEF Iterations
    <3> QED BY <3>1, <3>2
  <2>6. PICK m \in 0 .. Len(o) :
           iter.ran = First(o, m) /\ iter.pos \in {m + 1, Len(o) + 1}
    BY <1>2 DEF BodyInOrder
  <2> HIDE DEF o
  <2>7. iter.pos = m + 1 /\ m + 1 \in 0 .. Len(o) /\ n = o[m + 1]
    BY <1>2, <2>2, <2>6 DEF o
  <2>8. First(o, m + 1) = First(o, m) \cup {o[m + 1]}
    <3>1. 1 .. m + 1 = (1 .. m) \cup {m + 1}
      BY <2>6
    <3> QED BY <3>1 DEF First
  <2>9. iter'.ran = First(o, m + 1) /\ iter'.pos \in {(m + 1) + 1, Len(o) + 1}
    BY <2>5, <2>6, <2>7, <2>8
  <2> QED BY <2>3, <2>4, <2>7, <2>9 DEF BodyInOrder
<1> QED BY <1>1, <1>2

(* A step that leaves the iteration where it stands keeps it.              *)
LEMMA BodyStays ==
  ASSUME BodyInOrder, bodyOrder' = bodyOrder, InBody' => InBody,
         InBody' => /\ iter'.loop = iter.loop /\ iter'.ran = iter.ran /\ iter'.pos = iter.pos
                    /\ \/ gate' = NoGate
                       \/ gate # NoGate /\ gate'.node = gate.node
                       \/ iter.pos <= Len(BodyOrder) /\ gate'.node = BodyOrder[iter.pos]
  PROVE  BodyInOrder'
<1> SUFFICES ASSUME InBody' PROVE BodyInOrder'
  BY DEF BodyInOrder
<1>1. InBody /\ BodyOrder' = BodyOrder
  BY DEF BodyOrder
<1> QED BY <1>1 DEF BodyInOrder

(* An iteration that begins has run nothing.                               *)
LEMMA BodyBegins ==
  ASSUME GraphFixed, bodyOrder' = bodyOrder, gate' = NoGate,
         NEW n \in NodeSet(graph), graph.kind[n] = "loop", NEW k, NEW items, NEW outs,
         iter' = Iteration(n, k, items, outs)
  PROVE  BodyInOrder'
<1>1. iter'.loop = n /\ iter'.ran = {} /\ iter'.pos = 1
  BY DEF Iteration
<1>2. BodyOrder' = bodyOrder[n] /\ Len(bodyOrder[n]) \in Nat
  BY <1>1, BodyOfLoop DEF BodyOrder
<1>3. First(bodyOrder[n], 0) = {}
  BY DEF First
<1>4. 0 \in 0 .. Len(bodyOrder[n]) /\ iter'.pos \in {0 + 1, Len(bodyOrder[n]) + 1}
  BY <1>1, <1>2
<1> QED BY <1>1, <1>2, <1>3, <1>4 DEF BodyInOrder

(* Every step keeps the order of a body.                                   *)
LEMMA BodyOrderKept ==
  ASSUME GraphInv, BodyInOrder, [NextGraph]_graphVars
  PROVE  BodyInOrder'
<1> DEFINE N == NodeSet(graph)
<1>1. ASSUME NEW n \in N, RunNode(n) PROVE BodyInOrder'
  <2>1. Due(n) /\ ((\E out, outs, l : Succeed(n, out, outs, l)) \/ (\E l : Fail(n, l)))
    BY <1>1 DEF RunNode
  <2>2. InBody => iter.pos <= Len(BodyOrder) /\ n = BodyOrder[iter.pos]
    BY <2>1 DEF Due, GraphInv, Placed
  <2> QED BY <2>1, <2>2, BodyAdvances
<1>2. CASE GateApprove \/ GateReject \/ GateTimeout
  <2>1. gate # NoGate
    BY <1>2 DEF GateApprove, GateReject, GateTimeout
  <2>2. (\E out, outs, l : Succeed(gate.node, out, outs, l)) \/ (\E l : Fail(gate.node, l))
    BY <1>2 DEF GateApprove, GateReject, GateTimeout
  <2> QED BY <2>1, <2>2, BodyAdvances DEF BodyInOrder
<1>3. ASSUME NEW n \in N, OpenGate(n) PROVE BodyInOrder'
  <2>1. bodyOrder' = bodyOrder /\ iter' = iter /\ gate'.node = n /\ Due(n)
    BY <1>3 DEF OpenGate
  <2>2. InBody => iter.pos <= Len(BodyOrder) /\ n = BodyOrder[iter.pos]
    BY <2>1 DEF Due, GraphInv, Placed
  <2> QED BY <2>1, <2>2, BodyStays DEF InBody
<1>4. CASE GateRetry
  <2> DEFINE src == GateSource(gate.node)
  <2>1. gate # NoGate /\ gate \in Gates(N)
    BY <1>4, GateOpen DEF GateRetry
  <2>2. CASE \E l : Fail(gate.node, l)
    BY <2>1, <2>2, BodyAdvances DEF BodyInOrder
  <2>3. CASE /\ Publish(src, gate.node) /\ bodyOrder' = bodyOrder
             /\ gate' = [gate EXCEPT !.attempt = @ + 1, !.shown = execs']
    <3>1. gate'.node = gate.node
      BY <2>1, <2>3 DEF Gates
    <3>2. iter' = iter \/ (InBody /\ iter' = [iter EXCEPT !.outputs[src] = execs + 1])
      BY <2>3 DEF Publish
    <3>3. ASSUME InBody PROVE iter'.loop = iter.loop /\ iter'.ran = iter.ran /\ iter'.pos = iter.pos
      <4>1. iter \in Iterations(N)
        BY <3>3, LoopOpen
      <4> QED BY <3>2, <4>1 DEF Iterations
    <3>4. InBody' => InBody
      BY <3>2 DEF InBody
    <3> QED BY <2>1, <2>3, <3>1, <3>3, <3>4, BodyStays
  <2> QED BY <1>4, <2>2, <2>3 DEF GateRetry
<1>5. ASSUME NEW n \in N, StartLoop(n) PROVE BodyInOrder'
  <2>1. bodyOrder' = bodyOrder /\ gate' = NoGate /\ graph.kind[n] = "loop"
    BY <1>5 DEF StartLoop, Due, IteratesHere
  <2>2. \E items : iter' = Iteration(n, 1, items, outputs)
    BY <1>5 DEF StartLoop
  <2> QED BY <2>1, <2>2, BodyBegins DEF GraphInv
<1>6. CASE EndIteration
  <2>1. /\ bodyOrder' = bodyOrder /\ gate' = NoGate /\ InBody
        /\ iter' = Iteration(iter.loop, iter.item + 1, iter.items, outputs)
    BY <1>6 DEF EndIteration
  <2>2. iter.loop \in N /\ graph.kind[iter.loop] = "loop"
    BY <2>1, LoopOpen
  <2> QED BY <2>1, <2>2, BodyBegins DEF GraphInv
<1>7. CASE FinishLoop
  BY <1>7 DEF FinishLoop, BodyInOrder, InBody
<1>8. CASE FinishRun \/ MissingInput \/ UNCHANGED graphVars
  <2>1. bodyOrder' = bodyOrder /\ iter' = iter /\ gate' = gate
    BY <1>8 DEF FinishRun, MissingInput, graphVars
  <2> QED BY <2>1, BodyStays DEF InBody
<1> QED BY <1>1, <1>2, <1>3, <1>4, <1>5, <1>6, <1>7, <1>8 DEF NextGraph, GraphSteps, GateSteps

(* A node of the main loop that ran before its parent stands behind a      *)
(* cycle.                                                                  *)
MainParentsFirst ==
  \A i, j \in DOMAIN ran :
     i < j /\ (\E e \in EdgeSet(graph) : e.src = ran[j] /\ e.dst = ran[i])
       => BehindCycle(ran[i])
LEMMA MainOrdered == GraphInv /\ InOrder => MainParentsFirst
<1> SUFFICES ASSUME GraphInv, InOrder,
                    NEW i \in DOMAIN ran, NEW j \in DOMAIN ran, i < j,
                    NEW e \in EdgeSet(graph), e.src = ran[j], e.dst = ran[i]
             PROVE  BehindCycle(ran[i])
  BY DEF MainParentsFirst
<1> DEFINE N == NodeSet(graph)
           U == Unsorted(graph.nodes, graph.edges)
<1>1. /\ GraphFixed /\ WellFormed(graph) /\ ran \in Seq(N) /\ Len(ran) \in Nat
      /\ DOMAIN ran = 1 .. Len(ran)
  BY LenProperties DEF GraphInv, GraphFixed, Typed
<1>2. ~Single /\ ran[i] \in N /\ ran[j] \in N /\ Pos(ran[i]) < Pos(ran[j])
  BY <1>1, ElementOfSeq DEF InOrder
<1>3. /\ graph.nodes \in Seq(N) /\ IsInjective(graph.nodes) /\ ToSet(graph.nodes) = N
      /\ graph.edges \in Seq(Joining(N)) /\ order = TopoSort(graph.nodes, graph.edges)
      /\ ToSet(graph.edges) = EdgeSet(graph)
  BY <1>1 DEF GraphFixed, WellFormed, NodeSet, Joining, EdgeSet
<1>4. /\ \A a, b \in 1 .. Len(order) : \A x \in EdgeSet(graph) :
               order[a] = x.dst /\ order[b] = x.src /\ a <= b => x.dst \in U
      /\ \A n \in U : \E x \in EdgeSet(graph) : x.dst = n /\ x.src \in U
  BY <1>3, TopoSorted
<1>5. U \in SUBSET N
  BY <1>3 DEF Unsorted
<1> HIDE DEF U
<1>6. DOMAIN order = 1 .. Len(order) /\ ToSet(order) = N /\ Len(order) \in Nat
  BY <1>1, OrderOfNodes
<1>7. PICK a \in 1 .. Len(order) : order[a] = ran[i]
  BY <1>2, <1>6 DEF ToSet
<1>8. PICK b \in 1 .. Len(order) : order[b] = ran[j]
  BY <1>2, <1>6 DEF ToSet
<1>9. a <= b
  BY <1>1, <1>2, <1>6, <1>7, <1>8, PosOfNode
<1>10. ran[i] \in U
  BY <1>4, <1>7, <1>8, <1>9
<1>11. \E m \in N : m \in ReachableFrom(graph, m) /\ ran[i] \in ReachableFrom(graph, m)
  BY <1>1, <1>4, <1>5, <1>10, BehindSomeCycle
<1> QED BY <1>11 DEF BehindCycle

(* So does a node of a body that ran in an iteration before its parent.    *)
LEMMA BodyOrdered ==
  ASSUME GraphInv, BodyInOrder, InBody, NEW n \in iter.ran,
         NEW e \in EdgeSet(graph), e.dst = n, e.src \in Body \ iter.ran
  PROVE  BehindCycle(n)
<1> DEFINE o == bodyOrder[iter.loop]
<1>1. iter.loop \in NodeSet(graph) /\ graph.kind[iter.loop] = "loop" /\ GraphFixed
  BY LoopOpen DEF GraphInv
<1>2. Len(o) \in Nat /\ DOMAIN o = 1 .. Len(o)
  BY <1>1, BodyOfLoop
<1>3. PICK m \in 0 .. Len(o) : iter.ran = First(o, m)
  BY DEF BodyInOrder, BodyOrder
<1>4. PICK i \in 1 .. m : n = o[i]
  BY <1>3 DEF First
<1>5. PICK j \in 1 .. Len(o) : e.src = o[j]
  BY <1>2 DEF Body, BodyOrder, ToSet
<1>6. ~(j \in 1 .. m)
  BY <1>3, <1>5 DEF First
<1>7. i \in 1 .. Len(o) /\ i <= j
  BY <1>2, <1>3, <1>4, <1>5, <1>6
<1> QED BY <1>1, <1>4, <1>5, <1>7, BodySorted

(* The order of the main loop and of each iteration.                       *)
LEMMA OrderedParents == GraphInv /\ InOrder /\ BodyInOrder => ParentsFirst
BY MainOrdered, BodyOrdered DEF MainParentsFirst, ParentsFirst

(* Initially no node has run, and the enabled ones have no parent.         *)
LEMMA InitMain == InitGraph => InOrder /\ BodyInOrder /\ Led /\ PathTaken
<1> SUFFICES ASSUME InitGraph PROVE InOrder /\ BodyInOrder /\ Led /\ PathTaken
  OBVIOUS
<1>1. ran = << >> /\ ~InBody /\ \A n \in enabled : InEdges(graph, n) = << >>
  BY DEF InitGraph, InBody
<1>2. Len(ran) = 0 /\ DOMAIN ran = {}
  BY <1>1
<1> QED BY <1>1, <1>2 DEF InOrder, BodyInOrder, Led, LedTo, PathTaken

(* The engine's invariant with what it says of the order of nodes.          *)
MainInv == GraphInv /\ InOrder /\ BodyInOrder /\ Led /\ PathTaken

(* The main loop's invariant.                                              *)
THEOREM MainLoopInvariant == SpecGraph => []MainInv
<1>1. InitGraph => MainInv
  BY InitKeeps, InitMain DEF MainInv
<1>2. MainInv /\ [NextGraph]_graphVars => MainInv'
  BY StepKeeps, OrderKept, BodyOrderKept, LedKept DEF MainInv
<1> QED BY <1>1, <1>2, PTL DEF SpecGraph

(* A node of the main loop ran only because it is a root or because a node *)
(* that finished before it led there, by the edge its decision took.       *)
THEOREM PathsAreTaken == SpecGraph => []PathTaken
<1>1. MainInv => PathTaken
  BY DEF MainInv
<1> QED BY <1>1, MainLoopInvariant, PTL

(* On every graph, neither the main loop nor an iteration of a loop runs a *)
(* node before a parent that it also runs, unless the node stands on or    *)
(* behind a cycle.                                                         *)
THEOREM ParentsRunFirst == SpecGraph => []ParentsFirst
<1>1. MainInv => ParentsFirst
  BY OrderedParents DEF MainInv
<1> QED BY <1>1, MainLoopInvariant, PTL

-----------------------------------------------------------------------------
(* What a log tells of each node.                                          *)

(* m holds what l holds and the events S, if the ceiling cut none.         *)
Reports(l, m, S) ==
  /\ ToSet(m.sent) \subseteq ToSet(l.sent) \cup S \cup {Notice}
  /\ ~m.truncated => ~l.truncated /\ ToSet(m.sent) = ToSet(l.sent) \cup S
(* The nodes that events of S name; events that name none that count.       *)
OfType(S, t) == {e.node : e \in {x \in S : x.type = t}}
Quiet(S) == \A e \in S : e.type \notin {"started", "feedback", "skipped"}

(* One event.                                                              *)
LEMMA EmitReports ==
  ASSUME NEW N, NEW l \in Log(N), NEW ev \in LogEvent(N)
  PROVE  Reports(l, Emit(l, ev), {ev}) /\ Emit(l, ev) \in Log(N)
<1> DEFINE m == Emit(l, ev)
<1>1. /\ m \in Log(N)
      /\ m.sent \in {l.sent, Append(l.sent, ev), Append(l.sent, Notice)}
      /\ ~m.truncated => ~l.truncated /\ m.sent = Append(l.sent, ev)
  BY EmitLog
<1>2. l.sent \in Seq(LogEvent(N)) /\ Notice \in LogEvent(N)
  <2>1. "truncated" \in LogTypes
    BY DEF LogTypes
  <2> QED BY <2>1 DEF Log, Notice, Ev, LogEvent
<1> DEFINE s == l.sent
<1> HIDE DEF m, s
<1>3. \A x \in LogEvent(N) : ToSet(Append(s, x)) = ToSet(s) \cup {x}
  <2>1. s \in Seq(LogEvent(N))
    BY <1>2 DEF s
  <2> SUFFICES ASSUME NEW x \in LogEvent(N) PROVE ToSet(Append(s, x)) = ToSet(s) \cup {x}
    OBVIOUS
  <2> QED BY <2>1, Appended
<1>4. ToSet(Append(s, ev)) = ToSet(s) \cup {ev} /\ ToSet(Append(s, Notice)) = ToSet(s) \cup {Notice}
  BY <1>2, <1>3
<1>5. /\ m.sent = s \/ m.sent = Append(s, ev) \/ m.sent = Append(s, Notice)
      /\ ~m.truncated => ~l.truncated /\ m.sent = Append(s, ev)
  BY <1>1 DEF s
<1>6. /\ ToSet(m.sent) \subseteq ToSet(s) \cup {ev} \cup {Notice}
      /\ ~m.truncated => ~l.truncated /\ ToSet(m.sent) = ToSet(s) \cup {ev}
  BY <1>4, <1>5
<1> QED BY <1>1, <1>6 DEF Reports, m, s

(* One report after the other.                                             *)
LEMMA ReportsAfter ==
  ASSUME NEW l, NEW m, NEW k, NEW S, NEW T, Reports(l, m, S), Reports(m, k, T)
  PROVE  Reports(l, k, S \cup T)
BY DEF Reports

(* Several events.                                                         *)
LEMMA EmitAllReports ==
  ASSUME NEW N, NEW l \in Log(N), NEW evs \in Seq(LogEvent(N))
  PROVE  Reports(l, EmitAll(l, evs), ToSet(evs)) /\ EmitAll(l, evs) \in Log(N)
<1> DEFINE f == EmitIter(l, evs)
           E(k) == {evs[i] : i \in 1 .. k}
           P == {k \in Nat : k <= Len(evs) => Reports(l, f[k], E(k))}
<1>1. Len(evs) \in Nat /\ DOMAIN evs = 1 .. Len(evs)
  BY LenProperties
<1>2. /\ f[0] = l /\ \A k \in 1 .. Len(evs) : f[k] = Emit(f[k - 1], evs[k])
      /\ \A k \in 0 .. Len(evs) : f[k] \in Log(N)
  BY <1>1, EmitRecursion
<1>0. EmitAll(l, evs) = f[Len(evs)]
  BY EmitUnfold
<1> HIDE DEF f
<1>3. 0 \in P
  <2>1. E(0) = {}
    OBVIOUS
  <2> QED BY <1>2, <2>1 DEF Reports
<1>4. ASSUME NEW k \in Nat, k \in P PROVE k + 1 \in P
  <2> SUFFICES ASSUME k + 1 <= Len(evs) PROVE Reports(l, f[k + 1], E(k + 1))
    OBVIOUS
  <2>1. k + 1 \in 1 .. Len(evs) /\ (k + 1) - 1 = k /\ k \in 0 .. Len(evs)
    BY <1>1
  <2>2. f[k + 1] = Emit(f[k], evs[k + 1]) /\ Reports(l, f[k], E(k)) /\ f[k] \in Log(N)
    <3> HIDE DEF E
    <3>1. f[k + 1] = Emit(f[(k + 1) - 1], evs[k + 1])
      BY <1>2, <2>1
    <3>2. k <= Len(evs)
      BY <1>1
    <3>3. Reports(l, f[k], E(k))
      BY <1>4, <3>2
    <3>4. f[k] \in Log(N)
      BY <1>2, <2>1
    <3> QED BY <2>1, <3>1, <3>3, <3>4
  <2>3. evs[k + 1] \in LogEvent(N)
    BY <2>1, ElementOfSeq
  <2>4. Reports(f[k], f[k + 1], {evs[k + 1]})
    BY <2>2, <2>3, EmitReports
  <2>5. E(k + 1) = E(k) \cup {evs[k + 1]}
    <3>1. 1 .. k + 1 = (1 .. k) \cup {k + 1}
      OBVIOUS
    <3> QED BY <3>1
  <2> HIDE DEF E
  <2>6. Reports(l, f[k + 1], E(k) \cup {evs[k + 1]})
    BY <2>2, <2>4, ReportsAfter
  <2> QED BY <2>5, <2>6
<1>5. \A k \in Nat : k \in P
  <2> HIDE DEF P
  <2> QED BY <1>3, <1>4, NatSetInduction
<1>6. E(Len(evs)) = ToSet(evs)
  BY <1>1 DEF ToSet
<1> HIDE DEF E
<1>7. Reports(l, f[Len(evs)], ToSet(evs))
  BY <1>1, <1>5, <1>6
<1>8. f[Len(evs)] \in Log(N)
  BY <1>1, <1>2
<1> QED BY <1>0, <1>7, <1>8

(* The events of each type that a report adds.                             *)
LEMMA ReportsAdd ==
  ASSUME NEW l, NEW m, NEW S, Reports(l, m, S), NEW t, t # "truncated"
  PROVE  /\ OfType(ToSet(m.sent), t) \subseteq OfType(ToSet(l.sent), t) \cup OfType(S, t)
         /\ ~m.truncated => OfType(ToSet(m.sent), t)
                              = OfType(ToSet(l.sent), t) \cup OfType(S, t)
<1>1. Notice.type = "truncated"
  BY DEF Notice, Ev
<1> QED BY <1>1 DEF Reports, OfType

(* A node that succeeds reports nothing of others.                         *)
LEMMA SucceedReports ==
  ASSUME GraphInv, NEW n \in NodeSet(graph), NEW out, NEW outs,
         NEW l \in Log(NodeSet(graph)), Succeed(n, out, outs, l)
  PROVE  \E S : Reports(l, runLog', S) /\ Quiet(S)
<1> DEFINE N == NodeSet(graph)
           a == Ev("output", n)
           b == Ev("completed", n)
           c == Ev("run_completed", NoNode)
           m == EmitAll(l, <<a, b>>)
<1>1. /\ a \in LogEvent(N) /\ b \in LogEvent(N) /\ c \in LogEvent(N)
      /\ a.type = "output" /\ b.type = "completed" /\ c.type = "run_completed"
  <2>1. "output" \in LogTypes /\ "completed" \in LogTypes /\ "run_completed" \in LogTypes
    BY DEF LogTypes
  <2> QED BY <2>1, NodeEvent
<1>2. \/ runLog' = m \/ runLog' = Emit(m, c) \/ Follow(n, out, m)
  BY DEF Succeed
<1> HIDE DEF a, b, c
<1>3. <<a, b>> \in Seq(LogEvent(N)) /\ ToSet(<<a, b>>) = {a, b}
  <2> DEFINE S == LogEvent(N)
  <2>1. a \in S /\ b \in S
    BY <1>1
  <2> HIDE DEF S
  <2>2. <<a, b>> \in Seq(S) /\ ToSet(<<a, b>>) = {a, b}
    BY <2>1 DEF ToSet
  <2> QED BY <2>2 DEF S
<1>4. Reports(l, m, {a, b}) /\ m \in Log(N)
  BY <1>3, EmitAllReports
<1> HIDE DEF m
<1>5. CASE runLog' = m
  <2>1. Quiet({a, b})
    BY <1>1 DEF Quiet
  <2> QED BY <1>4, <1>5, <2>1
<1>6. CASE runLog' = Emit(m, c)
  <2>1. Reports(m, Emit(m, c), {c})
    BY <1>1, <1>4, EmitReports
  <2>2. Reports(l, runLog', {a, b} \cup {c})
    BY <1>4, <1>6, <2>1, ReportsAfter
  <2>3. Quiet({a, b} \cup {c})
    BY <1>1 DEF Quiet
  <2> QED BY <2>2, <2>3
<1>7. CASE Follow(n, out, m)
  <2>1. WellFormed(graph)
    BY DEF GraphInv, GraphFixed
  <2>2. PICK evs \in Seq(LogEvent(N)) : /\ runLog' = EmitAll(m, evs)
                                        /\ \A k \in 1 .. Len(evs) : evs[k].type = "edge"
    BY <1>7, <2>1, FollowsEdges
  <2>3. Reports(m, EmitAll(m, evs), ToSet(evs))
    BY <1>4, <2>2, EmitAllReports
  <2>4. Reports(l, runLog', {a, b} \cup ToSet(evs))
    BY <1>4, <2>2, <2>3, ReportsAfter
  <2>5. DOMAIN evs = 1 .. Len(evs)
    BY LenProperties
  <2>6. \A e \in ToSet(evs) : e.type = "edge"
    BY <2>2, <2>5 DEF ToSet
  <2>7. Quiet({a, b} \cup ToSet(evs))
    BY <1>1, <2>6 DEF Quiet
  <2> QED BY <2>4, <2>7
<1> QED BY <1>2, <1>5, <1>6, <1>7

(* Nor does one that fails, until the run ends.                            *)
LEMMA FailReports ==
  ASSUME GraphInv, NEW n \in NodeSet(graph), NEW l \in Log(NodeSet(graph)), Fail(n, l)
  PROVE  \E S : /\ Reports(l, runLog', S)
                /\ InBody => Quiet(S)
                /\ \A e \in S : e.type # "started"
<1> DEFINE N == NodeSet(graph)
           a == Ev("error", n)
           b == Ev("run_error", NoNode)
           m == Emit(l, a)
           k == Emit(m, b)
           sk == Skips(executed)
<1>1. /\ a \in LogEvent(N) /\ b \in LogEvent(N) /\ a.type = "error" /\ b.type = "run_error"
  <2>1. "error" \in LogTypes /\ "run_error" \in LogTypes
    BY DEF LogTypes
  <2> QED BY <2>1, NodeEvent
<1>2. /\ InBody => runLog' = m
      /\ runLog' = m \/ runLog' = k \/ runLog' = EmitAll(k, sk)
  BY DEF Fail
<1> HIDE DEF a, b
<1>3. Reports(l, m, {a}) /\ m \in Log(N)
  BY <1>1, EmitReports
<1> HIDE DEF m
<1>4. Reports(m, k, {b}) /\ k \in Log(N)
  BY <1>1, <1>3, EmitReports
<1> HIDE DEF k
<1>5. Reports(l, k, {a} \cup {b})
  BY <1>3, <1>4, ReportsAfter
<1>6. /\ sk \in Seq(LogEvent(N)) /\ \A i \in 1 .. Len(sk) : sk[i].type = "skipped"
  <2>1. WellFormed(graph)
    BY DEF GraphInv, GraphFixed
  <2> QED BY <2>1, SkipReports
<1> HIDE DEF sk
<1>7. Reports(k, EmitAll(k, sk), ToSet(sk))
  BY <1>4, <1>6, EmitAllReports
<1>8. Reports(l, EmitAll(k, sk), {a} \cup {b} \cup ToSet(sk))
  BY <1>5, <1>7, ReportsAfter
<1>9. \A e \in ToSet(sk) : e.type = "skipped"
  <2>1. DOMAIN sk = 1 .. Len(sk)
    BY <1>6, LenProperties
  <2> QED BY <1>6, <2>1 DEF ToSet
<1>10. CASE runLog' = m
  <2>1. Quiet({a}) /\ \A e \in {a} : e.type # "started"
    BY <1>1 DEF Quiet
  <2> QED BY <1>3, <1>10, <2>1
<1>11. CASE ~InBody /\ runLog' = k
  <2>1. \A e \in {a} \cup {b} : e.type # "started"
    BY <1>1
  <2> QED BY <1>5, <1>11, <2>1
<1>12. CASE ~InBody /\ runLog' = EmitAll(k, sk)
  <2>1. \A e \in {a} \cup {b} \cup ToSet(sk) : e.type # "started"
    BY <1>1, <1>9
  <2> QED BY <1>8, <1>12, <2>1
<1> QED BY <1>2, <1>10, <1>11, <1>12

(* What a step adds to the nodes started, those a reviewer sent back, and  *)
(* those skipped.                                                          *)
Tells(T, F, K) ==
  /\ NodesWith("started")' \subseteq NodesWith("started") \cup T
  /\ runStatus' # "error" /\ ~runLog'.truncated =>
       /\ ~runLog.truncated
       /\ NodesWith("started")' = NodesWith("started") \cup T
       /\ NodesWith("feedback")' = NodesWith("feedback") \cup F
       /\ NodesWith("skipped")' = NodesWith("skipped") \cup K

(* From the events to the nodes they are about.                            *)
LEMMA TypesOf ==
  /\ \A S, T, t : OfType(S \cup T, t) = OfType(S, t) \cup OfType(T, t)
  /\ \A n, t : OfType({Ev(t, n)}, t) = {n}
  /\ \A n, u, t : u # t => OfType({Ev(u, n)}, t) = {}
  /\ \A S : Quiet(S) => /\ OfType(S, "started") = {} /\ OfType(S, "feedback") = {}
                        /\ OfType(S, "skipped") = {}
<1>1. \A S, T, t : OfType(S \cup T, t) = OfType(S, t) \cup OfType(T, t)
  BY DEF OfType
<1>2. \A n, t : OfType({Ev(t, n)}, t) = {n}
  <2> SUFFICES ASSUME NEW n, NEW t PROVE OfType({Ev(t, n)}, t) = {n}
    OBVIOUS
  <2> DEFINE e == Ev(t, n)
  <2>1. e.type = t /\ e.node = n
    BY DEF Ev
  <2> HIDE DEF e
  <2>2. OfType({e}, t) = {n}
    BY <2>1 DEF OfType
  <2> QED BY <2>2 DEF e
<1>3. \A n, u, t : u # t => OfType({Ev(u, n)}, t) = {}
  BY DEF OfType, Ev
<1>4. \A S : Quiet(S) => /\ OfType(S, "started") = {} /\ OfType(S, "feedback") = {}
                         /\ OfType(S, "skipped") = {}
  BY DEF OfType, Quiet
<1> QED BY <1>1, <1>2, <1>3, <1>4

(* What was reported is what the log then tells of.                         *)
LEMMA ReportsTell ==
  ASSUME NEW S, Reports(runLog, runLog', S)
  PROVE  Tells(OfType(S, "started"), OfType(S, "feedback"), OfType(S, "skipped"))
<1>1. \A t : NodesWith(t) = OfType(ToSet(runLog.sent), t)
  BY DEF NodesWith, Events, OfType
<1>2. \A t : NodesWith(t)' = OfType(ToSet(runLog'.sent), t)
  BY DEF NodesWith, Events, OfType
<1>3. ~runLog'.truncated => ~runLog.truncated
  BY DEF Reports
<1>4. "started" # "truncated" /\ "feedback" # "truncated" /\ "skipped" # "truncated"
  OBVIOUS
<1>5. \A t : t # "truncated" =>
         /\ NodesWith(t)' \subseteq NodesWith(t) \cup OfType(S, t)
         /\ ~runLog'.truncated => NodesWith(t)' = NodesWith(t) \cup OfType(S, t)
  BY <1>1, <1>2, ReportsAdd
<1> QED BY <1>3, <1>4, <1>5 DEF Tells

(* Two events, three; one and perhaps the start of an iteration.           *)
LEMMA TwoReports ==
  ASSUME NEW N, NEW l \in Log(N), NEW t \in LogTypes, NEW n \in N, NEW u \in LogTypes, NEW m \in N
  PROVE  /\ Reports(l, EmitAll(l, <<Ev(t, n), Ev(u, m)>>), {Ev(t, n)} \cup {Ev(u, m)})
         /\ EmitAll(l, <<Ev(t, n), Ev(u, m)>>) \in Log(N)
<1> DEFINE S == LogEvent(N)
           a == Ev(t, n)
           b == Ev(u, m)
           evs == <<a, b>>
<1>1. a \in S /\ b \in S
  BY NodeEvent
<1> HIDE DEF a, b, S
<1>2. evs \in Seq(S) /\ ToSet(evs) = {a} \cup {b}
  BY <1>1 DEF ToSet
<1> HIDE DEF evs
<1>3. Reports(l, EmitAll(l, evs), {a} \cup {b}) /\ EmitAll(l, evs) \in Log(N)
  BY <1>2, EmitAllReports DEF S
<1> QED BY <1>3 DEF evs, a, b

(* Three events are reported.                                               *)
LEMMA ThreeReports ==
  ASSUME NEW N, NEW l \in Log(N), NEW t \in LogTypes, NEW n \in N, NEW u \in LogTypes, NEW m \in N,
         NEW v \in LogTypes, NEW k \in N
  PROVE  Reports(l, EmitAll(l, <<Ev(t, n), Ev(u, m), Ev(v, k)>>),
                 {Ev(t, n)} \cup {Ev(u, m)} \cup {Ev(v, k)})
<1> DEFINE S == LogEvent(N)
           a == Ev(t, n)
           b == Ev(u, m)
           c == Ev(v, k)
           evs == <<a, b, c>>
<1>1. a \in S /\ b \in S /\ c \in S
  BY NodeEvent
<1> HIDE DEF a, b, c, S
<1>2. evs \in Seq(S) /\ ToSet(evs) = {a} \cup {b} \cup {c}
  BY <1>1 DEF ToSet
<1> HIDE DEF evs
<1>3. Reports(l, EmitAll(l, evs), {a} \cup {b} \cup {c})
  BY SMTT(30), <1>2, EmitAllReports DEF S
<1> QED BY <1>3 DEF evs, a, b, c

(* The end of an iteration and the start of the next are of no node's own.  *)
LEMMA IterationReports ==
  ASSUME NEW N, NEW l \in Log(N), NEW t \in LogTypes, NEW n \in N, NEW i, NEW items
  PROVE  \E S : /\ Quiet(S)
               /\ Reports(l, EmitAll(l, <<Ev(t, n)>> \o IterationStart(n, i, items)),
                          {Ev(t, n)} \cup S)
<1> DEFINE S == LogEvent(N)
           a == Ev(t, n)
           b == Ev("iteration", n)
           x == <<a>>
           y == IterationStart(n, i, items)
           evs == x \o y
<1>1. a \in S /\ b \in S /\ b.type = "iteration"
  <2>1. "iteration" \in LogTypes
    BY DEF LogTypes
  <2> QED BY <2>1, NodeEvent
<1>2. y = <<b>> \/ y = << >>
  BY DEF IterationStart
<1> HIDE DEF a, b, y, S
<1>3. x \in Seq(S) /\ Len(x) = 1 /\ x[1] = a
  BY <1>1
<1> HIDE DEF x
<1>4. PICK T : Quiet(T) /\ evs \in Seq(S) /\ ToSet(evs) = {a} \cup T
  <2>1. CASE y = << >>
    <3>1. evs = x
      BY <1>3, <2>1, ConcatEmptySeq
    <3>2. ToSet(x) = {a}
      BY <1>1 DEF ToSet, x
    <3>3. Quiet({}) /\ {a} = {a} \cup {}
      BY DEF Quiet
    <3> QED BY <1>3, <3>1, <3>2, <3>3
  <2>2. CASE y = <<b>>
    <3>1. y \in Seq(S) /\ Len(y) = 1 /\ y[1] = b
      BY <1>1, <2>2
    <3>2. /\ evs \in Seq(S) /\ Len(evs) = 2 /\ evs[1] = a /\ evs[2] = b
      BY <1>3, <3>1, ConcatProperties
    <3> HIDE DEF evs
    <3>3. DOMAIN evs = 1 .. 2
      BY <3>2, LenProperties
    <3>4. ToSet(evs) = {a} \cup {b}
      BY <3>2, <3>3 DEF ToSet
    <3>5. Quiet({b})
      BY <1>1 DEF Quiet
    <3> QED BY <3>2, <3>4, <3>5
  <2> QED BY <1>2, <2>1, <2>2
<1> HIDE DEF evs
<1>5. Reports(l, EmitAll(l, evs), {a} \cup T)
  BY <1>4, EmitAllReports DEF S
<1> QED BY <1>4, <1>5 DEF evs, x, y, a

(* An event that starts, sends back or skips a node, among quiet ones.     *)
LEMMA QuietEvent ==
  ASSUME NEW t, t \notin {"started", "feedback", "skipped"}, NEW n
  PROVE  Quiet({Ev(t, n)})
BY DEF Quiet, Ev

(* A start among events that count for nothing tells of one node.           *)
LEMMA StartTells ==
  ASSUME NEW n, NEW S, Quiet(S), Reports(runLog, runLog', {Ev("started", n)} \cup S)
  PROVE  Tells({n}, {}, {})
<1> DEFINE a == {Ev("started", n)}
<1>1. OfType(a, "started") = {n} /\ OfType(a, "feedback") = {} /\ OfType(a, "skipped") = {}
  BY TypesOf
<1>2. OfType(S, "started") = {} /\ OfType(S, "feedback") = {} /\ OfType(S, "skipped") = {}
  BY TypesOf
<1> HIDE DEF a
<1>3. \A t : OfType(a \cup S, t) = OfType(a, t) \cup OfType(S, t)
  BY TypesOf
<1> DEFINE U == a \cup S
<1>4. OfType(U, "started") = {n} /\ OfType(U, "feedback") = {} /\ OfType(U, "skipped") = {}
  BY <1>1, <1>2, <1>3
<1>5. Reports(runLog, runLog', U)
  BY DEF a
<1> HIDE DEF U
<1> QED BY <1>4, <1>5, ReportsTell

(* Events that count for nothing tell of no node.                           *)
LEMMA QuietTells ==
  ASSUME NEW S, Quiet(S), Reports(runLog, runLog', S)
  PROVE  Tells({}, {}, {})
BY TypesOf, ReportsTell

(* The log of a run is one.                                                *)
LEMMA RunLogIsLog == GraphInv => runLog \in Log(NodeSet(graph))
BY DEF GraphInv, Logged, Open, Closed

(* A node that runs in its turn starts, and nothing else.                  *)
LEMMA RunNodeTells ==
  ASSUME GraphInv, NEW n \in NodeSet(graph), RunNode(n)
  PROVE  Tells({n}, {}, {})
<1> DEFINE N == NodeSet(graph)
           a == Ev("started", n)
           l == Emit(runLog, a)
<1>1. runLog \in Log(N)
  BY RunLogIsLog
<1>2. a \in LogEvent(N)
  <2>1. "started" \in LogTypes
    BY DEF LogTypes
  <2> QED BY <2>1, NodeEvent
<1>3. Reports(runLog, l, {a}) /\ l \in Log(N)
  BY <1>1, <1>2, EmitReports
<1>4. (\E out : Succeed(n, out, outputs, l)) \/ Fail(n, l)
  BY DEF RunNode
<1>5. OfType({a}, "started") = {n} /\ OfType({a}, "feedback") = {} /\ OfType({a}, "skipped") = {}
  BY TypesOf
<1> HIDE DEF a, l
<1>6. ASSUME NEW S, Reports(l, runLog', S), \A e \in S : e.type # "started",
             Quiet(S) \/ runStatus' = "error"
      PROVE  Tells({n}, {}, {})
  <2>1. Reports(runLog, runLog', {a} \cup S)
    BY <1>3, <1>6, ReportsAfter
  <2> DEFINE U == {a} \cup S
  <2>2. Tells(OfType(U, "started"), OfType(U, "feedback"), OfType(U, "skipped"))
    BY <2>1, ReportsTell
  <2>3. OfType(S, "started") = {}
    BY <1>6 DEF OfType
  <2>4. \A t : OfType(U, t) = OfType({a}, t) \cup OfType(S, t)
    BY TypesOf
  <2>5. Quiet(S) => OfType(S, "feedback") = {} /\ OfType(S, "skipped") = {}
    BY TypesOf
  <2> HIDE DEF U
  <2>6. OfType(U, "started") = {n}
    BY <1>5, <2>3, <2>4
  <2>7. Quiet(S) => OfType(U, "feedback") = {} /\ OfType(U, "skipped") = {}
    BY <1>5, <2>4, <2>5
  <2> QED BY <1>6, <2>2, <2>6, <2>7 DEF Tells
<1>7. ASSUME NEW out, Succeed(n, out, outputs, l) PROVE Tells({n}, {}, {})
  <2>1. PICK S : Reports(l, runLog', S) /\ Quiet(S)
    BY <1>3, <1>7, SucceedReports
  <2>2. \A e \in S : e.type # "started"
    BY <2>1 DEF Quiet
  <2> QED BY <1>6, <2>1, <2>2
<1>8. CASE Fail(n, l)
  <2>1. PICK S : /\ Reports(l, runLog', S) /\ (InBody => Quiet(S))
                 /\ \A e \in S : e.type # "started"
    BY <1>3, <1>8, FailReports
  <2>2. InBody \/ runStatus' = "error"
    BY <1>8 DEF Fail
  <2> QED BY <1>6, <2>1, <2>2
<1> QED BY <1>4, <1>7, <1>8

(* An open gate starts its node.                                           *)
LEMMA OpenGateTells ==
  ASSUME GraphInv, NEW n \in NodeSet(graph), OpenGate(n)
  PROVE  Tells({n}, {}, {})
<1>1. "started" \in LogTypes /\ "waiting" \in LogTypes
  BY DEF LogTypes
<1>2. runLog \in Log(NodeSet(graph)) /\ runLog' = EmitAll(runLog, <<Ev("started", n), Ev("waiting", n)>>)
  BY RunLogIsLog DEF OpenGate, Waiting
<1>3. Reports(runLog, runLog', {Ev("started", n)} \cup {Ev("waiting", n)})
  BY <1>1, <1>2, TwoReports
<1>4. Quiet({Ev("waiting", n)})
  BY QuietEvent
<1> QED BY <1>3, <1>4, StartTells

(* A gate that is decided, or waited for too long, starts no node.         *)
LEMMA GateEndsTells ==
  ASSUME GraphInv, GateApprove \/ GateReject \/ GateTimeout
  PROVE  Tells({}, {}, {})
<1>1. gate # NoGate
  BY DEF GateApprove, GateReject, GateTimeout
<1>2. gate.node \in NodeSet(graph) /\ runLog \in Log(NodeSet(graph))
  BY <1>1, GateOpen, RunLogIsLog
<1>3. CASE GateApprove \/ GateReject
  <2>1. PICK out \in {"yes", "no"} : Succeed(gate.node, out, outputs, runLog)
    BY <1>3 DEF GateApprove, GateReject
  <2>2. PICK S : Reports(runLog, runLog', S) /\ Quiet(S)
    BY <1>2, <2>1, SucceedReports
  <2> QED BY <2>2, QuietTells
<1>4. CASE GateTimeout
  <2>1. Fail(gate.node, runLog)
    BY <1>4 DEF GateTimeout
  <2>2. PICK S : /\ Reports(runLog, runLog', S) /\ (InBody => Quiet(S))
                 /\ \A e \in S : e.type # "started"
    BY <1>2, <2>1, FailReports
  <2>3. CASE InBody
    BY <2>2, <2>3, QuietTells
  <2>4. CASE ~InBody
    <3>1. runStatus' = "error"
      BY <2>1, <2>4 DEF Fail
    <3>2. OfType(S, "started") = {}
      BY <2>2 DEF OfType
    <3>3. Tells(OfType(S, "started"), OfType(S, "feedback"), OfType(S, "skipped"))
      BY <2>2, ReportsTell
    <3> QED BY <3>1, <3>2, <3>3 DEF Tells
  <2> QED BY <2>3, <2>4
<1> QED BY <1>3, <1>4

(* A retry starts the gate's parent, and reports who sent it back.         *)
LEMMA GateRetryTells ==
  ASSUME GraphInv, GateRetry
  PROVE  Tells({GateSource(gate.node)}, {gate.node}, {})
<1> DEFINE N == NodeSet(graph)
           g == gate.node
           src == GateSource(gate.node)
           a == {Ev("feedback", g)}
           b == {Ev("started", src)}
           l == EmitAll(runLog, <<Ev("feedback", g), Ev("started", src)>>)
<1>1. gate # NoGate /\ CanRetry(g)
  BY DEF GateRetry
<1>2. g \in N /\ src \in N /\ runLog \in Log(N)
  <2>1. WellFormed(graph)
    BY DEF GraphInv, GraphFixed
  <2> QED BY <1>1, <2>1, GateOpen, RunLogIsLog, SourceOfGate DEF CanRetry
<1>3. /\ "feedback" \in LogTypes /\ "started" \in LogTypes /\ "output" \in LogTypes
      /\ "completed" \in LogTypes /\ "waiting" \in LogTypes /\ "error" \in LogTypes
  BY DEF LogTypes
<1>4. \/ runLog' = EmitAll(l, <<Ev("output", src), Ev("completed", src), Ev("waiting", g)>>)
      \/ Fail(g, Emit(l, Ev("error", src)))
  BY DEF GateRetry, Waiting
<1>5. /\ OfType(a, "started") = {} /\ OfType(a, "feedback") = {g} /\ OfType(a, "skipped") = {}
      /\ OfType(b, "started") = {src} /\ OfType(b, "feedback") = {} /\ OfType(b, "skipped") = {}
  BY TypesOf
<1> HIDE DEF g, src
<1>6. Reports(runLog, l, a \cup b) /\ l \in Log(N)
  BY <1>2, <1>3, TwoReports
<1> HIDE DEF a, b, l
<1>7. ASSUME NEW S, Reports(l, runLog', S), \A e \in S : e.type # "started",
             Quiet(S) \/ runStatus' = "error"
      PROVE  Tells({src}, {g}, {})
  <2> DEFINE U == (a \cup b) \cup S
  <2>1. Reports(runLog, runLog', U)
    BY <1>6, <1>7, ReportsAfter
  <2>2. Tells(OfType(U, "started"), OfType(U, "feedback"), OfType(U, "skipped"))
    BY <2>1, ReportsTell
  <2>3. OfType(S, "started") = {}
    BY <1>7 DEF OfType
  <2>4. \A t : OfType(U, t) = (OfType(a, t) \cup OfType(b, t)) \cup OfType(S, t)
    <3> DEFINE ab == a \cup b
    <3>1. \A t : OfType(ab, t) = OfType(a, t) \cup OfType(b, t)
      BY TypesOf
    <3> HIDE DEF ab
    <3>2. \A t : OfType(ab \cup S, t) = OfType(ab, t) \cup OfType(S, t)
      BY TypesOf
    <3>3. U = ab \cup S
      BY DEF ab
    <3> HIDE DEF U
    <3> QED BY <3>1, <3>2, <3>3
  <2>5. Quiet(S) => OfType(S, "feedback") = {} /\ OfType(S, "skipped") = {}
    BY TypesOf
  <2> HIDE DEF U
  <2>6. OfType(U, "started") = {src}
    BY <1>5, <2>3, <2>4
  <2>7. Quiet(S) => OfType(U, "feedback") = {g} /\ OfType(U, "skipped") = {}
    BY <1>5, <2>4, <2>5
  <2> QED BY <1>7, <2>2, <2>6, <2>7 DEF Tells
<1>8. ASSUME runLog' = EmitAll(l, <<Ev("output", src), Ev("completed", src), Ev("waiting", g)>>)
      PROVE  Tells({src}, {g}, {})
  <2> DEFINE S == {Ev("output", src)} \cup {Ev("completed", src)} \cup {Ev("waiting", g)}
  <2>1. Reports(l, runLog', S)
    BY <1>2, <1>3, <1>6, <1>8, ThreeReports
  <2>2. Quiet({Ev("output", src)}) /\ Quiet({Ev("completed", src)}) /\ Quiet({Ev("waiting", g)})
    BY QuietEvent
  <2>3. Quiet(S)
    BY <2>2 DEF Quiet
  <2> HIDE DEF S
  <2>4. \A e \in S : e.type # "started"
    BY <2>3 DEF Quiet
  <2> QED BY <1>7, <2>1, <2>3, <2>4
<1>9. ASSUME Fail(g, Emit(l, Ev("error", src)))
      PROVE  Tells({src}, {g}, {})
  <2> DEFINE e == Ev("error", src)
             m == Emit(l, e)
  <2>1. e \in LogEvent(N) /\ Quiet({e})
    BY <1>2, <1>3, NodeEvent, QuietEvent
  <2>2. Fail(g, m)
    BY <1>9
  <2> HIDE DEF e
  <2>3. Reports(l, m, {e}) /\ m \in Log(N)
    BY <1>6, <2>1, EmitReports
  <2> HIDE DEF m
  <2>4. PICK S : /\ Reports(m, runLog', S) /\ (InBody => Quiet(S))
                 /\ \A x \in S : x.type # "started"
    BY <1>2, <2>2, <2>3, FailReports
  <2>5. Reports(l, runLog', {e} \cup S)
    BY <2>3, <2>4, ReportsAfter
  <2>6. \A x \in {e} \cup S : x.type # "started"
    BY <2>1, <2>4 DEF Quiet
  <2>7. InBody => Quiet({e} \cup S)
    BY <2>1, <2>4 DEF Quiet
  <2>8. InBody \/ runStatus' = "error"
    BY <2>2 DEF Fail
  <2> QED BY <1>7, <2>5, <2>6, <2>7, <2>8
<1>10. Tells({src}, {g}, {})
  BY <1>4, <1>8, <1>9
<1> QED BY <1>10 DEF src, g

(* A loop starts once, whatever its iterations report.                     *)
LEMMA LoopTells ==
  ASSUME GraphInv
  PROVE  /\ \A n \in NodeSet(graph) : StartLoop(n) => Tells({n}, {}, {})
         /\ EndIteration \/ FinishLoop => Tells({}, {}, {})
<1> DEFINE N == NodeSet(graph)
<1>1. runLog \in Log(N)
  BY RunLogIsLog
<1>2. /\ "iteration_done" \in LogTypes /\ "started" \in LogTypes /\ "output" \in LogTypes
      /\ "completed" \in LogTypes
  BY DEF LogTypes
<1>3. ASSUME NEW n \in N, StartLoop(n) PROVE Tells({n}, {}, {})
  <2>1. PICK items : runLog' = EmitAll(runLog, <<Ev("started", n)>> \o IterationStart(n, 1, items))
    BY <1>3 DEF StartLoop
  <2>2. PICK S : Quiet(S) /\ Reports(runLog, runLog', {Ev("started", n)} \cup S)
    BY <1>1, <1>2, <2>1, IterationReports
  <2> QED BY <2>2, StartTells
<1>4. ASSUME EndIteration PROVE Tells({}, {}, {})
  <2> DEFINE e == Ev("iteration_done", iter.loop)
  <2>1. iter.loop \in N
    BY <1>4, LoopOpen DEF EndIteration
  <2>2. runLog' = EmitAll(runLog, <<e>> \o IterationStart(iter.loop, iter.item + 1, iter.items))
    BY <1>4 DEF EndIteration
  <2>3. PICK S : Quiet(S) /\ Reports(runLog, runLog', {e} \cup S)
    BY <1>1, <1>2, <2>1, <2>2, IterationReports
  <2>4. Quiet({e})
    BY QuietEvent
  <2> HIDE DEF e
  <2>5. Quiet({e} \cup S)
    BY <2>3, <2>4 DEF Quiet
  <2> QED BY <2>3, <2>5, QuietTells
<1>5. ASSUME FinishLoop PROVE Tells({}, {}, {})
  <2> DEFINE a == {Ev("output", iter.loop)}
             b == {Ev("completed", iter.loop)}
  <2>1. iter.loop \in N
    BY <1>5, LoopOpen DEF FinishLoop
  <2>2. Reports(runLog, runLog', a \cup b)
    BY <1>1, <1>2, <1>5, <2>1, TwoReports DEF FinishLoop
  <2>3. Quiet(a) /\ Quiet(b)
    BY QuietEvent
  <2> HIDE DEF a, b
  <2>4. Quiet(a \cup b)
    BY <2>3 DEF Quiet
  <2> QED BY <2>2, <2>4, QuietTells
<1> QED BY <1>3, <1>4, <1>5

(* The end of a run reports the nodes it left.                             *)
LEMMA FinishTells ==
  ASSUME GraphInv
  PROVE  /\ FinishRun => Tells({}, {}, NodeSet(graph) \ executed)
         /\ MissingInput => Tells({}, {}, {})
<1> DEFINE N == NodeSet(graph)
           a == Ev("run_completed", NoNode)
           b == Ev("run_error", NoNode)
           sk == Skips(executed)
           left == {Ev("skipped", n) : n \in N \ executed}
<1>1. runLog \in Log(N) /\ WellFormed(graph)
  BY RunLogIsLog DEF GraphInv, GraphFixed
<1>2. a \in LogEvent(N) /\ b \in LogEvent(N) /\ Quiet({a}) /\ Quiet({b})
  <2>1. "run_completed" \in LogTypes /\ "run_error" \in LogTypes
    BY DEF LogTypes
  <2> QED BY <2>1, NodeEvent, QuietEvent
<1>3. sk \in Seq(LogEvent(N)) /\ ToSet(sk) = left
  BY <1>1, SkipReports
<1>4. /\ OfType(left, "skipped") = N \ executed /\ OfType(left, "started") = {}
      /\ OfType(left, "feedback") = {}
  <2>1. /\ \A e \in left : e.type = "skipped" /\ e.node \in N \ executed
        /\ \A n \in N \ executed : Ev("skipped", n) \in left /\ Ev("skipped", n).node = n
    BY DEF Ev
  <2> HIDE DEF left, N
  <2>2. OfType(left, "started") = {} /\ OfType(left, "feedback") = {}
    BY <2>1 DEF OfType
  <2>3. OfType(left, "skipped") \subseteq N \ executed
    BY <2>1 DEF OfType
  <2>4. ASSUME NEW n \in N \ executed PROVE n \in OfType(left, "skipped")
    <3>1. Ev("skipped", n) \in {x \in left : x.type = "skipped"}
      BY <2>1
    <3> QED BY <2>1, <3>1 DEF OfType
  <2> QED BY <2>2, <2>3, <2>4
<1>5. ASSUME FinishRun PROVE Tells({}, {}, N \ executed)
  <2>1. runLog' = EmitAll(runLog, Append(sk, a))
    BY <1>5 DEF FinishRun
  <2> HIDE DEF a, sk, left
  <2> DEFINE evs == Append(sk, a)
             S == LogEvent(N)
  <2>2. sk \in Seq(S) /\ a \in S
    BY <1>2, <1>3
  <2> HIDE DEF S
  <2>3. evs \in Seq(S) /\ ToSet(evs) = left \cup {a}
    BY <1>3, <2>2, Appended
  <2> HIDE DEF evs
  <2>4. Reports(runLog, runLog', left \cup {a})
    BY <1>1, <2>1, <2>3, EmitAllReports DEF S, evs
  <2> DEFINE U == left \cup {a}
  <2>5. Tells(OfType(U, "started"), OfType(U, "feedback"), OfType(U, "skipped"))
    BY <2>4, ReportsTell
  <2>6. \A t : OfType(U, t) = OfType(left, t) \cup OfType({a}, t)
    BY TypesOf
  <2>7. OfType({a}, "started") = {} /\ OfType({a}, "feedback") = {} /\ OfType({a}, "skipped") = {}
    BY <1>2, TypesOf
  <2> HIDE DEF U
  <2>8. /\ OfType(U, "started") = {} /\ OfType(U, "feedback") = {}
        /\ OfType(U, "skipped") = N \ executed
    BY <1>4, <2>6, <2>7
  <2> QED BY <2>5, <2>8
<1>6. ASSUME MissingInput PROVE Tells({}, {}, {})
  <2>1. runLog' = Emit(runLog, b)
    BY <1>6 DEF MissingInput
  <2> HIDE DEF b
  <2>2. Reports(runLog, runLog', {b})
    BY <1>1, <1>2, <2>1, EmitReports
  <2> QED BY <1>2, <2>2, QuietTells
<1> QED BY <1>5, <1>6

(* Whom a run may start: nodes of the one graph it belongs to.             *)
OneComponent == ~Single => /\ enabled \subseteq RunnableNodes(graph)
                           /\ NodesWith("started")
                                 \subseteq RunnableNodes(graph) \cap NodeSet(graph)

(* What a node runs for leads to nodes of the same graph.                  *)
LEMMA RunnableClosed ==
  ASSUME WellFormed(graph), NEW m \in NodeSet(graph), m \in RunnableNodes(graph)
  PROVE  /\ ReachableFrom(graph, m) \subseteq RunnableNodes(graph)
         /\ \A e \in EdgeSet(graph) : /\ e.src = m => e.dst \in RunnableNodes(graph)
                                      /\ e.dst = m => e.src \in RunnableNodes(graph)
<1>1. PICK c \in NodeSet(graph) : RunnableNodes(graph) = ConnectedComponent(graph, c)
  BY RunnableIsComponent
<1>2. m \in ConnectedComponent(graph, c)
  BY <1>1
<1> QED BY <1>1, <1>2, ReachesInComponent

(* A node about to run belongs to it, and so does the parent of a gate.    *)
LEMMA DueIsRunnable ==
  ASSUME GraphInv, OneComponent, ~Single, NEW n \in NodeSet(graph),
         ~InBody => Remaining # {} /\ n = order[NextIndex],
         InBody => n \in Body
  PROVE  n \in RunnableNodes(graph)
<1>1. GraphFixed /\ WellFormed(graph) /\ cursor \in 1 .. Len(order) + 1
  BY DEF GraphInv, GraphFixed, Typed
<1>2. enabled \subseteq RunnableNodes(graph)
  BY DEF OneComponent
<1>3. CASE ~InBody
  BY <1>1, <1>2, <1>3, NextNode
<1>4. CASE InBody
  <2>1. /\ iter.loop \in NodeSet(graph) /\ Remaining # {} /\ iter.loop = order[NextIndex]
        /\ Body = ReachableFrom(graph, iter.loop)
    BY <1>4, LoopOpen
  <2>2. iter.loop \in RunnableNodes(graph)
    BY <1>1, <1>2, <2>1, NextNode
  <2> QED BY <1>1, <1>4, <2>1, <2>2, RunnableClosed
<1> QED BY <1>3, <1>4

(* Every step keeps to the nodes of the one graph.                          *)
LEMMA ComponentKept ==
  ASSUME GraphInv, OneComponent, [NextGraph]_graphVars
  PROVE  OneComponent'
<1> DEFINE N == NodeSet(graph)
           R == RunnableNodes(graph)
<1>1. Moving
  BY Moves
<1>2. graph' = graph /\ Single' = Single /\ RunnableNodes(graph)' = R
  BY <1>1 DEF Moving, Single
<1>3. CASE Single
  BY <1>2, <1>3 DEF OneComponent
<1>4. CASE ~Single
  <2>1. /\ enabled \subseteq R /\ NodesWith("started") \subseteq R \cap N /\ WellFormed(graph)
        /\ GraphFixed /\ cursor \in 1 .. Len(order) + 1
    BY <1>4 DEF OneComponent, GraphInv, GraphFixed, Typed
  <2>2. enabled' \subseteq R
    <3>1. CASE MainSame
      BY <2>1, <3>1 DEF MainSame
    <3>2. ASSUME NEW n \in N, Loops(n) PROVE enabled' \subseteq R
      BY <2>1, <3>2 DEF Loops
    <3>3. ASSUME NEW n \in N, NEW out \in Handles, Advances(n, out) PROVE enabled' \subseteq R
      <4>1. n \in R
        BY <2>1, <3>3, NextNode DEF Advances, NextIs
      <4>2. \A e \in EdgeSet(graph) : e.src = n => e.dst \in R
        BY <2>1, <4>1, RunnableClosed
      <4> QED BY <2>1, <3>3, <4>2 DEF Advances
    <3> QED BY <1>1, <1>4, <3>1, <3>2, <3>3 DEF Moving, Tests
  <2>3. ASSUME NEW T, NEW F, NEW K, Tells(T, F, K), T \subseteq R \cap N
        PROVE  OneComponent'
    <3>1. NodesWith("started")' \subseteq R \cap N
      BY <2>1, <2>3 DEF Tells
    <3>2. NodeSet(graph)' = N
      BY <1>2
    <3> HIDE DEF R, N
    <3> QED BY <1>2, <2>2, <3>1, <3>2 DEF OneComponent
  <2>4. ASSUME NEW n \in N, RunNode(n) \/ OpenGate(n) \/ StartLoop(n) PROVE OneComponent'
    <3>1. Due(n)
      BY <2>4 DEF RunNode, OpenGate, StartLoop
    <3>2. n \in R
      BY <1>4, <3>1, WhoIsDue, DueIsRunnable
    <3>3. Tells({n}, {}, {})
      BY <2>4, RunNodeTells, OpenGateTells, LoopTells
    <3> QED BY <2>3, <3>2, <3>3
  <2>5. CASE MissingInput \/ EndIteration \/ FinishLoop \/ FinishRun
    BY <2>3, <2>5, LoopTells, FinishTells
  <2>6. CASE GateApprove \/ GateReject \/ GateTimeout
    BY <2>3, <2>6, GateEndsTells
  <2>7. CASE GateRetry
    <3>1. gate # NoGate /\ CanRetry(gate.node)
      BY <2>7 DEF GateRetry
    <3>2. /\ gate.node \in N
          /\ ~InBody => Remaining # {} /\ gate.node = order[NextIndex]
          /\ InBody => gate.node \in Body
      BY <1>4, <3>1, GateOpen DEF GraphInv, Placed
    <3>3. gate.node \in R
      BY <1>4, <3>2, DueIsRunnable
    <3>4. \A e \in EdgeSet(graph) : e.dst = gate.node => e.src \in R
      BY <2>1, <3>2, <3>3, RunnableClosed
    <3>5. GateSource(gate.node) \in R \cap N
      BY <2>1, <3>1, <3>4, SourceOfGate DEF CanRetry
    <3>6. Tells({GateSource(gate.node)}, {gate.node}, {})
      BY <2>7, GateRetryTells
    <3> QED BY <2>3, <3>5, <3>6
  <2>8. CASE UNCHANGED graphVars
    <3>1. NodesWith("started")' = NodesWith("started")
      BY <2>8 DEF NodesWith, Events, graphVars
    <3>2. NodeSet(graph)' = N
      BY <1>2
    <3> HIDE DEF R, N
    <3> QED BY <1>2, <2>1, <2>2, <3>1, <3>2 DEF OneComponent
  <2> QED BY <2>4, <2>5, <2>6, <2>7, <2>8 DEF NextGraph, GraphSteps, GateSteps
<1> QED BY <1>3, <1>4

(* The one graph is the entry's, or one that no other outgrows.            *)
LEMMA ComponentIsGraph == GraphInv /\ OneComponent => OneGraphRuns
<1> SUFFICES ASSUME GraphInv, OneComponent, ~Single, NEW n \in NodesWith("started")
             PROVE  LET own == ConnectedComponent(graph, n) IN
                    /\ NodesWith("started") \subseteq own
                    /\ IF graph.entry \in NodeSet(graph) THEN graph.entry \in own
                       ELSE \A m \in NodeSet(graph) :
                              Cardinality(ConnectedComponent(graph, m)) <= Cardinality(own)
  BY DEF OneGraphRuns
<1> DEFINE N == NodeSet(graph)
           R == RunnableNodes(graph)
<1>1. WellFormed(graph) /\ NodesWith("started") \subseteq R \cap N
  BY DEF GraphInv, GraphFixed, OneComponent
<1>2. N # {}
  BY <1>1
<1>3. PICK c \in N : /\ R = ConnectedComponent(graph, c)
                     /\ graph.entry \in N => c = graph.entry
                     /\ graph.entry \notin N =>
                          \A m \in N : Cardinality(ConnectedComponent(graph, m))
                                         <= Cardinality(ConnectedComponent(graph, c))
  BY <1>1, <1>2, RunnableIsComponent
<1>4. n \in ConnectedComponent(graph, c)
  BY <1>1, <1>3
<1>5. ConnectedComponent(graph, n) = R
  BY <1>1, <1>3, <1>4, SameComponent
<1>6. graph.entry \in N => graph.entry \in R
  BY <1>1, <1>3, Connected
<1> QED BY <1>1, <1>3, <1>5, <1>6

(* What the log of a running run tells, if nothing was cut: who executed   *)
(* started, unless a loop ran it; who started has executed, was sent back  *)
(* by a reviewer, or is running still.                                     *)
Accounted ==
  runStatus = "running" /\ ~Single /\ ~runLog.truncated =>
    /\ \A n \in executed : n \in NodesWith("started") \/ InStartedLoop(n)
    /\ gate # NoGate => gate.node \in NodesWith("started")
    /\ InBody => iter.loop \in NodesWith("started")
    /\ NodesWith("skipped") = {}
    /\ \A n \in NodesWith("started") :
          \/ n \in executed \/ RetriedOnly(n)
          \/ InBody /\ n \in Body \cup {iter.loop}
          \/ gate # NoGate /\ n = gate.node

(* A step that tells of T, F and K nodes.                                  *)
LEMMA Told ==
  ASSUME NEW T, NEW F, NEW K, Tells(T, F, K), graph' = graph,
         runStatus' # "error", ~runLog'.truncated
  PROVE  /\ ~runLog.truncated
         /\ NodesWith("started")' = NodesWith("started") \cup T
         /\ NodesWith("skipped")' = NodesWith("skipped") \cup K
         /\ \A n : RetriedOnly(n)' <=> RetriedOnly(n) \/ \E g \in F : GateSource(g) = n
         /\ \A n : InStartedLoop(n) => InStartedLoop(n)'
<1>1. /\ ~runLog.truncated
      /\ NodesWith("started")' = NodesWith("started") \cup T
      /\ NodesWith("skipped")' = NodesWith("skipped") \cup K
      /\ NodesWith("feedback")' = NodesWith("feedback") \cup F
  BY DEF Tells
<1>2. \A n : RetriedOnly(n)' <=> \E g \in NodesWith("feedback")' : GateSource(g)' = n
  BY DEF RetriedOnly
<1>3. \A g : GateSource(g)' = GateSource(g)
  BY DEF GateSource
<1>4. \A n : RetriedOnly(n) <=> \E g \in NodesWith("feedback") : GateSource(g) = n
  BY DEF RetriedOnly
<1>5. \A n : RetriedOnly(n)' <=> RetriedOnly(n) \/ \E g \in F : GateSource(g) = n
  BY <1>1, <1>2, <1>3, <1>4
<1>6. \A n : InStartedLoop(n) => InStartedLoop(n)'
  BY <1>1 DEF InStartedLoop
<1> QED BY <1>1, <1>5, <1>6

(* A node that succeeds or fails has executed, or its loop has it.         *)
LEMMA EndAccounted ==
  ASSUME GraphInv, Accounted, NEW n \in NodeSet(graph), runStatus = "running",
         gate # NoGate => n = gate.node, InBody => n \in Body,
         NEW T \in {{n}, {}}, Tells(T, {}, {}),
         gate = NoGate => T = {n},
         \/ \E out, outs, l : Succeed(n, out, outs, l)
         \/ \E l : Fail(n, l)
  PROVE  Accounted'
<1> SUFFICES ASSUME runStatus' = "running", ~Single', ~runLog'.truncated
             PROVE  /\ \A m \in executed' : m \in NodesWith("started")' \/ InStartedLoop(m)'
                    /\ gate' # NoGate => gate'.node \in NodesWith("started")'
                    /\ InBody' => iter'.loop \in NodesWith("started")'
                    /\ NodesWith("skipped")' = {}
                    /\ \A m \in NodesWith("started")' :
                          \/ m \in executed' \/ RetriedOnly(m)'
                          \/ InBody' /\ m \in Body' \cup {iter'.loop}
                          \/ gate' # NoGate /\ m = gate'.node
  BY DEF Accounted
<1>1. graph' = graph /\ bodyOrder' = bodyOrder /\ gate' = NoGate
  BY DEF Succeed, Fail
<1>2. ~Single
  BY <1>1 DEF Single
<1>3. /\ ~runLog.truncated
      /\ NodesWith("started")' = NodesWith("started") \cup T
      /\ NodesWith("skipped")' = NodesWith("skipped")
      /\ \A m : RetriedOnly(m)' <=> RetriedOnly(m)
      /\ \A m : InStartedLoop(m) => InStartedLoop(m)'
  <2>1. runStatus' # "error"
    OBVIOUS
  <2> QED BY <1>1, <2>1, Told
<1>4. /\ \A m \in executed : m \in NodesWith("started") \/ InStartedLoop(m)
      /\ gate # NoGate => n \in NodesWith("started")
      /\ InBody => iter.loop \in NodesWith("started")
      /\ NodesWith("skipped") = {}
      /\ \A m \in NodesWith("started") :
            \/ m \in executed \/ RetriedOnly(m)
            \/ InBody /\ m \in Body \cup {iter.loop}
            \/ gate # NoGate /\ m = n
  BY <1>2, <1>3 DEF Accounted
<1>5. n \in NodesWith("started")' /\ T \subseteq {n}
  BY <1>3, <1>4
<1>6. CASE InBody
  <2>1. /\ executed' = executed /\ InBody' /\ iter'.loop = iter.loop
    BY <1>6, BodyGoesOn
  <2>2. Body' = Body
    BY <1>1, <2>1 DEF Body, BodyOrder
  <2> QED BY <1>1, <1>3, <1>4, <1>5, <1>6, <2>1, <2>2
<1>7. CASE ~InBody
  <2>1. executed' = executed \cup {n} /\ ~InBody'
    BY <1>7 DEF Succeed, Fail, InBody
  <2> QED BY <1>1, <1>3, <1>4, <1>5, <1>7, <2>1
<1> QED BY <1>6, <1>7

(* Every step keeps the account of the nodes that started.                  *)
LEMMA AccountedKept ==
  ASSUME GraphInv, Accounted, [NextGraph]_graphVars
  PROVE  Accounted'
<1> DEFINE N == NodeSet(graph)
           Goal == /\ \A m \in executed' : m \in NodesWith("started")' \/ InStartedLoop(m)'
                   /\ gate' # NoGate => gate'.node \in NodesWith("started")'
                   /\ InBody' => iter'.loop \in NodesWith("started")'
                   /\ NodesWith("skipped")' = {}
                   /\ \A m \in NodesWith("started")' :
                         \/ m \in executed' \/ RetriedOnly(m)'
                         \/ InBody' /\ m \in Body' \cup {iter'.loop}
                         \/ gate' # NoGate /\ m = gate'.node
           Now == /\ \A m \in executed : m \in NodesWith("started") \/ InStartedLoop(m)
                  /\ gate # NoGate => gate.node \in NodesWith("started")
                  /\ InBody => iter.loop \in NodesWith("started")
                  /\ NodesWith("skipped") = {}
                  /\ \A m \in NodesWith("started") :
                        \/ m \in executed \/ RetriedOnly(m)
                        \/ InBody /\ m \in Body \cup {iter.loop}
                        \/ gate # NoGate /\ m = gate.node
<1>1. ASSUME NEW n \in N, RunNode(n) PROVE Accounted'
  <2>1. Due(n) /\ ((\E out, outs, l : Succeed(n, out, outs, l)) \/ (\E l : Fail(n, l)))
    BY <1>1 DEF RunNode
  <2>2. runStatus = "running" /\ gate = NoGate /\ (InBody => n \in Body)
    BY <2>1, WhoIsDue
  <2>3. Tells({n}, {}, {})
    BY <1>1, RunNodeTells
  <2> QED BY <2>1, <2>2, <2>3, EndAccounted
<1>2. CASE GateApprove \/ GateReject \/ GateTimeout
  <2>1. gate # NoGate
    BY <1>2 DEF GateApprove, GateReject, GateTimeout
  <2>2. /\ runStatus = "running" /\ gate.node \in N /\ (InBody => gate.node \in Body)
    BY <2>1, GateOpen DEF GraphInv, Placed
  <2>3. Tells({}, {}, {})
    BY <1>2, GateEndsTells
  <2>4. (\E out, outs, l : Succeed(gate.node, out, outs, l)) \/ (\E l : Fail(gate.node, l))
    BY <1>2 DEF GateApprove, GateReject, GateTimeout
  <2> QED BY <2>1, <2>2, <2>3, <2>4, EndAccounted
<1>3. ASSUME NEW n \in N, OpenGate(n) PROVE Accounted'
  <2> SUFFICES ASSUME runStatus' = "running", ~Single', ~runLog'.truncated PROVE Goal
    BY DEF Accounted
  <2>1. /\ graph' = graph /\ bodyOrder' = bodyOrder /\ executed' = executed /\ iter' = iter
        /\ gate'.node = n /\ Due(n) /\ runStatus = "running"
    BY <1>3 DEF OpenGate, Due
  <2>2. Tells({n}, {}, {}) /\ gate = NoGate
    BY <1>3, <2>1, OpenGateTells, WhoIsDue
  <2>3. /\ ~runLog.truncated /\ ~Single
        /\ NodesWith("started")' = NodesWith("started") \cup {n}
        /\ NodesWith("skipped")' = NodesWith("skipped")
        /\ \A m : RetriedOnly(m)' <=> RetriedOnly(m)
        /\ \A m : InStartedLoop(m) => InStartedLoop(m)'
    BY <2>1, <2>2, Told DEF Single
  <2>4. Now
    BY <2>1, <2>3 DEF Accounted
  <2>5. InBody' = InBody /\ (InBody => Body' = Body) /\ gate' # NoGate
    <3>1. NoNode \notin N
      BY DEF GraphInv, GraphFixed, WellFormed
    <3> QED BY <2>1, <3>1 DEF InBody, Body, BodyOrder, NoGate
  <2> QED BY <2>1, <2>2, <2>3, <2>4, <2>5
<1>4. CASE GateRetry
  <2> DEFINE src == GateSource(gate.node)
  <2> SUFFICES ASSUME runStatus' = "running", ~Single', ~runLog'.truncated PROVE Goal
    BY DEF Accounted
  <2>1. /\ gate # NoGate /\ runStatus = "running" /\ gate.node \in N /\ gate \in Gates(N)
        /\ NoNode \notin N /\ Tells({src}, {gate.node}, {})
    BY <1>4, GateOpen, GateRetryTells DEF GateRetry, GraphInv, GraphFixed, WellFormed
  <2>2. /\ graph' = graph /\ bodyOrder' = bodyOrder /\ executed' = executed
    BY <1>4 DEF GateRetry, Fail
  <2>3. /\ ~runLog.truncated /\ ~Single
        /\ NodesWith("started")' = NodesWith("started") \cup {src}
        /\ NodesWith("skipped")' = NodesWith("skipped")
        /\ \A m : RetriedOnly(m)' <=> RetriedOnly(m) \/ src = m
        /\ \A m : InStartedLoop(m) => InStartedLoop(m)'
    <3>1. \A m : (\E g \in {gate.node} : GateSource(g) = m) <=> src = m
      OBVIOUS
    <3> HIDE DEF src
    <3> QED BY SMTT(30), <2>1, <2>2, <3>1, Told DEF Single
  <2>4. Now
    BY <2>1, <2>3 DEF Accounted
  <2> HIDE DEF src
  <2>5. /\ (InBody' <=> InBody) /\ (InBody => iter'.loop = iter.loop)
        /\ \/ gate' # NoGate /\ gate'.node = gate.node
           \/ InBody /\ gate' = NoGate
    <3>1. CASE \E l : Fail(gate.node, l)
      <4>1. InBody /\ gate' = NoGate
        BY <3>1 DEF Fail
      <4> QED BY <3>1, <4>1, BodyGoesOn
    <3>2. CASE /\ Publish(src, gate.node)
               /\ gate' = [gate EXCEPT !.attempt = @ + 1, !.shown = execs']
      <4>1. gate'.node = gate.node /\ gate' # NoGate
        BY <2>1, <3>2 DEF Gates, NoGate
      <4>2. iter' = iter \/ (InBody /\ iter' = [iter EXCEPT !.outputs[src] = execs + 1])
        BY <3>2 DEF Publish
      <4>3. ASSUME InBody PROVE InBody' /\ iter'.loop = iter.loop
        <5>1. iter \in Iterations(N)
          BY <4>3, LoopOpen
        <5>2. iter'.loop = iter.loop /\ iter.loop # NoNode
          BY <2>1, <4>2, <5>1 DEF Iterations
        <5> QED BY <5>2 DEF InBody, NoIter
      <4>4. ~InBody => ~InBody'
        BY <4>2 DEF InBody
      <4>5. InBody' <=> InBody
        BY <4>3, <4>4
      <4>6. InBody => iter'.loop = iter.loop
        BY <4>3
      <4> QED BY <4>1, <4>5, <4>6
    <3> QED BY <1>4, <3>1, <3>2 DEF GateRetry, src
  <2>6. InBody => Body' = Body /\ gate.node \in Body
    BY <2>1, <2>2, <2>5 DEF Body, BodyOrder, GraphInv, Placed
  <2> QED BY <2>1, <2>2, <2>3, <2>4, <2>5, <2>6
<1>5. ASSUME NEW n \in N, StartLoop(n) PROVE Accounted'
  <2> SUFFICES ASSUME runStatus' = "running", ~Single', ~runLog'.truncated PROVE Goal
    BY DEF Accounted
  <2>1. /\ graph' = graph /\ executed' = executed /\ gate' = gate /\ ~InBody
        /\ Due(n) /\ runStatus = "running"
    BY <1>5 DEF StartLoop, Due, IteratesHere
  <2>2. /\ Tells({n}, {}, {}) /\ gate = NoGate
    BY <1>5, <2>1, LoopTells, WhoIsDue
  <2>3. /\ ~runLog.truncated /\ ~Single
        /\ NodesWith("started")' = NodesWith("started") \cup {n}
        /\ NodesWith("skipped")' = NodesWith("skipped")
        /\ \A m : RetriedOnly(m)' <=> RetriedOnly(m)
        /\ \A m : InStartedLoop(m) => InStartedLoop(m)'
    <3>1. runStatus' # "error"
      OBVIOUS
    <3>2. ~Single
      BY <2>1 DEF Single
    <3>3. ~runLog'.truncated
      OBVIOUS
    <3>4. \A m : ~ \E g \in {} : GateSource(g) = m
      OBVIOUS
    <3>5. Tells({n}, {}, {})
      BY <2>2
    <3>6. graph' = graph
      BY <2>1
    <3> QED BY <3>1, <3>2, <3>3, <3>4, <3>5, <3>6, Told
  <2>4. Now
    BY <2>1, <2>3 DEF Accounted
  <2>5. iter'.loop = n /\ InBody'
    <3>1. NoNode \notin N
      BY DEF GraphInv, GraphFixed, WellFormed
    <3>2. iter'.loop = n
      BY <1>5 DEF StartLoop, Iteration
    <3> QED BY <3>1, <3>2 DEF InBody, NoIter
  <2> QED BY <2>1, <2>2, <2>3, <2>4, <2>5
<1>6. CASE EndIteration
  <2> SUFFICES ASSUME runStatus' = "running", ~Single', ~runLog'.truncated PROVE Goal
    BY DEF Accounted
  <2>1. /\ graph' = graph /\ bodyOrder' = bodyOrder /\ executed' = executed /\ gate' = gate
        /\ InBody /\ iter'.loop = iter.loop /\ runStatus = "running"
    BY <1>6 DEF EndIteration, Iteration
  <2>2. Tells({}, {}, {}) /\ iter.loop \in N /\ NoNode \notin N
    BY <1>6, <2>1, LoopTells, LoopOpen DEF GraphInv, GraphFixed, WellFormed
  <2>3. /\ ~runLog.truncated /\ ~Single
        /\ NodesWith("started")' = NodesWith("started")
        /\ NodesWith("skipped")' = NodesWith("skipped")
        /\ \A m : RetriedOnly(m)' <=> RetriedOnly(m)
        /\ \A m : InStartedLoop(m) => InStartedLoop(m)'
    BY <2>1, <2>2, Told DEF Single
  <2>4. Now
    BY <2>1, <2>3 DEF Accounted
  <2>5. InBody' /\ Body' = Body
    BY <2>1, <2>2 DEF InBody, NoIter, Body, BodyOrder
  <2> QED BY <2>1, <2>3, <2>4, <2>5
<1>7. CASE FinishLoop
  <2> SUFFICES ASSUME runStatus' = "running", ~Single', ~runLog'.truncated PROVE Goal
    BY DEF Accounted
  <2>1. /\ graph' = graph /\ gate' = gate /\ InBody /\ ~InBody'
        /\ executed' = executed \cup Body \cup {iter.loop} /\ runStatus = "running"
    BY <1>7 DEF FinishLoop, InBody
  <2>2. /\ Tells({}, {}, {}) /\ iter.loop \in N /\ graph.kind[iter.loop] = "loop"
        /\ Body = ReachableFrom(graph, iter.loop)
    BY <1>7, <2>1, LoopTells, LoopOpen
  <2>3. /\ ~runLog.truncated /\ ~Single
        /\ NodesWith("started")' = NodesWith("started")
        /\ NodesWith("skipped")' = NodesWith("skipped")
        /\ \A m : RetriedOnly(m)' <=> RetriedOnly(m)
        /\ \A m : InStartedLoop(m) => InStartedLoop(m)'
    <3>1. ~Single
      BY <2>1 DEF Single
    <3>2. runStatus' # "error" /\ ~runLog'.truncated
      OBVIOUS
    <3>3. \A m : ~ \E g \in {} : GateSource(g) = m
      OBVIOUS
    <3>4. Tells({}, {}, {}) /\ graph' = graph
      BY <2>1, <2>2
    <3> QED BY <3>1, <3>2, <3>3, <3>4, Told
  <2>4. Now
    BY <2>1, <2>3 DEF Accounted
  <2>5. iter.loop \in NodesWith("started")
    BY <2>1, <2>4
  <2>6. \A m \in Body : InStartedLoop(m)
    BY <2>2, <2>5 DEF InStartedLoop
  <2> QED BY <2>1, <2>3, <2>4, <2>5, <2>6
<1>8. CASE FinishRun \/ MissingInput
  BY <1>8 DEF Accounted, FinishRun, MissingInput
<1>9. CASE UNCHANGED graphVars
  <2> SUFFICES ASSUME runStatus' = "running", ~Single', ~runLog'.truncated PROVE Goal
    BY DEF Accounted
  <2>1. UNCHANGED <<graph, order, bodyOrder, runStatus, executed, iter, gate, runLog>>
    BY <1>9 DEF graphVars
  <2>2. Now
    BY <2>1 DEF Accounted, Single
  <2> QED BY <2>1, <2>2 DEF NodesWith, Events, RetriedOnly, InStartedLoop, GateSource, InBody, Body,
                            BodyOrder
<1> QED BY <1>1, <1>2, <1>3, <1>4, <1>5, <1>6, <1>7, <1>8, <1>9 DEF NextGraph, GraphSteps, GateSteps

(* A run that completes reports as skipped what has not executed: of each  *)
(* other node the log tells already that it started.                       *)
LEMMA EveryNodeKept ==
  ASSUME GraphInv, Accounted, EveryNodeAccounted, [NextGraph]_graphVars
  PROVE  EveryNodeAccounted'
<1> DEFINE N == NodeSet(graph)
<1> SUFFICES ASSUME runStatus' = "completed", ~runLog'.truncated, ~Single', NEW n \in NodeSet(graph)'
             PROVE  /\ n \in NodesWith("started")' \cup NodesWith("skipped")' \/ InStartedLoop(n)'
                    /\ n \in NodesWith("started")' \cap NodesWith("skipped")' => RetriedOnly(n)'
  BY DEF EveryNodeAccounted
<1>1. graph' = graph /\ Single' = Single /\ NodeSet(graph)' = N
  BY Moves DEF Moving, Single
<1>2. CASE FinishRun
  <2>1. runStatus = "running" /\ gate = NoGate /\ ~InBody
    BY <1>2 DEF FinishRun, Idle
  <2>2. Tells({}, {}, N \ executed)
    BY <1>2, FinishTells
  <2>3. /\ ~runLog.truncated
        /\ NodesWith("started")' = NodesWith("started")
        /\ NodesWith("skipped")' = NodesWith("skipped") \cup (N \ executed)
        /\ \A m : RetriedOnly(m)' <=> RetriedOnly(m)
        /\ \A m : InStartedLoop(m) => InStartedLoop(m)'
    <3>1. runStatus' # "error"
      OBVIOUS
    <3>2. \A m : ~ \E g \in {} : GateSource(g) = m
      OBVIOUS
    <3> QED BY <1>1, <2>2, <3>1, <3>2, Told
  <2>4. /\ \A m \in executed : m \in NodesWith("started") \/ InStartedLoop(m)
        /\ NodesWith("skipped") = {}
        /\ \A m \in NodesWith("started") : m \in executed \/ RetriedOnly(m)
    BY <1>1, <2>1, <2>3 DEF Accounted
  <2>5. n \in N
    BY <1>1
  <2> QED BY <2>3, <2>4, <2>5
<1>3. CASE UNCHANGED graphVars
  <2>1. UNCHANGED <<graph, runStatus, runLog>>
    BY <1>3 DEF graphVars
  <2>2. /\ n \in NodesWith("started") \cup NodesWith("skipped") \/ InStartedLoop(n)
        /\ n \in NodesWith("started") \cap NodesWith("skipped") => RetriedOnly(n)
    BY <1>1, <2>1 DEF EveryNodeAccounted
  <2> QED BY <2>1, <2>2 DEF NodesWith, Events, RetriedOnly, InStartedLoop, GateSource
<1>4. ASSUME NEW m \in N, RunNode(m) \/ OpenGate(m) \/ StartLoop(m) PROVE FALSE
  <2>1. runStatus = "running"
    BY <1>4 DEF RunNode, OpenGate, StartLoop, Due
  <2> QED BY <1>1, <1>4, <2>1 DEF RunNode, OpenGate, StartLoop, Succeed, Fail
<1>5. CASE GateApprove \/ GateReject \/ GateTimeout \/ GateRetry
  <2>1. runStatus = "running"
    BY <1>5, GateOpen DEF GateApprove, GateReject, GateTimeout, GateRetry
  <2> QED BY <1>1, <1>5, <2>1 DEF GateApprove, GateReject, GateTimeout, GateRetry, Succeed, Fail
<1>6. CASE MissingInput \/ EndIteration \/ FinishLoop
  BY <1>6, LoopOpen DEF MissingInput, EndIteration, FinishLoop
<1> QED BY <1>2, <1>3, <1>4, <1>5, <1>6 DEF NextGraph, GraphSteps, GateSteps

(* A run begins with an empty record.                                      *)
LEMMA InitRecord == InitGraph => OneComponent /\ Accounted /\ EveryNodeAccounted
<1> SUFFICES ASSUME InitGraph PROVE OneComponent /\ Accounted /\ EveryNodeAccounted
  OBVIOUS
<1> DEFINE a == Ev("run_started", NoNode)
<1>1. /\ runStatus = "running" /\ executed = {} /\ iter = NoIter /\ gate = NoGate
      /\ \A n \in enabled : n \in RunnableNodes(graph) /\ runLog.sent = <<a>>
  BY DEF InitGraph
<1>2. Events = {a}
  <2>1. runLog.sent = <<a>>
    BY DEF InitGraph
  <2> HIDE DEF a
  <2> QED BY <2>1 DEF Events, ToSet
<1>3. a.type = "run_started"
  BY DEF Ev
<1> HIDE DEF a
<1>4. NodesWith("started") = {} /\ NodesWith("skipped") = {}
  BY <1>2, <1>3 DEF NodesWith
<1>5. OneComponent
  BY <1>1, <1>4 DEF OneComponent
<1>6. Accounted
  BY <1>1, <1>4 DEF Accounted, InBody
<1>7. EveryNodeAccounted
  BY <1>1 DEF EveryNodeAccounted
<1> QED BY <1>5, <1>6, <1>7

(* The engine's invariant with what the log tells of the nodes.            *)
RecordInv == GraphInv /\ OneComponent /\ Accounted /\ EveryNodeAccounted

(* The inductive invariant of the record.                                  *)
THEOREM RecordInvariant == SpecGraph => []RecordInv
<1>1. InitGraph => RecordInv
  BY InitKeeps, InitRecord DEF RecordInv
<1>2. RecordInv /\ [NextGraph]_graphVars => RecordInv'
  BY StepKeeps, ComponentKept, AccountedKept, EveryNodeKept DEF RecordInv
<1> QED BY <1>1, <1>2, PTL DEF SpecGraph

(* Of the graphs a canvas may hold, a run starts nodes of one only: its    *)
(* entry's, or one that no other outgrows; loops and retries included.     *)
THEOREM OneGraphIsRun == SpecGraph => []OneGraphRuns
<1>1. RecordInv => OneGraphRuns
  BY ComponentIsGraph DEF RecordInv
<1> QED BY <1>1, RecordInvariant, PTL

(* A completed run whose log was not cut accounts for every node of its    *)
(* graph outside the bodies of the loops that started: it started or was   *)
(* reported skipped, and not both, a parent that only a retry ran apart.   *)
THEOREM CompletedRunAccounts == SpecGraph => []EveryNodeAccounted
<1>1. RecordInv => EveryNodeAccounted
  BY DEF RecordInv
<1> QED BY <1>1, RecordInvariant, PTL

-----------------------------------------------------------------------------
(* What a gate let through is what its reviewer saw.                       *)

(* Gates of which that is not claimed: of loops, behind cycles, or with    *)
(* another gate on the same parent.                                        *)
Excused(g) ==
  \/ InSomeBody(g) \/ BehindCycle(g)
  \/ \E h \in NodeSet(graph) \ {g} :
        graph.kind[h] = "approval" /\ GateSource(h) = GateSource(g)
Firm(g) == /\ g \in NodeSet(graph) /\ graph.kind[g] = "approval"
           /\ InEdges(graph, g) # << >> /\ ~Excused(g)

(* Since the approval nobody wrote the output it showed, and a loop in      *)
(* progress works on copies that agree.                                    *)
Kept(g) ==
  /\ decided[g] = "yes" => outputs[GateSource(g)] = reviewed[g]
  /\ InBody => /\ iter.decided[g] = decided[g]
               /\ iter.outputs[GateSource(g)] = outputs[GateSource(g)]

(* Whatever decided has run; what an open gate shows is what there is.     *)
Reviews ==
  /\ \A g \in NodeSet(graph) : decided[g] # "open" => \E k \in 1 .. Len(ran) : ran[k] = g
  /\ \A g : Firm(g) => Kept(g)
  /\ gate # NoGate /\ ~InBody /\ InEdges(graph, gate.node) # << >>
       => gate.shown = outputs[GateSource(gate.node)]

(* The parent of such a gate is in no loop and not the gate itself.        *)
LEMMA FirmGate ==
  ASSUME WellFormed(graph), NEW g, Firm(g)
  PROVE  /\ g \in NodeSet(graph) /\ GateSource(g) \in NodeSet(graph) /\ GateSource(g) # g
         /\ ~BehindCycle(g)
         /\ \E e \in EdgeSet(graph) : e.src = GateSource(g) /\ e.dst = g
         /\ \A m \in NodeSet(graph) : graph.kind[m] = "loop" =>
               g \notin ReachableFrom(graph, m) /\ GateSource(g) \notin ReachableFrom(graph, m)
               /\ GateSource(g) # m
         /\ \A h \in NodeSet(graph) : graph.kind[h] = "approval" /\ h # g
               => GateSource(h) # GateSource(g)
<1>1. g \in NodeSet(graph) /\ InEdges(graph, g) # << >> /\ ~InSomeBody(g) /\ ~BehindCycle(g)
  BY DEF Firm, Excused
<1>2. GateSource(g) \in NodeSet(graph)
  BY <1>1, SourceOfGate
<1>3. PICK e \in EdgeSet(graph) : e.src = GateSource(g) /\ e.dst = g
  BY <1>1, SourceOfGate
<1>4. GateSource(g) # g
  <2> SUFFICES ASSUME GateSource(g) = g PROVE FALSE
    OBVIOUS
  <2>1. g \in ReachableFrom(graph, g)
    BY <1>1, <1>3, Reaching
  <2> QED BY <1>1, <2>1 DEF BehindCycle
<1>5. ASSUME NEW m \in NodeSet(graph), graph.kind[m] = "loop"
      PROVE  /\ g \notin ReachableFrom(graph, m) /\ GateSource(g) \notin ReachableFrom(graph, m)
             /\ GateSource(g) # m
  <2>1. g \notin ReachableFrom(graph, m)
    BY <1>1, <1>5 DEF InSomeBody
  <2>2. ClosedUnder(EdgeSet(graph), ReachableFrom(graph, m))
        /\ \A x \in EdgeSet(graph) : x.src = m => x.dst \in ReachableFrom(graph, m)
    BY Reaching
  <2> QED BY <1>3, <2>1, <2>2 DEF ClosedUnder
<1>6. \A h \in NodeSet(graph) : graph.kind[h] = "approval" /\ h # g
         => GateSource(h) # GateSource(g)
  BY DEF Firm, Excused
<1> QED BY <1>1, <1>2, <1>3, <1>4, <1>5, <1>6

(* Which gates these are no step changes.                                  *)
LEMMA FirmStays ==
  ASSUME graph' = graph
  PROVE  /\ \A g : Firm(g)' <=> Firm(g)
         /\ \A g : GateSource(g)' = GateSource(g)
         /\ \A g : Excused(g)' <=> Excused(g)
         /\ \A g : BehindCycle(g)' <=> BehindCycle(g)
<1>1. \A g : GateSource(g)' = GateSource(g)
  BY DEF GateSource
<1>2. \A g : BehindCycle(g)' <=> BehindCycle(g)
  BY DEF BehindCycle
<1>3. \A g : InSomeBody(g)' <=> InSomeBody(g)
  BY DEF InSomeBody
<1>4. \A g : Excused(g)' <=> Excused(g)
  BY <1>1, <1>2, <1>3 DEF Excused
<1> QED BY <1>1, <1>2, <1>4 DEF Firm

(* A node reads another output than the reviewer saw of excused gates only. *)
LEMMA ReadsReviewed ==
  ASSUME GraphInv, Reviews, NEW n, NEW g \in StaleGates(n)
  PROVE  Excused(g)
<1>1. WellFormed(graph)
  BY DEF GraphInv, GraphFixed
<1>2. /\ g \in {e.src : e \in ToSet(InEdges(graph, n))}
      /\ graph.kind[g] = "approval" /\ CurrentDecided[g] = "yes" /\ InEdges(graph, g) # << >>
      /\ CurrentOutputs[InEdges(graph, g)[1].src] # reviewed[g]
  BY DEF StaleGates
<1>3. g \in NodeSet(graph)
  BY <1>1, <1>2, GraphParts
<1>4. GateSource(g) = InEdges(graph, g)[1].src
  BY <1>1, <1>2, SourceOfGate
<1> SUFFICES ASSUME ~Excused(g) PROVE FALSE
  OBVIOUS
<1>5. Kept(g)
  BY <1>2, <1>3 DEF Firm, Reviews
<1> QED BY <1>2, <1>4, <1>5 DEF Kept, CurrentDecided, CurrentOutputs

(* A node that succeeds: elsewhere than in a loop its output is new, but it *)
(* is no parent of a gate that has decided.                                *)
LEMMA SucceedReviews ==
  ASSUME GraphInv, Reviews, ParentsFirst', NEW n \in NodeSet(graph), NEW out, NEW l,
         Succeed(n, out, outputs, l), InBody => n \in Body,
         \A g \in NodeSet(graph) \ {n} : reviewed'[g] = reviewed[g],
         out = "yes" /\ ~InBody /\ Firm(n) => reviewed'[n] = outputs[GateSource(n)]
  PROVE  Reviews'
<1> DEFINE N == NodeSet(graph)
           x == execs + 1
<1>1. /\ graph' = graph /\ gate' = NoGate /\ execs' = x /\ NodeSet(graph)' = N
      /\ WellFormed(graph) /\ ran \in Seq(N) /\ outputs \in [N -> Nat]
      /\ decided \in [N -> Handles]
  BY DEF Succeed, GraphInv, GraphFixed, Typed
<1>2. \A g \in N : decided[g] # "open" => \E k \in 1 .. Len(ran) : ran[k] = g
  BY DEF Reviews
<1>3. CASE InBody
  <2>1. /\ iter \in Iterations(N) /\ iter.loop \in N /\ graph.kind[iter.loop] = "loop"
        /\ n \in ReachableFrom(graph, iter.loop)
    BY <1>3, LoopOpen
  <2>2. /\ iter' = [iter EXCEPT !.outputs[n] = x, !.pos = @ + 1,
                                !.ran = @ \cup {n}, !.decided[n] = out]
        /\ outputs' = outputs /\ decided' = decided /\ ran' = ran
    BY <1>1, <1>3 DEF Succeed
  <2>3. /\ iter'.decided = [iter.decided EXCEPT ![n] = out]
        /\ iter'.outputs = [iter.outputs EXCEPT ![n] = x]
        /\ iter.decided \in [N -> Handles] /\ iter.outputs \in [N -> Nat]
    <3> HIDE DEF N, x
    <3> QED BY <2>1, <2>2 DEF Iterations
  <2>4. ASSUME NEW g, Firm(g) PROVE Kept(g)'
    <3>1. g \in N /\ GateSource(g) \in N /\ g # n /\ GateSource(g) # n /\ Kept(g)
      BY <1>1, <2>1, <2>4, FirmGate DEF Reviews
    <3>2. GateSource(g)' = GateSource(g)
      BY <1>1, FirmStays
    <3>3. reviewed'[g] = reviewed[g]
      BY <3>1
    <3>4. iter'.decided[g] = iter.decided[g]
          /\ iter'.outputs[GateSource(g)] = iter.outputs[GateSource(g)]
      <4> HIDE DEF x, N
      <4> QED BY <2>3, <3>1
    <3> QED BY <1>3, <2>2, <3>1, <3>2, <3>3, <3>4 DEF Kept
  <2>5. \A g : Firm(g)' <=> Firm(g)
    BY <1>1, FirmStays
  <2> QED BY <1>1, <1>2, <2>2, <2>4, <2>5 DEF Reviews
<1>4. CASE ~InBody
  <2>1. /\ iter' = iter /\ outputs' = [outputs EXCEPT ![n] = x] /\ ran' = Append(ran, n)
        /\ decided' = [decided EXCEPT ![n] = out]
    BY <1>1, <1>4 DEF Succeed
  <2>2. /\ Len(ran) \in Nat /\ Len(ran') = Len(ran) + 1 /\ ran'[Len(ran) + 1] = n
        /\ \A k \in 1 .. Len(ran) : ran'[k] = ran[k]
        /\ DOMAIN ran' = 1 .. Len(ran')
    BY <1>1, <2>1, LenProperties
  <2>3. ASSUME NEW g \in N, decided'[g] # "open" PROVE \E k \in 1 .. Len(ran') : ran'[k] = g
    <3>1. CASE g = n
      BY <2>2, <3>1
    <3>2. CASE g # n
      BY <1>1, <1>2, <2>1, <2>2, <2>3, <3>2
    <3> QED BY <3>1, <3>2
  <2>4. ASSUME NEW g, Firm(g) PROVE Kept(g)'
    <3>1. /\ g \in N /\ GateSource(g) \in N /\ GateSource(g) # g /\ Kept(g) /\ ~BehindCycle(g)
          /\ \E e \in EdgeSet(graph) : e.src = GateSource(g) /\ e.dst = g
      BY <1>1, <2>4, FirmGate DEF Reviews
    <3>2. GateSource(g)' = GateSource(g) /\ (BehindCycle(g)' <=> BehindCycle(g)) /\ ~InBody'
      BY <1>1, <1>4, <2>1, FirmStays DEF InBody
    <3>3. ASSUME decided'[g] = "yes" PROVE outputs'[GateSource(g)] = reviewed'[g]
      <4>1. CASE g = n
        <5>1. decided'[g] = out /\ outputs'[GateSource(g)] = outputs[GateSource(g)]
          BY <1>1, <2>1, <3>1, <4>1
        <5> QED BY <1>4, <2>4, <3>3, <4>1, <5>1
      <4>2. CASE g # n
        <5>1. decided[g] = "yes" /\ reviewed'[g] = reviewed[g]
          BY <1>1, <2>1, <3>1, <3>3, <4>2
        <5>2. PICK k \in 1 .. Len(ran) : ran[k] = g
          BY <1>2, <3>1, <5>1
        <5>3. GateSource(g) # n
          <6> SUFFICES ASSUME GateSource(g) = n PROVE FALSE
            OBVIOUS
          <6>1. PICK e \in EdgeSet(graph) : e.src = n /\ e.dst = g
            BY <3>1
          <6>2. /\ k \in DOMAIN ran' /\ Len(ran) + 1 \in DOMAIN ran' /\ k < Len(ran) + 1
                /\ ran'[k] = g
            BY <2>2, <5>2
          <6>3. EdgeSet(graph)' = EdgeSet(graph)
            BY <1>1
          <6>4. \A i, j \in DOMAIN ran' :
                   i < j /\ (\E y \in EdgeSet(graph)' : y.src = ran'[j] /\ y.dst = ran'[i])
                     => BehindCycle(ran[i])'
            BY DEF ParentsFirst
          <6>5. BehindCycle(ran[k])'
            BY <2>2, <6>1, <6>2, <6>3, <6>4
          <6>6. BehindCycle(ran[k])' <=> BehindCycle(g)'
            BY <6>2 DEF BehindCycle
          <6> QED BY <3>1, <3>2, <6>5, <6>6
        <5>4. outputs'[GateSource(g)] = outputs[GateSource(g)]
          BY <1>1, <2>1, <3>1, <5>3
        <5> QED BY <3>1, <5>1, <5>4 DEF Kept
      <4> QED BY <4>1, <4>2
    <3> QED BY <3>2, <3>3 DEF Kept
  <2>5. \A g : Firm(g)' <=> Firm(g)
    BY <1>1, FirmStays
  <2> QED BY <1>1, <2>3, <2>4, <2>5 DEF Reviews
<1> QED BY <1>3, <1>4

(* A step that writes no output and decides nothing.                       *)
LEMMA NothingReviewed ==
  ASSUME Reviews, graph' = graph, UNCHANGED <<ran, decided, outputs, reviewed>>,
         InBody' => InBody /\ iter'.decided = iter.decided /\ iter'.outputs = iter.outputs,
         gate' # NoGate => gate' = gate /\ (InBody => InBody')
  PROVE  Reviews'
<1>1. /\ \A g : Firm(g)' <=> Firm(g)
      /\ \A g : GateSource(g)' = GateSource(g)
      /\ NodeSet(graph)' = NodeSet(graph)
  BY FirmStays
<1>2. \A g \in NodeSet(graph)' : decided'[g] # "open" => \E k \in 1 .. Len(ran') : ran'[k] = g
  BY <1>1 DEF Reviews
<1>3. ASSUME NEW g, Firm(g) PROVE Kept(g)'
  <2>1. Kept(g)
    BY <1>3 DEF Reviews
  <2> QED BY <1>1, <2>1 DEF Kept
<1>4. ASSUME gate' # NoGate, ~InBody', InEdges(graph, gate.node)' # << >>
      PROVE  gate'.shown = outputs'[GateSource(gate.node)']
  <2>1. gate' = gate /\ ~InBody /\ gate # NoGate
    BY <1>4
  <2>2. InEdges(graph, gate.node) # << >> /\ GateSource(gate.node)' = GateSource(gate.node)
    BY <1>4, <2>1 DEF GateSource
  <2> QED BY <2>1, <2>2 DEF Reviews
<1> QED BY <1>1, <1>2, <1>3, <1>4 DEF Reviews

(* A node that fails.                                                      *)
LEMMA FailReviews ==
  ASSUME GraphInv, Reviews, NEW n, NEW l, Fail(n, l), outputs' = outputs, reviewed' = reviewed
  PROVE  Reviews'
<1>1. /\ graph' = graph /\ gate' = NoGate /\ ran' = ran /\ decided' = decided
      /\ ~InBody => iter' = iter
      /\ InBody => iter' = [iter EXCEPT !.pos = Len(BodyOrder) + 1, !.ran = @ \cup {n}]
  BY DEF Fail
<1>2. InBody' => InBody /\ iter'.decided = iter.decided /\ iter'.outputs = iter.outputs
  <2>1. CASE InBody
    <3>1. iter \in Iterations(NodeSet(graph))
      BY <2>1, LoopOpen
    <3> QED BY <1>1, <2>1, <3>1 DEF Iterations
  <2>2. CASE ~InBody
    BY <1>1, <2>2 DEF InBody
  <2> QED BY <2>1, <2>2
<1> QED BY <1>1, <1>2, NothingReviewed

(* An iteration works on copies that agree with what the run holds.        *)
LEMMA IterationReviews ==
  ASSUME GraphInv, Reviews, NEW n \in NodeSet(graph), graph.kind[n] = "loop",
         NEW k, NEW items, iter' = Iteration(n, k, items, outputs), gate' = NoGate,
         UNCHANGED <<graph, ran, decided, outputs, reviewed>>
  PROVE  Reviews'
<1> DEFINE N == NodeSet(graph)
           d == [m \in N |-> IF m \in ToSet(bodyOrder[n]) THEN "open" ELSE decided[m]]
           o == [outputs EXCEPT ![n] = execs + 1]
<1>1. /\ \A g : Firm(g)' <=> Firm(g)
      /\ \A g : GateSource(g)' = GateSource(g)
      /\ NodeSet(graph)' = NodeSet(graph)
  BY FirmStays
<1>2. iter'.decided = d /\ iter'.outputs = o
  BY DEF Iteration
<1>3. WellFormed(graph) /\ outputs \in [N -> Nat] /\ ToSet(bodyOrder[n]) = ReachableFrom(graph, n)
  BY BodyOfLoop DEF GraphInv, GraphFixed, Typed
<1>4. ASSUME NEW g, Firm(g) PROVE Kept(g)'
  <2>1. /\ Kept(g) /\ g \in N /\ GateSource(g) \in N /\ GateSource(g) # n
        /\ g \notin ReachableFrom(graph, n)
    BY <1>3, <1>4, FirmGate DEF Reviews
  <2>2. iter'.decided[g] = decided[g] /\ iter'.outputs[GateSource(g)] = outputs[GateSource(g)]
    BY <1>2, <1>3, <2>1
  <2> QED BY <1>1, <2>1, <2>2 DEF Kept
<1>5. \A g \in N : decided'[g] # "open" => \E i \in 1 .. Len(ran') : ran'[i] = g
  BY DEF Reviews
<1> QED BY <1>1, <1>4, <1>5 DEF Reviews

(* The end of a loop marks nodes of its body and itself.                   *)
LEMMA FinishLoopReviews ==
  ASSUME GraphInv, Reviews, FinishLoop
  PROVE  Reviews'
<1> DEFINE N == NodeSet(graph)
<1>1. /\ InBody /\ UNCHANGED <<graph, gate, decided, reviewed>> /\ iter' = NoIter
      /\ ran' = Append(ran, iter.loop)
      /\ outputs' = [n \in N |-> IF n = iter.loop THEN execs + 1
                                 ELSE IF n \in Body THEN LoopMarker ELSE outputs[n]]
  BY DEF FinishLoop
<1>2. /\ iter.loop \in N /\ graph.kind[iter.loop] = "loop"
      /\ Body = ReachableFrom(graph, iter.loop) /\ WellFormed(graph) /\ ran \in Seq(N)
  BY <1>1, LoopOpen DEF GraphInv, GraphFixed, Typed
<1>3. /\ \A g : Firm(g)' <=> Firm(g)
      /\ \A g : GateSource(g)' = GateSource(g)
      /\ NodeSet(graph)' = NodeSet(graph)
  BY <1>1, FirmStays
<1>4. ASSUME NEW g, Firm(g) PROVE Kept(g)'
  <2>1. /\ Kept(g) /\ g \in N /\ GateSource(g) \in N /\ GateSource(g) # iter.loop
        /\ GateSource(g) \notin Body
    BY <1>2, <1>4, FirmGate DEF Reviews
  <2>2. outputs'[GateSource(g)] = outputs[GateSource(g)] /\ ~InBody'
    BY <1>1, <2>1 DEF InBody
  <2> QED BY <1>1, <1>3, <2>1, <2>2 DEF Kept
<1>5. ASSUME NEW g \in N, decided'[g] # "open" PROVE \E k \in 1 .. Len(ran') : ran'[k] = g
  <2>1. PICK k \in 1 .. Len(ran) : ran[k] = g
    BY <1>1, <1>5 DEF Reviews
  <2>2. Len(ran) \in Nat /\ Len(ran') = Len(ran) + 1 /\ ran'[k] = ran[k]
    BY <1>1, <1>2, <2>1, LenProperties
  <2> QED BY <2>1, <2>2
<1>6. gate' = NoGate \/ gate' # NoGate
  OBVIOUS
<1>7. ASSUME gate' # NoGate, InEdges(graph, gate.node)' # << >>
      PROVE  gate'.shown = outputs'[GateSource(gate.node)']
  <2>1. gate # NoGate
    BY <1>1, <1>7
  <2>2. gate.node \in Body /\ iter.item <= iter.items
    BY <1>1, <2>1 DEF GraphInv, Placed
  <2>3. iter.item > iter.items /\ iter \in Iterations(N)
    BY <1>1, LoopOpen DEF FinishLoop
  <2> QED BY <2>2, <2>3 DEF Iterations
<1> QED BY <1>3, <1>4, <1>5, <1>7 DEF Reviews

(* A gate shows what its parent's output is.                               *)
LEMMA OpenGateReviews ==
  ASSUME GraphInv, Reviews, NEW n \in NodeSet(graph), OpenGate(n)
  PROVE  Reviews'
<1>1. /\ UNCHANGED <<graph, ran, decided, outputs, reviewed, iter>>
      /\ gate' = [node |-> n, attempt |-> 1,
                  shown |-> IF GateSource(n) = NoNode THEN 0 ELSE CurrentOutputs[GateSource(n)]]
  BY DEF OpenGate
<1>2. /\ \A g : Firm(g)' <=> Firm(g)
      /\ \A g : GateSource(g)' = GateSource(g)
      /\ NodeSet(graph)' = NodeSet(graph) /\ (InBody' <=> InBody) /\ WellFormed(graph)
  BY <1>1, FirmStays DEF InBody, GraphInv, GraphFixed
<1>3. ASSUME NEW g, Firm(g) PROVE Kept(g)'
  <2>1. Kept(g)
    BY <1>3 DEF Reviews
  <2> QED BY <1>1, <1>2, <2>1 DEF Kept
<1>4. \A g \in NodeSet(graph) : decided'[g] # "open" => \E k \in 1 .. Len(ran') : ran'[k] = g
  BY <1>1 DEF Reviews
<1>5. ASSUME ~InBody', InEdges(graph, gate.node)' # << >>
      PROVE  gate'.shown = outputs'[GateSource(gate.node)']
  <2>1. gate'.node = n
    BY <1>1
  <2>2. GateSource(gate.node)' = GateSource(n) /\ InEdges(graph, gate.node)' = InEdges(graph, n)
    BY <1>1, <2>1 DEF GateSource
  <2>3. GateSource(n) # NoNode
    BY <1>2, <1>5, <2>2, SourceOfGate
  <2>4. gate'.shown = outputs[GateSource(n)]
    BY <1>1, <1>2, <1>5, <2>3 DEF CurrentOutputs
  <2> QED BY <1>1, <2>1, <2>2, <2>4
<1> QED BY <1>2, <1>3, <1>4, <1>5 DEF Reviews

(* A retry rewrites the output its gate shows, of which no other gate that  *)
(* is firm has approved anything.                                          *)
LEMMA RetryReviews ==
  ASSUME GraphInv, InOrder, Reviews, gate # NoGate, CanRetry(gate.node),
         Publish(GateSource(gate.node), gate.node), execs' = execs + 1,
         gate' = [gate EXCEPT !.attempt = @ + 1, !.shown = execs'],
         UNCHANGED <<graph, ran, decided, reviewed>>
  PROVE  Reviews'
<1> DEFINE N == NodeSet(graph)
           src == GateSource(gate.node)
           x == execs + 1
<1>1. /\ gate.node \in N /\ gate \in Gates(N) /\ graph.kind[gate.node] = "approval"
      /\ runStatus = "running" /\ WellFormed(graph) /\ NoNode \notin N
      /\ outputs \in [N -> Nat]
      /\ InBody => gate.node \in Body
  BY GateOpen DEF GraphInv, GraphFixed, WellFormed, Placed, Typed
<1>2. src \in N /\ InEdges(graph, gate.node) # << >>
  BY <1>1, SourceOfGate DEF CanRetry
<1>3. /\ \A g : Firm(g)' <=> Firm(g)
      /\ \A g : GateSource(g)' = GateSource(g)
      /\ NodeSet(graph)' = NodeSet(graph)
  BY FirmStays
<1>4. /\ outputs' = [outputs EXCEPT ![src] = x]
      /\ iter' = iter \/ (InBody /\ iter' = [iter EXCEPT !.outputs[src] = x])
  BY DEF Publish
<1>5. gate'.node = gate.node /\ gate'.shown = x
  BY <1>1 DEF Gates
<1>6. InBody' => /\ InBody /\ iter'.decided = iter.decided
                 /\ iter'.outputs = iter.outputs \/ iter'.outputs = [iter.outputs EXCEPT ![src] = x]
                 /\ iter.outputs \in [N -> Nat]
  <2>1. CASE InBody
    <3>1. iter \in Iterations(N)
      BY <2>1, LoopOpen
    <3> HIDE DEF src, x, N
    <3> QED BY <1>4, <2>1, <3>1 DEF Iterations
  <2>2. CASE ~InBody
    BY <1>4, <2>2 DEF InBody
  <2> QED BY <2>1, <2>2
<1>7. ASSUME NEW g, Firm(g) PROVE Kept(g)'
  <2>1. /\ Kept(g) /\ g \in N /\ GateSource(g) \in N
        /\ g # gate.node => GateSource(g) # src
        /\ InBody => g # gate.node
    <3>1. InBody => Body = ReachableFrom(graph, iter.loop) /\ iter.loop \in N
                    /\ graph.kind[iter.loop] = "loop"
      BY LoopOpen
    <3>2. Kept(g)
      BY <1>7 DEF Reviews
    <3>3. g \in N /\ GateSource(g) \in N
      BY <1>1, <1>7, FirmGate
    <3>4. g # gate.node => GateSource(g) # src
      BY <1>1, <1>7, FirmGate
    <3>5. InBody => g \notin Body
      BY <1>1, <1>7, <3>1, FirmGate
    <3>6. InBody => g # gate.node
      BY <1>1, <3>5
    <3> HIDE DEF src, x, N
    <3> QED BY <3>2, <3>3, <3>4, <3>6
  <2>2. CASE g = gate.node
    <3>1. ~InBody /\ ~InBody'
      BY <1>6, <2>1, <2>2
    <3>2. decided[g] # "yes"
      <4> SUFFICES ASSUME decided[g] = "yes" PROVE FALSE
        OBVIOUS
      <4>1. PICK k \in 1 .. Len(ran) : ran[k] = g
        BY <2>1 DEF Reviews
      <4>2. ran \in Seq(N) /\ Len(ran) \in Nat
        BY LenProperties DEF GraphInv, Typed
      <4>3. ~Single
        BY <1>1, <4>1, <4>2 DEF InOrder
      <4>4. /\ GraphFixed /\ cursor \in 1 .. Len(order) + 1 /\ Remaining # {}
            /\ g = order[NextIndex]
        BY <2>2, <3>1, <4>3, GateOpen DEF GraphInv, Typed
      <4>5. /\ NextIndex \in 1 .. Len(order) /\ cursor <= NextIndex /\ cursor \in Nat
        BY <4>4, NextNode, OrderOfNodes
      <4>6. Pos(g) = NextIndex
        BY <4>4, <4>5, PosOfNode
      <4>7. Pos(g) < cursor
        BY <4>1, <4>3 DEF InOrder
      <4> QED BY <4>5, <4>6, <4>7
    <3> QED BY <3>1, <3>2 DEF Kept
  <2>3. CASE g # gate.node
    <3>1. outputs'[GateSource(g)] = outputs[GateSource(g)]
      <4> HIDE DEF src, x, N
      <4> QED BY <1>1, <1>4, <2>1, <2>3
    <3>2. InBody' => InBody /\ iter'.decided = iter.decided
                     /\ iter'.outputs[GateSource(g)] = iter.outputs[GateSource(g)]
      <4> HIDE DEF src, x, N
      <4> QED BY <1>6, <2>1, <2>3
    <3> QED BY <1>3, <2>1, <3>1, <3>2 DEF Kept
  <2> QED BY <2>2, <2>3
<1>8. \A g \in N : decided'[g] # "open" => \E k \in 1 .. Len(ran') : ran'[k] = g
  BY DEF Reviews
<1>9. gate'.shown = outputs'[GateSource(gate.node)']
  <2>1. GateSource(gate.node)' = src
    BY <1>5 DEF GateSource
  <2>2. outputs'[src] = x
    <3> HIDE DEF src, x, N
    <3>1. outputs \in [N -> Nat] /\ src \in N
      BY <1>1, <1>2
    <3>2. outputs' = [outputs EXCEPT ![src] = x]
      BY <1>4
    <3> QED BY <3>1, <3>2
  <2> QED BY <1>5, <2>1, <2>2
<1>10. GateSource(gate.node)' = GateSource(gate'.node)
  BY DEF GateSource
<1> QED BY <1>3, <1>7, <1>8, <1>9, <1>10 DEF Reviews

(* Every step keeps what reviewers approved.                               *)
LEMMA ReviewsKept ==
  ASSUME GraphInv, InOrder, Reviews, ParentsFirst', [NextGraph]_graphVars
  PROVE  Reviews'
<1> DEFINE N == NodeSet(graph)
<1>1. ASSUME NEW n \in N, RunNode(n) PROVE Reviews'
  <2>1. Due(n) /\ graph.kind[n] # "approval" /\ reviewed' = reviewed
    BY <1>1 DEF RunNode
  <2>2. InBody => n \in Body
    BY <2>1, WhoIsDue
  <2>3. ~Firm(n)
    BY <2>1 DEF Firm
  <2>4. ASSUME NEW out, NEW l, Succeed(n, out, outputs, l) PROVE Reviews'
    BY <2>1, <2>2, <2>3, <2>4, SucceedReviews
  <2>5. ASSUME NEW l, Fail(n, l), outputs' = outputs PROVE Reviews'
    BY <2>1, <2>5, FailReviews
  <2> QED BY <1>1, <2>4, <2>5 DEF RunNode
<1>2. CASE GateApprove \/ GateReject
  <2>1. /\ gate # NoGate /\ gate.node \in N
        /\ InBody => gate.node \in Body
    BY <1>2, GateOpen DEF GateApprove, GateReject, GraphInv, Placed
  <2>2. ASSUME GateApprove PROVE Reviews'
    <3>1. /\ reviewed' = [reviewed EXCEPT ![gate.node] = gate.shown]
          /\ Succeed(gate.node, "yes", outputs, runLog) /\ reviewed \in [N -> Nat]
      BY <2>2 DEF GateApprove, GraphInv, Typed
    <3>2. \A g \in N \ {gate.node} : reviewed'[g] = reviewed[g]
      BY <3>1
    <3>3. ~InBody /\ Firm(gate.node) => reviewed'[gate.node] = outputs[GateSource(gate.node)]
      <4>1. reviewed'[gate.node] = gate.shown
        BY <2>1, <3>1
      <4> QED BY <2>1, <4>1 DEF Firm, Reviews
    <3> QED BY <2>1, <3>1, <3>2, <3>3, SucceedReviews
  <2>3. ASSUME GateReject PROVE Reviews'
    <3>1. reviewed' = reviewed /\ Succeed(gate.node, "no", outputs, runLog)
      BY <2>3 DEF GateReject
    <3> QED BY <2>1, <3>1, SucceedReviews
  <2> QED BY <1>2, <2>2, <2>3
<1>3. CASE GateTimeout
  BY <1>3, FailReviews DEF GateTimeout
<1>4. CASE GateRetry
  <2>1. gate # NoGate /\ CanRetry(gate.node)
    BY <1>4 DEF GateRetry
  <2>2. \/ /\ Publish(GateSource(gate.node), gate.node) /\ execs' = execs + 1
           /\ gate' = [gate EXCEPT !.attempt = @ + 1, !.shown = execs']
           /\ UNCHANGED <<graph, ran, decided, reviewed>>
        \/ \E l : Fail(gate.node, l) /\ outputs' = outputs /\ reviewed' = reviewed
    BY <1>4 DEF GateRetry
  <2> QED BY <2>1, <2>2, RetryReviews, FailReviews
<1>5. ASSUME NEW n \in N, OpenGate(n) PROVE Reviews'
  BY <1>5, OpenGateReviews
<1>6. ASSUME NEW n \in N, StartLoop(n) PROVE Reviews'
  <2>1. /\ gate' = NoGate /\ graph.kind[n] = "loop"
        /\ UNCHANGED <<graph, ran, decided, outputs, reviewed>>
    BY <1>6 DEF StartLoop, Due, IteratesHere
  <2>2. PICK items : iter' = Iteration(n, 1, items, outputs)
    BY <1>6 DEF StartLoop
  <2> QED BY <2>1, <2>2, IterationReviews
<1>7. CASE EndIteration
  <2>1. /\ InBody /\ gate' = NoGate
        /\ iter' = Iteration(iter.loop, iter.item + 1, iter.items, outputs)
        /\ UNCHANGED <<graph, ran, decided, outputs, reviewed>>
    BY <1>7 DEF EndIteration
  <2>2. iter.loop \in N /\ graph.kind[iter.loop] = "loop"
    BY <2>1, LoopOpen
  <2> QED BY <2>1, <2>2, IterationReviews
<1>8. CASE FinishLoop
  BY <1>8, FinishLoopReviews
<1>9. CASE MissingInput \/ FinishRun \/ UNCHANGED graphVars
  <2>1. UNCHANGED <<graph, iter, gate, ran, decided, outputs, reviewed>>
    BY <1>9 DEF MissingInput, FinishRun, graphVars
  <2>2. InBody' <=> InBody
    BY <2>1 DEF InBody
  <2> QED BY <2>1, <2>2, NothingReviewed
<1> QED BY <1>1, <1>2, <1>3, <1>4, <1>5, <1>6, <1>7, <1>8, <1>9 DEF NextGraph, GraphSteps, GateSteps

(* A step adds to the stale gates only some that the node that ended reads. *)
LEMMA StaleGrows ==
  ASSUME [NextGraph]_graphVars
  PROVE  graph' = graph /\ (stale' = stale \/ \E n : stale' = stale \cup StaleGates(n))
<1>1. ASSUME NEW n \in NodeSet(graph), RunNode(n)
      PROVE  graph' = graph /\ (stale' = stale \/ \E m : stale' = stale \cup StaleGates(m))
  BY <1>1 DEF RunNode, Succeed, Fail
<1>2. CASE GateApprove \/ GateReject \/ GateTimeout
  BY <1>2 DEF GateApprove, GateReject, GateTimeout, Succeed, Fail
<1>3. CASE GateRetry
  BY <1>3 DEF GateRetry, Fail
<1>4. ASSUME NEW n \in NodeSet(graph), OpenGate(n) \/ StartLoop(n)
      PROVE  graph' = graph /\ stale' = stale
  BY <1>4 DEF OpenGate, StartLoop
<1>5. CASE MissingInput \/ EndIteration \/ FinishLoop \/ FinishRun \/ UNCHANGED graphVars
  BY <1>5 DEF MissingInput, EndIteration, FinishLoop, FinishRun, graphVars
<1> QED BY <1>1, <1>2, <1>3, <1>4, <1>5 DEF NextGraph, GraphSteps, GateSteps

(* ... so no gate is read wrongly that has no excuse.                      *)
LEMMA ApprovedKept ==
  ASSUME GraphInv, Reviews, ApprovedIsRead, [NextGraph]_graphVars
  PROVE  ApprovedIsRead'
<1>1. graph' = graph /\ (stale' = stale \/ \E n : stale' = stale \cup StaleGates(n))
  BY StaleGrows
<1>2. \A g \in stale : Excused(g)
  BY DEF ApprovedIsRead, Excused
<1>3. \A g \in stale' : Excused(g)
  BY <1>1, <1>2, ReadsReviewed
<1>4. \A g \in stale' : Excused(g)'
  BY <1>1, <1>3, FirmStays
<1> QED BY <1>4 DEF ApprovedIsRead, Excused

(* At first no gate has decided.                                           *)
LEMMA InitReviews == InitGraph => Reviews /\ ApprovedIsRead
<1> SUFFICES ASSUME InitGraph PROVE Reviews /\ ApprovedIsRead
  OBVIOUS
<1>1. /\ decided = [n \in NodeSet(graph) |-> "open"] /\ iter = NoIter /\ gate = NoGate
      /\ stale = {}
  BY DEF InitGraph
<1>2. \A g : Firm(g) => Kept(g)
  BY <1>1 DEF Firm, Kept, InBody
<1> QED BY <1>1, <1>2 DEF Reviews, ApprovedIsRead

(* The main loop's invariant with the reviewers' approvals.                *)
ReviewInv == MainInv /\ Reviews /\ ApprovedIsRead

(* The inductive invariant of approvals.                                   *)
THEOREM ReviewInvariant == SpecGraph => []ReviewInv
<1>1. InitGraph => ReviewInv
  BY InitKeeps, InitMain, InitReviews DEF MainInv, ReviewInv
<1>2. ReviewInv /\ [NextGraph]_graphVars => ReviewInv'
  <2> SUFFICES ASSUME ReviewInv, [NextGraph]_graphVars PROVE ReviewInv'
    OBVIOUS
  <2>1. MainInv'
    BY StepKeeps, OrderKept, BodyOrderKept, LedKept DEF MainInv, ReviewInv
  <2>2. GraphInv' /\ InOrder' /\ BodyInOrder'
    BY <2>1 DEF MainInv
  <2>3. ParentsFirst'
    BY <2>2, OrderedParents, PTL
  <2>4. Reviews' /\ ApprovedIsRead'
    BY <2>3, ReviewsKept, ApprovedKept DEF ReviewInv, MainInv
  <2> QED BY <2>1, <2>4 DEF ReviewInv
<1> QED BY <1>1, <1>2, PTL DEF SpecGraph

(* On graphs of any size, whatever other gates and retries do meanwhile, a *)
(* node reads the output its gate's reviewer approved, unless a loop, a    *)
(* cycle or another gate on the same parent is involved.                   *)
THEOREM ApprovalsAreRead == SpecGraph => []ApprovedIsRead
<1>1. ReviewInv => ApprovedIsRead
  BY DEF ReviewInv
<1> QED BY <1>1, ReviewInvariant, PTL
=============================================================================
