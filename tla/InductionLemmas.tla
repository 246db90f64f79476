--------------------------- MODULE InductionLemmas ---------------------------
(***************************************************************************)
(* Induction in the form the provers can use, and what follows from it for *)
(* the recursive operators the models take from the community modules.     *)
(* The library states induction for a predicate, which no prover used here *)
(* instantiates; for a SET of numbers or of subsets it follows from the    *)
(* well-foundedness of < and of strict inclusion (WFMin), which is first   *)
(* order.                                                                  *)
(***************************************************************************)
EXTENDS Integers, Functions, FiniteSetTheorems, TLAPS

(* Every nonempty set of natural numbers has a least element.              *)
LEMMA LeastNumber ==
  ASSUME NEW T, T \subseteq Nat, T # {} PROVE \E n \in T : \A m \in T : n <= m
  <1> DEFINE R == {p \in Nat \X Nat : p[1] < p[2]}
  <1>1. IsWellFoundedOn(R, Nat)
    BY NatLessThanWellFounded DEF OpToRel
  <1> HIDE DEF R
  <1>2. PICK n \in T : \A m \in T : ~ <<m, n>> \in R
    BY <1>1, WFMin
  <1>4. ASSUME NEW m \in T PROVE n <= m
    <2>1. n \in Nat /\ m \in Nat OBVIOUS
    <2>2. (<<m, n>> \in R) <=> m < n
      BY <2>1 DEF R
    <2>3. QED BY <2>1, <2>2, <1>2
  <1>3. QED BY <1>4

(* Induction over the natural numbers, for a set: the provers do not       *)
(* instantiate a theorem whose parameter is a predicate.                   *)
LEMMA NatSetInduction ==
  ASSUME NEW P, 0 \in P, \A n \in Nat : n \in P => n + 1 \in P
  PROVE  \A n \in Nat : n \in P
<1> DEFINE Bad == Nat \ P
<1> SUFFICES ASSUME Bad # {} PROVE FALSE
  OBVIOUS
<1>1. PICK n \in Bad : \A m \in Bad : n <= m
  <2> HIDE DEF Bad
  <2>1. Bad \subseteq Nat
    BY DEF Bad
  <2> QED BY <2>1, LeastNumber
<1>2. n \in Nat /\ n # 0 /\ n - 1 \in Nat
  OBVIOUS
<1>3. n - 1 \in P
  BY <1>1, <1>2
<1> QED BY <1>2, <1>3

(* Induction over the subsets of a finite set, by strict inclusion.        *)
LEMMA SubsetInduction ==
  ASSUME NEW S, IsFiniteSet(S), NEW P,
         \A T \in SUBSET S : (\A U \in SUBSET T : U # T => U \in P) => T \in P
  PROVE  \A T \in SUBSET S : T \in P
<1> DEFINE Bad == {T \in SUBSET S : T \notin P}
<1>1. IsWellFoundedOn(StrictSubsetOrdering(S), SUBSET S)
  BY FS_StrictSubsetOrderingWellFounded, FS_FiniteSubsetsOfFinite
<1> SUFFICES ASSUME Bad # {} PROVE FALSE
  OBVIOUS
<1>2. PICK T \in Bad : \A U \in Bad : ~ (<<U, T>> \in StrictSubsetOrdering(S))
  <2> HIDE DEF Bad
  <2>1. Bad \subseteq SUBSET S
    BY DEF Bad
  <2> QED BY <1>1, <2>1, WFMin
<1>3. ASSUME NEW U \in SUBSET T, U # T PROVE U \in P
  BY <1>2, <1>3 DEF StrictSubsetOrdering
<1> QED BY <1>2, <1>3

-----------------------------------------------------------------------------
(* Recursion along 1 .. n, in the form FoldLeft and its like are defined.   *)

(* What a fold over 1 .. n computes when G[d][k] is the k-th step from d: a  *)
(* function that starts at base and takes every step.                      *)
Steps(n, D, G) == \A d \in D, k \in 1 .. n : G[d][k] \in D
Unfolding(n, base, G, f) == f[0] = base /\ \A k \in 1 .. n : f[k] = G[f[k - 1]][k]
Unfolds(n, D, base, G) == \E f \in [0 .. n -> D] : Unfolding(n, base, G, f)

(* The function defined by such a recursion exists and stays in D.         *)
LEMMA RecursionExists ==
  ASSUME NEW n \in Nat, NEW D, NEW base \in D, NEW G, Steps(n, D, G)
  PROVE  Unfolds(n, D, base, G)
<1> DEFINE Ok(m, f) == f[0] = base /\ \A k \in 1 .. m : f[k] = G[f[k - 1]][k]
           P == {m \in Nat : m <= n => \E f \in [0 .. m -> D] : Ok(m, f)}
<1> HIDE DEF Ok
<1>1. 0 \in P
  <2> DEFINE f == [k \in 0 .. 0 |-> base]
  <2>1. f \in [0 .. 0 -> D] /\ Ok(0, f)
    BY DEF Ok
  <2> HIDE DEF f
  <2> QED BY <2>1
<1>2. ASSUME NEW m \in Nat, m \in P PROVE m + 1 \in P
  <2> SUFFICES ASSUME m + 1 <= n PROVE \E f \in [0 .. m + 1 -> D] : Ok(m + 1, f)
    OBVIOUS
  <2>1. PICK f \in [0 .. m -> D] : Ok(m, f)
    BY <1>2
  <2>2. G[f[m]][m + 1] \in D
    <3>1. f[m] \in D /\ m + 1 \in 1 .. n
      OBVIOUS
    <3> QED BY <3>1 DEF Steps
  <2> DEFINE g == [k \in 0 .. m + 1 |-> IF k = m + 1 THEN G[f[m]][m + 1] ELSE f[k]]
  <2>3. g \in [0 .. m + 1 -> D]
    BY <2>2
  <2>4. Ok(m + 1, g)
    <3>1. g[0] = base /\ g[m] = f[m] /\ g[m + 1] = G[f[m]][m + 1]
      BY <2>1 DEF Ok
    <3>2. ASSUME NEW k \in 1 .. m + 1 PROVE g[k] = G[g[k - 1]][k]
      <4>1. CASE k = m + 1
        BY <3>1, <4>1
      <4>2. CASE k # m + 1
        <5>1. g[k] = f[k] /\ g[k - 1] = f[k - 1] /\ k \in 1 .. m
          BY <4>2
        <5> QED BY <2>1, <5>1 DEF Ok
      <4> QED BY <4>1, <4>2
    <3> QED BY <3>1, <3>2 DEF Ok
  <2> HIDE DEF g
  <2> QED BY <2>3, <2>4
<1>3. n \in P
  <2>1. \A m \in Nat : m \in P
    <3> HIDE DEF P
    <3> QED BY <1>1, <1>2, NatSetInduction
  <2> QED BY <2>1
<1>4. PICK f \in [0 .. n -> D] : Ok(n, f)
  BY <1>3
<1> QED BY <1>4 DEF Ok, Unfolding, Unfolds

-----------------------------------------------------------------------------
(* Sums of the values of a function on a finite set (SumFunctionOnSet of    *)
(* Functions): its recursion is well defined, and what changes a sum.       *)

Pick(s) == CHOOSE x \in s : TRUE

SumBody(f, s, iter) == IF s = {} THEN 0 ELSE f[Pick(s)] + iter[s \ {Pick(s)}]

SumIter(f, S) == CHOOSE iter : iter = [s \in SUBSET S |-> SumBody(f, s, iter)]

(* SumFunctionOnSet is the last value of that recursive function.          *)
LEMMA SumUnfold ==
  ASSUME NEW f, NEW S
  PROVE  SumFunctionOnSet(f, S) = SumIter(f, S)[S]
BY DEF SumFunctionOnSet, FoldFunctionOnSet, MapThenFoldSet, SumIter, SumBody, Pick

(* A nonempty set's element of choice is one of its elements.              *)
LEMMA PickIn ==
  ASSUME NEW s, s # {}
  PROVE  Pick(s) \in s
BY DEF Pick

(* The recursive function exists: approximations for the subsets of at     *)
(* most n elements, by induction on n.                                     *)
LEMMA SumIterExists ==
  ASSUME NEW f, NEW S, IsFiniteSet(S)
  PROVE  SumIter(f, S) = [s \in SUBSET S |-> SumBody(f, s, SumIter(f, S))]
<1> DEFINE D(n) == {T \in SUBSET S : Cardinality(T) <= n}
           P == {n \in Nat : \E iter : iter = [s \in D(n) |-> SumBody(f, s, iter)]}
<1>a. \A T \in SUBSET S : IsFiniteSet(T) /\ Cardinality(T) \in Nat
  BY FS_Subset, FS_CardinalityType
<1>1. 0 \in P
  <2> DEFINE g == [s \in D(0) |-> 0]
  <2>1. \A s \in D(0) : s = {}
    BY <1>a, FS_EmptySet
  <2>2. g = [s \in D(0) |-> SumBody(f, s, g)]
    BY <2>1 DEF SumBody
  <2> QED BY <2>2
<1>2. ASSUME NEW n \in Nat, n \in P PROVE n + 1 \in P
  <2>1. PICK g : g = [s \in D(n) |-> SumBody(f, s, g)]
    BY <1>2
  <2> DEFINE h == [s \in D(n + 1) |-> SumBody(f, s, g)]
  <2>2. ASSUME NEW s \in D(n + 1) PROVE SumBody(f, s, g) = SumBody(f, s, h)
    <3>1. CASE s = {}
      BY <3>1 DEF SumBody
    <3>2. CASE s # {}
      <4> DEFINE r == s \ {Pick(s)}
      <4>1. Cardinality(r) = Cardinality(s) - 1 /\ r \in SUBSET S
        BY <3>2, <1>a, PickIn, FS_RemoveElement
      <4>2. r \in D(n) /\ r \in D(n + 1)
        BY <4>1, <1>a
      <4>3. g[r] = SumBody(f, r, g) /\ h[r] = SumBody(f, r, g)
        <5> HIDE DEF D, r
        <5> QED BY <4>2, <2>1
      <4> QED BY <3>2, <4>3 DEF SumBody
    <3> QED BY <3>1, <3>2
  <2>3. h = [s \in D(n + 1) |-> SumBody(f, s, h)]
    <3> HIDE DEF D
    <3> QED BY <2>2
  <2>4. \E iter : iter = [s \in D(n + 1) |-> SumBody(f, s, iter)]
    <3> HIDE DEF D, h
    <3> QED BY <2>3
  <2> QED BY <2>4
<1>3. \A n \in Nat : n \in P
  <2> HIDE DEF P
  <2> QED BY <1>1, <1>2, NatSetInduction
<1>4. Cardinality(S) \in P
  BY <1>3, <1>a
<1>5. D(Cardinality(S)) = SUBSET S
  BY <1>a, FS_Subset
<1>6. \E iter : iter = [s \in SUBSET S |-> SumBody(f, s, iter)]
  <2> HIDE DEF D
  <2> QED BY <1>4, <1>5
<1> QED BY <1>6 DEF SumIter

(* Its value for a subset.                                                 *)
LEMMA SumIterStep ==
  ASSUME NEW f, NEW S, IsFiniteSet(S), NEW T \in SUBSET S
  PROVE  SumIter(f, S)[T] = SumBody(f, T, SumIter(f, S))
<1> DEFINE g == SumIter(f, S)
<1>1. g = [s \in SUBSET S |-> SumBody(f, s, g)]
  BY SumIterExists
<1> HIDE DEF g
<1>2. g[T] = SumBody(f, T, g)
  BY <1>1
<1> QED BY <1>2 DEF g

(* The recursions over two sets agree on the subsets of the smaller one.   *)
LEMMA SumIterAgree ==
  ASSUME NEW f, NEW S, IsFiniteSet(S), NEW A \in SUBSET S, NEW T \in SUBSET A
  PROVE  SumIter(f, S)[T] = SumIter(f, A)[T]
<1> DEFINE P == {U \in SUBSET A : SumIter(f, S)[U] = SumIter(f, A)[U]}
<1>1. IsFiniteSet(A)
  BY FS_Subset
<1>2. ASSUME NEW U \in SUBSET A, \A V \in SUBSET U : V # U => V \in P
      PROVE  U \in P
  <2>1. U \in SUBSET S
    OBVIOUS
  <2>2. SumBody(f, U, SumIter(f, S)) = SumBody(f, U, SumIter(f, A))
    <3>1. CASE U = {}
      BY <3>1 DEF SumBody
    <3>2. CASE U # {}
      <4>1. U \ {Pick(U)} \in P
        BY <3>2, <1>2, PickIn
      <4> QED BY <3>2, <4>1 DEF SumBody
    <3> QED BY <3>1, <3>2
  <2> QED BY <1>1, <2>1, <2>2, SumIterStep
<1>3. \A U \in SUBSET A : U \in P
  <2> HIDE DEF P
  <2> QED BY <1>1, <1>2, SubsetInduction
<1> QED BY <1>3

(* The sum over no element.                                                *)
LEMMA SumEmpty ==
  ASSUME NEW f
  PROVE  SumFunctionOnSet(f, {}) = 0
<1>1. SumIter(f, {})[{}] = SumBody(f, {}, SumIter(f, {}))
  BY SumIterStep, FS_EmptySet
<1> QED BY <1>1, SumUnfold DEF SumBody

(* The sum over a nonempty set, by the element the recursion takes first.  *)
LEMMA SumPick ==
  ASSUME NEW f, NEW S, IsFiniteSet(S), S # {}
  PROVE  /\ Pick(S) \in S
         /\ SumFunctionOnSet(f, S) = f[Pick(S)] + SumFunctionOnSet(f, S \ {Pick(S)})
<1> DEFINE R == S \ {Pick(S)}
<1>1. R \in SUBSET S /\ Pick(S) \in S
  BY PickIn
<1>2. SumIter(f, S)[S] = SumBody(f, S, SumIter(f, S))
  BY SumIterStep
<1>3. SumIter(f, S)[S] = f[Pick(S)] + SumIter(f, S)[R]
  BY <1>2 DEF SumBody
<1>4. SumIter(f, S)[R] = SumIter(f, R)[R]
  BY <1>1, SumIterAgree
<1> QED BY <1>1, <1>3, <1>4, SumUnfold

(* A set of numbers closed under addition holds the sums of its elements.  *)
LEMMA SumIn ==
  ASSUME NEW f, NEW S, IsFiniteSet(S), NEW V, 0 \in V, \A a, b \in V : a + b \in V,
         \A x \in S : f[x] \in V
  PROVE  SumFunctionOnSet(f, S) \in V
<1> DEFINE P == {T \in SUBSET S : SumFunctionOnSet(f, T) \in V}
<1>1. ASSUME NEW T \in SUBSET S, \A U \in SUBSET T : U # T => U \in P
      PROVE  T \in P
  <2>1. CASE T = {}
    BY <2>1, SumEmpty
  <2>2. CASE T # {}
    <3>1. /\ Pick(T) \in T
          /\ SumFunctionOnSet(f, T) = f[Pick(T)] + SumFunctionOnSet(f, T \ {Pick(T)})
      BY <2>2, SumPick, FS_Subset
    <3>2. T \ {Pick(T)} \in P
      BY <3>1, <1>1
    <3> QED BY <3>1, <3>2
  <2> QED BY <2>1, <2>2
<1>2. \A T \in SUBSET S : T \in P
  <2> HIDE DEF P
  <2> QED BY <1>1, SubsetInduction
<1> QED BY <1>2

(* Sums of integers, of natural numbers and of zeroes.                     *)
LEMMA SumTypes ==
  ASSUME NEW f, NEW S, IsFiniteSet(S)
  PROVE  /\ (\A x \in S : f[x] \in Int) => SumFunctionOnSet(f, S) \in Int
         /\ (\A x \in S : f[x] \in Nat) => SumFunctionOnSet(f, S) \in Nat
         /\ (\A x \in S : f[x] = 0) => SumFunctionOnSet(f, S) = 0
<1>1. ASSUME \A x \in S : f[x] \in Int PROVE SumFunctionOnSet(f, S) \in Int
  BY <1>1, SumIn
<1>2. ASSUME \A x \in S : f[x] \in Nat PROVE SumFunctionOnSet(f, S) \in Nat
  <2>1. 0 \in Nat /\ \A a, b \in Nat : a + b \in Nat
    OBVIOUS
  <2> QED BY <1>2, <2>1, SumIn, Zenon
<1>3. ASSUME \A x \in S : f[x] = 0 PROVE SumFunctionOnSet(f, S) = 0
  <2>1. 0 \in {0} /\ (\A a, b \in {0} : a + b \in {0}) /\ \A x \in S : f[x] \in {0}
    BY <1>3
  <2>2. SumFunctionOnSet(f, S) \in {0}
    BY <2>1, SumIn, Zenon
  <2> QED BY <2>2
<1> QED BY <1>1, <1>2, <1>3

(* Only the values on the set matter.                                      *)
LEMMA SumSame ==
  ASSUME NEW f, NEW g, NEW S, IsFiniteSet(S), \A x \in S : f[x] = g[x]
  PROVE  SumFunctionOnSet(f, S) = SumFunctionOnSet(g, S)
<1> DEFINE P == {T \in SUBSET S : SumFunctionOnSet(f, T) = SumFunctionOnSet(g, T)}
<1>1. ASSUME NEW T \in SUBSET S, \A U \in SUBSET T : U # T => U \in P
      PROVE  T \in P
  <2>1. CASE T = {}
    BY <2>1, SumEmpty
  <2>2. CASE T # {}
    <3>1. /\ Pick(T) \in T
          /\ SumFunctionOnSet(f, T) = f[Pick(T)] + SumFunctionOnSet(f, T \ {Pick(T)})
          /\ SumFunctionOnSet(g, T) = g[Pick(T)] + SumFunctionOnSet(g, T \ {Pick(T)})
      BY <2>2, SumPick, FS_Subset
    <3>2. T \ {Pick(T)} \in P
      BY <3>1, <1>1
    <3> QED BY <3>1, <3>2
  <2> QED BY <2>1, <2>2
<1>2. \A T \in SUBSET S : T \in P
  <2> HIDE DEF P
  <2> QED BY <1>1, SubsetInduction
<1> QED BY <1>2

(* Any element may be taken out of a sum first.                            *)
LEMMA SumSplit ==
  ASSUME NEW f, NEW S, IsFiniteSet(S), \A x \in S : f[x] \in Int, NEW e \in S
  PROVE  SumFunctionOnSet(f, S) = f[e] + SumFunctionOnSet(f, S \ {e})
<1> DEFINE P == {T \in SUBSET S : \A x \in T :
                   SumFunctionOnSet(f, T) = f[x] + SumFunctionOnSet(f, T \ {x})}
<1>1. ASSUME NEW T \in SUBSET S, \A U \in SUBSET T : U # T => U \in P
      PROVE  T \in P
  <2> SUFFICES ASSUME NEW x \in T
               PROVE  SumFunctionOnSet(f, T) = f[x] + SumFunctionOnSet(f, T \ {x})
    OBVIOUS
  <2> DEFINE p == Pick(T)
             R == T \ {p}
             Q == T \ {x}
  <2>1. p \in T /\ SumFunctionOnSet(f, T) = f[p] + SumFunctionOnSet(f, R)
    BY SumPick, FS_Subset
  <2>2. CASE x = p
    BY <2>1, <2>2
  <2>3. CASE x # p
    <3>1. R \in P /\ Q \in P /\ x \in R /\ p \in Q
      BY <1>1, <2>1, <2>3
    <3>2. SumFunctionOnSet(f, R) = f[x] + SumFunctionOnSet(f, R \ {x})
      BY <3>1
    <3>3. SumFunctionOnSet(f, Q) = f[p] + SumFunctionOnSet(f, Q \ {p})
      BY <3>1
    <3>4. R \ {x} = Q \ {p} /\ R \ {x} \in SUBSET S
      OBVIOUS
    <3>5. SumFunctionOnSet(f, R \ {x}) \in Int
      BY <3>4, SumTypes, FS_Subset
    <3> HIDE DEF R, Q, p
    <3>6. f[x] \in Int /\ f[p] \in Int
      BY <2>1
    <3>7. SumFunctionOnSet(f, T) = f[x] + SumFunctionOnSet(f, Q)
      <4>1. SumFunctionOnSet(f, R \ {x}) = SumFunctionOnSet(f, Q \ {p})
        BY <3>4
      <4> DEFINE rest == SumFunctionOnSet(f, R \ {x})
      <4>2. SumFunctionOnSet(f, Q) = f[p] + rest
        BY <3>3, <4>1
      <4>3. SumFunctionOnSet(f, T) = f[p] + (f[x] + rest)
        BY <2>1, <3>2
      <4>4. rest \in Int
        BY <3>5
      <4> HIDE DEF rest
      <4> QED BY <3>6, <4>2, <4>3, <4>4
    <3> QED BY <3>7 DEF Q
  <2> QED BY <2>2, <2>3
<1>2. \A T \in SUBSET S : T \in P
  <2> HIDE DEF P
  <2> QED BY <1>1, SubsetInduction
<1> QED BY <1>2

(* A sum changes by the difference when one of its values changes.         *)
LEMMA SumChange ==
  ASSUME NEW f, NEW g, NEW S, IsFiniteSet(S), NEW e \in S,
         \A x \in S : f[x] \in Int /\ g[x] \in Int,
         \A x \in S \ {e} : g[x] = f[x]
  PROVE  SumFunctionOnSet(g, S) = SumFunctionOnSet(f, S) + (g[e] - f[e])
<1>1. /\ SumFunctionOnSet(f, S) = f[e] + SumFunctionOnSet(f, S \ {e})
      /\ SumFunctionOnSet(g, S) = g[e] + SumFunctionOnSet(g, S \ {e})
  BY SumSplit
<1>2. IsFiniteSet(S \ {e})
  BY FS_RemoveElement
<1>3. SumFunctionOnSet(g, S \ {e}) = SumFunctionOnSet(f, S \ {e})
  BY <1>2, SumSame
<1>4. SumFunctionOnSet(f, S \ {e}) \in Int
  BY <1>2, SumTypes
<1> QED BY <1>1, <1>3, <1>4

(* The sum of a function one of whose values was replaced.                 *)
LEMMA SumExcept ==
  ASSUME NEW S, IsFiniteSet(S), NEW f \in [S -> Int], NEW e \in S, NEW v \in Int
  PROVE  SumFunctionOnSet([f EXCEPT ![e] = v], S) = SumFunctionOnSet(f, S) + (v - f[e])
<1> DEFINE g == [f EXCEPT ![e] = v]
<1>1. /\ \A x \in S : f[x] \in Int /\ g[x] \in Int
      /\ \A x \in S \ {e} : g[x] = f[x]
      /\ g[e] = v
  OBVIOUS
<1> HIDE DEF g
<1>2. SumFunctionOnSet(g, S) = SumFunctionOnSet(f, S) + (g[e] - f[e])
  BY <1>1, SumChange
<1> QED BY <1>1, <1>2 DEF g
=============================================================================
