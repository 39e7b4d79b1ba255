------------------------------ MODULE SumProofs ------------------------------
(***************************************************************************)
(* Lemmas about recursion and about the sum of a function over a finite    *)
(* set, which the proofs about amounts of money, of shares and of time     *)
(* rest on.                                                                *)
(*                                                                         *)
(* SumFunctionOnSet(f, S) is defined by a recursive function on the        *)
(* subsets of S, which takes one element after the other out of a set.     *)
(* The inductions over finite sets below are descents: of the subsets for  *)
(* which a claim fails, look at a smallest one.                            *)
(***************************************************************************)
EXTENDS Integers, Functions, FiniteSetTheorems, WellFoundedInduction, TLAPS

\* Among the subsets of a finite set that are in a family, one is smallest.
LEMMA SmallestSubset ==
    ASSUME NEW S, IsFiniteSet(S), NEW F, F \subseteq SUBSET S, F # {}
    PROVE  \E s \in F : \A t \in F : t \subseteq s => t = s
<1>1. F \subseteq FiniteSubsetsOf(S)
    BY FS_FiniteSubsetsOfFinite
<1>2. \E s \in F : \A t \in F : ~ (<<t, s>> \in StrictSubsetOrdering(S))
    BY <1>1, FS_StrictSubsetOrderingWellFounded, WFMin, Zenon
<1> QED
    BY <1>2 DEF StrictSubsetOrdering

\* Induction along a range, for a claim given as the set of numbers it holds for.
LEMMA AlongRange ==
    ASSUME NEW n \in Nat, NEW good, 0 \in good,
           \A k \in 0..(n - 1) : k \in good => k + 1 \in good
    PROVE  \A k \in 0..n : k \in good
<1> DEFINE F == (0..n) \ good
<1> SUFFICES ASSUME F # {} PROVE FALSE
    OBVIOUS
<1>1. \E k \in F : \A l \in F : ~ (<<l, k>> \in OpToRel(<, Nat))
  <2>1. F \subseteq Nat
      OBVIOUS
  <2> HIDE DEF F
  <2> QED
      BY <2>1, NatLessThanWellFounded, WFMin, Zenon
<1>2. PICK k \in F : \A l \in F : ~ (<<l, k>> \in OpToRel(<, Nat))
    BY <1>1
<1>3. k \in Nat /\ k # 0 /\ k <= n
    OBVIOUS
<1>4. k - 1 \in 0..(n - 1) /\ k - 1 \in Nat /\ k - 1 < k
    BY <1>3
<1>5. k - 1 \notin F
    BY <1>2, <1>3, <1>4 DEF OpToRel
<1> QED
    BY <1>3, <1>4, <1>5

\* A function by recursion along a range, with its values in a set D.
IsRecursion(f, n, D, base, step) ==
    /\ f \in [0..n -> D]
    /\ f[0] = base
    /\ \A k \in 1..n : f[k] = step[<<f[k - 1], k>>]
recursion(n, D, base, step) == CHOOSE f : IsRecursion(f, n, D, base, step)

\* There is one when its steps do not leave D.
LEMMA RecursionAlongRange ==
    ASSUME NEW n \in Nat, NEW D, NEW base \in D, NEW step \in [D \X Nat -> D]
    PROVE  IsRecursion(recursion(n, D, base, step), n, D, base, step)
<1> DEFINE Runs(f, m) == IsRecursion(f, m, D, base, step)
           good == {m \in 0..n : \E f : Runs(f, m)}
<1>1. 0 \in good
  <2> DEFINE f == [k \in 0..0 |-> base]
  <2>1. f \in [0..0 -> D] /\ \A k \in 0..0 : k = 0 /\ f[k] = base
      OBVIOUS
  <2> HIDE DEF f
  <2>2. f[0] = base /\ \A k \in 1..0 : f[k] = step[<<f[k - 1], k>>]
      BY <2>1
  <2>3. Runs(f, 0)
      BY <2>1, <2>2 DEF IsRecursion
  <2> QED
      BY <2>3
<1>2. ASSUME NEW m \in 0..(n - 1), m \in good PROVE m + 1 \in good
  <2>1. PICK before : Runs(before, m)
      BY <1>2
  <2> DEFINE last == step[<<before[m], m + 1>>]
             f == [k \in 0..(m + 1) |-> IF k = m + 1 THEN last ELSE before[k]]
  <2>2. last \in D
    <3>1. before[m] \in D /\ m + 1 \in Nat
        BY <2>1 DEF IsRecursion
    <3> QED
        BY <3>1
  <2> HIDE DEF last
  <2>3. ASSUME NEW k \in 0..(m + 1)
        PROVE  f[k] \in D /\ f[k] = IF k = 0 THEN base ELSE step[<<f[k - 1], k>>]
    <3>1. CASE k \in 0..m
      <4>1. k # m + 1 /\ f[k] = before[k] /\ before[k] \in D
          BY <2>1, <3>1 DEF IsRecursion
      <4>2. k # 0 => k - 1 \in 0..m /\ k - 1 \in 0..(m + 1) /\ k - 1 # m + 1
          BY <3>1
      <4>3. k # 0 => f[k - 1] = before[k - 1]
          BY <4>2
      <4>4. before[k] = IF k = 0 THEN base ELSE step[<<before[k - 1], k>>]
        <5>1. k = 0 \/ k \in 1..m
            BY <3>1
        <5> QED
            BY <2>1, <5>1 DEF IsRecursion
      <4> HIDE DEF f
      <4> QED
          BY <4>1, <4>3, <4>4
    <3>2. CASE k = m + 1
      <4>1. k # 0 /\ k - 1 = m /\ m \in 0..(m + 1) /\ m # m + 1
          BY <3>2
      <4>2. f[k] = last /\ f[m] = before[m]
          BY <3>2, <4>1
      <4> HIDE DEF f
      <4> QED
          BY <2>2, <3>2, <4>1, <4>2 DEF last
    <3> QED
        BY <3>1, <3>2
  <2>4. f = [k \in 0..(m + 1) |-> f[k]]
      OBVIOUS
  <2> HIDE DEF f
  <2>5. f \in [0..(m + 1) -> D]
      BY <2>3, <2>4
  <2>6. f[0] = base /\ \A k \in 1..(m + 1) : f[k] = step[<<f[k - 1], k>>]
    <3>1. 0 \in 0..(m + 1) /\ \A k \in 1..(m + 1) : k \in 0..(m + 1) /\ k # 0
        OBVIOUS
    <3> QED
        BY <2>3, <3>1
  <2>7. Runs(f, m + 1) /\ m + 1 \in 0..n
      BY <2>5, <2>6 DEF IsRecursion
  <2> QED
      BY <2>7
<1> HIDE DEF good
<1>3. n \in good
    BY <1>1, <1>2, AlongRange
<1> QED
    BY <1>3 DEF good, recursion

-----------------------------------------------------------------------------
(* The recursive function of a sum exists.                                 *)

\* the element that a sum takes out of a set first
firstOf(s) == CHOOSE x \in s : TRUE

\* iter sums f over each subset of S, one element after the other.
Sums(iter, f, S) ==
    iter = [s \in SUBSET S |-> IF s = {} THEN 0 ELSE f[firstOf(s)] + iter[s \ {firstOf(s)}]]

LEMMA FirstIn == ASSUME NEW s, s # {} PROVE firstOf(s) \in s
    BY DEF firstOf

\* Two such functions agree wherever both are defined.
LEMMA SumsAreUnique ==
    ASSUME NEW f, NEW S, NEW T, IsFiniteSet(S), NEW g, NEW h,
           Sums(g, f, S), Sums(h, f, T),
           NEW s \in SUBSET S, s \subseteq T
    PROVE  g[s] = h[s]
<1> DEFINE F == {t \in SUBSET S : t \subseteq T /\ g[t] # h[t]}
<1> SUFFICES ASSUME F # {} PROVE FALSE
    OBVIOUS
<1>1. PICK t \in F : \A u \in F : u \subseteq t => u = t
  <2>1. F \subseteq SUBSET S
      OBVIOUS
  <2> HIDE DEF F
  <2> QED
      BY <2>1, SmallestSubset
<1>2. CASE t = {}
    BY <1>1, <1>2 DEF Sums
<1>3. CASE t # {}
  <2> DEFINE x == firstOf(t)
             u == t \ {x}
  <2>1. x \in t
      BY <1>3, FirstIn
  <2> HIDE DEF x
  <2>2. u \notin F
      BY <1>1, <2>1
  <2>3. u \in SUBSET S /\ u \in SUBSET T /\ t \in SUBSET S /\ t \in SUBSET T
      BY <1>1
  <2>4. g[u] = h[u]
      BY <2>2, <2>3
  <2>5. g[t] = f[x] + g[u]
      BY <1>3, <2>3 DEF Sums, x
  <2>6. h[t] = f[x] + h[u]
      BY <1>3, <2>3 DEF Sums, x
  <2> QED
      BY <1>1, <2>4, <2>5, <2>6
<1> QED
    BY <1>2, <1>3

\* There is one for every finite set.
LEMMA SumsExist ==
    ASSUME NEW f, NEW S, IsFiniteSet(S)
    PROVE  \E iter : Sums(iter, f, S)
<1> DEFINE F == {t \in SUBSET S : ~ \E iter : Sums(iter, f, t)}
<1> SUFFICES ASSUME F # {} PROVE FALSE
    BY DEF F
<1>1. PICK t \in F : \A u \in F : u \subseteq t => u = t
  <2>1. F \subseteq SUBSET S
      OBVIOUS
  <2> HIDE DEF F
  <2> QED
      BY <2>1, SmallestSubset
<1> DEFINE G(u) == CHOOSE iter : Sums(iter, f, u)
           h == [u \in SUBSET t |-> IF u = {} THEN 0
                    ELSE f[firstOf(u)] + G(u \ {firstOf(u)})[u \ {firstOf(u)}]]
<1>2. ASSUME NEW u \in SUBSET t, u # t PROVE Sums(G(u), f, u)
  <2>1. u \notin F /\ u \in SUBSET S
      BY <1>1, <1>2
  <2> QED
      BY <2>1
<1>3. IsFiniteSet(t)
    BY <1>1, FS_Subset
<1> HIDE DEF G
<1>4. ASSUME NEW u \in SUBSET t, u # t PROVE h[u] = G(u)[u]
  <2>1. CASE u = {}
      BY <1>2, <1>4, <2>1 DEF Sums
  <2>2. CASE u # {}
    <3> DEFINE v == u \ {firstOf(u)}
    <3>1. firstOf(u) \in u
        BY <2>2, FirstIn
    <3>2. v \in SUBSET t /\ v # t /\ v \in SUBSET u /\ v \in SUBSET v
        BY <3>1
    <3>3. G(u)[u] = f[firstOf(u)] + G(u)[v]
        BY <1>2, <1>4, <2>2 DEF Sums
    <3>4. Sums(G(u), f, u) /\ Sums(G(v), f, v) /\ IsFiniteSet(v)
        BY <1>2, <1>3, <1>4, <3>2, FS_Subset
    <3>5. G(v)[v] = G(u)[v]
        BY <3>2, <3>4, SumsAreUnique
    <3> QED
        BY <2>2, <3>3, <3>5
  <2> QED
      BY <2>1, <2>2
<1>5. Sums(h, f, t)
  <2>1. ASSUME NEW u \in SUBSET t, u # {}
        PROVE  h[u] = f[firstOf(u)] + h[u \ {firstOf(u)}]
    <3>1. firstOf(u) \in u
        BY <2>1, FirstIn
    <3>2. u \ {firstOf(u)} \in SUBSET t /\ u \ {firstOf(u)} # t
        BY <3>1
    <3> QED
        BY <1>4, <2>1, <3>2
  <2>2. {} \in SUBSET t /\ h[{}] = 0
      OBVIOUS
  <2> HIDE DEF h
  <2>3. h = [u \in SUBSET t |-> h[u]]
      BY DEF h
  <2> QED
      BY <2>1, <2>2, <2>3 DEF Sums
<1> QED
    BY <1>1, <1>5

LEMMA SumIsOfSums ==
    ASSUME NEW f, NEW S, IsFiniteSet(S)
    PROVE  \E iter : Sums(iter, f, S) /\ SumFunctionOnSet(f, S) = iter[S]
<1>1. SumFunctionOnSet(f, S) = (CHOOSE iter : Sums(iter, f, S))[S]
    BY DEF SumFunctionOnSet, FoldFunctionOnSet, MapThenFoldSet, Sums, firstOf
<1> QED
    BY <1>1, SumsExist

-----------------------------------------------------------------------------
(* The equations of a sum.                                                 *)

LEMMA SumOfNothing == ASSUME NEW f PROVE SumFunctionOnSet(f, {}) = 0
<1>1. PICK iter : Sums(iter, f, {}) /\ SumFunctionOnSet(f, {}) = iter[{}]
    BY SumIsOfSums, FS_EmptySet
<1> QED
    BY <1>1 DEF Sums

LEMMA SumTakesFirst ==
    ASSUME NEW f, NEW S, IsFiniteSet(S), S # {}
    PROVE  SumFunctionOnSet(f, S) = f[firstOf(S)] + SumFunctionOnSet(f, S \ {firstOf(S)})
<1> DEFINE T == S \ {firstOf(S)}
<1>1. PICK g : Sums(g, f, S) /\ SumFunctionOnSet(f, S) = g[S]
    BY SumIsOfSums
<1>2. IsFiniteSet(T)
    BY FS_RemoveElement
<1>3. PICK h : Sums(h, f, T) /\ SumFunctionOnSet(f, T) = h[T]
    BY <1>2, SumIsOfSums
<1>4. T \in SUBSET S /\ S \in SUBSET S /\ T \subseteq T
    OBVIOUS
<1> HIDE DEF T
<1>5. g[T] = h[T]
    BY <1>1, <1>3, <1>4, SumsAreUnique
<1>6. g[S] = f[firstOf(S)] + g[T]
    BY <1>1, <1>4 DEF Sums, T
<1> QED
    BY <1>1, <1>3, <1>5, <1>6 DEF T

LEMMA SumOfIntegers ==
    ASSUME NEW f, NEW S, IsFiniteSet(S), \A x \in S : f[x] \in Int
    PROVE  SumFunctionOnSet(f, S) \in Int
<1> DEFINE F == {t \in SUBSET S : SumFunctionOnSet(f, t) \notin Int}
<1> SUFFICES ASSUME F # {} PROVE FALSE
    OBVIOUS
<1>1. PICK t \in F : \A u \in F : u \subseteq t => u = t
  <2>1. F \subseteq SUBSET S
      OBVIOUS
  <2> HIDE DEF F
  <2> QED
      BY <2>1, SmallestSubset
<1>2. t # {}
  <2>1. {} \notin F
      BY SumOfNothing
  <2> QED
      BY <1>1, <2>1
<1>3. firstOf(t) \in t
    BY <1>2, FirstIn
<1>4. SumFunctionOnSet(f, t \ {firstOf(t)}) \in Int
    BY <1>1, <1>3
<1>5. SumFunctionOnSet(f, t) = f[firstOf(t)] + SumFunctionOnSet(f, t \ {firstOf(t)})
    BY <1>1, <1>2, SumTakesFirst, FS_Subset
<1> QED
    BY <1>1, <1>3, <1>4, <1>5

LEMMA SumOfNaturals ==
    ASSUME NEW f, NEW S, IsFiniteSet(S), \A x \in S : f[x] \in Nat
    PROVE  SumFunctionOnSet(f, S) \in Nat
<1> DEFINE F == {t \in SUBSET S : SumFunctionOnSet(f, t) \notin Nat}
<1> SUFFICES ASSUME F # {} PROVE FALSE
    OBVIOUS
<1>1. PICK t \in F : \A u \in F : u \subseteq t => u = t
  <2>1. F \subseteq SUBSET S
      OBVIOUS
  <2> HIDE DEF F
  <2> QED
      BY <2>1, SmallestSubset
<1>2. t # {}
  <2>1. {} \notin F
      BY SumOfNothing
  <2> QED
      BY <1>1, <2>1
<1>3. firstOf(t) \in t
    BY <1>2, FirstIn
<1>4. SumFunctionOnSet(f, t \ {firstOf(t)}) \in Nat
    BY <1>1, <1>3
<1>5. SumFunctionOnSet(f, t) = f[firstOf(t)] + SumFunctionOnSet(f, t \ {firstOf(t)})
    BY <1>1, <1>2, SumTakesFirst, FS_Subset
<1> QED
    BY <1>1, <1>3, <1>4, <1>5

\* Any element may be taken out, not only the one the recursion takes.
LEMMA SumWithout ==
    ASSUME NEW f, NEW S, IsFiniteSet(S), \A x \in S : f[x] \in Int, NEW x \in S
    PROVE  SumFunctionOnSet(f, S) = f[x] + SumFunctionOnSet(f, S \ {x})
<1> DEFINE F == {t \in SUBSET S : \E z \in t :
                    SumFunctionOnSet(f, t) # f[z] + SumFunctionOnSet(f, t \ {z})}
<1> SUFFICES ASSUME F # {} PROVE FALSE
    BY Zenon
<1>1. PICK t \in F : \A u \in F : u \subseteq t => u = t
  <2>1. F \subseteq SUBSET S
      OBVIOUS
  <2> HIDE DEF F
  <2> QED
      BY <2>1, SmallestSubset
<1>2. PICK z \in t : SumFunctionOnSet(f, t) # f[z] + SumFunctionOnSet(f, t \ {z})
    BY <1>1
<1> DEFINE y == firstOf(t)
<1>3. y \in t /\ IsFiniteSet(t) /\ t \in SUBSET S
    BY <1>1, <1>2, FirstIn, FS_Subset
<1>4. SumFunctionOnSet(f, t) = f[y] + SumFunctionOnSet(f, t \ {y})
    BY <1>2, <1>3, SumTakesFirst
<1> HIDE DEF y
<1>5. z # y
    BY <1>2, <1>4
<1>6. SumFunctionOnSet(f, t \ {y}) = f[z] + SumFunctionOnSet(f, (t \ {y}) \ {z})
  <2>1. t \ {y} \notin F
      BY <1>1, <1>3
  <2> QED
      BY <1>2, <1>3, <1>5, <2>1
<1>7. SumFunctionOnSet(f, t \ {z}) = f[y] + SumFunctionOnSet(f, (t \ {z}) \ {y})
  <2>1. t \ {z} \notin F
      BY <1>1, <1>2
  <2> QED
      BY <1>2, <1>3, <1>5, <2>1
<1>8. (t \ {y}) \ {z} = (t \ {z}) \ {y}
    OBVIOUS
<1> DEFINE rest == SumFunctionOnSet(f, (t \ {z}) \ {y})
<1>9. rest \in Int /\ f[y] \in Int /\ f[z] \in Int
  <2>1. IsFiniteSet((t \ {z}) \ {y})
      BY <1>3, FS_Subset
  <2> QED
      BY <1>2, <1>3, <2>1, SumOfIntegers
<1> HIDE DEF rest
<1>10. SumFunctionOnSet(f, t) = f[y] + (f[z] + rest) /\ SumFunctionOnSet(f, t \ {z}) = f[y] + rest
    BY <1>4, <1>6, <1>7, <1>8 DEF rest
<1> QED
    BY <1>2, <1>9, <1>10

LEMMA SumWith ==
    ASSUME NEW f, NEW S, IsFiniteSet(S), NEW x, x \notin S,
           f[x] \in Int, \A y \in S : f[y] \in Int
    PROVE  SumFunctionOnSet(f, S \cup {x}) = SumFunctionOnSet(f, S) + f[x]
<1>1. IsFiniteSet(S \cup {x}) /\ x \in S \cup {x} /\ (S \cup {x}) \ {x} = S
    BY FS_AddElement
<1>2. \A y \in S \cup {x} : f[y] \in Int
    OBVIOUS
<1>3. SumFunctionOnSet(f, S \cup {x}) = f[x] + SumFunctionOnSet(f, (S \cup {x}) \ {x})
    BY <1>1, <1>2, SumWithout
<1>4. SumFunctionOnSet(f, S) \in Int
    BY SumOfIntegers
<1>5. SumFunctionOnSet(f, (S \cup {x}) \ {x}) = SumFunctionOnSet(f, S)
    BY <1>1
<1> DEFINE total == SumFunctionOnSet(f, S)
<1>6. SumFunctionOnSet(f, S \cup {x}) = f[x] + total /\ total \in Int
    BY <1>3, <1>4, <1>5
<1> HIDE DEF total
<1>7. SumFunctionOnSet(f, S \cup {x}) = total + f[x]
    BY <1>6
<1> QED
    BY <1>7 DEF total

\* The sum is of the values, whatever function they come from.
LEMMA SumOfSame ==
    ASSUME NEW f, NEW g, NEW S, IsFiniteSet(S), \A x \in S : f[x] = g[x]
    PROVE  SumFunctionOnSet(f, S) = SumFunctionOnSet(g, S)
<1> DEFINE F == {t \in SUBSET S : SumFunctionOnSet(f, t) # SumFunctionOnSet(g, t)}
<1> SUFFICES ASSUME F # {} PROVE FALSE
    OBVIOUS
<1>1. PICK t \in F : \A u \in F : u \subseteq t => u = t
  <2>1. F \subseteq SUBSET S
      OBVIOUS
  <2> HIDE DEF F
  <2> QED
      BY <2>1, SmallestSubset
<1>2. t # {}
  <2>1. {} \notin F
      BY SumOfNothing
  <2> QED
      BY <1>1, <2>1
<1>3. firstOf(t) \in t
    BY <1>2, FirstIn
<1>4. SumFunctionOnSet(f, t \ {firstOf(t)}) = SumFunctionOnSet(g, t \ {firstOf(t)})
    BY <1>1, <1>3
<1>5. IsFiniteSet(t)
    BY <1>1, FS_Subset
<1>6. /\ SumFunctionOnSet(f, t) = f[firstOf(t)] + SumFunctionOnSet(f, t \ {firstOf(t)})
      /\ SumFunctionOnSet(g, t) = g[firstOf(t)] + SumFunctionOnSet(g, t \ {firstOf(t)})
    BY <1>2, <1>5, SumTakesFirst
<1> QED
    BY <1>1, <1>3, <1>4, <1>6

\* A value that changes at one place changes the sum by the difference.
LEMMA SumOfChanged ==
    ASSUME NEW f, NEW g, NEW S, IsFiniteSet(S), NEW x \in S,
           \A y \in S : f[y] \in Int /\ g[y] \in Int,
           \A y \in S \ {x} : g[y] = f[y]
    PROVE  SumFunctionOnSet(g, S) = SumFunctionOnSet(f, S) + (g[x] - f[x])
<1> DEFINE T == S \ {x}
<1>1. IsFiniteSet(T)
    BY FS_RemoveElement
<1>2. /\ SumFunctionOnSet(f, S) = f[x] + SumFunctionOnSet(f, T)
      /\ SumFunctionOnSet(g, S) = g[x] + SumFunctionOnSet(g, T)
    BY SumWithout
<1>3. SumFunctionOnSet(f, T) = SumFunctionOnSet(g, T)
    BY <1>1, SumOfSame
<1>4. SumFunctionOnSet(f, T) \in Int
    BY <1>1, SumOfIntegers
<1> QED
    BY <1>2, <1>3, <1>4

LEMMA SumsCompare ==
    ASSUME NEW f, NEW g, NEW S, IsFiniteSet(S),
           \A x \in S : f[x] \in Int /\ g[x] \in Int /\ f[x] <= g[x]
    PROVE  SumFunctionOnSet(f, S) <= SumFunctionOnSet(g, S)
<1> DEFINE F == {t \in SUBSET S : ~ (SumFunctionOnSet(f, t) <= SumFunctionOnSet(g, t))}
<1> SUFFICES ASSUME F # {} PROVE FALSE
    OBVIOUS
<1>1. PICK t \in F : \A u \in F : u \subseteq t => u = t
  <2>1. F \subseteq SUBSET S
      OBVIOUS
  <2> HIDE DEF F
  <2> QED
      BY <2>1, SmallestSubset
<1>2. t # {}
  <2>1. {} \notin F
      BY SumOfNothing
  <2> QED
      BY <1>1, <2>1
<1> DEFINE x == firstOf(t)
           u == t \ {x}
<1>3. x \in t /\ x \in S /\ IsFiniteSet(t) /\ IsFiniteSet(u)
    BY <1>1, <1>2, FirstIn, FS_Subset
<1>4. /\ SumFunctionOnSet(f, t) = f[x] + SumFunctionOnSet(f, u)
      /\ SumFunctionOnSet(g, t) = g[x] + SumFunctionOnSet(g, u)
    BY <1>2, <1>3, SumTakesFirst
<1>5. SumFunctionOnSet(f, u) \in Int /\ SumFunctionOnSet(g, u) \in Int
    BY <1>1, <1>3, SumOfIntegers
<1>6. SumFunctionOnSet(f, u) <= SumFunctionOnSet(g, u)
    BY <1>1, <1>3
<1>7. ~ (SumFunctionOnSet(f, t) <= SumFunctionOnSet(g, t))
    BY <1>1
<1>8. f[x] \in Int /\ g[x] \in Int /\ f[x] <= g[x]
    BY <1>3
<1> HIDE DEF x, u, F
<1> QED
    BY <1>4, <1>5, <1>6, <1>7, <1>8

LEMMA SumOfMultiples ==
    ASSUME NEW w, NEW v, NEW S, IsFiniteSet(S), NEW a \in Int,
           \A x \in S : w[x] \in Int /\ v[x] = a * w[x]
    PROVE  SumFunctionOnSet(v, S) = a * SumFunctionOnSet(w, S)
<1> DEFINE F == {t \in SUBSET S : SumFunctionOnSet(v, t) # a * SumFunctionOnSet(w, t)}
<1> SUFFICES ASSUME F # {} PROVE FALSE
    OBVIOUS
<1>1. PICK t \in F : \A u \in F : u \subseteq t => u = t
  <2>1. F \subseteq SUBSET S
      OBVIOUS
  <2> HIDE DEF F
  <2> QED
      BY <2>1, SmallestSubset
<1>2. t # {}
  <2>1. {} \notin F
      BY SumOfNothing
  <2> QED
      BY <1>1, <2>1
<1> DEFINE x == firstOf(t)
           u == t \ {x}
           W == SumFunctionOnSet(w, u)
<1>3. x \in t /\ x \in S /\ IsFiniteSet(t) /\ IsFiniteSet(u)
    BY <1>1, <1>2, FirstIn, FS_Subset
<1>4. /\ SumFunctionOnSet(w, t) = w[x] + W
      /\ SumFunctionOnSet(v, t) = v[x] + SumFunctionOnSet(v, u)
    BY <1>2, <1>3, SumTakesFirst
<1>5. W \in Int
    BY <1>1, <1>3, SumOfIntegers
<1>6. SumFunctionOnSet(v, u) = a * W
    BY <1>1, <1>3
<1>7. SumFunctionOnSet(v, t) # a * SumFunctionOnSet(w, t)
    BY <1>1
<1>8. w[x] \in Int /\ v[x] = a * w[x]
    BY <1>3
<1> HIDE DEF x, u, W, F
<1>9. \A p \in Int : a * p + a * W = a * (p + W)
    BY <1>5
<1> QED
    BY <1>4, <1>6, <1>7, <1>8, <1>9

\* A sum of terms of at least, or at most, a times their weights.
LEMMA SumAtLeast ==
    ASSUME NEW w, NEW v, NEW S, IsFiniteSet(S), NEW a \in Int,
           \A x \in S : w[x] \in Int /\ v[x] \in Int /\ a * w[x] <= v[x]
    PROVE  a * SumFunctionOnSet(w, S) <= SumFunctionOnSet(v, S)
<1> DEFINE f == [x \in S |-> a * w[x]]
<1>1. \A x \in S : /\ f[x] = a * w[x] /\ f[x] \in Int /\ f[x] <= v[x]
                   /\ w[x] \in Int /\ v[x] \in Int
    OBVIOUS
<1> HIDE DEF f
<1>2. SumFunctionOnSet(f, S) = a * SumFunctionOnSet(w, S)
    BY <1>1, SumOfMultiples
<1>3. SumFunctionOnSet(f, S) <= SumFunctionOnSet(v, S)
    BY <1>1, SumsCompare
<1> QED
    BY <1>2, <1>3

LEMMA SumAtMost ==
    ASSUME NEW w, NEW v, NEW S, IsFiniteSet(S), NEW a \in Int,
           \A x \in S : w[x] \in Int /\ v[x] \in Int /\ v[x] <= a * w[x]
    PROVE  SumFunctionOnSet(v, S) <= a * SumFunctionOnSet(w, S)
<1> DEFINE f == [x \in S |-> a * w[x]]
<1>1. \A x \in S : /\ f[x] = a * w[x] /\ f[x] \in Int /\ v[x] <= f[x]
                   /\ w[x] \in Int /\ v[x] \in Int
    OBVIOUS
<1> HIDE DEF f
<1>2. SumFunctionOnSet(f, S) = a * SumFunctionOnSet(w, S)
    BY <1>1, SumOfMultiples
<1>3. SumFunctionOnSet(v, S) <= SumFunctionOnSet(f, S)
    BY <1>1, SumsCompare
<1> QED
    BY <1>2, <1>3

\* The quotient of such sums, rounded down, lies between two of the terms'
\* own quotients: a mean lies within what it is the mean of.
LEMMA MeanIsWithin ==
    ASSUME NEW w, NEW v, NEW p, NEW S, IsFiniteSet(S), S # {},
           \A x \in S : w[x] \in Nat \ {0} /\ p[x] \in Nat /\ v[x] = p[x] * w[x]
    PROVE  LET W == SumFunctionOnSet(w, S)
               V == SumFunctionOnSet(v, S)
           IN  /\ W \in Nat \ {0} /\ V \in Nat /\ V \div W \in Nat
               /\ \E x \in S : p[x] <= V \div W
               /\ \E x \in S : V \div W <= p[x]
<1> DEFINE W == SumFunctionOnSet(w, S)
           V == SumFunctionOnSet(v, S)
           m == V \div W
<1>1. \A x \in S : w[x] \in Int /\ v[x] \in Int /\ v[x] \in Nat
    OBVIOUS
<1>2. W \in Nat \ {0}
  <2>1. PICK x \in S : TRUE
      OBVIOUS
  <2>2. W = w[x] + SumFunctionOnSet(w, S \ {x})
      BY SumWithout
  <2>3. SumFunctionOnSet(w, S \ {x}) \in Nat
      BY SumOfNaturals, FS_Subset
  <2> QED
      BY <2>2, <2>3
<1>3. V \in Nat
    BY <1>1, SumOfNaturals
<1>4. m \in Nat /\ m * W <= V /\ V < (m + 1) * W
  <2> HIDE DEF V, W
  <2>1. m \in Nat /\ W * m <= V /\ V < W * m + W
      BY <1>2, <1>3
  <2> HIDE DEF m
  <2> QED
      BY <1>2, <1>3, <2>1
<1> HIDE DEF m
<1>5. ASSUME \A x \in S : ~ (p[x] <= m) PROVE FALSE
  <2>1. ASSUME NEW x \in S PROVE (m + 1) * w[x] <= v[x]
    <3>1. m + 1 <= p[x] /\ p[x] \in Nat /\ w[x] \in Nat /\ v[x] = p[x] * w[x]
        BY <1>4, <1>5
    <3>2. \A a, b, c \in Nat : a <= b => a * c <= b * c
        OBVIOUS
    <3>3. (m + 1) * w[x] <= p[x] * w[x]
        BY <1>4, <3>1, <3>2
    <3> QED
        BY <3>1, <3>3
  <2>2. m + 1 \in Int
      BY <1>4
  <2>3. (m + 1) * W <= V
      BY <1>1, <2>1, <2>2, SumAtLeast
  <2> HIDE DEF V, W
  <2>4. (m + 1) * W \in Int
      BY <1>2, <1>4
  <2> QED
      BY <1>3, <1>4, <2>3, <2>4
<1>6. ASSUME \A x \in S : ~ (m <= p[x]) PROVE FALSE
  <2>1. m >= 1
      BY <1>4, <1>6
  <2>2. ASSUME NEW x \in S PROVE v[x] <= (m - 1) * w[x]
    <3>1. p[x] <= m - 1 /\ p[x] \in Nat /\ w[x] \in Nat /\ v[x] = p[x] * w[x] /\ m - 1 \in Nat
        BY <1>4, <1>6, <2>1
    <3>2. \A a, b, c \in Nat : a <= b => a * c <= b * c
        OBVIOUS
    <3>3. p[x] * w[x] <= (m - 1) * w[x]
        BY <3>1, <3>2
    <3> QED
        BY <3>1, <3>3
  <2>3. m - 1 \in Int
      BY <1>4
  <2>4. V <= (m - 1) * W
      BY <1>1, <2>2, <2>3, SumAtMost
  <2> HIDE DEF V, W
  <2>5. (m - 1) * W = m * W - W /\ m * W \in Int
      BY <1>2, <1>4
  <2> QED
      BY <1>2, <1>3, <1>4, <2>4, <2>5
<1> QED
    BY <1>2, <1>3, <1>4, <1>5, <1>6 DEF m

\* One more term at the end of a sequence of terms.
LEMMA SumOfAppended ==
    ASSUME NEW n \in Nat, NEW f, NEW g,
           \A i \in 1..(n + 1) : g[i] \in Int, \A i \in 1..n : g[i] = f[i]
    PROVE  SumFunctionOnSet(g, 1..(n + 1)) = SumFunctionOnSet(f, 1..n) + g[n + 1]
<1>1. /\ 1..(n + 1) = (1..n) \cup {n + 1} /\ n + 1 \notin 1..n
      /\ \A i \in 1..n : i \in 1..(n + 1)
    OBVIOUS
<1>2. IsFiniteSet(1..n)
    BY FS_Interval
<1>3. g[n + 1] \in Int /\ \A i \in 1..n : g[i] \in Int
    OBVIOUS
<1>4. SumFunctionOnSet(g, (1..n) \cup {n + 1}) = SumFunctionOnSet(g, 1..n) + g[n + 1]
    BY <1>1, <1>2, <1>3, SumWith
<1>5. SumFunctionOnSet(g, 1..n) = SumFunctionOnSet(f, 1..n)
    BY <1>2, SumOfSame
<1> QED
    BY <1>1, <1>4, <1>5

\* A mean by weights, some of which may be zero, lies between two of the terms:
\* some term is at most total value over total weight, and some at least that.
LEMMA WeightedMean ==
    ASSUME NEW w, NEW v, NEW p, NEW S, IsFiniteSet(S),
           \A x \in S : w[x] \in Nat /\ p[x] \in Nat /\ v[x] = p[x] * w[x],
           SumFunctionOnSet(w, S) # 0
    PROVE  LET W == SumFunctionOnSet(w, S)
               V == SumFunctionOnSet(v, S)
           IN  /\ W \in Nat \ {0} /\ V \in Nat
               /\ \E x \in S : p[x] * W <= V
               /\ \E x \in S : V <= p[x] * W
<1> DEFINE W == SumFunctionOnSet(w, S)
           V == SumFunctionOnSet(v, S)
           f == [x \in S |-> W * v[x]]
<1>1. \A x \in S : w[x] \in Int /\ v[x] \in Int /\ v[x] \in Nat /\ p[x] \in Int
    OBVIOUS
<1>2. W \in Nat \ {0} /\ V \in Nat
    BY <1>1, SumOfNaturals
<1>3. \A x \in S : f[x] = W * v[x]
    OBVIOUS
<1> HIDE DEF f
<1>4. SumFunctionOnSet(f, S) = W * V
    BY <1>1, <1>2, <1>3, SumOfMultiples
<1> HIDE DEF V, W
<1>5. \A x \in S : f[x] \in Int /\ f[x] = (p[x] * W) * w[x] /\ p[x] * W \in Int
  <2> SUFFICES ASSUME NEW x \in S
               PROVE  f[x] \in Int /\ f[x] = (p[x] * W) * w[x] /\ p[x] * W \in Int
      OBVIOUS
  <2>1. \A a, b, c \in Int : a * b \in Int /\ a * (b * c) = (b * a) * c
      OBVIOUS
  <2>2. f[x] = W * (p[x] * w[x]) /\ v[x] \in Int /\ f[x] = W * v[x]
      BY <1>1, <1>3
  <2> QED
      BY <1>1, <1>2, <2>1, <2>2
<1>6. \A a, b, c \in Int : c >= 0 /\ a <= b => a * c <= b * c
    OBVIOUS
<1>7. ASSUME \A x \in S : ~ (p[x] * W <= V) PROVE FALSE
  <2>1. \A x \in S : (V + 1) * w[x] <= f[x]
    <3> SUFFICES ASSUME NEW x \in S PROVE (V + 1) * w[x] <= (p[x] * W) * w[x]
        BY <1>5
    <3>1. V + 1 <= p[x] * W /\ p[x] * W \in Int /\ V + 1 \in Int
        BY <1>2, <1>5, <1>7
    <3>2. w[x] \in Int /\ w[x] >= 0
        BY <1>1
    <3> QED
        BY <1>6, <3>1, <3>2
  <2>2. (V + 1) * W <= W * V
      BY <1>1, <1>2, <1>4, <1>5, <2>1, SumAtLeast DEF W
  <2> QED
      BY <1>2, <2>2
<1>8. ASSUME \A x \in S : ~ (V <= p[x] * W) PROVE FALSE
  <2>1. \A x \in S : f[x] <= (V - 1) * w[x]
    <3> SUFFICES ASSUME NEW x \in S PROVE (p[x] * W) * w[x] <= (V - 1) * w[x]
        BY <1>5
    <3>1. p[x] * W <= V - 1 /\ p[x] * W \in Int /\ V - 1 \in Int
        BY <1>2, <1>5, <1>8
    <3>2. w[x] \in Int /\ w[x] >= 0
        BY <1>1
    <3> QED
        BY <1>6, <3>1, <3>2
  <2>2. W * V <= (V - 1) * W
      BY <1>1, <1>2, <1>4, <1>5, <2>1, SumAtMost DEF W
  <2> QED
      BY <1>2, <2>2
<1> QED
    BY <1>2, <1>7, <1>8 DEF V, W
=============================================================================
