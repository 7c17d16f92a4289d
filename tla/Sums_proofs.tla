----------------------------- MODULE Sums_proofs -----------------------------
(***************************************************************************)
(* What a sum over a finite set is: nothing for the empty set, and one     *)
(* term more with one element more, whatever order the fold takes the      *)
(* elements in; a sum changes with a single term by what that term does.   *)
(*                                                                         *)
(* The fold is a recursive function on the subsets of the set.  It exists  *)
(* because it can be built up by cardinality, and the facts about it are   *)
(* shown by looking at a smallest set that would contradict them.          *)
(***************************************************************************)
EXTENDS Sums, FiniteSetTheorems, NaturalsInduction, WellFoundedInduction, TLAPS

\* A set of numbers that is not empty has a least one.
LEMMA LeastNatural ==
    ASSUME NEW N, N \subseteq Nat, N # {}
    PROVE  \E n \in N : \A m \in N : n <= m
  <1>1. PICK n \in N : \A m \in N : <<m, n>> \notin OpToRel(<, Nat)
    BY NatLessThanWellFounded, WFMin
  <1>2. ASSUME NEW m \in N PROVE ~ (m < n)
    <2>1. m \in Nat /\ n \in Nat
      OBVIOUS
    <2> QED BY <1>1, <2>1, Zenon DEF OpToRel
  <1>3. ASSUME NEW m \in N PROVE n <= m
    BY <1>2
  <1> QED BY <1>3

\* What is below the least number of a set is not in the set.
LEMMA BelowLeast ==
    ASSUME NEW N, NEW n \in Nat, \A m \in N : n <= m, NEW k, k = n - 1
    PROVE  k \notin N
  OBVIOUS

Some(s) == CHOOSE x \in s : TRUE

\* One step of the fold, with g for the rest.
Step(f, g, s) == IF s = {} THEN 0 ELSE f[Some(s)] + g[s \ {Some(s)}]

Iter(f, S) == CHOOSE g : g = [s \in SUBSET S |-> Step(f, g, s)]

\* The sum is that function, at the whole set.
LEMMA SumIter ==
    ASSUME NEW f, NEW S
    PROVE  SumOf(f, S) = Iter(f, S)[S]
  BY DEF SumOf, MapThenFoldSet, Iter, Some, Step

\* The element the fold takes first is one of the set, and leaves a smaller set.
LEMMA SomeFacts ==
    ASSUME NEW s, IsFiniteSet(s), s # {}
    PROVE  /\ Some(s) \in s /\ IsFiniteSet(s \ {Some(s)})
           /\ Cardinality(s) \in Nat /\ Cardinality(s \ {Some(s)}) = Cardinality(s) - 1
           /\ Cardinality(s \ {Some(s)}) \in Nat
  <1>1. Some(s) \in s
    BY DEF Some
  <1>2. IsFiniteSet(s \ {Some(s)}) /\ Cardinality(s \ {Some(s)}) = Cardinality(s) - 1
    BY <1>1, FS_RemoveElement
  <1>3. Cardinality(s) \in Nat /\ Cardinality(s \ {Some(s)}) \in Nat
    BY <1>2, FS_CardinalityType
  <1> QED BY <1>1, <1>2, <1>3

-----------------------------------------------------------------------------
(* The fold exists.                                                        *)

Small(S, n) == {s \in SUBSET S : Cardinality(s) <= n}
Built(f, S, n) == \E g : g = [s \in Small(S, n) |-> Step(f, g, s)]

\* From the sets of at most n elements to those of n + 1.
LEMMA BuildStep ==
    ASSUME NEW f, NEW S, IsFiniteSet(S), NEW n \in Nat, Built(f, S, n)
    PROVE  Built(f, S, n + 1)
  <1>1. PICK g : g = [s \in Small(S, n) |-> Step(f, g, s)]
    BY DEF Built
  <1>2. PICK h : h = [s \in Small(S, n + 1) |-> Step(f, g, s)]
    OBVIOUS
  <1>3. ASSUME NEW s \in Small(S, n + 1)
        PROVE  Step(f, g, s) = Step(f, h, s)
    <2>1. CASE s = {}
      BY <2>1 DEF Step
    <2>2. CASE s # {}
      <3>1. IsFiniteSet(s) /\ s \subseteq S /\ Cardinality(s) <= n + 1
        BY FS_Subset DEF Small
      <3>2. s \ {Some(s)} \in Small(S, n) /\ s \ {Some(s)} \in Small(S, n + 1)
        <4>1. Cardinality(s) \in Nat /\ Cardinality(s \ {Some(s)}) = Cardinality(s) - 1
          BY <2>2, <3>1, SomeFacts
        <4>2. Cardinality(s \ {Some(s)}) <= n /\ Cardinality(s \ {Some(s)}) <= n + 1
          BY <3>1, <4>1
        <4> QED BY <3>1, <4>2 DEF Small
      <3>3. h[s \ {Some(s)}] = Step(f, g, s \ {Some(s)})
        BY <1>2, <3>2
      <3>4. g[s \ {Some(s)}] = Step(f, g, s \ {Some(s)})
        BY <1>1, <3>2
      <3> QED BY <2>2, <3>3, <3>4 DEF Step
    <2> QED BY <2>1, <2>2
  <1>4. h = [s \in Small(S, n + 1) |-> Step(f, h, s)]
    BY <1>2, <1>3
  <1> QED BY <1>4 DEF Built

\* The function exists on the subsets of any size.
LEMMA AllBuilt ==
    ASSUME NEW f, NEW S, IsFiniteSet(S), NEW n \in Nat
    PROVE  Built(f, S, n)
  <1> DEFINE N == {k \in Nat : ~ Built(f, S, k)}
  <1> SUFFICES ASSUME N # {} PROVE FALSE
    OBVIOUS
  <1>1. PICK k \in N : \A m \in N : k <= m
    BY LeastNatural
  <1>2. CASE k = 0
    <2>1. \A s \in Small(S, 0) : s = {}
      <3> SUFFICES ASSUME NEW s \in Small(S, 0) PROVE s = {}
        OBVIOUS
      <3>1. IsFiniteSet(s) /\ Cardinality(s) <= 0
        BY FS_Subset DEF Small
      <3>2. Cardinality(s) \in Nat
        BY <3>1, FS_CardinalityType
      <3> QED BY <3>1, <3>2, FS_EmptySet
    <2>2. PICK g : g = [s \in Small(S, 0) |-> 0]
      OBVIOUS
    <2>3. g = [s \in Small(S, 0) |-> Step(f, g, s)]
      BY <2>1, <2>2 DEF Step
    <2> QED BY <1>2, <2>3 DEF Built
  <1>3. CASE k # 0
    <2>1. k - 1 \in Nat /\ k - 1 \notin N /\ (k - 1) + 1 = k
      BY <1>1, <1>3
    <2>2. Built(f, S, k - 1)
      BY <2>1
    <2>3. Built(f, S, (k - 1) + 1)
      BY <2>1, <2>2, BuildStep
    <2> QED BY <2>1, <2>3
  <1> QED BY <1>2, <1>3

\* So the recursive definition of the fold holds.
LEMMA IterDefined ==
    ASSUME NEW f, NEW S, IsFiniteSet(S)
    PROVE  \A s \in SUBSET S : Iter(f, S)[s] = Step(f, Iter(f, S), s)
  <1>1. Cardinality(S) \in Nat
    BY FS_CardinalityType
  <1>2. Small(S, Cardinality(S)) = SUBSET S
    BY FS_Subset DEF Small
  <1>3. \E g : g = [s \in SUBSET S |-> Step(f, g, s)]
    <2>1. Built(f, S, Cardinality(S))
      BY <1>1, AllBuilt
    <2>2. PICK g : g = [s \in Small(S, Cardinality(S)) |-> Step(f, g, s)]
      BY <2>1 DEF Built
    <2>3. g = [s \in SUBSET S |-> Step(f, g, s)]
      BY <1>2, <2>2
    <2> QED BY <2>3
  <1>4. Iter(f, S) = [s \in SUBSET S |-> Step(f, Iter(f, S), s)]
    <2> DEFINE P(g) == g = [s \in SUBSET S |-> Step(f, g, s)]
    <2>1. \E g : P(g)
      BY <1>3
    <2>2. Iter(f, S) = CHOOSE g : P(g)
      BY DEF Iter
    <2> HIDE DEF P
    <2>3. P(CHOOSE g : P(g))
      BY <2>1
    <2>4. P(Iter(f, S))
      BY <2>2, <2>3
    <2> QED BY <2>4 DEF P
  <1> QED BY <1>4

-----------------------------------------------------------------------------
(* The fold over a subset is part of the fold over the set.                *)

\* Summing a subset gives the same within either of two sets.
LEMMA IterAgrees ==
    ASSUME NEW f, NEW S, IsFiniteSet(S), NEW T, T \subseteq S
    PROVE  Iter(f, S)[T] = Iter(f, T)[T]
  <1> DEFINE Bad(u) == Iter(f, S)[u] # Iter(f, T)[u]
             N == {n \in Nat : \E u \in SUBSET T : Cardinality(u) = n /\ Bad(u)}
  <1>1. IsFiniteSet(T) /\ \A u \in SUBSET T : IsFiniteSet(u) /\ Cardinality(u) \in Nat
    BY FS_Subset, FS_CardinalityType
  <1>2. SUFFICES ASSUME N # {} PROVE FALSE
    BY <1>1
  <1>3. PICK n \in N : \A m \in N : n <= m
    BY <1>2, LeastNatural
  <1>4. PICK u \in SUBSET T : Cardinality(u) = n /\ Bad(u)
    OBVIOUS
  <1>5. Iter(f, S)[u] = Step(f, Iter(f, S), u) /\ Iter(f, T)[u] = Step(f, Iter(f, T), u)
    BY <1>1, IterDefined
  <1>6. CASE u = {}
    BY <1>4, <1>5, <1>6 DEF Step
  <1>7. CASE u # {}
    <2> DEFINE v == u \ {Some(u)}
    <2>1. v \in SUBSET T /\ Cardinality(v) \in Nat /\ Cardinality(v) = n - 1 /\ n \in Nat
      BY <1>1, <1>4, <1>7, SomeFacts
    <2>2. Cardinality(v) \notin N
      <3> HIDE DEF N, v
      <3> QED BY <1>3, <2>1, BelowLeast
    <2>3. Iter(f, S)[v] = Iter(f, T)[v]
      BY <2>1, <2>2
    <2>4. Iter(f, S)[u] = f[Some(u)] + Iter(f, S)[v] /\ Iter(f, T)[u] = f[Some(u)] + Iter(f, T)[v]
      BY <1>5, <1>7 DEF Step
    <2> QED BY <1>4, <2>3, <2>4
  <1> QED BY <1>6, <1>7

\* The sum over no request is zero.
LEMMA SumEmpty == ASSUME NEW f PROVE SumOf(f, {}) = 0
  <1>1. IsFiniteSet({})
    BY FS_EmptySet
  <1> QED BY <1>1, SumIter, IterDefined DEF Step

\* The sum is the term of the element taken first and the sum of the rest.
LEMMA SumStep ==
    ASSUME NEW f, NEW S, IsFiniteSet(S), S # {}
    PROVE  SumOf(f, S) = f[Some(S)] + SumOf(f, S \ {Some(S)})
  <1> DEFINE T == S \ {Some(S)}
  <1>1. Iter(f, S)[S] = f[Some(S)] + Iter(f, S)[T]
    BY IterDefined DEF Step
  <1>2. Iter(f, S)[T] = Iter(f, T)[T]
    BY IterAgrees
  <1> QED BY <1>1, <1>2, SumIter

-----------------------------------------------------------------------------
(* Sums of integers.                                                       *)

IntOn(f, S) == \A x \in S : f[x] \in Int

\* The sum of what a finite set of requests took is an integer.
THEOREM SumInt ==
    ASSUME NEW f, NEW S, IsFiniteSet(S), IntOn(f, S)
    PROVE  SumOf(f, S) \in Int
  <1> DEFINE N == {n \in Nat : \E u \in SUBSET S : Cardinality(u) = n /\ SumOf(f, u) \notin Int}
  <1>1. \A u \in SUBSET S : IsFiniteSet(u) /\ Cardinality(u) \in Nat
    BY FS_Subset, FS_CardinalityType
  <1>2. SUFFICES ASSUME N # {} PROVE FALSE
    BY <1>1
  <1>3. PICK n \in N : \A m \in N : n <= m
    BY <1>2, LeastNatural
  <1>4. PICK u \in SUBSET S : Cardinality(u) = n /\ SumOf(f, u) \notin Int
    OBVIOUS
  <1>5. CASE u = {}
    BY <1>4, <1>5, SumEmpty
  <1>6. CASE u # {}
    <2> DEFINE v == u \ {Some(u)}
    <2>1. v \in SUBSET S /\ Cardinality(v) \in Nat /\ Cardinality(v) = n - 1 /\ n \in Nat /\ Some(u) \in S
      BY <1>1, <1>4, <1>6, SomeFacts
    <2>2. Cardinality(v) \notin N
      <3> HIDE DEF N, v
      <3> QED BY <1>3, <2>1, BelowLeast
    <2>3. SumOf(f, v) \in Int
      BY <2>1, <2>2
    <2>4. SumOf(f, u) = f[Some(u)] + SumOf(f, v)
      BY <1>1, <1>6, SumStep
    <2> QED BY <1>4, <2>1, <2>3, <2>4 DEF IntOn
  <1> QED BY <1>5, <1>6

\* The sum over a set is the term of any one element and the sum of the others,
\* whatever order the fold takes: a request can be singled out of the books.
THEOREM SumAdd ==
    ASSUME NEW f, NEW S, IsFiniteSet(S), IntOn(f, S), NEW x \in S
    PROVE  SumOf(f, S) = f[x] + SumOf(f, S \ {x})
  <1> DEFINE Bad(u) == \E y \in u : SumOf(f, u) # f[y] + SumOf(f, u \ {y})
             N == {n \in Nat : \E u \in SUBSET S : Cardinality(u) = n /\ Bad(u)}
  <1>1. \A u \in SUBSET S : IsFiniteSet(u) /\ Cardinality(u) \in Nat
    BY FS_Subset, FS_CardinalityType
  <1>2. SUFFICES ASSUME N # {} PROVE FALSE
    BY <1>1
  <1>3. PICK n \in N : \A m \in N : n <= m
    BY <1>2, LeastNatural
  <1>4. PICK u \in SUBSET S : Cardinality(u) = n /\ Bad(u)
    OBVIOUS
  <1>5. PICK y \in u : SumOf(f, u) # f[y] + SumOf(f, u \ {y})
    BY <1>4
  <1>6. IsFiniteSet(u) /\ u # {} /\ n \in Nat
    BY <1>1, <1>5
  <1> DEFINE c == Some(u)
             v == u \ {c}
             w == u \ {y}
  <1>7. c \in u /\ v \in SUBSET S /\ w \in SUBSET S
        /\ Cardinality(v) \in Nat /\ Cardinality(v) = n - 1
    BY <1>1, <1>4, <1>6, SomeFacts
  <1>8. Cardinality(w) \in Nat /\ Cardinality(w) = n - 1
    BY <1>1, <1>4, <1>6, <1>7, FS_RemoveElement
  <1>9. SumOf(f, u) = f[c] + SumOf(f, v)
    BY <1>6, SumStep
  <1>10. c # y
    BY <1>5, <1>9
  <1>11. SumOf(f, v) = f[y] + SumOf(f, v \ {y})
    <2>1. Cardinality(v) \notin N
      <3> HIDE DEF N, v
      <3> QED BY <1>3, <1>6, <1>7, BelowLeast
    <2>2. ~ Bad(v)
      BY <1>7, <2>1
    <2> QED BY <1>10, <2>2
  <1>12. SumOf(f, w) = f[c] + SumOf(f, w \ {c})
    <2>1. Cardinality(w) \notin N
      <3> HIDE DEF N, w
      <3> QED BY <1>3, <1>6, <1>8, BelowLeast
    <2>2. ~ Bad(w)
      BY <1>7, <1>8, <2>1
    <2> QED BY <1>7, <1>10, <2>2
  <1>13. v \ {y} = w \ {c}
    BY Zenon
  <1>14. f[c] \in Int /\ f[y] \in Int /\ SumOf(f, v \ {y}) \in Int
    <2>1. v \ {y} \in SUBSET S
      BY <1>7
    <2> QED BY <1>1, <1>5, <1>7, <2>1, SumInt DEF IntOn
  <1>15. SumOf(f, u) = f[y] + SumOf(f, w)
    <2>1. f[c] + (f[y] + SumOf(f, v \ {y})) = f[y] + (f[c] + SumOf(f, v \ {y}))
      BY <1>14
    <2> HIDE DEF c, v, w
    <2> QED BY <1>9, <1>11, <1>12, <1>13, <2>1
  <1> QED BY <1>5, <1>15

\* Only the terms of the set count.
THEOREM SumSame ==
    ASSUME NEW f, NEW g, NEW S, IsFiniteSet(S), \A x \in S : f[x] = g[x]
    PROVE  SumOf(f, S) = SumOf(g, S)
  <1> DEFINE N == {n \in Nat : \E u \in SUBSET S : Cardinality(u) = n /\ SumOf(f, u) # SumOf(g, u)}
  <1>1. \A u \in SUBSET S : IsFiniteSet(u) /\ Cardinality(u) \in Nat
    BY FS_Subset, FS_CardinalityType
  <1>2. SUFFICES ASSUME N # {} PROVE FALSE
    BY <1>1
  <1>3. PICK n \in N : \A m \in N : n <= m
    BY <1>2, LeastNatural
  <1>4. PICK u \in SUBSET S : Cardinality(u) = n /\ SumOf(f, u) # SumOf(g, u)
    OBVIOUS
  <1>5. CASE u = {}
    BY <1>4, <1>5, SumEmpty
  <1>6. CASE u # {}
    <2> DEFINE v == u \ {Some(u)}
    <2>1. v \in SUBSET S /\ Cardinality(v) \in Nat /\ Cardinality(v) = n - 1 /\ n \in Nat /\ Some(u) \in S
      BY <1>1, <1>4, <1>6, SomeFacts
    <2>2. Cardinality(v) \notin N
      <3> HIDE DEF N, v
      <3> QED BY <1>3, <2>1, BelowLeast
    <2>3. SumOf(f, v) = SumOf(g, v)
      BY <2>1, <2>2
    <2>4. SumOf(f, u) = f[Some(u)] + SumOf(f, v) /\ SumOf(g, u) = g[Some(u)] + SumOf(g, v)
      BY <1>1, <1>6, SumStep
    <2> QED BY <1>4, <2>1, <2>3, <2>4
  <1> QED BY <1>5, <1>6

\* A sum changes by what one term does.
THEOREM SumChange ==
    ASSUME NEW f, NEW g, NEW S, NEW x \in S, IsFiniteSet(S), IntOn(f, S), IntOn(g, S),
           \A y \in S \ {x} : g[y] = f[y]
    PROVE  SumOf(g, S) = SumOf(f, S) - f[x] + g[x]
  <1>1. IsFiniteSet(S \ {x}) /\ IntOn(f, S \ {x})
    BY FS_Subset DEF IntOn
  <1>2. SumOf(f, S) = f[x] + SumOf(f, S \ {x}) /\ SumOf(g, S) = g[x] + SumOf(g, S \ {x})
    BY SumAdd
  <1>3. SumOf(f, S \ {x}) = SumOf(g, S \ {x})
    BY <1>1, SumSame
  <1>4. SumOf(f, S \ {x}) \in Int
    BY <1>1, SumInt
  <1>5. f[x] \in Int /\ g[x] \in Int
    BY DEF IntOn
  <1> QED BY <1>2, <1>3, <1>4, <1>5

\* A sum of terms that are not negative is at least each of them.
THEOREM SumAtLeast ==
    ASSUME NEW f, NEW S, IsFiniteSet(S), \A x \in S : f[x] \in Nat
    PROVE  SumOf(f, S) \in Nat /\ \A x \in S : f[x] <= SumOf(f, S)
  <1> DEFINE N == {n \in Nat : \E u \in SUBSET S : Cardinality(u) = n /\ SumOf(f, u) \notin Nat}
  <1>0. IntOn(f, S)
    BY DEF IntOn
  <1>1. \A u \in SUBSET S : IsFiniteSet(u) /\ Cardinality(u) \in Nat
    BY FS_Subset, FS_CardinalityType
  <1>2. N = {}
    <2> SUFFICES ASSUME N # {} PROVE FALSE
      OBVIOUS
    <2>3. PICK n \in N : \A m \in N : n <= m
      BY LeastNatural
    <2>4. PICK u \in SUBSET S : Cardinality(u) = n /\ SumOf(f, u) \notin Nat
      OBVIOUS
    <2>5. CASE u = {}
      BY <2>4, <2>5, SumEmpty
    <2>6. CASE u # {}
      <3> DEFINE v == u \ {Some(u)}
      <3>1. v \in SUBSET S /\ Cardinality(v) \in Nat /\ Cardinality(v) = n - 1 /\ n \in Nat /\ Some(u) \in S
        BY <1>1, <2>4, <2>6, SomeFacts
      <3>2. Cardinality(v) \notin N
        <4> HIDE DEF N, v
        <4> QED BY <2>3, <3>1, BelowLeast
      <3>3. SumOf(f, v) \in Nat
        BY <3>1, <3>2
      <3>4. SumOf(f, u) = f[Some(u)] + SumOf(f, v)
        BY <1>1, <2>6, SumStep
      <3> QED BY <2>4, <3>1, <3>3, <3>4
    <2> QED BY <2>5, <2>6
  <1>3. \A u \in SUBSET S : SumOf(f, u) \in Nat
    BY <1>1, <1>2
  <1>4. ASSUME NEW x \in S PROVE f[x] <= SumOf(f, S)
    <2>1. SumOf(f, S) = f[x] + SumOf(f, S \ {x})
      BY <1>0, SumAdd
    <2>2. SumOf(f, S \ {x}) \in Nat
      BY <1>3
    <2> QED BY <2>1, <2>2
  <1> QED BY <1>3, <1>4

\* A sum of zeros is zero.
THEOREM SumZero ==
    ASSUME NEW f, NEW S, IsFiniteSet(S), \A x \in S : f[x] = 0
    PROVE  SumOf(f, S) = 0
  <1> DEFINE N == {n \in Nat : \E u \in SUBSET S : Cardinality(u) = n /\ SumOf(f, u) # 0}
  <1>1. \A u \in SUBSET S : IsFiniteSet(u) /\ Cardinality(u) \in Nat
    BY FS_Subset, FS_CardinalityType
  <1>2. SUFFICES ASSUME N # {} PROVE FALSE
    BY <1>1
  <1>3. PICK n \in N : \A m \in N : n <= m
    BY <1>2, LeastNatural
  <1>4. PICK u \in SUBSET S : Cardinality(u) = n /\ SumOf(f, u) # 0
    OBVIOUS
  <1>5. CASE u = {}
    BY <1>4, <1>5, SumEmpty
  <1>6. CASE u # {}
    <2> DEFINE v == u \ {Some(u)}
    <2>1. v \in SUBSET S /\ Cardinality(v) \in Nat /\ Cardinality(v) = n - 1 /\ n \in Nat /\ Some(u) \in S
      BY <1>1, <1>4, <1>6, SomeFacts
    <2>2. Cardinality(v) \notin N
      <3> HIDE DEF N, v
      <3> QED BY <1>3, <2>1, BelowLeast
    <2>3. SumOf(f, v) = 0
      BY <2>1, <2>2
    <2>4. SumOf(f, u) = f[Some(u)] + SumOf(f, v)
      BY <1>1, <1>6, SumStep
    <2> QED BY <1>4, <2>1, <2>3, <2>4
  <1> QED BY <1>5, <1>6
=============================================================================
