---------------------------- MODULE CounterLemmas ----------------------------
(***************************************************************************)
(* What the proofs about counters need to know of sums and of wraparound.  *)
(*                                                                         *)
(* Sums are SumFunctionOnSet of the community module Functions, a fold     *)
(* that adds a function up over a finite set: it is a natural number, any  *)
(* element may be taken out of it first, and it depends on the values of   *)
(* the function on the set only.  A counter that wraps counts modulo its   *)
(* width.                                                                  *)
(*                                                                         *)
(* The fold is a recursive function on the subsets of the set.  The        *)
(* library's induction theorems take a predicate as a parameter; here the  *)
(* inductions are over a SET of good cases instead, which every prover can *)
(* instantiate.                                                            *)
(***************************************************************************)
EXTENDS Integers, FiniteSets, Functions, FiniteSetTheorems,
        WellFoundedInduction, TLAPS

-------------------------------------------------------------------------------
(***************************************************************************)
(* Induction.                                                              *)
(***************************************************************************)
\* A nonempty set of natural numbers has a least element.
LEMMA LeastNat ==
    ASSUME NEW T \in SUBSET Nat, T # {}
    PROVE  \E n \in T : \A m \in T : n <= m
  <1> DEFINE Less == {ss \in Nat \X Nat : ss[1] < ss[2]}
  <1>1. IsWellFoundedOn(Less, Nat)
    BY NatLessThanWellFounded DEF OpToRel
  <1> HIDE DEF Less
  <1>2. PICK n \in T : \A m \in T : ~ (<<m, n>> \in Less)
    BY <1>1, WFMin, Zenon
  <1>3. \A m \in T : ~(m < n)
    BY <1>2, Zenon DEF Less
  <1> QED BY <1>3

\* Induction on the natural numbers, the good ones being a set.
LEMMA NatSetInduction ==
    ASSUME NEW Good, 0 \in Good, \A n \in Nat : n \in Good => n + 1 \in Good
    PROVE  \A n \in Nat : n \in Good
  <1> SUFFICES ASSUME Nat \ Good # {} PROVE FALSE
    BY Zenon
  <1>1. PICK n \in Nat \ Good : \A m \in Nat \ Good : n <= m
    BY LeastNat, Zenon
  <1>2. n \in Nat /\ n # 0
    BY <1>1, Zenon
  <1>3. n - 1 \in Nat /\ ~(n <= n - 1) /\ (n - 1) + 1 = n
    BY <1>2
  <1>4. n - 1 \in Good
    BY <1>1, <1>3, Zenon
  <1> QED BY <1>1, <1>3, <1>4

\* An element less, a finite set counts one less.
LEMMA OneLess ==
    ASSUME NEW s, IsFiniteSet(s), NEW x \in s
    PROVE  /\ IsFiniteSet(s \ {x})
           /\ Cardinality(s \ {x}) \in Nat
           /\ Cardinality(s) = Cardinality(s \ {x}) + 1
  <1>1. IsFiniteSet(s \ {x}) /\ Cardinality(s \ {x}) = Cardinality(s) - 1
    BY FS_RemoveElement, Zenon
  <1>2. Cardinality(s) \in Nat /\ Cardinality(s \ {x}) \in Nat
    BY <1>1, FS_CardinalityType, Zenon
  <1> QED BY <1>1, <1>2

\* Induction on the subsets of a finite set, the good ones being a set: a
\* subset is good when it is good without any one of its elements.
LEMMA SubsetInduction ==
    ASSUME NEW S, IsFiniteSet(S), NEW Good, {} \in Good,
           \A t \in SUBSET S : t # {} /\ (\A x \in t : t \ {x} \in Good) => t \in Good
    PROVE  \A t \in SUBSET S : t \in Good
  <1> DEFINE Size(n) == {t \in SUBSET S : Cardinality(t) <= n}
             Sizes == {n \in Nat : \A t \in Size(n) : t \in Good}
  <1>1. \A t \in SUBSET S : /\ IsFiniteSet(t) /\ Cardinality(t) \in Nat
                            /\ Cardinality(t) = 0 <=> t = {}
    BY FS_Subset, FS_CardinalityType, FS_EmptySet, Zenon
  <1>2. 0 \in Sizes
    <2>1. \A t \in Size(0) : t = {}
      BY <1>1
    <2> QED BY <2>1, Zenon
  <1>3. ASSUME NEW n \in Nat, n \in Sizes
        PROVE  n + 1 \in Sizes
    <2>1. ASSUME NEW t \in Size(n + 1), t # {} PROVE t \in Good
      <3>1. ASSUME NEW x \in t PROVE t \ {x} \in Good
        <4>1. Cardinality(t \ {x}) \in Nat /\ Cardinality(t) = Cardinality(t \ {x}) + 1
          BY <1>1, OneLess, Zenon
        <4>2. Cardinality(t \ {x}) <= n
          BY <4>1
        <4>3. t \ {x} \in SUBSET S
          OBVIOUS
        <4> QED BY <4>2, <4>3, <1>3, Zenon
      <3> QED BY <2>1, <3>1, Zenon
    <2>2. \A t \in Size(n + 1) : t \in Good
      BY <2>1, Zenon
    <2>3. n + 1 \in Nat
      OBVIOUS
    <2> QED BY <2>2, <2>3, Zenon
  <1>4. \A n \in Nat : n \in Sizes
    <2> HIDE DEF Sizes
    <2> QED BY <1>2, <1>3, NatSetInduction, Zenon
  <1>5. ASSUME NEW t \in SUBSET S PROVE t \in Good
    <2>1. t \in Size(Cardinality(t)) /\ Cardinality(t) \in Nat
      BY <1>1
    <2> QED BY <2>1, <1>4, Zenon
  <1> QED BY <1>5, Zenon

-------------------------------------------------------------------------------
(***************************************************************************)
(* The fold.                                                               *)
(***************************************************************************)
\* The element that the fold takes next.
First(s) == CHOOSE x \in s : TRUE

\* One turn of the fold, g having added up the smaller sets.
Adds(g, f, s) == IF s = {} THEN 0 ELSE f[First(s)] + g[s \ {First(s)}]

\* The recursion that the fold is defined by, on the sets of D.
Recurs(g, f, D) == g = [s \in D |-> Adds(g, f, s)]

\* The fold is the recursive function's value at the whole set.
LEMMA Unfold ==
    ASSUME NEW f, NEW S
    PROVE  SumFunctionOnSet(f, S) = (CHOOSE g : Recurs(g, f, SUBSET S))[S]
  BY Zenon DEF SumFunctionOnSet, FoldFunctionOnSet, MapThenFoldSet, Recurs, Adds, First

\* There is a next element.
LEMMA FirstIn ==
    ASSUME NEW s, s # {}
    PROVE  First(s) \in s
  BY Zenon DEF First

\* The recursive function exists: it is built up by the subsets' sizes.
LEMMA RecursExists ==
    ASSUME NEW f, NEW S, IsFiniteSet(S)
    PROVE  \E g : Recurs(g, f, SUBSET S)
  <1> DEFINE Size(n) == {t \in SUBSET S : Cardinality(t) <= n}
             Sizes == {n \in Nat : \E g : Recurs(g, f, Size(n))}
  <1>1. \A t \in SUBSET S : /\ IsFiniteSet(t) /\ Cardinality(t) \in Nat
                            /\ Cardinality(t) = 0 <=> t = {}
    BY FS_Subset, FS_CardinalityType, FS_EmptySet, Zenon
  <1>2. 0 \in Sizes
    <2>1. \A s \in Size(0) : s = {}
      BY <1>1
    <2>2. Recurs([s \in Size(0) |-> 0], f, Size(0))
      BY <2>1 DEF Recurs, Adds
    <2> QED BY <2>2, Zenon
  <1>3. ASSUME NEW n \in Nat, n \in Sizes
        PROVE  n + 1 \in Sizes
    <2>1. PICK g : Recurs(g, f, Size(n))
      BY <1>3, Zenon
    <2> DEFINE h == [s \in Size(n + 1) |-> Adds(g, f, s)]
    <2>2. ASSUME NEW s \in Size(n + 1), s # {}
          PROVE  s \ {First(s)} \in Size(n) /\ s \ {First(s)} \in Size(n + 1)
      <3>1. /\ Cardinality(s \ {First(s)}) \in Nat
            /\ Cardinality(s) = Cardinality(s \ {First(s)}) + 1
        BY <1>1, <2>2, FirstIn, OneLess, Zenon
      <3>2. Cardinality(s \ {First(s)}) <= n /\ Cardinality(s \ {First(s)}) <= n + 1
        BY <3>1
      <3>3. s \ {First(s)} \in SUBSET S
        OBVIOUS
      <3> QED BY <3>2, <3>3, Zenon
    <2>3. \A t \in Size(n) : t \in Size(n + 1)
      BY <1>1
    <2>4. n + 1 \in Nat
      OBVIOUS
    <2> HIDE DEF Size
    <2>5. \A t \in Size(n) : g[t] = h[t]
      BY <2>1, <2>3 DEF Recurs
    <2>6. \A s \in Size(n + 1) : Adds(g, f, s) = Adds(h, f, s)
      BY <2>2, <2>5, Zenon DEF Adds
    <2>7. Recurs(h, f, Size(n + 1))
      BY <2>6, Zenon DEF Recurs
    <2> HIDE DEF h
    <2> QED BY <2>4, <2>7, Zenon
  <1>4. Cardinality(S) \in Sizes
    <2>1. Cardinality(S) \in Nat
      BY FS_CardinalityType, Zenon
    <2> HIDE DEF Sizes
    <2> QED BY <1>2, <1>3, <2>1, NatSetInduction, Zenon
  <1>5. Size(Cardinality(S)) = SUBSET S
    <2>1. \A t \in SUBSET S : Cardinality(t) <= Cardinality(S)
      BY FS_Subset, Zenon
    <2> QED BY <2>1, Zenon
  <1> QED BY <1>4, <1>5, Zenon

\* So the fold is a function that keeps to the recursion.
LEMMA Chosen ==
    ASSUME NEW f, NEW S, IsFiniteSet(S)
    PROVE  \E g : Recurs(g, f, SUBSET S) /\ SumFunctionOnSet(f, S) = g[S]
  <1> DEFINE g == CHOOSE h : Recurs(h, f, SUBSET S)
  <1>1. Recurs(g, f, SUBSET S)
    BY RecursExists, Zenon
  <1>2. SumFunctionOnSet(f, S) = g[S]
    BY Unfold, Zenon
  <1> QED BY <1>1, <1>2, Zenon

-------------------------------------------------------------------------------
(***************************************************************************)
(* The sum.                                                                *)
(***************************************************************************)
\* Nothing adds up to zero.
LEMMA SumEmpty ==
    ASSUME NEW f
    PROVE  SumFunctionOnSet(f, {}) = 0
  <1>1. IsFiniteSet({})
    BY FS_EmptySet, Zenon
  <1>2. PICK g : Recurs(g, f, SUBSET {}) /\ SumFunctionOnSet(f, {}) = g[{}]
    BY <1>1, Chosen, Zenon
  <1>3. {} \in SUBSET {}
    BY Zenon
  <1> QED BY <1>2, <1>3, Zenon DEF Recurs, Adds

\* The element the fold chooses first comes off the sum: the recursive
\* functions over the set and over the rest of it agree on the rest's
\* subsets.
LEMMA SumFirst ==
    ASSUME NEW f, NEW S, IsFiniteSet(S), S # {}
    PROVE  SumFunctionOnSet(f, S) = f[First(S)] + SumFunctionOnSet(f, S \ {First(S)})
  <1> DEFINE T == S \ {First(S)}
  <1>1. T \in SUBSET S /\ IsFiniteSet(T)
    BY FS_Subset, Zenon
  <1>2. PICK g : Recurs(g, f, SUBSET S) /\ SumFunctionOnSet(f, S) = g[S]
    BY Chosen, Zenon
  <1>3. PICK h : Recurs(h, f, SUBSET T) /\ SumFunctionOnSet(f, T) = h[T]
    BY <1>1, Chosen, Zenon
  <1> DEFINE Good == {t \in SUBSET T : g[t] = h[t]}
  <1>4. \A t \in SUBSET T : t \in Good
    <2> HIDE DEF T
    <2>1. \A t \in SUBSET T : g[t] = Adds(g, f, t) /\ h[t] = Adds(h, f, t)
      <3>1. \A t \in SUBSET T : t \in SUBSET S
        BY <1>1, Zenon
      <3> QED BY <1>2, <1>3, <3>1, Zenon DEF Recurs
    <2>2. {} \in Good
      BY <2>1, Zenon DEF Adds
    <2>3. ASSUME NEW t \in SUBSET T, t # {}, \A x \in t : t \ {x} \in Good
          PROVE  t \in Good
      <3>1. g[t \ {First(t)}] = h[t \ {First(t)}]
        BY <2>3, FirstIn, Zenon
      <3> QED BY <2>1, <2>3, <3>1, Zenon DEF Adds
    <2> HIDE DEF Good
    <2> QED BY <1>1, <2>2, <2>3, SubsetInduction, Zenon
  <1>5. T \in SUBSET T /\ S \in SUBSET S
    BY Zenon
  <1>6. g[S] = f[First(S)] + g[T]
    BY <1>2, <1>5, Zenon DEF Recurs, Adds
  <1> QED BY <1>2, <1>3, <1>4, <1>5, <1>6, Zenon

\* Natural numbers add up to a natural number.
LEMMA SumNat ==
    ASSUME NEW f, NEW S, IsFiniteSet(S), \A x \in S : f[x] \in Nat
    PROVE  SumFunctionOnSet(f, S) \in Nat
  <1> DEFINE Good == {t \in SUBSET S : SumFunctionOnSet(f, t) \in Nat}
  <1>1. {} \in Good
    BY SumEmpty
  <1>2. ASSUME NEW t \in SUBSET S, t # {}, \A x \in t : t \ {x} \in Good
        PROVE  t \in Good
    <2> DEFINE u == t \ {First(t)}
    <2>1. SumFunctionOnSet(f, u) \in Nat /\ f[First(t)] \in Nat
      BY <1>2, FirstIn, Zenon
    <2>2. SumFunctionOnSet(f, t) = f[First(t)] + SumFunctionOnSet(f, u)
      BY <1>2, SumFirst, FS_Subset, Zenon
    <2> HIDE DEF u
    <2>3. SumFunctionOnSet(f, t) \in Nat
      BY <2>1, <2>2
    <2> QED BY <2>3, Zenon
  <1>3. S \in Good
    <2> HIDE DEF Good
    <2>1. \A t \in SUBSET S : t \in Good
      BY <1>1, <1>2, SubsetInduction, Zenon
    <2> QED BY <2>1, Zenon
  <1> QED BY <1>3, Zenon

\* The sum depends on the values on the set only.
LEMMA SumSame ==
    ASSUME NEW f, NEW g, NEW S, IsFiniteSet(S), \A x \in S : f[x] = g[x]
    PROVE  SumFunctionOnSet(f, S) = SumFunctionOnSet(g, S)
  <1> DEFINE Good == {t \in SUBSET S : SumFunctionOnSet(f, t) = SumFunctionOnSet(g, t)}
  <1>1. {} \in Good
    BY SumEmpty
  <1>2. ASSUME NEW t \in SUBSET S, t # {}, \A x \in t : t \ {x} \in Good
        PROVE  t \in Good
    <2> DEFINE u == t \ {First(t)}
    <2>1. SumFunctionOnSet(f, u) = SumFunctionOnSet(g, u) /\ f[First(t)] = g[First(t)]
      BY <1>2, FirstIn, Zenon
    <2>2. /\ SumFunctionOnSet(f, t) = f[First(t)] + SumFunctionOnSet(f, u)
          /\ SumFunctionOnSet(g, t) = g[First(t)] + SumFunctionOnSet(g, u)
      BY <1>2, SumFirst, FS_Subset, Zenon
    <2> QED BY <2>1, <2>2, Zenon
  <1>3. S \in Good
    <2> HIDE DEF Good
    <2>1. \A t \in SUBSET S : t \in Good
      BY <1>1, <1>2, SubsetInduction, Zenon
    <2> QED BY <2>1, Zenon
  <1> QED BY <1>3, Zenon

\* Any element may be taken out of the sum first.
LEMMA SumRemove ==
    ASSUME NEW f, NEW S, IsFiniteSet(S), \A y \in S : f[y] \in Nat, NEW x \in S
    PROVE  SumFunctionOnSet(f, S) = f[x] + SumFunctionOnSet(f, S \ {x})
  <1> DEFINE Off(t, y) == SumFunctionOnSet(f, t) = f[y] + SumFunctionOnSet(f, t \ {y})
             Good == {t \in SUBSET S : \A y \in t : Off(t, y)}
  <1>1. {} \in Good
    BY Zenon
  <1>2. ASSUME NEW t \in SUBSET S, t # {}, \A x_1 \in t : t \ {x_1} \in Good
        PROVE  t \in Good
    <2> DEFINE z == First(t)
    <2>1. z \in t /\ Off(t, z)
      BY <1>2, FirstIn, SumFirst, FS_Subset, Zenon
    <2> HIDE DEF z
    <2>2. ASSUME NEW y \in t, y # z
          PROVE  Off(t, y)
      <3> DEFINE Both == (t \ {z}) \ {y}
      <3>1. y \in t \ {z} /\ z \in t \ {y} /\ (t \ {y}) \ {z} = Both
        BY <2>1, <2>2
      <3>2. Off(t \ {z}, y) /\ Off(t \ {y}, z)
        BY <1>2, <2>1, <3>1, Zenon
      <3>3. SumFunctionOnSet(f, Both) \in Nat /\ f[y] \in Nat /\ f[z] \in Nat
        <4>1. IsFiniteSet(Both) /\ \A w \in Both : f[w] \in Nat
          BY FS_Subset, Zenon
        <4>2. SumFunctionOnSet(f, Both) \in Nat
          <5> HIDE DEF Both
          <5> QED BY <4>1, SumNat, Zenon
        <4> QED BY <2>1, <4>2, Zenon
      <3> DEFINE sb == SumFunctionOnSet(f, Both)
                 sy == SumFunctionOnSet(f, t \ {y})
                 sz == SumFunctionOnSet(f, t \ {z})
                 st == SumFunctionOnSet(f, t)
      <3>4. sb \in Nat /\ sz = f[y] + sb /\ sy = f[z] + sb /\ st = f[z] + sz
        BY <2>1, <3>1, <3>2, <3>3, Zenon
      <3> HIDE DEF sb, sy, sz, st
      <3>5. st = f[y] + sy
        BY <3>3, <3>4
      <3> QED BY <3>5, Zenon DEF st, sy
    <2> QED BY <2>1, <2>2, Zenon
  <1>3. S \in Good
    <2> HIDE DEF Good
    <2>1. \A t \in SUBSET S : t \in Good
      BY <1>1, <1>2, SubsetInduction, Zenon
    <2> QED BY <2>1, Zenon
  <1> QED BY <1>3, Zenon

\* Zeros add up to zero.
LEMMA SumZero ==
    ASSUME NEW f, NEW S, IsFiniteSet(S), \A x \in S : f[x] = 0
    PROVE  SumFunctionOnSet(f, S) = 0
  <1> DEFINE Good == {t \in SUBSET S : SumFunctionOnSet(f, t) = 0}
  <1>1. {} \in Good
    BY SumEmpty
  <1>2. ASSUME NEW t \in SUBSET S, t # {}, \A x \in t : t \ {x} \in Good
        PROVE  t \in Good
    <2> DEFINE u == t \ {First(t)}
    <2>1. SumFunctionOnSet(f, u) = 0 /\ f[First(t)] = 0
      BY <1>2, FirstIn, Zenon
    <2>2. SumFunctionOnSet(f, t) = f[First(t)] + SumFunctionOnSet(f, u)
      BY <1>2, SumFirst, FS_Subset, Zenon
    <2> HIDE DEF u
    <2>3. SumFunctionOnSet(f, t) = 0
      BY <2>1, <2>2
    <2> QED BY <2>3, Zenon
  <1>3. S \in Good
    <2> HIDE DEF Good
    <2>1. \A t \in SUBSET S : t \in Good
      BY <1>1, <1>2, SubsetInduction, Zenon
    <2> QED BY <2>1, Zenon
  <1> QED BY <1>3, Zenon

\* A new element adds its value.
LEMMA SumInsert ==
    ASSUME NEW f, NEW S, IsFiniteSet(S), NEW x, x \notin S,
           \A y \in S \cup {x} : f[y] \in Nat
    PROVE  SumFunctionOnSet(f, S \cup {x}) = f[x] + SumFunctionOnSet(f, S)
  <1> DEFINE T == S \cup {x}
  <1>1. IsFiniteSet(T) /\ x \in T /\ \A y \in T : f[y] \in Nat
    BY FS_AddElement, Zenon
  <1>2. T \ {x} = S
    OBVIOUS
  <1> HIDE DEF T
  <1>3. SumFunctionOnSet(f, T) = f[x] + SumFunctionOnSet(f, T \ {x})
    BY <1>1, SumRemove
  <1> QED BY <1>2, <1>3, Zenon DEF T

\* Elements whose value is zero add nothing.
LEMMA SumSupport ==
    ASSUME NEW f, NEW S, IsFiniteSet(S), NEW T \in SUBSET S,
           \A x \in S : f[x] \in Nat, \A x \in S \ T : f[x] = 0
    PROVE  SumFunctionOnSet(f, S) = SumFunctionOnSet(f, T)
  <1> DEFINE R == S \ T
             Good == {u \in SUBSET R : SumFunctionOnSet(f, T \cup u) = SumFunctionOnSet(f, T)}
  <1>1. IsFiniteSet(R) /\ IsFiniteSet(T)
    BY FS_Subset, Zenon
  <1>2. {} \in Good
    <2>1. T \cup {} = T
      OBVIOUS
    <2> QED BY <2>1, Zenon
  <1>3. ASSUME NEW u \in SUBSET R, u # {}, \A x \in u : u \ {x} \in Good
        PROVE  u \in Good
    <2>1. PICK x \in u : TRUE
      BY <1>3, Zenon
    <2> DEFINE V == T \cup (u \ {x})
    <2>2. /\ V \in SUBSET S /\ x \notin V /\ V \cup {x} = T \cup u /\ x \in S \ T
          /\ \A y \in V \cup {x} : y \in S
      BY <2>1
    <2>3. SumFunctionOnSet(f, V) = SumFunctionOnSet(f, T)
      BY <1>3, <2>1, Zenon
    <2> HIDE DEF V
    <2>4. IsFiniteSet(V) /\ \A y \in V \cup {x} : f[y] \in Nat
      BY <2>2, FS_Subset, Zenon
    <2>5. SumFunctionOnSet(f, V \cup {x}) = f[x] + SumFunctionOnSet(f, V)
      BY <2>2, <2>4, SumInsert
    <2>6. SumFunctionOnSet(f, V) \in Nat
      <3>1. \A y \in V : f[y] \in Nat
        BY <2>4, Zenon
      <3> QED BY <2>4, <3>1, SumNat, Zenon
    <2>7. f[x] = 0
      BY <2>2, Zenon
    <2>8. SumFunctionOnSet(f, V \cup {x}) = SumFunctionOnSet(f, T)
      BY <2>3, <2>5, <2>6, <2>7
    <2> QED BY <2>2, <2>8, Zenon
  <1>4. R \in Good
    <2> HIDE DEF Good, R
    <2>1. \A u \in SUBSET R : u \in Good
      BY <1>1, <1>2, <1>3, SubsetInduction, Zenon
    <2> QED BY <2>1, Zenon
  <1>5. T \cup R = S
    OBVIOUS
  <1> QED BY <1>4, <1>5, Zenon

\* Raising one of the values raises the sum by as much.
LEMMA SumRaise ==
    ASSUME NEW f, NEW g, NEW S, IsFiniteSet(S), NEW x \in S, NEW d \in Nat,
           \A y \in S : f[y] \in Nat,
           g[x] = f[x] + d, \A y \in S \ {x} : g[y] = f[y]
    PROVE  SumFunctionOnSet(g, S) = SumFunctionOnSet(f, S) + d
  <1> DEFINE T == S \ {x}
  <1>1. f[x] \in Nat /\ g[x] = f[x] + d
    BY Zenon
  <1>2. g[x] \in Nat
    BY <1>1
  <1>3. \A y \in S : g[y] \in Nat
    BY <1>2, Zenon
  <1>4. IsFiniteSet(T) /\ \A y \in T : f[y] \in Nat
    BY FS_Subset, Zenon
  <1>5. SumFunctionOnSet(f, T) \in Nat /\ SumFunctionOnSet(g, T) = SumFunctionOnSet(f, T)
    <2> HIDE DEF T
    <2>1. \A y \in T : g[y] = f[y]
      BY Zenon DEF T
    <2> QED BY <1>4, <2>1, SumNat, SumSame, Zenon
  <1>6. SumFunctionOnSet(f, S) = f[x] + SumFunctionOnSet(f, T)
    BY SumRemove
  <1>7. SumFunctionOnSet(g, S) = g[x] + SumFunctionOnSet(g, T)
    BY <1>3, SumRemove
  <1> HIDE DEF T
  <1> QED BY <1>1, <1>5, <1>6, <1>7

-------------------------------------------------------------------------------
(***************************************************************************)
(* Wraparound.                                                             *)
(***************************************************************************)
\* Division with remainder.
LEMMA Division ==
    ASSUME NEW M \in Nat \ {0}, NEW n \in Nat
    PROVE  \E q \in Int : \E r \in 0 .. M - 1 : n = M * q + r
  <1> DEFINE Good == {m \in Nat : \E q \in Int : \E r \in 0 .. M - 1 : m = M * q + r}
  <1>1. 0 \in Good
    <2>1. 0 = M * 0 + 0 /\ 0 \in Int /\ 0 \in 0 .. M - 1
      OBVIOUS
    <2> QED BY <2>1
  <1>2. ASSUME NEW m \in Nat, m \in Good PROVE m + 1 \in Good
    <2>1. PICK q \in Int, r \in 0 .. M - 1 : m = M * q + r
      BY <1>2
    <2>2. CASE r < M - 1
      <3>1. m + 1 = M * q + (r + 1) /\ r + 1 \in 0 .. M - 1 /\ m + 1 \in Nat
        BY <2>1, <2>2
      <3> QED BY <3>1, Zenon
    <2>3. CASE r = M - 1
      <3>1. M * (q + 1) = M * q + M /\ q + 1 \in Int
        OBVIOUS
      <3>2. m + 1 = M * (q + 1) + 0 /\ 0 \in 0 .. M - 1 /\ m + 1 \in Nat
        BY <2>1, <2>3, <3>1
      <3> QED BY <3>1, <3>2, Zenon
    <2> QED BY <2>1, <2>2, <2>3
  <1> HIDE DEF Good
  <1>3. \A m \in Nat : m \in Good
    BY <1>1, <1>2, NatSetInduction, Zenon
  <1> QED BY <1>3 DEF Good

\* What % returns.
LEMMA Remainder ==
    ASSUME NEW M \in Nat \ {0}, NEW q \in Int, NEW r \in 0 .. M - 1
    PROVE  (M * q + r) % M = r
  OBVIOUS

\* A full turn of the counter does not show.
LEMMA FullTurn ==
    ASSUME NEW M \in Nat \ {0}, NEW n \in Nat
    PROVE  (n + M) % M = n % M
  <1>1. PICK q \in Int, r \in 0 .. M - 1 : n = M * q + r
    BY Division, Zenon
  <1>2. M * (q + 1) = M * q + M /\ q + 1 \in Int
    OBVIOUS
  <1>3. n + M = M * (q + 1) + r
    BY <1>1, <1>2
  <1>4. (M * q + r) % M = r /\ (M * (q + 1) + r) % M = r
    BY Remainder, <1>2
  <1> QED BY <1>1, <1>3, <1>4

\* One more, on a counter that wraps: the next value, or zero after the last.
LEMMA OneMore ==
    ASSUME NEW M \in Nat \ {0}, NEW n \in Nat
    PROVE  (n + 1) % M = IF n % M = M - 1 THEN 0 ELSE (n % M) + 1
  <1>1. PICK q \in Int, r \in 0 .. M - 1 : n = M * q + r
    BY Division, Zenon
  <1>2. n % M = r
    BY <1>1, Remainder
  <1>3. CASE r < M - 1
    <2>1. n + 1 = M * q + (r + 1) /\ r + 1 \in 0 .. M - 1
      BY <1>1, <1>3
    <2>2. (M * q + (r + 1)) % M = r + 1
      BY <2>1, Remainder, Zenon
    <2> QED BY <1>2, <1>3, <2>1, <2>2
  <1>4. CASE r = M - 1
    <2>1. M * (q + 1) = M * q + M /\ q + 1 \in Int
      OBVIOUS
    <2>2. n + 1 = M * (q + 1) + 0 /\ 0 \in 0 .. M - 1
      BY <1>1, <1>4, <2>1
    <2>3. (M * (q + 1) + 0) % M = 0
      BY <2>1, <2>2, Remainder
    <2> QED BY <1>2, <1>4, <2>2, <2>3
  <1> QED BY <1>3, <1>4
==============================================================================
