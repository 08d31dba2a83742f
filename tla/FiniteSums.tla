----------------------------- MODULE FiniteSums -----------------------------
(***************************************************************************)
(* What SumFunctionOnSet of the community module Functions computes for a  *)
(* function with natural values on a finite set: facts the proofs about    *)
(* the size of the delivery spool rest on.  They are proved by induction   *)
(* on the cardinality of the set, the induction itself being a statement   *)
(* about a set of natural numbers.                                         *)
(***************************************************************************)
EXTENDS Integers, FiniteSets, Functions, WellFoundedInduction, FiniteSetTheorems, TLAPS

(* A nonempty set of natural numbers has a least element. *)
LEMMA NatMin ==
  ASSUME NEW T, T \subseteq Nat, T # {}
  PROVE \E x \in T : \A y \in T : x <= y
<1> DEFINE R == OpToRel(<, Nat)
<1>1. IsWellFoundedOn(R, Nat)
  BY NatLessThanWellFounded, Zenon
<1>2. \A x, y \in Nat : x < y => <<x, y>> \in R
  BY DEF OpToRel
<1> HIDE DEF R
<1>3. PICK x \in T : \A y \in T : ~ (<<y, x>> \in R)
  BY <1>1, WFMin
<1>4. \A y \in T : ~ (y < x)
  BY <1>2, <1>3
<1>5. \A y \in T : x \in Nat /\ y \in Nat
  OBVIOUS
<1>6. \A y \in T : x <= y
  BY <1>4, <1>5
<1> QED
  BY <1>6

(* Induction over a set of natural numbers. *)
LEMMA NatInd ==
  ASSUME NEW T, 0 \in T, \A n \in Nat : n \in T => n + 1 \in T
  PROVE Nat \subseteq T
<1> SUFFICES ASSUME Nat \ T # {} PROVE FALSE
  OBVIOUS
<1>1. PICK x \in Nat \ T : \A y \in Nat \ T : x <= y
  BY NatMin
<1>2. x # 0 /\ x - 1 \in Nat
  BY <1>1
<1>3. x - 1 \in T
  BY <1>1, <1>2
<1> QED
  BY <1>1, <1>2, <1>3

(* The element SumFunctionOnSet takes out of a set first. *)
Pick(s) == CHOOSE x \in s : TRUE

(* g is a solution of the recursion of SumFunctionOnSet on the subsets of S. *)
IsIter(f, S, g) ==
  g = [s \in SUBSET S |-> IF s = {} THEN 0 ELSE f[Pick(s)] + g[s \ {Pick(s)}]]

(* The recursion that SumFunctionOnSet is defined by. *)
LEMMA SumDef ==
  ASSUME NEW f, NEW S
  PROVE SumFunctionOnSet(f, S) = (CHOOSE g : IsIter(f, S, g))[S]
  BY DEF SumFunctionOnSet, FoldFunctionOnSet, MapThenFoldSet, IsIter, Pick

(* A finite set loses one from its cardinality with one element. *)
LEMMA SmallerSet ==
  ASSUME NEW S, IsFiniteSet(S), NEW x \in S
  PROVE /\ IsFiniteSet(S \ {x})
        /\ Cardinality(S) \in Nat
        /\ Cardinality(S) # 0
        /\ Cardinality(S \ {x}) = Cardinality(S) - 1
  BY FS_RemoveElement, FS_CardinalityType, FS_EmptySet

(* On the subsets of a finite set that recursion has a solution: it is    *)
(* built for the subsets of 0, 1, 2, ... elements.                         *)
LEMMA IterExists ==
  ASSUME NEW f, NEW S, IsFiniteSet(S)
  PROVE \E g : IsIter(f, S, g)
<1> DEFINE Small(n) == {s \in SUBSET S : Cardinality(s) <= n}
           Step(g, s) == IF s = {} THEN 0 ELSE f[Pick(s)] + g[s \ {Pick(s)}]
           T == {n \in Nat : \E g : g = [s \in Small(n) |-> Step(g, s)]}
<1>1. \A s \in SUBSET S : s # {} =>
        /\ Pick(s) \in s
        /\ s \ {Pick(s)} \in SUBSET S
        /\ Cardinality(s) \in Nat
        /\ Cardinality(s \ {Pick(s)}) = Cardinality(s) - 1
  BY FS_Subset, SmallerSet DEF Pick
<1>2. \A s \in SUBSET S : Cardinality(s) \in Nat /\ (Cardinality(s) = 0 <=> s = {})
  BY FS_Subset, FS_CardinalityType, FS_EmptySet
<1>3. 0 \in T
  <2> DEFINE g == [s \in Small(0) |-> 0]
  <2>1. \A s \in Small(0) : s = {}
    BY <1>2
  <2>2. g = [s \in Small(0) |-> Step(g, s)]
    BY <2>1
  <2> QED
    BY <2>2
<1>4. ASSUME NEW n \in Nat, n \in T PROVE n + 1 \in T
  <2>1. PICK g : g = [s \in Small(n) |-> Step(g, s)]
    BY <1>4
  <2> DEFINE h == [s \in Small(n + 1) |-> Step(g, s)]
  <2>2. ASSUME NEW s \in Small(n + 1) PROVE Step(g, s) = Step(h, s)
    <3>1. CASE s = {}
      BY <3>1
    <3>2. CASE s # {}
      <4> DEFINE t == s \ {Pick(s)}
      <4>1. t \in Small(n) /\ t \in Small(n + 1)
        BY <1>1, <3>2, <1>2
      <4>2. g[t] = Step(g, t)
        BY <4>1, <2>1
      <4>3. h[t] = Step(g, t)
        BY <4>1
      <4> QED
        BY <4>2, <4>3, <3>2
    <3> QED
      BY <3>1, <3>2
  <2>3. h = [s \in Small(n + 1) |-> Step(h, s)]
    BY <2>2
  <2>4. \E k : k = [s \in Small(n + 1) |-> Step(k, s)]
    <3> HIDE DEF h
    <3> WITNESS h
    <3> QED
      BY <2>3
  <2>5. n + 1 \in Nat
    OBVIOUS
  <2> QED
    BY <2>4, <2>5
<1>5. Nat \subseteq T
  <2> HIDE DEF T
  <2> QED
    BY <1>3, <1>4, NatInd
<1>6. Cardinality(S) \in T
  BY <1>5, <1>2
<1>7. PICK g : g = [s \in Small(Cardinality(S)) |-> Step(g, s)]
  BY <1>6
<1>8. Small(Cardinality(S)) = SUBSET S
  BY FS_Subset, <1>2
<1>9. g = [s \in SUBSET S |-> Step(g, s)]
  BY <1>7, <1>8
<1> QED
  BY <1>9 DEF IsIter

(* Any two solutions agree on the finite sets they share. *)
LEMMA IterUnique ==
  ASSUME NEW f, NEW S, NEW U, NEW g, NEW h, IsIter(f, S, g), IsIter(f, U, h),
         NEW t, t \subseteq S, t \subseteq U, IsFiniteSet(t)
  PROVE g[t] = h[t]
<1> DEFINE T == {n \in Nat : \A s \in SUBSET t : Cardinality(s) = n => g[s] = h[s]}
<1>1. \A s \in SUBSET t : s \in SUBSET S /\ s \in SUBSET U
  OBVIOUS
<1>2. \A s \in SUBSET t :
        /\ g[s] = IF s = {} THEN 0 ELSE f[Pick(s)] + g[s \ {Pick(s)}]
        /\ h[s] = IF s = {} THEN 0 ELSE f[Pick(s)] + h[s \ {Pick(s)}]
  BY <1>1 DEF IsIter
<1>3. \A s \in SUBSET t : s # {} =>
        /\ s \ {Pick(s)} \in SUBSET t
        /\ Cardinality(s) \in Nat /\ Cardinality(s) # 0
        /\ Cardinality(s \ {Pick(s)}) = Cardinality(s) - 1
  BY FS_Subset, SmallerSet DEF Pick
<1>4. 0 \in T
  BY <1>2, <1>3
<1>5. ASSUME NEW n \in Nat, n \in T PROVE n + 1 \in T
  <2>1. \A s \in SUBSET t : Cardinality(s) = n => g[s] = h[s]
    BY <1>5
  <2> SUFFICES ASSUME NEW s \in SUBSET t, Cardinality(s) = n + 1 PROVE g[s] = h[s]
    OBVIOUS
  <2>2. s # {}
    BY FS_EmptySet
  <2>3. s \ {Pick(s)} \in SUBSET t /\ Cardinality(s \ {Pick(s)}) = n
    BY <2>2, <1>3
  <2>4. g[s \ {Pick(s)}] = h[s \ {Pick(s)}]
    BY <2>1, <2>3
  <2> QED
    BY <2>2, <2>4, <1>2
<1>6. Nat \subseteq T
  <2> HIDE DEF T
  <2> QED
    BY <1>4, <1>5, NatInd
<1>7. Cardinality(t) \in T
  BY <1>6, FS_CardinalityType
<1> QED
  BY <1>7

(* The sum over no element is 0. *)
LEMMA SumOfNone ==
  ASSUME NEW f
  PROVE SumFunctionOnSet(f, {}) = 0
<1> DEFINE g == CHOOSE g : IsIter(f, {}, g)
<1>1. IsIter(f, {}, g)
  BY IterExists, FS_EmptySet
<1>2. g[{}] = 0
  BY <1>1 DEF IsIter
<1> QED
  BY <1>2, SumDef

(* One step of the recursion, with the element the definition takes. *)
LEMMA SumUnfold ==
  ASSUME NEW f, NEW S, IsFiniteSet(S), S # {}
  PROVE /\ Pick(S) \in S
        /\ SumFunctionOnSet(f, S) = f[Pick(S)] + SumFunctionOnSet(f, S \ {Pick(S)})
<1> DEFINE U == S \ {Pick(S)}
           g == CHOOSE g : IsIter(f, S, g)
           h == CHOOSE h : IsIter(f, U, h)
<1>1. Pick(S) \in S
  BY DEF Pick
<1>2. IsFiniteSet(U)
  BY <1>1, SmallerSet
<1>3. IsIter(f, S, g)
  BY IterExists
<1>4. IsIter(f, U, h)
  BY <1>2, IterExists
<1>5. g[S] = f[Pick(S)] + g[U]
  BY <1>3 DEF IsIter
<1>6. SumFunctionOnSet(f, S) = g[S] /\ SumFunctionOnSet(f, U) = h[U]
  BY SumDef
<1> HIDE DEF g, h
<1>7. g[U] = h[U]
  BY <1>2, <1>3, <1>4, IterUnique
<1> QED
  BY <1>1, <1>5, <1>6, <1>7

(* A sum of natural numbers is one. *)
LEMMA SumType ==
  ASSUME NEW f, NEW S, IsFiniteSet(S), \A x \in S : f[x] \in Nat
  PROVE SumFunctionOnSet(f, S) \in Nat
<1> DEFINE T == {n \in Nat : \A s \in SUBSET S : Cardinality(s) = n => SumFunctionOnSet(f, s) \in Nat}
<1>1. \A s \in SUBSET S : IsFiniteSet(s)
  BY FS_Subset
<1>2. 0 \in T
  BY <1>1, FS_EmptySet, SumOfNone
<1>3. ASSUME NEW n \in Nat, n \in T PROVE n + 1 \in T
  <2> SUFFICES ASSUME NEW s \in SUBSET S, Cardinality(s) = n + 1
               PROVE SumFunctionOnSet(f, s) \in Nat
    OBVIOUS
  <2>1. s # {} /\ IsFiniteSet(s)
    BY <1>1, FS_EmptySet
  <2>2. Pick(s) \in s /\ SumFunctionOnSet(f, s) = f[Pick(s)] + SumFunctionOnSet(f, s \ {Pick(s)})
    BY <2>1, SumUnfold
  <2>3. Cardinality(s \ {Pick(s)}) = n
    BY <2>1, <2>2, SmallerSet
  <2>4. SumFunctionOnSet(f, s \ {Pick(s)}) \in Nat
    BY <1>3, <2>3
  <2>5. f[Pick(s)] \in Nat
    BY <2>2
  <2> QED
    BY <2>2, <2>4, <2>5
<1>4. Nat \subseteq T
  <2> HIDE DEF T
  <2> QED
    BY <1>2, <1>3, NatInd
<1>5. Cardinality(S) \in T
  BY <1>4, FS_CardinalityType
<1> QED
  BY <1>5

(* Any element may be taken out of the sum: the order of SumFunctionOnSet  *)
(* does not matter.                                                        *)
LEMMA SumTakeOut ==
  ASSUME NEW f, NEW S, IsFiniteSet(S), \A y \in S : f[y] \in Nat, NEW x \in S
  PROVE SumFunctionOnSet(f, S) = f[x] + SumFunctionOnSet(f, S \ {x})
<1> DEFINE T == {n \in Nat : \A s \in SUBSET S : \A y \in s : Cardinality(s) = n =>
                    SumFunctionOnSet(f, s) = f[y] + SumFunctionOnSet(f, s \ {y})}
<1>1. \A s \in SUBSET S : IsFiniteSet(s) /\ SumFunctionOnSet(f, s) \in Nat
  BY FS_Subset, SumType
<1>2. 0 \in T
  BY <1>1, FS_EmptySet
<1>3. ASSUME NEW n \in Nat, n \in T PROVE n + 1 \in T
  <2> SUFFICES ASSUME NEW s \in SUBSET S, NEW y \in s, Cardinality(s) = n + 1
               PROVE SumFunctionOnSet(f, s) = f[y] + SumFunctionOnSet(f, s \ {y})
    OBVIOUS
  <2>1. IsFiniteSet(s)
    BY <1>1
  <2>2. PICK p \in s : SumFunctionOnSet(f, s) = f[p] + SumFunctionOnSet(f, s \ {p})
    BY <2>1, SumUnfold
  <2>3. CASE p = y
    BY <2>2, <2>3
  <2>4. CASE p # y
    <3> DEFINE a == s \ {p}
               b == s \ {y}
               c == a \ {y}
    <3>1. a \in SUBSET S /\ b \in SUBSET S /\ c \in SUBSET S /\ y \in a /\ p \in b /\ c = b \ {p}
      BY <2>4
    <3>2. Cardinality(a) = n /\ Cardinality(b) = n
      BY <2>1, SmallerSet
    <3>3. SumFunctionOnSet(f, a) = f[y] + SumFunctionOnSet(f, c)
      BY <1>3, <3>1, <3>2
    <3>4. SumFunctionOnSet(f, b) = f[p] + SumFunctionOnSet(f, c)
      BY <1>3, <3>1, <3>2
    <3>5. f[y] \in Nat /\ f[p] \in Nat /\ SumFunctionOnSet(f, c) \in Nat
      BY <1>1, <3>1
    <3> HIDE DEF a, b, c
    <3>6. SumFunctionOnSet(f, s) = f[p] + SumFunctionOnSet(f, a)
      BY <2>2 DEF a
    <3>7. SumFunctionOnSet(f, s) = f[y] + SumFunctionOnSet(f, b)
      BY <3>3, <3>4, <3>5, <3>6
    <3> QED
      BY <3>7 DEF b
  <2> QED
    BY <2>3, <2>4
<1>4. Nat \subseteq T
  <2> HIDE DEF T
  <2> QED
    BY <1>2, <1>3, NatInd
<1>5. Cardinality(S) \in T
  BY <1>4, FS_CardinalityType
<1> QED
  BY <1>5

(* A sum over fewer elements of smaller values is no larger. *)
LEMMA SumMonotone ==
  ASSUME NEW f, NEW g, NEW S, IsFiniteSet(S), NEW U \in SUBSET S,
         \A x \in U : f[x] \in Nat /\ f[x] <= g[x],
         \A x \in S : g[x] \in Nat
  PROVE SumFunctionOnSet(f, U) <= SumFunctionOnSet(g, S)
<1> DEFINE T == {n \in Nat : \A s \in SUBSET S : Cardinality(s) = n =>
                    SumFunctionOnSet(f, s \cap U) <= SumFunctionOnSet(g, s)}
<1>1. \A s \in SUBSET S : /\ IsFiniteSet(s) /\ IsFiniteSet(s \cap U)
                          /\ SumFunctionOnSet(g, s) \in Nat
                          /\ SumFunctionOnSet(f, s \cap U) \in Nat
  <2> TAKE s \in SUBSET S
  <2>1. IsFiniteSet(s) /\ IsFiniteSet(s \cap U)
    BY FS_Subset
  <2> QED
    BY <2>1, SumType
<1>2. 0 \in T
  <2> SUFFICES ASSUME NEW s \in SUBSET S, Cardinality(s) = 0
               PROVE SumFunctionOnSet(f, s \cap U) <= SumFunctionOnSet(g, s)
    OBVIOUS
  <2>1. s = {} /\ s \cap U = {}
    BY <1>1, FS_EmptySet
  <2> QED
    BY <2>1, SumOfNone
<1>3. ASSUME NEW n \in Nat, n \in T PROVE n + 1 \in T
  <2> SUFFICES ASSUME NEW s \in SUBSET S, Cardinality(s) = n + 1
               PROVE SumFunctionOnSet(f, s \cap U) <= SumFunctionOnSet(g, s)
    OBVIOUS
  <2>1. IsFiniteSet(s) /\ IsFiniteSet(s \cap U) /\ s # {}
    BY <1>1, FS_EmptySet
  <2>2. PICK p \in s : TRUE
    BY <2>1
  <2> DEFINE t == s \ {p}
  <2>3. t \in SUBSET S /\ Cardinality(t) = n
    BY <2>1, SmallerSet
  <2>4. SumFunctionOnSet(f, t \cap U) <= SumFunctionOnSet(g, t)
    BY <1>3, <2>3
  <2>5. SumFunctionOnSet(g, s) = g[p] + SumFunctionOnSet(g, t)
    BY <2>1, SumTakeOut
  <2>6. /\ SumFunctionOnSet(g, t) \in Nat /\ SumFunctionOnSet(f, t \cap U) \in Nat
        /\ g[p] \in Nat
    BY <1>1, <2>3
  <2>7. CASE p \in U
    <3>1. (s \cap U) \ {p} = t \cap U /\ p \in s \cap U /\ \A y \in s \cap U : f[y] \in Nat
      BY <2>7
    <3>2. SumFunctionOnSet(f, s \cap U) = f[p] + SumFunctionOnSet(f, t \cap U)
      BY <2>1, <3>1, SumTakeOut
    <3>3. f[p] \in Nat /\ f[p] <= g[p]
      BY <2>7
    <3> HIDE DEF t
    <3> QED
      BY <2>4, <2>5, <2>6, <3>2, <3>3
  <2>8. CASE p \notin U
    <3>1. s \cap U = t \cap U
      BY <2>8
    <3>2. SumFunctionOnSet(f, s \cap U) = SumFunctionOnSet(f, t \cap U)
      BY <3>1
    <3> HIDE DEF t
    <3> QED
      BY <2>4, <2>5, <2>6, <3>2
  <2> QED
    BY <2>7, <2>8
<1>4. Nat \subseteq T
  <2> HIDE DEF T
  <2> QED
    BY <1>2, <1>3, NatInd
<1>5. Cardinality(S) \in T
  BY <1>4, FS_CardinalityType
<1>6. S \cap U = U
  OBVIOUS
<1> QED
  BY <1>5, <1>6

=============================================================================
