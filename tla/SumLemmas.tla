----------------------------- MODULE SumLemmas ------------------------------
(***************************************************************************)
(* Facts about numbers and finite sets that the proofs share: least and    *)
(* greatest elements, induction over the naturals, and sums over a set.    *)
(*                                                                         *)
(* Induction is stated of a set instead of a predicate: the numbers that   *)
(* are not in it have no least element.                                    *)
(***************************************************************************)
EXTENDS Integers, FiniteSets, FiniteSetsExt, FiniteSetTheorems, WellFoundedInduction, TLAPS

(* A set of naturals has a least element. *)
LEMMA LeastNat ==
  ASSUME NEW S, S \subseteq Nat, S # {}
  PROVE  \E x \in S : \A y \in S : x <= y
<1> DEFINE R == OpToRel(<, Nat)
<1>1. IsWellFoundedOn(R, Nat)
  BY NatLessThanWellFounded
<1>2. \A x, y \in Nat : x < y => <<x, y>> \in R
  BY DEF OpToRel
<1> HIDE DEF R
<1>3. PICK x \in S : \A y \in S : ~(<<y, x>> \in R)
  BY <1>1, WFMin
<1>4. \A y \in S : ~(y < x)
  BY <1>2, <1>3
<1> QED
  BY <1>4

(* Min is the least element. *)
LEMMA MinIs ==
  ASSUME NEW S, S \subseteq Int, NEW a \in S, \A y \in S : a <= y
  PROVE  Min(S) = a
<1>1. Min(S) \in S /\ \A y \in S : Min(S) <= y
  BY DEF Min
<1>2. Min(S) \in Int /\ a \in Int /\ Min(S) <= a /\ a <= Min(S)
  BY <1>1
<1> QED
  BY <1>2

(* A set with 0 and every successor holds every natural. *)
LEMMA NatInduct ==
  ASSUME NEW A, 0 \in A, \A n \in Nat : n \in A => n + 1 \in A
  PROVE  \A n \in Nat : n \in A
<1> SUFFICES ASSUME NEW n \in Nat, n \notin A PROVE FALSE
  OBVIOUS
<1> DEFINE out == {m \in Nat : m \notin A}
<1>1. PICK m \in out : \A k \in out : m <= k
  BY LeastNat
<1>2. m \in Nat /\ m # 0 /\ m - 1 \in Nat
  BY <1>1
<1>3. m - 1 \in A
  BY <1>1, <1>2
<1> QED
  BY <1>1, <1>2, <1>3

(* A finite set without one of its elements has one element less. *)
LEMMA OneLess ==
  ASSUME NEW S, IsFiniteSet(S), NEW x \in S
  PROVE  /\ IsFiniteSet(S \ {x})
         /\ Cardinality(S \ {x}) \in Nat /\ Cardinality(S) \in Nat
         /\ Cardinality(S \ {x}) = Cardinality(S) - 1
BY FS_RemoveElement, FS_CardinalityType

(* A finite set of numbers that is not empty has a greatest element. *)
LEMMA MaxBounds ==
  ASSUME NEW S, IsFiniteSet(S), S \subseteq Int, S # {}
  PROVE  Max(S) \in S /\ \A y \in S : y <= Max(S)
<1> DEFINE A == {n \in Nat : \A T \in SUBSET S : Cardinality(T) = n /\ T # {} =>
                    \E x \in T : \A y \in T : y <= x}
<1>1. 0 \in A
  BY FS_EmptySet, FS_Subset
<1>2. ASSUME NEW n \in Nat, n \in A PROVE n + 1 \in A
  <2> SUFFICES ASSUME NEW T \in SUBSET S, Cardinality(T) = n + 1, T # {}
               PROVE  \E x \in T : \A y \in T : y <= x
    OBVIOUS
  <2>1. PICK z \in T : TRUE
    OBVIOUS
  <2>2. IsFiniteSet(T)
    BY FS_Subset
  <2>3. Cardinality(T \ {z}) = n
    BY <2>2, OneLess
  <2>4. CASE T \ {z} = {}
    BY <2>4
  <2>5. CASE T \ {z} # {}
    <3>1. PICK x \in T \ {z} : \A y \in T \ {z} : y <= x
      BY <1>2, <2>3, <2>5
    <3>2. x \in Int /\ z \in Int /\ \A y \in T : y \in Int
      BY <2>1, <3>1
    <3> QED
      BY <3>1, <3>2
  <2> QED
    BY <2>4, <2>5
<1>3. Cardinality(S) \in Nat
  BY FS_CardinalityType
<1> HIDE DEF A
<1>4. Cardinality(S) \in A
  BY <1>1, <1>2, <1>3, NatInduct
<1>5. \E x \in S : \A y \in S : y <= x
  BY <1>4 DEF A
<1> QED
  BY <1>5 DEF Max

-----------------------------------------------------------------------------
(* The sum of the values of f over S. *)
Total(f, S) == MapThenSumSet(LAMBDA i : f[i], S)

(* The recursive function that MapThenSumSet evaluates. *)
AnyOf(s) == CHOOSE x \in s : TRUE
IsTotals(g, f, S) ==
  g = [s \in SUBSET S |-> IF s = {} THEN 0 ELSE f[AnyOf(s)] + g[s \ {AnyOf(s)}]]

LEMMA TotalDef ==
  ASSUME NEW f, NEW S
  PROVE  Total(f, S) = (CHOOSE g : IsTotals(g, f, S))[S]
BY DEF Total, MapThenSumSet, MapThenFoldSet, IsTotals, AnyOf

(* There is such a function, on a finite set. *)
LEMMA TotalsExist ==
  ASSUME NEW f, NEW S, IsFiniteSet(S)
  PROVE  \E g : IsTotals(g, f, S)
<1> DEFINE B(n) == {s \in SUBSET S : Cardinality(s) <= n}
           Body(g, s) == IF s = {} THEN 0 ELSE f[AnyOf(s)] + g[s \ {AnyOf(s)}]
           UpTo(g, n) == g = [s \in B(n) |-> Body(g, s)]
           A == {n \in Nat : \E g : UpTo(g, n)}
<1>1. \A s \in SUBSET S : /\ IsFiniteSet(s) /\ Cardinality(s) \in Nat
                          /\ Cardinality(s) = 0 <=> s = {}
  BY FS_Subset, FS_CardinalityType, FS_EmptySet
<1>2. \A s \in SUBSET S : s # {} =>
         s \ {AnyOf(s)} \in SUBSET S /\ Cardinality(s \ {AnyOf(s)}) = Cardinality(s) - 1
  BY <1>1, OneLess DEF AnyOf
<1>3. 0 \in A
  <2> DEFINE g == [s \in B(0) |-> 0]
  <2>1. \A s \in B(0) : s = {}
    BY <1>1
  <2>2. UpTo(g, 0)
    BY <2>1
  <2> HIDE DEF g, UpTo
  <2>3. (\E k : UpTo(k, 0)) /\ 0 \in Nat
    BY <2>2
  <2> QED
    BY <2>3
<1>4. ASSUME NEW n \in Nat, n \in A PROVE n + 1 \in A
  <2>1. PICK g : UpTo(g, n)
    BY <1>4
  <2> DEFINE h == [s \in B(n + 1) |-> Body(g, s)]
  <2>2. \A s \in B(n) : s \in B(n + 1) /\ h[s] = g[s]
    <3> TAKE s \in B(n)
    <3>1. s \in B(n + 1)
      BY <1>1
    <3>2. g[s] = Body(g, s)
      BY <2>1
    <3>3. h[s] = Body(g, s)
      BY <3>1
    <3> QED
      BY <3>1, <3>2, <3>3
  <2>3. \A s \in B(n + 1) : s # {} => s \ {AnyOf(s)} \in B(n)
    BY <1>1, <1>2
  <2>4. \A s \in B(n + 1) : Body(g, s) = Body(h, s)
    BY <2>2, <2>3
  <2>5. UpTo(h, n + 1)
    BY <2>4
  <2> HIDE DEF h, UpTo
  <2> QED
    BY <2>5
<1>5. Cardinality(S) \in Nat /\ Cardinality(S) \in A
  <2> HIDE DEF A
  <2> QED
    BY <1>3, <1>4, NatInduct, FS_CardinalityType
<1>6. B(Cardinality(S)) = SUBSET S
  BY FS_Subset
<1> QED
  BY <1>5, <1>6 DEF IsTotals

(* Two of them agree where the values do. *)
LEMMA TotalsAgree ==
  ASSUME NEW f, NEW S, NEW g, IsTotals(g, f, S),
         NEW e, NEW T, NEW h, IsTotals(h, e, T),
         NEW U, IsFiniteSet(U), U \subseteq S, U \subseteq T, \A i \in U : f[i] = e[i]
  PROVE  g[U] = h[U]
<1> DEFINE A == {n \in Nat : \A s \in SUBSET U : Cardinality(s) = n => g[s] = h[s]}
<1>1. \A s \in SUBSET U : /\ IsFiniteSet(s) /\ Cardinality(s) \in Nat
                          /\ Cardinality(s) = 0 <=> s = {}
  BY FS_Subset, FS_CardinalityType, FS_EmptySet
<1>2. \A s \in SUBSET U :
        /\ g[s] = IF s = {} THEN 0 ELSE f[AnyOf(s)] + g[s \ {AnyOf(s)}]
        /\ h[s] = IF s = {} THEN 0 ELSE e[AnyOf(s)] + h[s \ {AnyOf(s)}]
  BY DEF IsTotals
<1>3. 0 \in A
  BY <1>1, <1>2
<1>4. ASSUME NEW n \in Nat, n \in A PROVE n + 1 \in A
  <2> SUFFICES ASSUME NEW s \in SUBSET U, Cardinality(s) = n + 1 PROVE g[s] = h[s]
    OBVIOUS
  <2>1. s # {} /\ AnyOf(s) \in s
    BY <1>1 DEF AnyOf
  <2>2. s \ {AnyOf(s)} \in SUBSET U /\ Cardinality(s \ {AnyOf(s)}) = n
    BY <1>1, <2>1, OneLess
  <2>3. g[s \ {AnyOf(s)}] = h[s \ {AnyOf(s)}]
    BY <1>4, <2>2
  <2>4. f[AnyOf(s)] = e[AnyOf(s)]
    BY <2>1
  <2> QED
    BY <1>2, <2>1, <2>3, <2>4
<1> HIDE DEF A
<1>5. Cardinality(U) \in A
  BY <1>1, <1>3, <1>4, NatInduct
<1> QED
  BY <1>5 DEF A

(* The function gives the sum of every subset. *)
LEMMA TotalsGive ==
  ASSUME NEW f, NEW S, IsFiniteSet(S), NEW g, IsTotals(g, f, S), NEW U \in SUBSET S
  PROVE  g[U] = Total(f, U)
<1>1. IsFiniteSet(U)
  BY FS_Subset
<1> DEFINE h == CHOOSE k : IsTotals(k, f, U)
<1>2. IsTotals(h, f, U)
  BY <1>1, TotalsExist
<1>3. Total(f, U) = h[U]
  BY TotalDef
<1> HIDE DEF h
<1> QED
  BY <1>1, <1>2, <1>3, TotalsAgree

(* How the sum unfolds: an element is chosen and the rest is summed. *)
LEMMA TotalUnfolds ==
  ASSUME NEW f, NEW S, IsFiniteSet(S)
  PROVE  /\ S = {} => Total(f, S) = 0
         /\ S # {} => AnyOf(S) \in S /\ Total(f, S) = f[AnyOf(S)] + Total(f, S \ {AnyOf(S)})
<1>1. PICK g : IsTotals(g, f, S)
  BY TotalsExist
<1>2. g[S] = IF S = {} THEN 0 ELSE f[AnyOf(S)] + g[S \ {AnyOf(S)}]
  BY <1>1 DEF IsTotals
<1>3. \A U \in SUBSET S : g[U] = Total(f, U)
  BY <1>1, TotalsGive
<1>4. g[S] = Total(f, S) /\ g[S \ {AnyOf(S)}] = Total(f, S \ {AnyOf(S)})
  BY <1>3
<1>5. S # {} => AnyOf(S) \in S
  BY DEF AnyOf
<1> QED
  BY <1>2, <1>4, <1>5

(* Nothing sums to 0, and a sum of naturals is one. *)
LEMMA TotalEmpty ==
  ASSUME NEW f
  PROVE  Total(f, {}) = 0
BY TotalUnfolds, FS_EmptySet

LEMMA TotalIsNat ==
  ASSUME NEW f, NEW S, IsFiniteSet(S), \A i \in S : f[i] \in Nat
  PROVE  Total(f, S) \in Nat
<1> DEFINE A == {n \in Nat : \A s \in SUBSET S : Cardinality(s) = n => Total(f, s) \in Nat}
<1>1. \A s \in SUBSET S : /\ IsFiniteSet(s) /\ Cardinality(s) \in Nat
                          /\ Cardinality(s) = 0 <=> s = {}
  BY FS_Subset, FS_CardinalityType, FS_EmptySet
<1>2. 0 \in A
  BY <1>1, TotalUnfolds
<1>3. ASSUME NEW n \in Nat, n \in A PROVE n + 1 \in A
  <2> SUFFICES ASSUME NEW s \in SUBSET S, Cardinality(s) = n + 1 PROVE Total(f, s) \in Nat
    OBVIOUS
  <2>1. s # {}
    BY <1>1
  <2>2. AnyOf(s) \in s /\ Total(f, s) = f[AnyOf(s)] + Total(f, s \ {AnyOf(s)})
    BY <1>1, <2>1, TotalUnfolds
  <2>3. Cardinality(s \ {AnyOf(s)}) = n
    BY <1>1, <2>2, OneLess
  <2>4. Total(f, s \ {AnyOf(s)}) \in Nat
    BY <1>3, <2>3
  <2> QED
    BY <2>2, <2>4
<1> HIDE DEF A
<1>4. Cardinality(S) \in A
  BY <1>1, <1>2, <1>3, NatInduct
<1> QED
  BY <1>4 DEF A

(* Only the values on the set matter. *)
LEMMA TotalCong ==
  ASSUME NEW f, NEW e, NEW S, IsFiniteSet(S), \A i \in S : f[i] = e[i]
  PROVE  Total(f, S) = Total(e, S)
<1>1. PICK g : IsTotals(g, f, S)
  BY TotalsExist
<1>2. PICK h : IsTotals(h, e, S)
  BY TotalsExist
<1>3. g[S] = h[S]
  BY <1>1, <1>2, TotalsAgree
<1> QED
  BY <1>1, <1>2, <1>3, TotalsGive

(* Any element may be taken first. *)
LEMMA TotalRemove ==
  ASSUME NEW f, NEW S, IsFiniteSet(S), \A i \in S : f[i] \in Nat, NEW x \in S
  PROVE  Total(f, S) = f[x] + Total(f, S \ {x})
<1> DEFINE A == {n \in Nat : \A s \in SUBSET S, y \in S :
                    Cardinality(s) = n /\ y \in s => Total(f, s) = f[y] + Total(f, s \ {y})}
<1>1. \A s \in SUBSET S : /\ IsFiniteSet(s) /\ Cardinality(s) \in Nat
                          /\ Cardinality(s) = 0 <=> s = {}
                          /\ Total(f, s) \in Nat
  BY FS_Subset, FS_CardinalityType, FS_EmptySet, TotalIsNat
<1>2. 0 \in A
  BY <1>1
<1>3. ASSUME NEW n \in Nat, n \in A PROVE n + 1 \in A
  <2> SUFFICES ASSUME NEW s \in SUBSET S, NEW y \in S, Cardinality(s) = n + 1, y \in s
               PROVE  Total(f, s) = f[y] + Total(f, s \ {y})
    OBVIOUS
  <2> DEFINE c == AnyOf(s)
  <2>1. c \in s /\ Total(f, s) = f[c] + Total(f, s \ {c})
    BY <1>1, TotalUnfolds
  <2> HIDE DEF c
  <2>2. CASE c = y
    BY <2>1, <2>2
  <2>3. CASE c # y
    <3>1. /\ s \ {c} \in SUBSET S /\ s \ {y} \in SUBSET S
          /\ Cardinality(s \ {c}) = n /\ Cardinality(s \ {y}) = n
      BY <1>1, <2>1, OneLess
    <3>2. y \in s \ {c} /\ c \in s \ {y} /\ c \in S
      BY <2>1, <2>3
    <3>3. Total(f, s \ {c}) = f[y] + Total(f, (s \ {c}) \ {y})
      BY <1>3, <3>1, <3>2
    <3>4. Total(f, s \ {y}) = f[c] + Total(f, (s \ {y}) \ {c})
      BY <1>3, <3>1, <3>2
    <3>5. (s \ {c}) \ {y} = (s \ {y}) \ {c}
      OBVIOUS
    <3>6. Total(f, (s \ {y}) \ {c}) \in Nat /\ f[c] \in Nat /\ f[y] \in Nat
      BY <1>1, <3>2
    <3> QED
      BY <2>1, <3>3, <3>4, <3>5, <3>6
  <2> QED
    BY <2>2, <2>3
<1> HIDE DEF A
<1>4. Cardinality(S) \in A
  BY <1>1, <1>2, <1>3, NatInduct
<1> QED
  BY <1>4 DEF A

(* A new element adds its value. *)
LEMMA TotalAdd ==
  ASSUME NEW f, NEW S, IsFiniteSet(S), NEW x, x \notin S, \A i \in S \cup {x} : f[i] \in Nat
  PROVE  Total(f, S \cup {x}) = f[x] + Total(f, S)
<1>1. IsFiniteSet(S \cup {x})
  BY FS_AddElement
<1>2. (S \cup {x}) \ {x} = S
  OBVIOUS
<1>3. Total(f, S \cup {x}) = f[x] + Total(f, (S \cup {x}) \ {x})
  BY <1>1, TotalRemove
<1> QED
  BY <1>2, <1>3

(* Smaller values sum to no more. *)
LEMMA TotalLeq ==
  ASSUME NEW f, NEW e, NEW S, IsFiniteSet(S),
         \A i \in S : f[i] \in Nat /\ e[i] \in Nat /\ f[i] <= e[i]
  PROVE  Total(f, S) <= Total(e, S)
<1> DEFINE A == {n \in Nat : \A s \in SUBSET S : Cardinality(s) = n => Total(f, s) <= Total(e, s)}
<1>1. \A s \in SUBSET S : /\ IsFiniteSet(s) /\ Cardinality(s) \in Nat
                          /\ Cardinality(s) = 0 <=> s = {}
                          /\ Total(f, s) \in Nat /\ Total(e, s) \in Nat
  BY FS_Subset, FS_CardinalityType, FS_EmptySet, TotalIsNat
<1>2. 0 \in A
  <2> SUFFICES ASSUME NEW s \in SUBSET S, Cardinality(s) = 0 PROVE Total(f, s) <= Total(e, s)
    OBVIOUS
  <2>1. s = {}
    BY <1>1
  <2>2. Total(f, s) = 0 /\ Total(e, s) = 0
    BY <2>1, TotalEmpty
  <2> QED
    BY <2>2
<1>3. ASSUME NEW n \in Nat, n \in A PROVE n + 1 \in A
  <2> SUFFICES ASSUME NEW s \in SUBSET S, Cardinality(s) = n + 1
               PROVE  Total(f, s) <= Total(e, s)
    OBVIOUS
  <2>1. PICK y \in s : TRUE
    BY <1>1
  <2>2. Cardinality(s \ {y}) = n
    BY <1>1, <2>1, OneLess
  <2>3. Total(f, s \ {y}) <= Total(e, s \ {y})
    BY <1>3, <2>2
  <2>4. Total(f, s) = f[y] + Total(f, s \ {y}) /\ Total(e, s) = e[y] + Total(e, s \ {y})
    BY <1>1, TotalRemove
  <2>5. /\ f[y] \in Nat /\ e[y] \in Nat /\ f[y] <= e[y]
        /\ Total(f, s \ {y}) \in Nat /\ Total(e, s \ {y}) \in Nat
    BY <1>1, <2>1
  <2> QED
    BY <2>3, <2>4, <2>5
<1> HIDE DEF A
<1>4. Cardinality(S) \in A
  BY <1>1, <1>2, <1>3, NatInduct
<1> QED
  BY <1>4 DEF A

(* A part of a set sums to no more than the whole. *)
LEMMA TotalMono ==
  ASSUME NEW f, NEW S, IsFiniteSet(S), \A i \in S : f[i] \in Nat, NEW U \in SUBSET S
  PROVE  Total(f, U) <= Total(f, S)
<1> DEFINE A == {n \in Nat : \A s \in SUBSET S :
                    U \subseteq s /\ Cardinality(s) = n => Total(f, U) <= Total(f, s)}
<1>1. \A s \in SUBSET S : /\ IsFiniteSet(s) /\ Cardinality(s) \in Nat
                          /\ Cardinality(s) = 0 <=> s = {}
                          /\ Total(f, s) \in Nat
  BY FS_Subset, FS_CardinalityType, FS_EmptySet, TotalIsNat
<1>2. 0 \in A
  <2> SUFFICES ASSUME NEW s \in SUBSET S, U \subseteq s, Cardinality(s) = 0
               PROVE  Total(f, U) <= Total(f, s)
    OBVIOUS
  <2>1. U = s
    BY <1>1
  <2> QED
    BY <1>1, <2>1
<1>3. ASSUME NEW n \in Nat, n \in A PROVE n + 1 \in A
  <2> SUFFICES ASSUME NEW s \in SUBSET S, U \subseteq s, Cardinality(s) = n + 1
               PROVE  Total(f, U) <= Total(f, s)
    OBVIOUS
  <2>1. CASE U = s
    BY <1>1, <2>1
  <2>2. CASE U # s
    <3>1. PICK y \in s : y \notin U
      BY <2>2
    <3>2. U \subseteq s \ {y} /\ Cardinality(s \ {y}) = n
      BY <1>1, <3>1, OneLess
    <3>3. Total(f, U) <= Total(f, s \ {y})
      BY <1>3, <3>2
    <3>4. Total(f, s) = f[y] + Total(f, s \ {y})
      BY <1>1, TotalRemove
    <3>5. f[y] \in Nat /\ Total(f, s \ {y}) \in Nat /\ Total(f, U) \in Nat
      BY <1>1
    <3> QED
      BY <3>3, <3>4, <3>5
  <2> QED
    BY <2>1, <2>2
<1> HIDE DEF A
<1>4. Cardinality(S) \in A
  BY <1>1, <1>2, <1>3, NatInduct
<1> QED
  BY <1>4 DEF A
=============================================================================
