--------------------------- MODULE AnalyticsProofs --------------------------
(***************************************************************************)
(* Theorems about the closed-position analytics, for any history, filter   *)
(* and time zone, about the monthly goals, for any snapshots, flows and    *)
(* requests, and about the DCA validation, for any scans and trades.  What *)
(* sums and loops compute is proved by induction, with sets for the        *)
(* predicates.                                                             *)
(***************************************************************************)
EXTENDS ClosedPositions, MonthlyGoals, DcaReplay, FiniteSetTheorems, SequenceTheorems, WellFoundedInduction, TLAPS

-----------------------------------------------------------------------------
(***************************************************************************)
(* Induction over finite sets, and the sums of the library.                *)
(***************************************************************************)

\* A set of naturals that is not empty has a least element.
LEMMA LeastNat ==
    ASSUME NEW S \in SUBSET Nat, S # {}
    PROVE  \E n \in S : \A m \in S : n <= m
<1>1. PICK n \in S : \A m \in S : ~ (<<m, n>> \in OpToRel(<, Nat))
  BY NatLessThanWellFounded, WFMin
<1>2. ASSUME NEW m \in S PROVE n <= m
  <2>1. n \in Nat /\ m \in Nat
    OBVIOUS
  <2>2. ASSUME m < n PROVE <<m, n>> \in OpToRel(<, Nat)
    <3>1. <<m, n>> \in Nat \X Nat /\ <<m, n>>[1] < <<m, n>>[2]
      BY <2>1, <2>2
    <3> QED BY <3>1 DEF OpToRel
  <2>3. ~ (m < n)
    BY <1>1, <2>2
  <2> QED BY <2>1, <2>3
<1> QED BY <1>2

\* Induction over the naturals up to a bound, with a set for the predicate.
LEMMA UpTo ==
    ASSUME NEW N \in Nat, NEW Good, 0 \in Good, \A n \in 1..N : n - 1 \in Good => n \in Good
    PROVE  0..N \subseteq Good
<1> DEFINE Bad == {n \in 0..N : n \notin Good}
<1>1. SUFFICES ASSUME Bad # {} PROVE FALSE
  OBVIOUS
<1>2. PICK n \in Bad : \A m \in Bad : n <= m
  <2>1. Bad \in SUBSET Nat
    OBVIOUS
  <2> HIDE DEF Bad
  <2> QED BY <1>1, <2>1, LeastNat
<1>3. n \in 1..N /\ n - 1 \in 0..N
  OBVIOUS
<1>4. n - 1 \in Good
  BY <1>2, <1>3
<1> QED BY <1>3, <1>4

\* Induction over the subsets of a finite set, likewise.
LEMMA SubsetInduction ==
    ASSUME NEW S, IsFiniteSet(S), NEW Good,
           \A T \in SUBSET S : (\A R \in SUBSET T : R # T => R \in Good) => T \in Good
    PROVE  SUBSET S \subseteq Good
<1> DEFINE Bad == {T \in SUBSET S : T \notin Good}
           Counts == {Cardinality(T) : T \in Bad}
<1>1. SUFFICES ASSUME Bad # {} PROVE FALSE
  OBVIOUS
<1>2. \A T \in SUBSET S : IsFiniteSet(T) /\ Cardinality(T) \in Nat
  BY FS_Subset, FS_CardinalityType
<1>3. PICK c \in Counts : \A e \in Counts : c <= e
  <2>1. Counts \in SUBSET Nat /\ Counts # {}
    BY <1>1, <1>2
  <2> HIDE DEF Counts
  <2> QED BY <2>1, LeastNat
<1>4. PICK T \in Bad : c = Cardinality(T)
  OBVIOUS
<1>5. ASSUME NEW R \in SUBSET T, R # T PROVE R \in Good
  <2>1. Cardinality(R) < Cardinality(T)
    <3>1. Cardinality(R) <= Cardinality(T) /\ Cardinality(R) # Cardinality(T)
      BY <1>2, <1>5, FS_Subset
    <3> QED BY <1>2, <3>1
  <2>2. ~ (c <= Cardinality(R))
    BY <1>2, <1>4, <2>1
  <2> QED BY <1>3, <2>2
<1> QED BY <1>5

\* The same, one element at a time.
LEMMA FiniteInduction ==
    ASSUME NEW S, IsFiniteSet(S), NEW Good, {} \in Good,
           \A T \in SUBSET S, x \in S : x \notin T /\ T \in Good => T \cup {x} \in Good
    PROVE  S \in Good
<1>1. ASSUME NEW T \in SUBSET S, \A R \in SUBSET T : R # T => R \in Good PROVE T \in Good
  <2>1. CASE T = {}
    BY <2>1
  <2>2. CASE T # {}
    <3>1. PICK x \in T : TRUE
      BY <2>2
    <3>2. T \ {x} \in SUBSET S /\ x \in S /\ x \notin T \ {x} /\ T = (T \ {x}) \cup {x}
      OBVIOUS
    <3>3. T \ {x} \in Good
      BY <1>1
    <3> QED BY <3>2, <3>3
  <2> QED BY <2>1, <2>2
<1>2. SUBSET S \subseteq Good
  BY <1>1, SubsetInduction
<1> QED BY <1>2

\* The recursive function behind a sum, and the element it takes next.
Taken(s) == CHOOSE x \in s : TRUE
IsSum(f, S, g) ==
    g = [s \in SUBSET S |-> IF s = {} THEN 0 ELSE f[Taken(s)] + g[s \ {Taken(s)}]]

\* What the library means by a sum over a set.
LEMMA SumIsChosen ==
    ASSUME NEW f, NEW S
    PROVE  SumFunctionOnSet(f, S) = (CHOOSE g : IsSum(f, S, g))[S]
BY DEF SumFunctionOnSet, FoldFunctionOnSet, MapThenFoldSet, IsSum, Taken

\* One step of the recursion.
LEMMA IsSumAt ==
    ASSUME NEW f, NEW S, NEW g, IsSum(f, S, g), NEW s \in SUBSET S
    PROVE  g[s] = IF s = {} THEN 0 ELSE f[Taken(s)] + g[s \ {Taken(s)}]
BY DEF IsSum

\* Two such functions agree where both are defined.
LEMMA SumsAgree ==
    ASSUME NEW f, NEW S, IsFiniteSet(S), NEW R \in SUBSET S, NEW g, IsSum(f, S, g), NEW h, IsSum(f, R, h)
    PROVE  g[R] = h[R]
<1> DEFINE Good == {s \in SUBSET R : g[s] = h[s]}
<1>1. ASSUME NEW s \in SUBSET R, \A t \in SUBSET s : t # s => t \in Good PROVE s \in Good
  <2> DEFINE c == Taken(s)
  <2>1. g[s] = (IF s = {} THEN 0 ELSE f[c] + g[s \ {c}]) /\ h[s] = (IF s = {} THEN 0 ELSE f[c] + h[s \ {c}])
    <3>1. s \in SUBSET S
      OBVIOUS
    <3> QED BY <3>1, IsSumAt
  <2>2. s # {} => g[s \ {c}] = h[s \ {c}]
    <3>1. s # {} => c \in s
      BY DEF Taken
    <3> HIDE DEF c
    <3> QED BY <1>1, <3>1
  <2> HIDE DEF c
  <2> QED BY <2>1, <2>2
<1>2. IsFiniteSet(R)
  BY FS_Subset
<1> HIDE DEF Good
<1>3. R \in Good
  BY <1>1, <1>2, SubsetInduction
<1> QED BY <1>3 DEF Good

\* Any such function gives the sum.
LEMMA SumFrom ==
    ASSUME NEW f, NEW S, IsFiniteSet(S), NEW g, IsSum(f, S, g)
    PROVE  g[S] = SumFunctionOnSet(f, S)
<1>1. IsSum(f, S, CHOOSE h : IsSum(f, S, h))
  OBVIOUS
<1>2. g[S] = (CHOOSE h : IsSum(f, S, h))[S]
  BY <1>1, SumsAgree
<1> QED BY <1>2, SumIsChosen

\* There is one for every finite set.
LEMMA SumExists ==
    ASSUME NEW f, NEW S, IsFiniteSet(S)
    PROVE  \E g : IsSum(f, S, g)
<1> DEFINE Good == {T \in SUBSET S : \E g : IsSum(f, T, g)}
<1>1. ASSUME NEW T \in SUBSET S, \A R \in SUBSET T : R # T => R \in Good PROVE T \in Good
  <2> DEFINE G == [s \in SUBSET T |-> IF s = {} THEN 0 ELSE f[Taken(s)] + SumFunctionOnSet(f, s \ {Taken(s)})]
  <2>1. ASSUME NEW t \in SUBSET T, t # T PROVE G[t] = SumFunctionOnSet(f, t)
    <3>0. IsFiniteSet(t)
      BY FS_Subset
    <3>1. PICK h : IsSum(f, t, h)
      BY <1>1, <2>1
    <3>2. h[t] = SumFunctionOnSet(f, t)
      BY <3>0, <3>1, SumFrom
    <3>3. h[t] = IF t = {} THEN 0 ELSE f[Taken(t)] + h[t \ {Taken(t)}]
      BY <3>1, IsSumAt
    <3>4. t # {} => h[t \ {Taken(t)}] = SumFunctionOnSet(f, t \ {Taken(t)})
      <4>1. SUFFICES ASSUME t # {} PROVE h[t \ {Taken(t)}] = SumFunctionOnSet(f, t \ {Taken(t)})
        OBVIOUS
      <4>2. Taken(t) \in t
        BY <4>1 DEF Taken
      <4> DEFINE r == t \ {Taken(t)}
      <4>3. r \in SUBSET t /\ r \in SUBSET T /\ r # T
        BY <4>2
      <4> HIDE DEF r
      <4>4. PICK k : IsSum(f, r, k)
        BY <1>1, <4>3
      <4>5. IsFiniteSet(r)
        BY <3>0, <4>3, FS_Subset
      <4>6. h[r] = k[r]
        BY <3>0, <3>1, <4>3, <4>4, SumsAgree
      <4>7. k[r] = SumFunctionOnSet(f, r)
        BY <4>4, <4>5, SumFrom
      <4> QED BY <4>6, <4>7 DEF r
    <3> QED BY <3>2, <3>3, <3>4
  <2>2. IsSum(f, T, G)
    <3>1. ASSUME NEW s \in SUBSET T, s # {} PROVE G[s \ {Taken(s)}] = SumFunctionOnSet(f, s \ {Taken(s)})
      <4>1. Taken(s) \in s
        BY <3>1 DEF Taken
      <4>2. s \ {Taken(s)} \in SUBSET T /\ s \ {Taken(s)} # T
        BY <4>1
      <4> HIDE DEF G
      <4> QED BY <2>1, <4>2
    <3> DEFINE H == [s \in SUBSET T |-> IF s = {} THEN 0 ELSE f[Taken(s)] + G[s \ {Taken(s)}]]
    <3>2. \A s \in SUBSET T : G[s] = H[s]
      <4> TAKE s \in SUBSET T
      <4>1. G[s] = IF s = {} THEN 0 ELSE f[Taken(s)] + SumFunctionOnSet(f, s \ {Taken(s)})
        OBVIOUS
      <4>2. H[s] = IF s = {} THEN 0 ELSE f[Taken(s)] + G[s \ {Taken(s)}]
        BY DEF H
      <4> HIDE DEF G, H
      <4> QED BY <3>1, <4>1, <4>2
    <3>3. G = H
      <4>1. G = [s \in SUBSET T |-> G[s]] /\ H = [s \in SUBSET T |-> H[s]]
        OBVIOUS
      <4> HIDE DEF G, H
      <4> QED BY <3>2, <4>1
    <3> HIDE DEF G
    <3> QED BY <3>3 DEF IsSum
  <2> HIDE DEF G
  <2> QED BY <2>2
<1> HIDE DEF Good
<1>2. S \in Good
  BY <1>1, SubsetInduction
<1> QED BY <1>2 DEF Good

\* The sum takes one element after the other.
LEMMA SumUnfolds ==
    ASSUME NEW f, NEW S, IsFiniteSet(S)
    PROVE  SumFunctionOnSet(f, S) = IF S = {} THEN 0
                ELSE f[Taken(S)] + SumFunctionOnSet(f, S \ {Taken(S)})
<1> DEFINE r == S \ {Taken(S)}
<1>1. PICK g : IsSum(f, S, g)
  BY SumExists
<1>2. IsFiniteSet(r) /\ r \in SUBSET S
  BY FS_Subset
<1>3. PICK h : IsSum(f, r, h)
  BY <1>2, SumExists
<1>4. g[S] = SumFunctionOnSet(f, S)
  BY <1>1, SumFrom
<1>5. g[r] = SumFunctionOnSet(f, r)
  <2> HIDE DEF r
  <2>1. g[r] = h[r]
    BY <1>1, <1>2, <1>3, SumsAgree
  <2> QED BY <1>2, <1>3, <2>1, SumFrom
<1>6. g[S] = IF S = {} THEN 0 ELSE f[Taken(S)] + g[r]
  <2>1. S \in SUBSET S
    OBVIOUS
  <2> QED BY <1>1, <2>1 DEF IsSum
<1> QED BY <1>4, <1>5, <1>6

\* The rest of what is known of sums: they are integers, do not depend on the order,
\* on values outside the set, or on how the set is split.
LEMMA SumOfNone ==
    ASSUME NEW f
    PROVE  SumFunctionOnSet(f, {}) = 0
BY SumUnfolds, FS_EmptySet

\* A sum of integers is one.
LEMMA SumInt ==
    ASSUME NEW f, NEW S, IsFiniteSet(S), \A x \in S : f[x] \in Int
    PROVE  SumFunctionOnSet(f, S) \in Int
<1> DEFINE Good == {T \in SUBSET S : SumFunctionOnSet(f, T) \in Int}
<1>1. ASSUME NEW T \in SUBSET S, \A R \in SUBSET T : R # T => R \in Good PROVE T \in Good
  <2>1. IsFiniteSet(T)
    BY FS_Subset
  <2>2. CASE T = {}
    BY <2>2, SumOfNone
  <2>3. CASE T # {}
    <3>1. Taken(T) \in T
      BY <2>3 DEF Taken
    <3> DEFINE r == T \ {Taken(T)}
    <3>2. r \in SUBSET T /\ r # T
      BY <3>1
    <3>3. SumFunctionOnSet(f, r) \in Int
      <4> HIDE DEF r
      <4> QED BY <1>1, <3>2
    <3>4. SumFunctionOnSet(f, T) = f[Taken(T)] + SumFunctionOnSet(f, r)
      BY <2>1, <2>3, SumUnfolds
    <3>5. f[Taken(T)] \in Int
      BY <3>1
    <3> HIDE DEF r
    <3> QED BY <3>3, <3>4, <3>5
  <2> QED BY <2>2, <2>3
<1> HIDE DEF Good
<1>2. S \in Good
  BY <1>1, SubsetInduction
<1> QED BY <1>2 DEF Good

\* One of the summands taken apart.
LEMMA SumTakes ==
    ASSUME NEW f, NEW S, IsFiniteSet(S), \A x \in S : f[x] \in Int, NEW y \in S
    PROVE  SumFunctionOnSet(f, S) = f[y] + SumFunctionOnSet(f, S \ {y})
<1> DEFINE Good == {T \in SUBSET S : \A x \in T :
                        SumFunctionOnSet(f, T) = f[x] + SumFunctionOnSet(f, T \ {x})}
<1>1. ASSUME NEW T \in SUBSET S, \A R \in SUBSET T : R # T => R \in Good PROVE T \in Good
  <2> SUFFICES ASSUME NEW x \in T
               PROVE  SumFunctionOnSet(f, T) = f[x] + SumFunctionOnSet(f, T \ {x})
    OBVIOUS
  <2> DEFINE c == Taken(T)
  <2>1. c \in T
    BY DEF Taken
  <2>2. IsFiniteSet(T)
    BY FS_Subset
  <2>3. SumFunctionOnSet(f, T) = f[c] + SumFunctionOnSet(f, T \ {c})
    BY <2>2, SumUnfolds
  <2> HIDE DEF c
  <2>4. CASE x = c
    BY <2>3, <2>4
  <2>5. CASE x # c
    <3> DEFINE r == (T \ {c}) \ {x}
               Tc == T \ {c}
               Tx == T \ {x}
    <3>1. /\ Tc \in SUBSET T /\ Tc # T /\ x \in Tc /\ Tc \ {x} = r
          /\ Tx \in SUBSET T /\ Tx # T /\ c \in Tx /\ Tx \ {c} = r
      BY <2>1, <2>5
    <3>2. r \in SUBSET S /\ IsFiniteSet(r)
      BY <2>2, FS_Subset
    <3> HIDE DEF Tc, Tx, r
    <3>3. SumFunctionOnSet(f, Tc) = f[x] + SumFunctionOnSet(f, r)
      <4>1. Tc \in Good
        BY <1>1, <3>1
      <4> QED BY <3>1, <4>1
    <3>4. SumFunctionOnSet(f, Tx) = f[c] + SumFunctionOnSet(f, r)
      <4>1. Tx \in Good
        BY <1>1, <3>1
      <4> QED BY <3>1, <4>1
    <3>5. SumFunctionOnSet(f, r) \in Int /\ f[x] \in Int /\ f[c] \in Int
      BY <2>1, <3>2, SumInt
    <3>6. SumFunctionOnSet(f, T) = f[c] + SumFunctionOnSet(f, Tc)
      BY <2>3 DEF Tc
    <3>7. SumFunctionOnSet(f, T) = f[x] + SumFunctionOnSet(f, Tx)
      BY <3>3, <3>4, <3>5, <3>6
    <3> QED BY <3>7 DEF Tx
  <2> QED BY <2>4, <2>5
<1> HIDE DEF Good
<1>2. S \in Good
  BY <1>1, SubsetInduction
<1> QED BY <1>2 DEF Good

\* One more summand.
LEMMA SumAdds ==
    ASSUME NEW f, NEW S, IsFiniteSet(S), \A x \in S : f[x] \in Int, NEW y, y \notin S, f[y] \in Int
    PROVE  SumFunctionOnSet(f, S \cup {y}) = f[y] + SumFunctionOnSet(f, S)
<1> DEFINE T == S \cup {y}
<1>1. IsFiniteSet(T)
  BY FS_AddElement
<1>2. y \in T /\ T \ {y} = S /\ \A x \in T : f[x] \in Int
  OBVIOUS
<1> HIDE DEF T
<1>3. SumFunctionOnSet(f, T) = f[y] + SumFunctionOnSet(f, S)
  BY <1>1, <1>2, SumTakes
<1> QED BY <1>3 DEF T

\* Functions that agree have the same sum.
LEMMA SumCongruent ==
    ASSUME NEW f, NEW g, NEW S, IsFiniteSet(S), \A x \in S : f[x] \in Int /\ f[x] = g[x]
    PROVE  SumFunctionOnSet(f, S) = SumFunctionOnSet(g, S)
<1> DEFINE Good == {T \in SUBSET S : SumFunctionOnSet(f, T) = SumFunctionOnSet(g, T)}
<1>1. {} \in Good
  BY SumOfNone
<1>2. ASSUME NEW T \in SUBSET S, NEW x \in S, x \notin T, T \in Good PROVE T \cup {x} \in Good
  <2>1. IsFiniteSet(T)
    BY FS_Subset
  <2>2. SumFunctionOnSet(f, T \cup {x}) = f[x] + SumFunctionOnSet(f, T)
    BY <1>2, <2>1, SumAdds
  <2>3. SumFunctionOnSet(g, T \cup {x}) = g[x] + SumFunctionOnSet(g, T)
    <3>1. \A y \in T : g[y] \in Int
      OBVIOUS
    <3> QED BY <1>2, <2>1, <3>1, SumAdds
  <2>4. T \cup {x} \in SUBSET S
    OBVIOUS
  <2> QED BY <1>2, <2>2, <2>3, <2>4
<1> HIDE DEF Good
<1>3. S \in Good
  BY <1>1, <1>2, FiniteInduction
<1> QED BY <1>3 DEF Good

\* The sum over two sets that share nothing.
LEMMA SumUnion ==
    ASSUME NEW f, NEW A, NEW B, IsFiniteSet(A), IsFiniteSet(B), A \cap B = {},
           \A x \in A \cup B : f[x] \in Int
    PROVE  SumFunctionOnSet(f, A \cup B) = SumFunctionOnSet(f, A) + SumFunctionOnSet(f, B)
<1> DEFINE Good == {T \in SUBSET B : SumFunctionOnSet(f, A \cup T)
                                        = SumFunctionOnSet(f, A) + SumFunctionOnSet(f, T)}
<1>0. SumFunctionOnSet(f, A) \in Int
  BY SumInt
<1>1. {} \in Good
  <2>1. A \cup {} = A
    OBVIOUS
  <2> QED BY <1>0, <2>1, SumOfNone
<1>2. ASSUME NEW T \in SUBSET B, NEW x \in B, x \notin T, T \in Good PROVE T \cup {x} \in Good
  <2> DEFINE AT == A \cup T
  <2>1. IsFiniteSet(T) /\ IsFiniteSet(AT)
    BY FS_Subset, FS_Union
  <2>2. SumFunctionOnSet(f, T \cup {x}) = f[x] + SumFunctionOnSet(f, T)
    BY <1>2, <2>1, SumAdds
  <2>3. SumFunctionOnSet(f, AT \cup {x}) = f[x] + SumFunctionOnSet(f, AT)
    <3>1. x \notin AT /\ \A y \in AT : f[y] \in Int
      BY <1>2
    <3> HIDE DEF AT
    <3> QED BY <1>2, <2>1, <3>1, SumAdds
  <2>4. AT \cup {x} = A \cup (T \cup {x})
    OBVIOUS
  <2>5. T \cup {x} \in SUBSET B
    OBVIOUS
  <2>6. SumFunctionOnSet(f, T) \in Int /\ f[x] \in Int
    BY <2>1, SumInt
  <2>7. SumFunctionOnSet(f, AT) = SumFunctionOnSet(f, A) + SumFunctionOnSet(f, T)
    BY <1>2
  <2> DEFINE Tx == T \cup {x}
  <2>8. SumFunctionOnSet(f, A \cup Tx) = SumFunctionOnSet(f, A) + SumFunctionOnSet(f, Tx)
    <3>1. AT \cup {x} = A \cup Tx
      BY <2>4
    <3>2. SumFunctionOnSet(f, Tx) = f[x] + SumFunctionOnSet(f, T)
      BY <2>2
    <3> HIDE DEF AT, Tx
    <3>3. SumFunctionOnSet(f, A \cup Tx) = f[x] + SumFunctionOnSet(f, AT)
      BY <2>3, <3>1
    <3> QED BY <1>0, <2>6, <2>7, <3>2, <3>3
  <2> QED BY <2>5, <2>8
<1> HIDE DEF Good
<1>3. B \in Good
  BY <1>1, <1>2, FiniteInduction
<1> QED BY <1>3 DEF Good

\* A sum of zeros.
LEMMA SumOfZeros ==
    ASSUME NEW f, NEW S, IsFiniteSet(S), \A x \in S : f[x] = 0
    PROVE  SumFunctionOnSet(f, S) = 0
<1> DEFINE Good == {T \in SUBSET S : SumFunctionOnSet(f, T) = 0}
<1>1. {} \in Good
  BY SumOfNone
<1>2. ASSUME NEW T \in SUBSET S, NEW x \in S, x \notin T, T \in Good PROVE T \cup {x} \in Good
  <2>1. IsFiniteSet(T)
    BY FS_Subset
  <2>2. SumFunctionOnSet(f, T \cup {x}) = f[x] + SumFunctionOnSet(f, T)
    BY <1>2, <2>1, SumAdds
  <2>3. T \cup {x} \in SUBSET S
    OBVIOUS
  <2> QED BY <1>2, <2>2, <2>3
<1> HIDE DEF Good
<1>3. S \in Good
  BY <1>1, <1>2, FiniteInduction
<1> QED BY <1>3 DEF Good

\* A sum of ones counts.
LEMMA SumOfOnes ==
    ASSUME NEW f, NEW S, IsFiniteSet(S), \A x \in S : f[x] = 1
    PROVE  SumFunctionOnSet(f, S) = Cardinality(S)
<1> DEFINE Good == {T \in SUBSET S : SumFunctionOnSet(f, T) = Cardinality(T)}
<1>1. {} \in Good
  BY SumOfNone, FS_EmptySet
<1>2. ASSUME NEW T \in SUBSET S, NEW x \in S, x \notin T, T \in Good PROVE T \cup {x} \in Good
  <2>1. IsFiniteSet(T) /\ Cardinality(T) \in Nat
    BY FS_Subset, FS_CardinalityType
  <2>2. SumFunctionOnSet(f, T \cup {x}) = f[x] + SumFunctionOnSet(f, T)
    BY <1>2, <2>1, SumAdds
  <2>3. T \cup {x} \in SUBSET S
    OBVIOUS
  <2>4. Cardinality(T \cup {x}) = Cardinality(T) + 1
    BY <1>2, <2>1, FS_AddElement
  <2> QED BY <1>2, <2>1, <2>2, <2>3, <2>4
<1> HIDE DEF Good
<1>3. S \in Good
  BY <1>1, <1>2, FiniteInduction
<1> QED BY <1>3 DEF Good

\* The sum of what is negated.
LEMMA SumNegates ==
    ASSUME NEW f, NEW g, NEW S, IsFiniteSet(S), \A x \in S : f[x] \in Int /\ g[x] = -f[x]
    PROVE  SumFunctionOnSet(g, S) = -SumFunctionOnSet(f, S)
<1> DEFINE Good == {T \in SUBSET S : SumFunctionOnSet(g, T) = -SumFunctionOnSet(f, T)}
<1>1. {} \in Good
  BY SumOfNone
<1>2. ASSUME NEW T \in SUBSET S, NEW x \in S, x \notin T, T \in Good PROVE T \cup {x} \in Good
  <2>1. IsFiniteSet(T)
    BY FS_Subset
  <2>2. SumFunctionOnSet(f, T \cup {x}) = f[x] + SumFunctionOnSet(f, T)
    BY <1>2, <2>1, SumAdds
  <2>3. SumFunctionOnSet(g, T \cup {x}) = g[x] + SumFunctionOnSet(g, T)
    <3>1. \A y \in T : g[y] \in Int
      OBVIOUS
    <3> QED BY <1>2, <2>1, <3>1, SumAdds
  <2>4. T \cup {x} \in SUBSET S
    OBVIOUS
  <2>5. SumFunctionOnSet(f, T) \in Int
    BY <2>1, SumInt
  <2> QED BY <1>2, <2>2, <2>3, <2>4, <2>5
<1> HIDE DEF Good
<1>3. S \in Good
  BY <1>1, <1>2, FiniteInduction
<1> QED BY <1>3 DEF Good

\* The elements with one key.
Keyed(S, key, k) == {x \in S : key[x] = k}

\* A sum, taken part by part: F[k] is the sum of f over the elements with key k.
LEMMA SumOfParts ==
    ASSUME NEW f, NEW S, IsFiniteSet(S), \A x \in S : f[x] \in Int,
           NEW key, NEW K, IsFiniteSet(K), \A x \in S : key[x] \in K,
           NEW F, \A k \in K : F[k] = SumFunctionOnSet(f, Keyed(S, key, k))
    PROVE  SumFunctionOnSet(F, K) = SumFunctionOnSet(f, S)
<1> DEFINE Part(T, k) == Keyed(T, key, k)
           Parts(T) == [k \in K |-> SumFunctionOnSet(f, Part(T, k))]
           Good == {T \in SUBSET S : SumFunctionOnSet(Parts(T), K) = SumFunctionOnSet(f, T)}
<1>1. {} \in Good
  <2>1. \A k \in K : Part({}, k) = {}
    BY DEF Keyed
  <2>2. \A k \in K : Parts({})[k] = 0
    BY <2>1, SumOfNone
  <2> HIDE DEF Parts
  <2> QED BY <2>2, SumOfZeros, SumOfNone
<1>2. ASSUME NEW T \in SUBSET S, NEW x \in S, x \notin T, T \in Good PROVE T \cup {x} \in Good
  <2> DEFINE k == key[x]
             Tx == T \cup {x}
             R == K \ {k}
  <2>1. IsFiniteSet(T) /\ IsFiniteSet(Tx) /\ IsFiniteSet(R) /\ Tx \in SUBSET S /\ k \in K
    BY FS_Subset
  <2>2. SumFunctionOnSet(f, Tx) = f[x] + SumFunctionOnSet(f, T)
    BY <1>2, <2>1, SumAdds
  <2>3. \A j \in K : /\ IsFiniteSet(Part(T, j)) /\ IsFiniteSet(Part(Tx, j))
                     /\ SumFunctionOnSet(f, Part(T, j)) \in Int /\ SumFunctionOnSet(f, Part(Tx, j)) \in Int
    <3> TAKE j \in K
    <3>1. Part(T, j) \subseteq T /\ Part(Tx, j) \subseteq Tx
      BY DEF Keyed
    <3>2. \A y \in Part(T, j) \cup Part(Tx, j) : f[y] \in Int
      BY <2>1 DEF Keyed
    <3> HIDE DEF Part, Tx
    <3>3. IsFiniteSet(Part(T, j)) /\ IsFiniteSet(Part(Tx, j))
      BY <2>1, <3>1, FS_Subset
    <3> QED BY <3>2, <3>3, SumInt
  <2>4. \A j \in K : Parts(T)[j] \in Int /\ Parts(Tx)[j] \in Int
    <3> HIDE DEF Tx, Part
    <3> QED BY <2>3
  <2>5. Parts(Tx)[k] = f[x] + Parts(T)[k]
    <3>1. Part(Tx, k) = Part(T, k) \cup {x} /\ x \notin Part(T, k) /\ \A y \in Part(T, k) : f[y] \in Int
      BY <1>2 DEF Keyed
    <3>2. Parts(Tx)[k] = SumFunctionOnSet(f, Part(Tx, k)) /\ Parts(T)[k] = SumFunctionOnSet(f, Part(T, k))
      BY <2>1
    <3>3. f[x] \in Int
      OBVIOUS
    <3> HIDE DEF Part, Parts, Tx, k
    <3>4. SumFunctionOnSet(f, Part(T, k) \cup {x}) = f[x] + SumFunctionOnSet(f, Part(T, k))
      BY <2>1, <2>3, <3>1, <3>3, SumAdds
    <3> QED BY <3>1, <3>2, <3>4
  <2>6. \A j \in R : Parts(Tx)[j] = Parts(T)[j]
    <3> TAKE j \in R
    <3>1. Part(Tx, j) = Part(T, j)
      BY DEF Keyed
    <3>2. j \in K
      OBVIOUS
    <3> HIDE DEF Part, Tx
    <3> QED BY <3>1, <3>2
  <2>7. R \subseteq K
    OBVIOUS
  <2>8. f[x] \in Int
    OBVIOUS
  <2> DEFINE P == Parts(T)
             Q == Parts(Tx)
  <2>9. /\ \A j \in K : P[j] \in Int /\ Q[j] \in Int
        /\ Q[k] = f[x] + P[k]
        /\ \A j \in R : Q[j] = P[j]
        /\ SumFunctionOnSet(P, K) = SumFunctionOnSet(f, T)
    BY <1>2, <2>4, <2>5, <2>6
  <2>10. SumFunctionOnSet(P, K) = P[k] + SumFunctionOnSet(P, R) /\ SumFunctionOnSet(Q, K) = Q[k] + SumFunctionOnSet(Q, R)
    <3> HIDE DEF P, Q, k
    <3> QED BY <2>1, <2>9, SumTakes
  <2>11. SumFunctionOnSet(Q, R) = SumFunctionOnSet(P, R) /\ SumFunctionOnSet(P, R) \in Int
    <3> HIDE DEF P, Q, R
    <3> QED BY <2>1, <2>7, <2>9, SumCongruent, SumInt
  <2>12. SumFunctionOnSet(f, T) \in Int
    BY <2>1, SumInt
  <2>13. SumFunctionOnSet(Q, K) = SumFunctionOnSet(f, Tx)
    <3> HIDE DEF P, Q, R, k, Tx
    <3> QED BY <2>1, <2>2, <2>8, <2>9, <2>10, <2>11, <2>12
  <2> QED BY <2>1, <2>13
<1> HIDE DEF Good
<1>3. S \in Good
  BY <1>1, <1>2, FiniteInduction
<1>4. SumFunctionOnSet(Parts(S), K) = SumFunctionOnSet(f, S)
  BY <1>3 DEF Good
<1>5. \A k \in K : Parts(S)[k] = F[k] /\ Parts(S)[k] \in Int
  <2> TAKE k \in K
  <2>1. Parts(S)[k] = SumFunctionOnSet(f, Part(S, k)) /\ F[k] = SumFunctionOnSet(f, Part(S, k))
    OBVIOUS
  <2>2. IsFiniteSet(Part(S, k)) /\ \A y \in Part(S, k) : f[y] \in Int
    BY FS_Subset DEF Keyed
  <2> HIDE DEF Part, Parts
  <2> QED BY <2>1, <2>2, SumInt
<1> HIDE DEF Parts
<1>6. SumFunctionOnSet(Parts(S), K) = SumFunctionOnSet(F, K)
  BY <1>5, SumCongruent
<1> QED BY <1>4, <1>6

\* A sum of naturals is one.
LEMMA SumNatural ==
    ASSUME NEW f, NEW S, IsFiniteSet(S), \A x \in S : f[x] \in Nat
    PROVE  SumFunctionOnSet(f, S) \in Nat
<1> DEFINE Good == {T \in SUBSET S : SumFunctionOnSet(f, T) \in Nat}
<1>1. {} \in Good
  BY SumOfNone
<1>2. ASSUME NEW T \in SUBSET S, NEW x \in S, x \notin T, T \in Good PROVE T \cup {x} \in Good
  <2>1. IsFiniteSet(T) /\ \A y \in T : f[y] \in Int
    BY FS_Subset
  <2>2. SumFunctionOnSet(f, T \cup {x}) = f[x] + SumFunctionOnSet(f, T)
    BY <1>2, <2>1, SumAdds
  <2>3. T \cup {x} \in SUBSET S
    OBVIOUS
  <2> QED BY <1>2, <2>2, <2>3
<1> HIDE DEF Good
<1>3. S \in Good
  BY <1>1, <1>2, FiniteInduction
<1> QED BY <1>3 DEF Good

\* It is at least what each of them is.
LEMMA SumAtLeast ==
    ASSUME NEW f, NEW S, IsFiniteSet(S), \A x \in S : f[x] \in Nat, NEW y \in S
    PROVE  f[y] <= SumFunctionOnSet(f, S)
<1> DEFINE R == S \ {y}
<1>1. IsFiniteSet(R) /\ \A x \in R : f[x] \in Nat
  BY FS_Subset
<1>2. SumFunctionOnSet(f, S) = f[y] + SumFunctionOnSet(f, R)
  <2>1. \A x \in S : f[x] \in Int
    OBVIOUS
  <2> QED BY <2>1, SumTakes
<1> HIDE DEF R
<1>3. SumFunctionOnSet(f, R) \in Nat
  BY <1>1, SumNatural
<1> QED BY <1>2, <1>3

\* A sum of multiples.
Mixed(f, g, h, S, p, q) ==
    \A x \in S : f[x] \in Int /\ g[x] \in Int /\ h[x] = p * f[x] + q * g[x]

\* The sum of a combination combines the sums.
LEMMA SumCombines ==
    ASSUME NEW f, NEW g, NEW h, NEW S, IsFiniteSet(S), NEW p \in Int, NEW q \in Int,
           Mixed(f, g, h, S, p, q)
    PROVE  SumFunctionOnSet(h, S) = p * SumFunctionOnSet(f, S) + q * SumFunctionOnSet(g, S)
<1> DEFINE Good == {T \in SUBSET S : SumFunctionOnSet(h, T)
                                        = p * SumFunctionOnSet(f, T) + q * SumFunctionOnSet(g, T)}
<1>1. {} \in Good
  BY SumOfNone
<1>2. ASSUME NEW T \in SUBSET S, NEW x \in S, x \notin T, T \in Good PROVE T \cup {x} \in Good
  <2>1. IsFiniteSet(T) /\ \A y \in T : f[y] \in Int /\ g[y] \in Int /\ h[y] \in Int
    BY FS_Subset DEF Mixed
  <2>2. /\ SumFunctionOnSet(f, T \cup {x}) = f[x] + SumFunctionOnSet(f, T)
        /\ SumFunctionOnSet(g, T \cup {x}) = g[x] + SumFunctionOnSet(g, T)
    <3>1. f[x] \in Int /\ g[x] \in Int
      BY DEF Mixed
    <3> QED BY <1>2, <2>1, <3>1, SumAdds
  <2>3. SumFunctionOnSet(h, T \cup {x}) = h[x] + SumFunctionOnSet(h, T)
    <3>1. h[x] \in Int
      BY DEF Mixed
    <3> QED BY <1>2, <2>1, <3>1, SumAdds
  <2>4. T \cup {x} \in SUBSET S
    OBVIOUS
  <2>5. SumFunctionOnSet(f, T) \in Int /\ SumFunctionOnSet(g, T) \in Int
    BY <2>1, SumInt
  <2>6. SumFunctionOnSet(h, T) = p * SumFunctionOnSet(f, T) + q * SumFunctionOnSet(g, T)
    BY <1>2
  <2>7. f[x] \in Int /\ g[x] \in Int /\ h[x] = p * f[x] + q * g[x]
    BY DEF Mixed
  <2> DEFINE F == SumFunctionOnSet(f, T)
             G == SumFunctionOnSet(g, T)
             a == f[x]
             b == g[x]
  <2>8. SumFunctionOnSet(h, T \cup {x}) = p * (a + F) + q * (b + G)
    <3>1. SumFunctionOnSet(h, T \cup {x}) = (p * a + q * b) + (p * F + q * G)
      BY <2>3, <2>6, <2>7
    <3>2. a \in Int /\ b \in Int /\ F \in Int /\ G \in Int
      BY <2>5, <2>7
    <3> HIDE DEF a, b, F, G
    <3>3. (p * a + q * b) + (p * F + q * G) = p * (a + F) + q * (b + G)
      BY <3>2
    <3> QED BY <3>1, <3>3
  <2> QED BY <2>2, <2>4, <2>8
<1> HIDE DEF Good
<1>3. S \in Good
  BY <1>1, <1>2, FiniteInduction
<1> QED BY <1>3 DEF Good

\* No part sums up to less than what is negative.
LEMMA SumOfPart ==
    ASSUME NEW f, NEW D, IsFiniteSet(D), \A x \in D : f[x] \in Int, NEW S \in SUBSET D
    PROVE  SumFunctionOnSet(f, {x \in D : f[x] < 0}) <= SumFunctionOnSet(f, S)
<1> DEFINE L == {x \in D : f[x] < 0}
           A == L \cap S
           B == L \ S
           C == S \ L
           n == [x \in D |-> -f[x]]
<1>1. /\ IsFiniteSet(A) /\ IsFiniteSet(B) /\ IsFiniteSet(C) /\ A \cap B = {} /\ A \cap C = {}
      /\ L = A \cup B /\ S = A \cup C
  BY FS_Subset
<1>2. /\ \A x \in A \cup B : f[x] \in Int
      /\ \A x \in A \cup C : f[x] \in Int
      /\ \A x \in C : f[x] \in Nat
      /\ \A x \in B : n[x] \in Nat /\ f[x] = -n[x] /\ n[x] \in Int
  OBVIOUS
<1> HIDE DEF A, B, C, n
<1>3. /\ SumFunctionOnSet(f, L) = SumFunctionOnSet(f, A) + SumFunctionOnSet(f, B)
      /\ SumFunctionOnSet(f, S) = SumFunctionOnSet(f, A) + SumFunctionOnSet(f, C)
  <2> HIDE DEF L
  <2>1. SumFunctionOnSet(f, A \cup B) = SumFunctionOnSet(f, A) + SumFunctionOnSet(f, B)
    BY <1>1, <1>2, SumUnion
  <2>2. SumFunctionOnSet(f, A \cup C) = SumFunctionOnSet(f, A) + SumFunctionOnSet(f, C)
    BY <1>1, <1>2, SumUnion
  <2> QED BY <1>1, <2>1, <2>2
<1>4. SumFunctionOnSet(f, C) \in Nat /\ SumFunctionOnSet(n, B) \in Nat
  BY <1>1, <1>2, SumNatural
<1>5. SumFunctionOnSet(f, B) = -SumFunctionOnSet(n, B)
  BY <1>1, <1>2, SumNegates
<1>6. SumFunctionOnSet(f, A) \in Int
  BY <1>1, <1>2, SumInt
<1> HIDE DEF L
<1>7. SumFunctionOnSet(f, L) <= SumFunctionOnSet(f, S)
  BY <1>3, <1>4, <1>5, <1>6
<1> QED BY <1>7 DEF L

-----------------------------------------------------------------------------
(***************************************************************************)
(* Curves of gains and their falls.                                        *)
(***************************************************************************)

\* What the first n gains make.
Balance(f, n) == SumFunctionOnSet(f, 1..n)

\* A stretch of gains makes the difference of the balances at its ends.
LEMMA BalanceGrows ==
    ASSUME NEW f, NEW N \in Nat, \A n \in 1..N : f[n] \in Int
    PROVE  /\ Balance(f, 0) = 0
           /\ \A n \in 0..N : Balance(f, n) \in Int
           /\ \A n \in 1..N : Balance(f, n) = Balance(f, n - 1) + f[n]
           /\ \A a, b \in 1..N : a <= b => SumFunctionOnSet(f, a..b) = Balance(f, b) - Balance(f, a - 1)
<1>1. Balance(f, 0) = 0
  <2>1. 1..0 = {}
    OBVIOUS
  <2> QED BY <2>1, SumOfNone DEF Balance
<1>2. \A n \in 0..N : Balance(f, n) \in Int
  <2> TAKE n \in 0..N
  <2>1. IsFiniteSet(1..n) /\ \A m \in 1..n : f[m] \in Int
    BY FS_Interval
  <2> QED BY <2>1, SumInt DEF Balance
<1>3. \A n \in 1..N : Balance(f, n) = Balance(f, n - 1) + f[n]
  <2> TAKE n \in 1..N
  <2>1. IsFiniteSet(1..n) /\ n \in 1..n /\ (1..n) \ {n} = 1..n - 1
    BY FS_Interval
  <2>2. \A m \in 1..n : f[m] \in Int
    OBVIOUS
  <2>3. SumFunctionOnSet(f, 1..n) = f[n] + SumFunctionOnSet(f, (1..n) \ {n})
    BY <2>1, <2>2, SumTakes
  <2>4. Balance(f, n - 1) \in Int /\ f[n] \in Int
    BY <1>2
  <2>5. Balance(f, n) = f[n] + Balance(f, n - 1)
    BY <2>1, <2>3 DEF Balance
  <2> QED BY <2>4, <2>5
<1>4. ASSUME NEW a \in 1..N, NEW b \in 1..N, a <= b
      PROVE  SumFunctionOnSet(f, a..b) = Balance(f, b) - Balance(f, a - 1)
  <2> DEFINE A == 1..a - 1
             B == a..b
  <2>1. IsFiniteSet(A) /\ IsFiniteSet(B) /\ A \cap B = {} /\ A \cup B = 1..b
    BY <1>4, FS_Interval
  <2>2. \A m \in A \cup B : f[m] \in Int
    BY <2>1
  <2> HIDE DEF A, B
  <2>3. SumFunctionOnSet(f, A \cup B) = SumFunctionOnSet(f, A) + SumFunctionOnSet(f, B)
    BY <2>1, <2>2, SumUnion
  <2>4. SumFunctionOnSet(f, A) \in Int /\ SumFunctionOnSet(f, B) \in Int
    BY <2>1, <2>2, SumInt
  <2>5. Balance(f, b) = SumFunctionOnSet(f, A) + SumFunctionOnSet(f, B)
    BY <2>1, <2>3 DEF Balance
  <2>6. Balance(f, a - 1) = SumFunctionOnSet(f, A)
    BY DEF Balance, A
  <2>7. SumFunctionOnSet(f, B) = Balance(f, b) - Balance(f, a - 1)
    BY <2>4, <2>5, <2>6
  <2> QED BY <2>7 DEF B
<1> QED BY <1>1, <1>2, <1>3, <1>4

\* The balance after n gains, the highest so far, and the largest fall to a later balance.
FallOf(f, sum, peak, drop, n) ==
    /\ peak \in Int /\ drop \in Int /\ sum = Balance(f, n)
    /\ \A m \in 0..n : Balance(f, m) <= peak
    /\ \E m \in 0..n : peak = Balance(f, m)
    /\ \A m, k \in 0..n : m <= k => Balance(f, m) - Balance(f, k) <= drop
    /\ \E m, k \in 0..n : m <= k /\ drop = Balance(f, m) - Balance(f, k)

\* Before any gain nothing has fallen.
LEMMA FallStarts ==
    ASSUME NEW f
    PROVE  FallOf(f, 0, 0, 0, 0)
<1>1. Balance(f, 0) = 0 /\ 0 \in 0..0 /\ \A m \in 0..0 : m = 0
  <2>1. 1..0 = {}
    OBVIOUS
  <2> QED BY <2>1, SumOfNone DEF Balance
<1> QED BY <1>1 DEF FallOf

\* One more gain.
LEMMA FallStep ==
    ASSUME NEW f, NEW N \in Nat, \A i \in 1..N : f[i] \in Int, NEW n \in 1..N,
           NEW sum, NEW peak, NEW drop, FallOf(f, sum, peak, drop, n - 1),
           NEW high, NEW deep,
           high = IF peak >= sum + f[n] THEN peak ELSE sum + f[n],
           deep = IF drop >= high - (sum + f[n]) THEN drop ELSE high - (sum + f[n])
    PROVE  FallOf(f, sum + f[n], high, deep, n)
<1> DEFINE e == Balance(f, n)
<1>1. n \in Int /\ n \in 1..N /\ n - 1 \in 0..N /\ n \in 0..N /\ 0..n = (0..n - 1) \cup {n}
  OBVIOUS
<1>2. /\ \A m \in 0..N : Balance(f, m) \in Int
      /\ e = Balance(f, n - 1) + f[n] /\ f[n] \in Int
  BY BalanceGrows
<1>3. sum = Balance(f, n - 1) /\ sum \in Int /\ peak \in Int /\ drop \in Int
  BY <1>1, <1>2 DEF FallOf
<1>4. /\ sum + f[n] = e
      /\ high = (IF peak >= e THEN peak ELSE e)
      /\ deep = (IF drop >= high - e THEN drop ELSE high - e)
  BY <1>2, <1>3
<1>5. \A m \in 0..n - 1 : m \in 0..N /\ m <= n
  BY <1>1
<1> HIDE DEF e
<1>6. e \in Int /\ e = Balance(f, n) /\ high \in Int /\ deep \in Int
  BY <1>1, <1>2, <1>3, <1>4 DEF e
<1>7. \A m \in 0..n : Balance(f, m) <= high
  <2> TAKE m \in 0..n
  <2>1. CASE m = n
    BY <1>3, <1>4, <1>6, <2>1
  <2>2. CASE m \in 0..n - 1
    <3>1. Balance(f, m) <= peak /\ Balance(f, m) \in Int
      BY <1>2, <1>5, <2>2 DEF FallOf
    <3> QED BY <1>3, <1>4, <1>6, <3>1
  <2> QED BY <1>1, <2>1, <2>2
<1>8. \E m \in 0..n : high = Balance(f, m)
  <2>1. PICK m \in 0..n - 1 : peak = Balance(f, m)
    BY DEF FallOf
  <2> QED BY <1>1, <1>4, <1>6, <2>1
<1>9. \A m, k \in 0..n : m <= k => Balance(f, m) - Balance(f, k) <= deep
  <2> SUFFICES ASSUME NEW m \in 0..n, NEW k \in 0..n, m <= k PROVE Balance(f, m) - Balance(f, k) <= deep
    OBVIOUS
  <2>1. CASE k = n
    <3>1. Balance(f, m) <= high /\ Balance(f, m) \in Int
      BY <1>1, <1>2, <1>5, <1>7
    <3>2. high - e <= deep
      BY <1>3, <1>4, <1>6
    <3> QED BY <1>6, <2>1, <3>1, <3>2
  <2>2. CASE k # n
    <3>1. m \in 0..n - 1 /\ k \in 0..n - 1
      BY <1>1, <2>2
    <3>2. Balance(f, m) - Balance(f, k) <= drop /\ Balance(f, m) \in Int /\ Balance(f, k) \in Int
      BY <1>2, <1>5, <3>1 DEF FallOf
    <3>3. drop <= deep
      BY <1>3, <1>4, <1>6
    <3> QED BY <1>3, <1>6, <3>2, <3>3
  <2> QED BY <2>1, <2>2
<1>10. \E m, k \in 0..n : m <= k /\ deep = Balance(f, m) - Balance(f, k)
  <2>1. CASE deep = drop
    <3>1. PICK m \in 0..n - 1, k \in 0..n - 1 : m <= k /\ drop = Balance(f, m) - Balance(f, k)
      BY DEF FallOf
    <3> QED BY <1>1, <2>1, <3>1
  <2>2. CASE deep = high - e
    <3>1. PICK m \in 0..n : high = Balance(f, m)
      BY <1>8
    <3>2. m <= n /\ n \in 0..n
      BY <1>1
    <3> QED BY <1>6, <2>2, <3>1, <3>2
  <2> QED BY <1>4, <2>1, <2>2
<1> QED BY <1>4, <1>6, <1>7, <1>8, <1>9, <1>10 DEF FallOf

-----------------------------------------------------------------------------
(***************************************************************************)
(* ClosedPositions: the parts add up, no row is lost, the calendar is the  *)
(* range.                                                                  *)
(***************************************************************************)

\* The rows of a history, and what a filter keeps of them.
LEMMA ClosedRows ==
    ASSUME ClosedTypeOK
    PROVE  /\ TradeRows = 1..Len(history) /\ Len(history) \in Nat /\ IsFiniteSet(TradeRows)
           /\ \A i \in TradeRows : /\ history[i] \in ClosedTrade /\ history[i].pnl \in Int
                                   /\ history[i].close \in Optional /\ history[i].open \in Optional
           /\ \A I \in SUBSET TradeRows : IsFiniteSet(I) /\ Cardinality(I) \in Nat
           /\ Kept \subseteq TradeRows /\ Dated \subseteq Kept
<1>1. TradeRows = 1..Len(history) /\ Len(history) \in Nat
  BY DEF TradeRows, ClosedTypeOK
<1>2. IsFiniteSet(TradeRows)
  BY <1>1, FS_Interval
<1>3. \A I \in SUBSET TradeRows : IsFiniteSet(I) /\ Cardinality(I) \in Nat
  BY <1>2, FS_Subset, FS_CardinalityType
<1>4. \A i \in TradeRows : history[i] \in ClosedTrade
  BY DEF TradeRows, ClosedTypeOK
<1>5. \A i \in TradeRows : history[i].pnl \in Int /\ history[i].close \in Optional /\ history[i].open \in Optional
  BY <1>4, ClosedAssumption
<1>6. Kept \subseteq TradeRows /\ Dated \subseteq Kept
  BY DEF Kept, Dated
<1> QED BY <1>1, <1>2, <1>3, <1>4, <1>5, <1>6

\* What the columns of a table are sums of.
Profits == [i \in TradeRows |-> history[i].pnl]
Losses == [i \in TradeRows |-> -history[i].pnl]
Ones == [i \in TradeRows |-> 1]

\* A row of a table, as sums.
LEMMA RowOf ==
    ASSUME ClosedTypeOK, NEW I \in SUBSET TradeRows
    PROVE  /\ BreakdownRow(I).trades = SumFunctionOnSet(Ones, I)
           /\ BreakdownRow(I).pnl = SumFunctionOnSet(Profits, I)
           /\ BreakdownRow(I).profit = SumFunctionOnSet(Profits, Won(I))
           /\ BreakdownRow(I).loss = SumFunctionOnSet(Losses, Lost(I))
           /\ BreakdownRow(I).wins = SumFunctionOnSet(Ones, Won(I))
<1>1. Won(I) \in SUBSET TradeRows /\ Lost(I) \in SUBSET TradeRows
  BY DEF Won, Lost
<1>2. \A J \in SUBSET TradeRows : Cardinality(J) = SumFunctionOnSet(Ones, J)
  <2> TAKE J \in SUBSET TradeRows
  <2>1. IsFiniteSet(J) /\ \A i \in J : Ones[i] = 1
    BY ClosedRows DEF Ones
  <2> QED BY <2>1, SumOfOnes
<1>3. \A J \in SUBSET TradeRows : Pnl(J) = SumFunctionOnSet(Profits, J)
  BY DEF Pnl, Profits
<1>4. -Pnl(Lost(I)) = SumFunctionOnSet(Losses, Lost(I))
  <2>1. \A i \in Lost(I) : Profits[i] \in Int /\ Losses[i] = -Profits[i]
    BY <1>1, ClosedRows DEF Profits, Losses
  <2>2. IsFiniteSet(Lost(I))
    BY <1>1, ClosedRows
  <2>3. SumFunctionOnSet(Losses, Lost(I)) = -SumFunctionOnSet(Profits, Lost(I))
    BY <2>1, <2>2, SumNegates
  <2> QED BY <1>1, <1>3, <2>3
<1> QED BY <1>1, <1>2, <1>3, <1>4 DEF BreakdownRow

LEMMA RowsAreSums ==
    ASSUME ClosedTypeOK
    PROVE  \A i \in TradeRows : Profits[i] \in Int /\ Losses[i] \in Int /\ Ones[i] \in Int
BY ClosedRows DEF Profits, Losses, Ones

\* The rows of a table by any key add up to the row of them all.
LEMMA TableAddsUp ==
    ASSUME ClosedTypeOK, NEW I \in SUBSET TradeRows, NEW key, NEW K, K = {key[i] : i \in I},
           NEW rows, rows = [k \in K |-> BreakdownRow(Keyed(I, key, k))]
    PROVE  Total(rows) = BreakdownRow(I)
<1> DEFINE Part(k) == Keyed(I, key, k)
           T == Total(rows)
           R == BreakdownRow(I)
           Column(c) == [k \in DOMAIN rows |-> rows[k][c]]
           Fields == {"trades", "pnl", "profit", "loss", "wins"}
<1>1. IsFiniteSet(I) /\ IsFiniteSet(K) /\ DOMAIN rows = K
  <2>1. IsFiniteSet(I)
    BY ClosedRows
  <2> DEFINE kf == [i \in I |-> key[i]]
  <2>2. kf \in Surjection(I, K)
    BY DEF Surjection
  <2> HIDE DEF kf
  <2>3. IsFiniteSet(K)
    BY <2>1, <2>2, FS_Surjection
  <2> QED BY <2>1, <2>3
<1>2. \A k \in K : Part(k) \in SUBSET TradeRows /\ rows[k] = BreakdownRow(Part(k))
  BY DEF Keyed
<1>3. \A k \in K : Won(Part(k)) = Keyed(Won(I), key, k) /\ Lost(Part(k)) = Keyed(Lost(I), key, k)
  BY DEF Won, Lost, Keyed
<1>4. /\ Won(I) \in SUBSET I /\ Lost(I) \in SUBSET I /\ I \in SUBSET I
  BY DEF Won, Lost
<1>5. \A J \in SUBSET I : IsFiniteSet(J) /\ \A i \in J :
          key[i] \in K /\ Profits[i] \in Int /\ Losses[i] \in Int /\ Ones[i] \in Int
  BY <1>1, RowsAreSums, FS_Subset
<1>6. \A k \in K : /\ rows[k].trades = SumFunctionOnSet(Ones, Keyed(I, key, k))
                   /\ rows[k].pnl = SumFunctionOnSet(Profits, Keyed(I, key, k))
                   /\ rows[k].profit = SumFunctionOnSet(Profits, Keyed(Won(I), key, k))
                   /\ rows[k].loss = SumFunctionOnSet(Losses, Keyed(Lost(I), key, k))
                   /\ rows[k].wins = SumFunctionOnSet(Ones, Keyed(Won(I), key, k))
  <2> TAKE k \in K
  <2> HIDE DEF Part
  <2>1. /\ rows[k].trades = SumFunctionOnSet(Ones, Part(k))
        /\ rows[k].pnl = SumFunctionOnSet(Profits, Part(k))
        /\ rows[k].profit = SumFunctionOnSet(Profits, Won(Part(k)))
        /\ rows[k].loss = SumFunctionOnSet(Losses, Lost(Part(k)))
        /\ rows[k].wins = SumFunctionOnSet(Ones, Won(Part(k)))
    BY <1>2, RowOf
  <2> QED BY <1>3, <2>1 DEF Part
<1>7. /\ SumFunctionOnSet(Column("trades"), K) = R.trades
      /\ SumFunctionOnSet(Column("pnl"), K) = R.pnl
      /\ SumFunctionOnSet(Column("profit"), K) = R.profit
      /\ SumFunctionOnSet(Column("loss"), K) = R.loss
      /\ SumFunctionOnSet(Column("wins"), K) = R.wins
  <2>1. \A k \in K : /\ Column("trades")[k] = rows[k].trades /\ Column("pnl")[k] = rows[k].pnl
                     /\ Column("profit")[k] = rows[k].profit /\ Column("loss")[k] = rows[k].loss
                     /\ Column("wins")[k] = rows[k].wins
    BY <1>1
  <2> HIDE DEF Column
  <2>2. SumFunctionOnSet(Column("trades"), K) = SumFunctionOnSet(Ones, I)
    <3> DEFINE C == Column("trades")
    <3>1. \A k \in K : C[k] = SumFunctionOnSet(Ones, Keyed(I, key, k))
      BY <1>6, <2>1
    <3>2. IsFiniteSet(I) /\ \A i \in I : key[i] \in K /\ Ones[i] \in Int
      BY <1>4, <1>5
    <3> HIDE DEF C
    <3>3. SumFunctionOnSet(C, K) = SumFunctionOnSet(Ones, I)
      BY <1>1, <3>1, <3>2, SumOfParts
    <3> QED BY <3>3 DEF C
  <2>3. SumFunctionOnSet(Column("pnl"), K) = SumFunctionOnSet(Profits, I)
    <3> DEFINE C == Column("pnl")
    <3>1. \A k \in K : C[k] = SumFunctionOnSet(Profits, Keyed(I, key, k))
      BY <1>6, <2>1
    <3>2. IsFiniteSet(I) /\ \A i \in I : key[i] \in K /\ Profits[i] \in Int
      BY <1>4, <1>5
    <3> HIDE DEF C
    <3>3. SumFunctionOnSet(C, K) = SumFunctionOnSet(Profits, I)
      BY <1>1, <3>1, <3>2, SumOfParts
    <3> QED BY <3>3 DEF C
  <2>4. SumFunctionOnSet(Column("profit"), K) = SumFunctionOnSet(Profits, Won(I))
    <3> DEFINE C == Column("profit")
    <3>1. \A k \in K : C[k] = SumFunctionOnSet(Profits, Keyed(Won(I), key, k))
      BY <1>6, <2>1
    <3>2. IsFiniteSet(Won(I)) /\ \A i \in Won(I) : key[i] \in K /\ Profits[i] \in Int
      BY <1>4, <1>5
    <3> HIDE DEF C
    <3>3. SumFunctionOnSet(C, K) = SumFunctionOnSet(Profits, Won(I))
      BY <1>1, <3>1, <3>2, SumOfParts
    <3> QED BY <3>3 DEF C
  <2>5. SumFunctionOnSet(Column("loss"), K) = SumFunctionOnSet(Losses, Lost(I))
    <3> DEFINE C == Column("loss")
    <3>1. \A k \in K : C[k] = SumFunctionOnSet(Losses, Keyed(Lost(I), key, k))
      BY <1>6, <2>1
    <3>2. IsFiniteSet(Lost(I)) /\ \A i \in Lost(I) : key[i] \in K /\ Losses[i] \in Int
      BY <1>4, <1>5
    <3> HIDE DEF C
    <3>3. SumFunctionOnSet(C, K) = SumFunctionOnSet(Losses, Lost(I))
      BY <1>1, <3>1, <3>2, SumOfParts
    <3> QED BY <3>3 DEF C
  <2>6. SumFunctionOnSet(Column("wins"), K) = SumFunctionOnSet(Ones, Won(I))
    <3> DEFINE C == Column("wins")
    <3>1. \A k \in K : C[k] = SumFunctionOnSet(Ones, Keyed(Won(I), key, k))
      BY <1>6, <2>1
    <3>2. IsFiniteSet(Won(I)) /\ \A i \in Won(I) : key[i] \in K /\ Ones[i] \in Int
      BY <1>4, <1>5
    <3> HIDE DEF C
    <3>3. SumFunctionOnSet(C, K) = SumFunctionOnSet(Ones, Won(I))
      BY <1>1, <3>1, <3>2, SumOfParts
    <3> QED BY <3>3 DEF C
  <2> QED BY <2>2, <2>3, <2>4, <2>5, <2>6, RowOf
<1>8. T = [c \in Fields |-> SumFunctionOnSet(Column(c), K)]
  <2>1. \A c : DOMAIN Column(c) = K
    BY <1>1
  <2> QED BY <2>1 DEF Total, SumFunction
<1>9. R = [c \in Fields |-> R[c]]
  BY DEF BreakdownRow
<1>10. \A c \in Fields : SumFunctionOnSet(Column(c), K) = R[c]
  <2> HIDE DEF R, Column
  <2> QED BY <1>7
<1> HIDE DEF T, R, Fields, Column
<1>11. T = R
  BY <1>8, <1>9, <1>10
<1> QED BY <1>11 DEF T, R

\* Every breakdown accounts for each trade once.
LEMMA BreakdownsAddUp ==
    ASSUME ClosedTypeOK
    PROVE  PartsAddUp
<1> SUFFICES ASSUME NEW group \in Group PROVE Total(Breakdown(group)) = BreakdownRow(Kept)
  BY DEF PartsAddUp
<1> DEFINE key == [i \in Kept |-> _breakdown_key(history[i], group)]
           K == {key[i] : i \in Kept}
<1>1. \A k : {i \in Kept : _breakdown_key(history[i], group) = k} = Keyed(Kept, key, k)
  BY DEF Keyed
<1>2. {_breakdown_key(history[i], group) : i \in Kept} = K
  OBVIOUS
<1>3. Breakdown(group) = [k \in K |-> BreakdownRow(Keyed(Kept, key, k))]
  <2> HIDE DEF key, K
  <2> QED BY <1>1, <1>2 DEF Breakdown
<1>4. Kept \in SUBSET TradeRows
  BY ClosedRows
<1>5. K = {key[i] : i \in Kept}
  OBVIOUS
<1> HIDE DEF key, K
<1> QED BY <1>3, <1>4, <1>5, TableAddsUp

\* A row that is not shown is counted, unless it fails a bound.
LEMMA NoRowLost == NoneLostSilently
BY DEF NoneLostSilently, Kept, Missing

\* The days of a period make it up: a day lies in one period.
LEMMA PeriodsAreDays ==
    ASSUME ClosedTypeOK
    PROVE  DaysMakePeriods
<1> SUFFICES ASSUME NEW R \in {Dated, DailyRows}, NEW kind \in DOMAIN DaysOf,
                    NEW p \in DOMAIN ByPeriod(R, kind)
             PROVE  ByPeriod(R, kind)[p].pnl =
                        SumFunctionOnSet([d \in DOMAIN ByDay(R) |-> ByDay(R)[d].pnl],
                                         {d \in DOMAIN ByDay(R) : d \div DaysOf[kind] = p})
  BY DEF DaysMakePeriods
<1> DEFINE day(i) == LocalDay(history[i].close)
           key == [i \in R |-> day(i)]
           I == {i \in R : day(i) \div DaysOf[kind] = p}
           Days == {day(i) : i \in R}
           K == {d \in Days : d \div DaysOf[kind] = p}
           F == [d \in Days |-> ByDay(R)[d].pnl]
<1>1. R \in SUBSET TradeRows /\ IsFiniteSet(R) /\ I \in SUBSET TradeRows /\ IsFiniteSet(I)
  <2>1. R \in SUBSET TradeRows /\ I \in SUBSET R
    BY ClosedRows DEF DailyRows
  <2>2. I \in SUBSET TradeRows
    BY <2>1
  <2> HIDE DEF I
  <2> QED BY <2>1, <2>2, ClosedRows
<1>2. DOMAIN ByDay(R) = Days
  BY DEF ByDay
<1>3. IsFiniteSet(Days) /\ IsFiniteSet(K)
  <2>1. key \in Surjection(R, Days)
    BY DEF Surjection
  <2>2. K \subseteq Days
    OBVIOUS
  <2> HIDE DEF Days, key, K
  <2>3. IsFiniteSet(Days)
    BY <1>1, <2>1, FS_Surjection
  <2> QED BY <2>2, <2>3, FS_Subset
<1>4. ByPeriod(R, kind)[p].pnl = SumFunctionOnSet(Profits, I)
  <2>1. ByPeriod(R, kind)[p] = BreakdownRow(I)
    BY DEF ByPeriod, PeriodOf
  <2> HIDE DEF I
  <2> QED BY <1>1, <2>1, RowOf
<1>5. \A d \in K : F[d] = SumFunctionOnSet(Profits, Keyed(I, key, d))
  <2> TAKE d \in K
  <2> DEFINE J == {i \in R : day(i) = d}
  <2>1. F[d] = BreakdownRow(J).pnl
    BY DEF ByDay
  <2>2. J = Keyed(I, key, d)
    BY DEF Keyed
  <2>3. J \in SUBSET TradeRows
    BY <1>1
  <2> HIDE DEF J, I, F
  <2> QED BY <2>1, <2>2, <2>3, RowOf
<1>6. \A i \in I : Profits[i] \in Int /\ key[i] \in K
  <2>1. \A i \in I : key[i] \in K
    OBVIOUS
  <2> HIDE DEF I, key, K
  <2> QED BY <1>1, <2>1, RowsAreSums
<1> HIDE DEF I, key, K, F, Days, day
<1>7. SumFunctionOnSet(F, K) = SumFunctionOnSet(Profits, I)
  BY <1>1, <1>3, <1>5, <1>6, SumOfParts
<1> QED BY <1>2, <1>4, <1>7 DEF F, K

LEMMA DivTwo ==
    ASSUME NEW x \in Int
    PROVE  x \div 2 \in Int /\ 2 * (x \div 2) <= x /\ x <= 2 * (x \div 2) + 1
OBVIOUS

\* The local days of a range are those between its first and its last.
LEMMA CalendarCoversRange ==
    ASSUME ClosedTypeOK
    PROVE  CalendarIsRange
<1> SUFFICES ASSUME filter.from # Unset, filter.to > filter.from, Dated # {}
             PROVE  _calendar_day_count = Cardinality({LocalDay(t) : t \in filter.from..filter.to - 1})
  BY DEF CalendarIsRange
<1>1. filter.from \in Nat /\ filter.to \in Nat /\ filter.to # Unset /\ Offset \in Int
  <2>1. filter.from \in Optional /\ filter.to \in Optional
    BY ClosedAssumption DEF ClosedTypeOK
  <2> QED BY <2>1, ClosedAssumption DEF Optional, Unset
<1> DEFINE a == (filter.from + Offset) \div 2
           b == (filter.to + Offset - 1) \div 2
<1>2. FirstDay = a /\ LastDay = b
  BY <1>1 DEF FirstDay, LastDay, LocalDay, HalfDays
<1>3. a \in Int /\ b \in Int /\ a <= b
  <2>1. filter.from + Offset \in Int /\ filter.to + Offset - 1 \in Int /\ filter.from + Offset <= filter.to + Offset - 1
    BY <1>1
  <2>2. a \in Int /\ 2 * a <= filter.from + Offset /\ filter.from + Offset <= 2 * a + 1
    BY <2>1, DivTwo
  <2>3. b \in Int /\ 2 * b <= filter.to + Offset - 1 /\ filter.to + Offset - 1 <= 2 * b + 1
    BY <2>1, DivTwo
  <2> HIDE DEF a, b
  <2> QED BY <1>1, <2>1, <2>2, <2>3
<1>4. {LocalDay(t) : t \in filter.from..filter.to - 1} = a..b
  <2>1. ASSUME NEW t \in filter.from..filter.to - 1 PROVE LocalDay(t) \in a..b
    <3> DEFINE d == (t + Offset) \div 2
    <3>0. t \in Int /\ filter.from <= t /\ t <= filter.to - 1
      BY <1>1
    <3>1. d \in Int /\ 2 * d <= t + Offset /\ t + Offset <= 2 * d + 1
      BY <1>1, <3>0, DivTwo
    <3>2. 2 * a <= filter.from + Offset /\ filter.to + Offset - 1 <= 2 * b + 1
      BY <1>1, DivTwo
    <3>3. LocalDay(t) = d
      BY DEF LocalDay, HalfDays
    <3>4. d \in a..b
      <4> HIDE DEF a, b, d
      <4> QED BY <1>1, <1>3, <3>0, <3>1, <3>2
    <3> QED BY <3>3, <3>4
  <2>2. ASSUME NEW d \in a..b PROVE \E t \in filter.from..filter.to - 1 : LocalDay(t) = d
    <3> DEFINE t == IF 2 * d - Offset < filter.from THEN filter.from ELSE 2 * d - Offset
               e == (t + Offset) \div 2
    <3>0. d \in Int /\ a <= d /\ d <= b
      BY <1>3
    <3>1. 2 * a <= filter.from + Offset /\ filter.from + Offset <= 2 * a + 1
          /\ 2 * b <= filter.to + Offset - 1
      BY <1>1, DivTwo
    <3>2. t \in Int /\ t \in filter.from..filter.to - 1 /\ 2 * d <= t + Offset /\ t + Offset <= 2 * d + 1
      <4> HIDE DEF a, b
      <4> QED BY <1>1, <1>3, <3>0, <3>1
    <3> HIDE DEF t
    <3>3. e \in Int /\ 2 * e <= t + Offset /\ t + Offset <= 2 * e + 1
      BY <1>1, <3>2, DivTwo
    <3>4. LocalDay(t) = e
      BY DEF LocalDay, HalfDays
    <3>5. e = d
      <4> HIDE DEF e, a, b
      <4> QED BY <1>1, <3>0, <3>2, <3>3
    <3> QED BY <3>2, <3>4, <3>5
  <2> HIDE DEF a, b
  <2> QED BY <2>1, <2>2
<1>5. DOMAIN CalendarDays # {}
  BY DEF CalendarDays, ByDay
<1>6. Cardinality(a..b) = b - a + 1
  <2> HIDE DEF a, b
  <2> QED BY <1>3, FS_Interval
<1> HIDE DEF a, b
<1>7. _calendar_day_count = b - a + 1
  BY <1>2, <1>3, <1>5 DEF _calendar_day_count
<1> QED BY <1>4, <1>6, <1>7

-----------------------------------------------------------------------------
(***************************************************************************)
(* ClosedPositions: the streaks are the longest runs.                      *)
(***************************************************************************)

\* The order of closes is strict and total.
LEMMA BeforeOrders ==
    ASSUME ClosedTypeOK
    PROVE  /\ \A i \in Kept : ~Before(i, i)
           /\ \A i, j \in Kept : i # j => Before(i, j) \/ Before(j, i)
           /\ \A i, j, k \in Kept : Before(i, j) /\ Before(j, k) => Before(i, k)
<1>1. \A i \in Kept : i \in Int /\ history[i].close \in Optional
  BY ClosedRows
<1> QED BY <1>1 DEF Before, Optional, Unset

\* Places in it are a bijection, so each has its row.
LEMMA ChronologicalRows ==
    ASSUME ClosedTypeOK
    PROVE  /\ Cardinality(Kept) \in Nat
           /\ DOMAIN Chronological = 1..Cardinality(Kept)
           /\ \A n \in 1..Cardinality(Kept) : Chronological[n] \in Kept
<1> DEFINE N == Cardinality(Kept)
           Earlier(i) == {j \in Kept : Before(j, i)}
           place == [i \in Kept |-> SortPlace(i)]
<1>1. IsFiniteSet(Kept) /\ N \in Nat
  BY ClosedRows
<1>2. \A i \in Kept : /\ IsFiniteSet(Earlier(i)) /\ Cardinality(Earlier(i)) \in Nat
                      /\ SortPlace(i) = 1 + Cardinality(Earlier(i))
  <2> TAKE i \in Kept
  <2>1. Earlier(i) \subseteq Kept
    OBVIOUS
  <2>2. SortPlace(i) = 1 + Cardinality(Earlier(i))
    BY DEF SortPlace
  <2> HIDE DEF Earlier
  <2> QED BY <1>1, <2>1, <2>2, FS_Subset, FS_CardinalityType
<1>3. ASSUME NEW i \in Kept PROVE SortPlace(i) \in 1..N
  <2>1. Earlier(i) \subseteq Kept /\ Earlier(i) # Kept
    BY BeforeOrders
  <2> HIDE DEF Earlier
  <2>2. Cardinality(Earlier(i)) <= N /\ Cardinality(Earlier(i)) # N
    BY <1>1, <2>1, FS_Subset
  <2> HIDE DEF N
  <2> QED BY <1>1, <1>2, <2>2
<1>4. ASSUME NEW i \in Kept, NEW j \in Kept, Before(i, j) PROVE SortPlace(i) # SortPlace(j)
  <2>1. Earlier(i) \subseteq Earlier(j) /\ i \in Earlier(j) /\ i \notin Earlier(i)
    BY <1>4, BeforeOrders
  <2> HIDE DEF Earlier
  <2>2. Cardinality(Earlier(i)) # Cardinality(Earlier(j))
    BY <1>2, <2>1, FS_Subset
  <2> QED BY <1>2, <2>2
<1>5. place \in Injection(Kept, 1..N)
  <2>1. \A i, j \in Kept : SortPlace(i) = SortPlace(j) => i = j
    BY <1>4, BeforeOrders
  <2> HIDE DEF N
  <2> QED BY <1>3, <2>1 DEF Injection, IsInjective
<1>6. place \in Surjection(Kept, 1..N)
  <2>1. IsFiniteSet(1..N) /\ Cardinality(1..N) = N
    BY <1>1, FS_Interval
  <2> HIDE DEF place
  <2> QED BY <1>1, <1>5, <2>1, FS_Injection
<1>7. ASSUME NEW n \in 1..N PROVE Chronological[n] \in Kept
  <2>1. \E i \in Kept : SortPlace(i) = n
    BY <1>6 DEF Surjection
  <2> QED BY <2>1 DEF Chronological
<1> QED BY <1>1, <1>7 DEF Chronological

\* What _streaks keeps after n trades of the kinds K.
Kinds == {"win", "loss", "breakeven"}
StreakState == [kind : Kinds \cup {"none"}, len : Nat, win : Nat, loss : Nat]

\* K[a..b] is a run of one kind.
Run(K, a, b, kind) == \A m \in a..b : K[m] = kind

\* The longest run of a kind among the first n.
Longest(K, len, n, kind) ==
    /\ len \in Nat
    /\ \A a, b \in 1..n : a <= b /\ Run(K, a, b, kind) => b - a + 1 <= len
    /\ len = 0 \/ \E a, b \in 1..n : a <= b /\ Run(K, a, b, kind) /\ len = b - a + 1

\* The run that ends at n cannot be extended to the left.
Latest(K, s, n) ==
    /\ n = 0 => s.kind = "none"
    /\ n > 0 => /\ s.kind = K[n] /\ s.len \in 1..n
                /\ Run(K, n - s.len + 1, n, K[n])
                /\ s.len < n => K[n - s.len] # K[n]

StreakOf(K, s, n) ==
    /\ s \in StreakState
    /\ Latest(K, s, n)
    /\ Longest(K, s.win, n, "win")
    /\ Longest(K, s.loss, n, "loss")

LEMMA ExtendedIs ==
    ASSUME NEW s \in StreakState, NEW kind \in Kinds, NEW len \in Nat
    PROVE  /\ Extended(s, kind, len) \in StreakState
           /\ Extended(s, kind, len).kind = kind /\ Extended(s, kind, len).len = len
           /\ Extended(s, kind, len).win = IF kind = "win" /\ len > s.win THEN len ELSE s.win
           /\ Extended(s, kind, len).loss = IF kind = "loss" /\ len > s.loss THEN len ELSE s.loss
BY DEF Extended, Longer, StreakState, Kinds

\* One more trade: the run that ends there is the only new one.
LEMMA LongestStep ==
    ASSUME NEW K, NEW n \in Nat, NEW v, NEW kind, Longest(K, v, n, kind),
           NEW len \in 1..n + 1, Run(K, n + 2 - len, n + 1, K[n + 1]),
           len < n + 1 => K[n + 1 - len] # K[n + 1]
    PROVE  Longest(K, IF kind = K[n + 1] /\ len > v THEN len ELSE v, n + 1, kind)
<1> DEFINE w == IF kind = K[n + 1] /\ len > v THEN len ELSE v
<1>1. v \in Nat /\ len \in Nat /\ w \in Nat /\ v <= w /\ (kind = K[n + 1] => len <= w)
  BY DEF Longest
<1>2. ASSUME NEW a \in 1..n + 1, NEW b \in 1..n + 1, a <= b, Run(K, a, b, kind) PROVE b - a + 1 <= w
  <2>1. CASE b = n + 1
    <3>1. K[n + 1] = kind
      <4>1. n + 1 \in a..b
        BY <2>1
      <4> QED BY <1>2, <4>1 DEF Run
    <3>2. ~ (a <= n + 1 - len)
      <4>1. SUFFICES ASSUME a <= n + 1 - len PROVE FALSE
        OBVIOUS
      <4>2. n + 1 - len \in a..b /\ len < n + 1
        BY <1>1, <2>1, <4>1
      <4> QED BY <1>2, <3>1, <4>2 DEF Run
    <3> HIDE DEF w
    <3> QED BY <1>1, <2>1, <3>1, <3>2
  <2>2. CASE b # n + 1
    <3>1. a \in 1..n /\ b \in 1..n
      BY <1>2, <2>2
    <3>2. b - a + 1 <= v
      BY <1>2, <3>1 DEF Longest
    <3> HIDE DEF w
    <3> QED BY <1>1, <3>1, <3>2
  <2> QED BY <2>1, <2>2
<1>3. w = 0 \/ \E a, b \in 1..n + 1 : a <= b /\ Run(K, a, b, kind) /\ w = b - a + 1
  <2>1. CASE w = v
    <3>1. 1..n \subseteq 1..n + 1
      OBVIOUS
    <3> HIDE DEF w
    <3> QED BY <2>1, <3>1 DEF Longest
  <2>2. CASE w # v
    <3>1. w = len /\ kind = K[n + 1]
      BY <2>2
    <3>2. n + 2 - len \in 1..n + 1 /\ n + 1 \in 1..n + 1 /\ n + 2 - len <= n + 1 /\ len = (n + 1) - (n + 2 - len) + 1
      OBVIOUS
    <3> HIDE DEF w
    <3> QED BY <3>1, <3>2
  <2> QED BY <2>1, <2>2
<1> HIDE DEF w
<1>4. Longest(K, w, n + 1, kind)
  BY <1>1, <1>2, <1>3 DEF Longest
<1> QED BY <1>4 DEF w

LEMMA StreakStep ==
    ASSUME NEW K, NEW n \in Nat, NEW s, StreakOf(K, s, n), K[n + 1] \in Kinds
    PROVE  StreakOf(K, Extended(s, K[n + 1], IF K[n + 1] = s.kind THEN s.len + 1 ELSE 1), n + 1)
<1> DEFINE len == IF K[n + 1] = s.kind THEN s.len + 1 ELSE 1
           t == Extended(s, K[n + 1], len)
<1>1. s \in StreakState /\ s.len \in Nat
  BY DEF StreakOf, StreakState
<1>2. /\ len \in 1..n + 1 /\ Run(K, n + 2 - len, n + 1, K[n + 1])
      /\ len < n + 1 => K[n + 1 - len] # K[n + 1]
  <2>1. CASE K[n + 1] = s.kind
    <3>1. n > 0
      BY <2>1 DEF StreakOf, Latest, Kinds
    <3>2. s.kind = K[n] /\ s.len \in 1..n /\ Run(K, n - s.len + 1, n, K[n]) /\ (s.len < n => K[n - s.len] # K[n])
      BY <3>1 DEF StreakOf, Latest
    <3>3. len = s.len + 1
      BY <2>1
    <3> HIDE DEF len
    <3>4. len \in 1..n + 1 /\ n + 2 - len = n - s.len + 1 /\ n + 1 - len = n - s.len
      BY <1>1, <3>2, <3>3
    <3>5. ASSUME NEW m \in n + 2 - len..n + 1 PROVE K[m] = K[n + 1]
      <4>1. m = n + 1 \/ m \in n - s.len + 1..n
        BY <1>1, <3>2, <3>4
      <4> QED BY <2>1, <3>2, <4>1 DEF Run
    <3> QED BY <1>1, <2>1, <3>2, <3>3, <3>4, <3>5 DEF Run
  <2>2. CASE K[n + 1] # s.kind
    <3>1. len = 1
      BY <2>2
    <3> HIDE DEF len
    <3>2. len \in 1..n + 1 /\ n + 2 - len = n + 1 /\ n + 1 - len = n
      BY <3>1
    <3>3. Run(K, n + 2 - len, n + 1, K[n + 1])
      BY <3>2 DEF Run
    <3>4. n > 0 => s.kind = K[n]
      BY DEF StreakOf, Latest
    <3> QED BY <2>2, <3>1, <3>2, <3>3, <3>4
  <2> QED BY <2>1, <2>2
<1> HIDE DEF len
<1>3. /\ t \in StreakState /\ t.kind = K[n + 1] /\ t.len = len
      /\ t.win = IF "win" = K[n + 1] /\ len > s.win THEN len ELSE s.win
      /\ t.loss = IF "loss" = K[n + 1] /\ len > s.loss THEN len ELSE s.loss
  <2>1. len \in Nat
    BY <1>2
  <2> QED BY <1>1, <2>1, ExtendedIs
<1> HIDE DEF t
<1>4. Longest(K, t.win, n + 1, "win") /\ Longest(K, t.loss, n + 1, "loss")
  <2>1. Longest(K, s.win, n, "win") /\ Longest(K, s.loss, n, "loss")
    BY DEF StreakOf
  <2>2. Longest(K, IF "win" = K[n + 1] /\ len > s.win THEN len ELSE s.win, n + 1, "win")
    BY <1>2, <2>1, LongestStep
  <2>3. Longest(K, IF "loss" = K[n + 1] /\ len > s.loss THEN len ELSE s.loss, n + 1, "loss")
    BY <1>2, <2>1, LongestStep
  <2> QED BY <1>3, <2>2, <2>3
<1>5. Latest(K, t, n + 1)
  <2>1. n + 1 - len + 1 = n + 2 - len /\ n + 1 # 0 /\ n + 1 > 0
    BY <1>2
  <2> QED BY <1>2, <1>3, <2>1 DEF Latest
<1>6. StreakOf(K, t, n + 1)
  BY <1>3, <1>4, <1>5 DEF StreakOf
<1> QED BY <1>6 DEF t, len

\* The kinds of the trades in their order.
KindsOf == [n \in 1..Cardinality(Kept) |-> Kind(Chronological[n])]

\* The recursion of Streaks, which has a solution.
StreaksUpTo(m, g) ==
    g = [n \in 0..m |-> IF n = 0 THEN NoStreak ELSE Continue(g[n - 1], Chronological[n])]

LEMMA StreaksUpToExists ==
    ASSUME NEW N \in Nat
    PROVE  \E g : StreaksUpTo(N, g)
<1> DEFINE Good == {m \in 0..N : \E g : StreaksUpTo(m, g)}
<1>1. 0 \in Good
  <2> DEFINE g == [n \in 0..0 |-> NoStreak]
  <2>1. StreaksUpTo(0, g)
    BY DEF StreaksUpTo
  <2> HIDE DEF g
  <2> QED BY <2>1
<1>2. ASSUME NEW m \in 1..N, m - 1 \in Good PROVE m \in Good
  <2>1. PICK g : StreaksUpTo(m - 1, g)
    BY <1>2
  <2> DEFINE h == [n \in 0..m |-> IF n = m THEN Continue(g[m - 1], Chronological[m]) ELSE g[n]]
             e == [n \in 0..m |-> IF n = 0 THEN NoStreak ELSE Continue(h[n - 1], Chronological[n])]
  <2>2. \A n \in 0..m : h[n] = e[n]
    <3> TAKE n \in 0..m
    <3>1. CASE n = m
      <4>1. h[n] = Continue(g[m - 1], Chronological[m]) /\ h[m - 1] = g[m - 1]
        BY <3>1
      <4>2. e[n] = Continue(h[m - 1], Chronological[m])
        BY <3>1
      <4> QED BY <4>1, <4>2
    <3>2. CASE n # m
      <4>1. h[n] = g[n] /\ n \in 0..m - 1
        BY <3>2
      <4>2. g[n] = IF n = 0 THEN NoStreak ELSE Continue(g[n - 1], Chronological[n])
        BY <2>1, <4>1 DEF StreaksUpTo
      <4>3. n # 0 => h[n - 1] = g[n - 1]
        BY <3>2
      <4>4. e[n] = IF n = 0 THEN NoStreak ELSE Continue(h[n - 1], Chronological[n])
        OBVIOUS
      <4> HIDE DEF h, e
      <4> QED BY <4>1, <4>2, <4>3, <4>4
    <3> QED BY <3>1, <3>2
  <2>3. h = e
    <3>1. h = [n \in 0..m |-> h[n]] /\ e = [n \in 0..m |-> e[n]]
      OBVIOUS
    <3> HIDE DEF h, e
    <3> QED BY <2>2, <3>1
  <2> HIDE DEF h
  <2>4. StreaksUpTo(m, h)
    BY <2>3 DEF StreaksUpTo
  <2> QED BY <2>4
<1> HIDE DEF Good
<1>3. 0..N \subseteq Good
  BY <1>1, <1>2, UpTo
<1> QED BY <1>3 DEF Good

\* By induction over the trades.
LEMMA StreaksAreLongest ==
    ASSUME ClosedTypeOK
    PROVE  StreakOf(KindsOf, Streaks, Cardinality(Kept))
<1> DEFINE N == Cardinality(Kept)
           K == KindsOf
           g == CHOOSE h : StreaksUpTo(N, h)
           Good == {n \in 0..N : StreakOf(K, g[n], n)}
<1>1. N \in Nat
  BY ChronologicalRows
<1>2. Streaks = g[N]
  BY DEF Streaks, StreaksUpTo
<1>3. StreaksUpTo(N, g)
  BY <1>1, StreaksUpToExists
<1>4. \A n \in 1..N : K[n] \in Kinds /\ K[n] = Kind(Chronological[n])
  BY DEF KindsOf, Kind, Kinds
<1> HIDE DEF N, g, K
<1>5. 0 \in Good
  <2>1. g[0] = NoStreak
    BY <1>1, <1>3 DEF StreaksUpTo
  <2>2. StreakOf(K, NoStreak, 0)
    BY DEF StreakOf, StreakState, Kinds, Latest, Longest, NoStreak
  <2> QED BY <1>1, <2>1, <2>2
<1>6. ASSUME NEW n \in 1..N, n - 1 \in Good PROVE n \in Good
  <2>1. g[n] = Continue(g[n - 1], Chronological[n])
    <3>1. n \in 0..N /\ n # 0
      BY <1>1
    <3> QED BY <1>3, <3>1 DEF StreaksUpTo
  <2>2. g[n] = Extended(g[n - 1], K[n], IF K[n] = g[n - 1].kind THEN g[n - 1].len + 1 ELSE 1)
    BY <1>4, <2>1 DEF Continue
  <2>3. PICK k \in Nat : n = k + 1
    <3>1. n - 1 \in Nat /\ n = (n - 1) + 1
      BY <1>1
    <3> QED BY <3>1
  <2>4. StreakOf(K, g[k], k) /\ n - 1 = k
    <3>1. n - 1 = k
      BY <2>3
    <3> QED BY <1>6, <3>1
  <2>5. K[k + 1] \in Kinds
    BY <1>4, <2>3
  <2>6. StreakOf(K, Extended(g[k], K[k + 1], IF K[k + 1] = g[k].kind THEN g[k].len + 1 ELSE 1), k + 1)
    BY <2>4, <2>5, StreakStep
  <2>7. n \in 0..N
    BY <1>1
  <2> QED BY <2>2, <2>3, <2>4, <2>6, <2>7
<1> HIDE DEF Good
<1>7. N \in Good
  <2>1. 0..N \subseteq Good
    BY <1>1, <1>5, <1>6, UpTo
  <2> QED BY <1>1, <2>1
<1> QED BY <1>2, <1>7 DEF Good, N, K

\* A bound that is attained is the maximum.
LEMMA MaxIs ==
    ASSUME NEW S \in SUBSET Int, NEW m \in S, \A x \in S : x <= m
    PROVE  Max(S) = m
<1>1. \A y \in S : m >= y
  OBVIOUS
<1>2. Max(S) \in S /\ \A y \in S : Max(S) >= y
  BY <1>1 DEF Max
<1>3. Max(S) >= m /\ m >= Max(S)
  BY <1>1, <1>2
<1>4. Max(S) \in Int /\ m \in Int
  BY <1>2
<1> QED BY <1>3, <1>4

\* The streaks shown are the longest runs.
LEMMA StreaksAreRuns ==
    ASSUME ClosedTypeOK
    PROVE  StreakIsRun
<1> SUFFICES ASSUME NEW kind \in {"win", "loss"}
             PROVE  Streaks[kind] = Max({0} \cup {x[2] - x[1] + 1 : x \in RunsOf(kind)})
  BY DEF StreakIsRun
<1> DEFINE N == Cardinality(Kept)
           v == Streaks[kind]
           S == {0} \cup {x[2] - x[1] + 1 : x \in RunsOf(kind)}
<1>1. N \in Nat /\ DOMAIN Chronological = 1..N
  BY ChronologicalRows
<1>2. Longest(KindsOf, v, N, kind)
  BY StreaksAreLongest DEF StreakOf
<1>3. \A x : x \in RunsOf(kind) <=> /\ x \in (1..N) \X (1..N) /\ x[1] <= x[2]
                                    /\ Run(KindsOf, x[1], x[2], kind)
  <2>1. \A x \in (1..N) \X (1..N) : \A m \in x[1]..x[2] : m \in 1..N
    BY <1>1
  <2> HIDE DEF N
  <2>2. \A n \in 1..N : KindsOf[n] = Kind(Chronological[n])
    BY DEF KindsOf, N
  <2> QED BY <1>1, <2>1, <2>2 DEF RunsOf, Stretches, Run
<1> HIDE DEF N
<1>4. \A x \in RunsOf(kind) : x[2] - x[1] + 1 \in Int /\ x[2] - x[1] + 1 <= v
  BY <1>1, <1>2, <1>3 DEF Longest
<1>5. v \in Nat /\ v \in S
  <2>1. CASE v = 0
    BY <2>1
  <2>2. CASE v # 0
    <3>1. PICK a \in 1..N, b \in 1..N : a <= b /\ Run(KindsOf, a, b, kind) /\ v = b - a + 1
      BY <1>2, <2>2 DEF Longest
    <3>2. <<a, b>> \in RunsOf(kind)
      BY <1>3, <3>1
    <3>3. v = <<a, b>>[2] - <<a, b>>[1] + 1
      BY <3>1
    <3>4. v \in {x[2] - x[1] + 1 : x \in RunsOf(kind)}
      BY <3>2, <3>3
    <3> QED BY <1>2, <3>4 DEF Longest
  <2> QED BY <1>2, <2>1, <2>2 DEF Longest
<1>6. S \in SUBSET Int /\ \A y \in S : y <= v
  BY <1>4, <1>5
<1> HIDE DEF S, v
<1>7. Max(S) = v
  BY <1>5, <1>6, MaxIs
<1> QED BY <1>7 DEF S, v

-----------------------------------------------------------------------------
(***************************************************************************)
(* ClosedPositions: the drawdown is the largest fall, and the theorem.     *)
(***************************************************************************)

\* The results of the trades in their order.
Gains == [n \in DOMAIN Chronological |-> history[Chronological[n]].pnl]

\* The equity after n trades.
Equity(n) == Balance(Gains, n)

\* What _compute_max_drawdown keeps after n trades: the highest equity and the largest fall.
FallState == [sum : Int, peak : Int, drop : Int]
NoFall == [sum |-> 0, peak |-> 0, drop |-> 0]
Fallen(s, n) == s \in FallState /\ FallOf(Gains, s.sum, s.peak, s.drop, n)

\* A stretch of trades gains the difference of the equity at its ends.
LEMMA EquityGrows ==
    ASSUME ClosedTypeOK
    PROVE  /\ Equity(0) = 0
           /\ \A n \in 0..Cardinality(Kept) : Equity(n) \in Int
           /\ \A n \in 1..Cardinality(Kept) :
                Equity(n) = Equity(n - 1) + history[Chronological[n]].pnl /\ history[Chronological[n]].pnl \in Int
           /\ \A a, b \in 1..Cardinality(Kept) : a <= b =>
                SumFunctionOnSet(Gains, a..b) = Equity(b) - Equity(a - 1)
<1> DEFINE N == Cardinality(Kept)
<1>1. N \in Nat /\ \A n \in 1..N : Gains[n] = history[Chronological[n]].pnl /\ Gains[n] \in Int
  BY ChronologicalRows, ClosedRows DEF Gains
<1> HIDE DEF N
<1>2. /\ Balance(Gains, 0) = 0 /\ \A n \in 0..N : Balance(Gains, n) \in Int
      /\ \A n \in 1..N : Balance(Gains, n) = Balance(Gains, n - 1) + Gains[n]
      /\ \A a, b \in 1..N : a <= b =>
             SumFunctionOnSet(Gains, a..b) = Balance(Gains, b) - Balance(Gains, a - 1)
  BY <1>1, BalanceGrows
<1> QED BY <1>1, <1>2 DEF N, Equity

\* One step of the loop, without the maxima of the library.
LEMMA FallIs ==
    ASSUME NEW s \in FallState, NEW i, history[i].pnl \in Int
    PROVE  /\ Fall(s, i) \in FallState
           /\ Fall(s, i).sum = s.sum + history[i].pnl
           /\ Fall(s, i).peak = IF s.peak >= s.sum + history[i].pnl THEN s.peak ELSE s.sum + history[i].pnl
           /\ Fall(s, i).drop = LET d == Fall(s, i).peak - Fall(s, i).sum
                                IN  IF s.drop >= d THEN s.drop ELSE d
<1> DEFINE sum == s.sum + history[i].pnl
           peak == Max({s.peak, sum})
           drop == Max({s.drop, peak - sum})
<1>1. s.sum \in Int /\ s.peak \in Int /\ s.drop \in Int /\ sum \in Int
  BY DEF FallState
<1>2. \A x, y \in Int : Max({x, y}) = IF x >= y THEN x ELSE y
  <2> TAKE x, y \in Int
  <2>1. CASE x >= y
    <3>1. {x, y} \in SUBSET Int /\ x \in {x, y} /\ \A z \in {x, y} : z <= x
      BY <2>1
    <3> QED BY <2>1, <3>1, MaxIs
  <2>2. CASE ~ (x >= y)
    <3>1. {x, y} \in SUBSET Int /\ y \in {x, y} /\ \A z \in {x, y} : z <= y
      BY <2>2
    <3> QED BY <2>2, <3>1, MaxIs
  <2> QED BY <2>1, <2>2
<1>3. Fall(s, i) = [sum |-> sum, peak |-> peak, drop |-> drop]
  BY DEF Fall
<1> HIDE DEF sum
<1>4. peak = (IF s.peak >= sum THEN s.peak ELSE sum) /\ peak \in Int
  BY <1>1, <1>2
<1> HIDE DEF peak
<1>5. drop = (IF s.drop >= peak - sum THEN s.drop ELSE peak - sum) /\ drop \in Int
  BY <1>1, <1>2, <1>4
<1> HIDE DEF drop
<1>6. Fall(s, i) \in FallState /\ Fall(s, i).sum = sum /\ Fall(s, i).peak = peak /\ Fall(s, i).drop = drop
  BY <1>1, <1>3, <1>4, <1>5 DEF FallState
<1> QED BY <1>4, <1>5, <1>6 DEF sum

\* The step keeps what the state means.
LEMMA FallenStep ==
    ASSUME ClosedTypeOK, NEW n \in 1..Cardinality(Kept), NEW s, Fallen(s, n - 1)
    PROVE  Fallen(Fall(s, Chronological[n]), n)
<1> DEFINE N == Cardinality(Kept)
           i == Chronological[n]
           p == history[i].pnl
           t == Fall(s, i)
<1>1. N \in Nat /\ \A m \in 1..N : Gains[m] = history[Chronological[m]].pnl /\ Gains[m] \in Int
  BY ChronologicalRows, ClosedRows DEF Gains
<1>2. Gains[n] = p /\ p \in Int /\ s \in FallState
  BY <1>1 DEF Fallen
<1>3. /\ t \in FallState /\ t.sum = s.sum + p
      /\ t.peak = IF s.peak >= s.sum + p THEN s.peak ELSE s.sum + p
      /\ t.drop = IF s.drop >= t.peak - (s.sum + p) THEN s.drop ELSE t.peak - (s.sum + p)
  <2>1. history[i].pnl \in Int
    BY <1>2
  <2> HIDE DEF i
  <2> QED BY <1>2, <2>1, FallIs
<1> HIDE DEF N, t, p
<1>4. n \in 1..N /\ FallOf(Gains, s.sum, s.peak, s.drop, n - 1)
  BY DEF N, Fallen
<1> DEFINE high == t.peak
           deep == t.drop
<1>5. /\ high = IF s.peak >= s.sum + Gains[n] THEN s.peak ELSE s.sum + Gains[n]
      /\ deep = IF s.drop >= high - (s.sum + Gains[n]) THEN s.drop ELSE high - (s.sum + Gains[n])
  BY <1>2, <1>3
<1> HIDE DEF high, deep
<1>6. FallOf(Gains, s.sum + Gains[n], high, deep, n)
  BY <1>1, <1>4, <1>5, FallStep
<1>7. Fallen(t, n)
  BY <1>2, <1>3, <1>6 DEF Fallen, high, deep
<1> QED BY <1>7 DEF t

\* The recursion of Drawdown, which has a solution.
FallsUpTo(m, g) ==
    g = [n \in 0..m |-> IF n = 0 THEN NoFall ELSE Fall(g[n - 1], Chronological[n])]

LEMMA FallsUpToExists ==
    ASSUME NEW N \in Nat
    PROVE  \E g : FallsUpTo(N, g)
<1> DEFINE Good == {m \in 0..N : \E g : FallsUpTo(m, g)}
<1>1. 0 \in Good
  <2> DEFINE g == [n \in 0..0 |-> NoFall]
  <2>1. FallsUpTo(0, g)
    BY DEF FallsUpTo
  <2> HIDE DEF g
  <2> QED BY <2>1
<1>2. ASSUME NEW m \in 1..N, m - 1 \in Good PROVE m \in Good
  <2>1. PICK g : FallsUpTo(m - 1, g)
    BY <1>2
  <2> DEFINE h == [n \in 0..m |-> IF n = m THEN Fall(g[m - 1], Chronological[m]) ELSE g[n]]
             e == [n \in 0..m |-> IF n = 0 THEN NoFall ELSE Fall(h[n - 1], Chronological[n])]
  <2>2. \A n \in 0..m : h[n] = e[n]
    <3> TAKE n \in 0..m
    <3>1. CASE n = m
      <4>1. h[n] = Fall(g[m - 1], Chronological[m]) /\ h[m - 1] = g[m - 1]
        BY <3>1
      <4>2. e[n] = Fall(h[m - 1], Chronological[m])
        BY <3>1
      <4> QED BY <4>1, <4>2
    <3>2. CASE n # m
      <4>1. h[n] = g[n] /\ n \in 0..m - 1
        BY <3>2
      <4>2. g[n] = IF n = 0 THEN NoFall ELSE Fall(g[n - 1], Chronological[n])
        BY <2>1, <4>1 DEF FallsUpTo
      <4>3. n # 0 => h[n - 1] = g[n - 1]
        BY <3>2
      <4>4. e[n] = IF n = 0 THEN NoFall ELSE Fall(h[n - 1], Chronological[n])
        OBVIOUS
      <4> HIDE DEF h, e
      <4> QED BY <4>1, <4>2, <4>3, <4>4
    <3> QED BY <3>1, <3>2
  <2>3. h = e
    <3>1. h = [n \in 0..m |-> h[n]] /\ e = [n \in 0..m |-> e[n]]
      OBVIOUS
    <3> HIDE DEF h, e
    <3> QED BY <2>2, <3>1
  <2> HIDE DEF h
  <2>4. FallsUpTo(m, h)
    BY <2>3 DEF FallsUpTo
  <2> QED BY <2>4
<1> HIDE DEF Good
<1>3. 0..N \subseteq Good
  BY <1>1, <1>2, UpTo
<1> QED BY <1>3 DEF Good

\* By induction over the trades.
LEMMA DrawdownIsLargestFall ==
    ASSUME ClosedTypeOK
    PROVE  \E s : Fallen(s, Cardinality(Kept)) /\ Drawdown = s.drop
<1> DEFINE N == Cardinality(Kept)
           g == CHOOSE h : FallsUpTo(N, h)
           Good == {n \in 0..N : Fallen(g[n], n)}
<1>1. N \in Nat
  BY ChronologicalRows
<1>2. Drawdown = g[N].drop
  BY DEF Drawdown, FallsUpTo, NoFall
<1>3. FallsUpTo(N, g)
  BY <1>1, FallsUpToExists
<1> HIDE DEF g
<1>4. 0 \in Good
  <2>1. g[0] = NoFall
    BY <1>1, <1>3 DEF FallsUpTo
  <2>2. Fallen(NoFall, 0)
    <3>1. NoFall \in FallState /\ NoFall.sum = 0 /\ NoFall.peak = 0 /\ NoFall.drop = 0
      BY DEF NoFall, FallState
    <3> QED BY <3>1, FallStarts DEF Fallen
  <2> QED BY <1>1, <2>1, <2>2
<1>5. ASSUME NEW n \in 1..N, n - 1 \in Good PROVE n \in Good
  <2>1. n \in 0..N /\ n # 0
    BY <1>1
  <2>2. g[n] = Fall(g[n - 1], Chronological[n])
    BY <1>3, <2>1 DEF FallsUpTo
  <2>3. Fallen(g[n - 1], n - 1)
    BY <1>5
  <2>4. Fallen(Fall(g[n - 1], Chronological[n]), n)
    BY <2>3, FallenStep
  <2> QED BY <2>1, <2>2, <2>4
<1> HIDE DEF Good
<1>6. N \in Good
  <2>1. 0..N \subseteq Good
    BY <1>1, <1>4, <1>5, UpTo
  <2> HIDE DEF N
  <2> QED BY <1>1, <2>1
<1>7. Fallen(g[N], N)
  BY <1>6 DEF Good
<1> QED BY <1>2, <1>7

\* The drawdown shown is the largest loss of a stretch.
LEMMA DrawdownIsWorst ==
    ASSUME ClosedTypeOK
    PROVE  DrawdownIsWorstDrop
<1> DEFINE N == Cardinality(Kept)
           S == {0} \cup {-Gained(x) : x \in Stretches}
<1>1. PICK s : Fallen(s, N) /\ Drawdown = s.drop
  BY DrawdownIsLargestFall
<1>2. N \in Nat /\ DOMAIN Chronological = 1..N
  BY ChronologicalRows
<1>3. /\ \A n \in 0..N : Equity(n) \in Int
      /\ \A a, b \in 1..N : a <= b => SumFunctionOnSet(Gains, a..b) = Equity(b) - Equity(a - 1)
  BY EquityGrows
<1>4. \A x : x \in Stretches <=> x \in (1..N) \X (1..N) /\ x[1] <= x[2]
  BY <1>2 DEF Stretches
<1>5. \A x : Gained(x) = SumFunctionOnSet(Gains, x[1]..x[2])
  BY DEF Gained, Gains
<1> HIDE DEF N
<1>6. \A x \in Stretches : /\ -Gained(x) = Equity(x[1] - 1) - Equity(x[2]) /\ -Gained(x) \in Int
                           /\ x[1] - 1 \in 0..N /\ x[2] \in 0..N /\ x[1] - 1 <= x[2]
  <2> TAKE x \in Stretches
  <2>1. x[1] \in 1..N /\ x[2] \in 1..N /\ x[1] <= x[2]
    BY <1>4
  <2>2. x[1] - 1 \in 0..N /\ x[2] \in 0..N /\ x[1] - 1 <= x[2]
    BY <1>2, <2>1
  <2>3. Gained(x) = Equity(x[2]) - Equity(x[1] - 1)
    BY <1>3, <1>5, <2>1
  <2> QED BY <1>3, <2>2, <2>3
<1>7. s.drop \in Int /\ 0 <= s.drop
  <2>1. 0 \in 0..N /\ Equity(0) \in Int
    BY <1>2, <1>3
  <2>2. s.drop \in Int /\ Equity(0) - Equity(0) <= s.drop
    BY <1>1, <2>1 DEF Fallen, FallOf, FallState, Equity
  <2> QED BY <2>1, <2>2
<1>8. \A x \in Stretches : -Gained(x) <= s.drop
  BY <1>1, <1>6 DEF Fallen, FallOf, Equity
<1>9. s.drop \in S
  <2>1. PICK m \in 0..N, k \in 0..N : m <= k /\ s.drop = Equity(m) - Equity(k)
    BY <1>1 DEF Fallen, FallOf, Equity
  <2>2. CASE m = k
    BY <1>3, <2>1, <2>2
  <2>3. CASE m # k
    <3>1. m + 1 \in 1..N /\ k \in 1..N /\ m + 1 <= k
      BY <1>2, <2>1, <2>3
    <3>2. <<m + 1, k>> \in Stretches
      BY <1>4, <3>1
    <3>3. s.drop = -Gained(<<m + 1, k>>)
      <4>1. <<m + 1, k>>[1] - 1 = m /\ <<m + 1, k>>[2] = k
        BY <1>2, <2>1
      <4> QED BY <1>6, <2>1, <3>2, <4>1
    <3> QED BY <3>2, <3>3
  <2> QED BY <2>2, <2>3
<1>10. S \in SUBSET Int /\ \A y \in S : y <= s.drop
  BY <1>6, <1>7, <1>8
<1> HIDE DEF S
<1>11. Max(S) = s.drop
  BY <1>9, <1>10, MaxIs
<1> QED BY <1>1, <1>11 DEF DrawdownIsWorstDrop, S

\* The type of the history: an id of the exchange is stored once.
LEMMA ClosedTyped == ClosedSpec => []ClosedTypeOK
<1>1. ClosedInit => ClosedTypeOK
  BY ClosedAssumption DEF ClosedInit, ClosedTypeOK
<1>2. ClosedTypeOK /\ [ClosedNext]_closedVars => ClosedTypeOK'
  <2> SUFFICES ASSUME ClosedTypeOK, [ClosedNext]_closedVars
               PROVE  ClosedTypeOK'
    OBVIOUS
  <2>1. ASSUME NEW p \in ClosedTrade, StoreTrade(p) PROVE ClosedTypeOK'
    <3>1. filter' = filter
      BY <2>1 DEF StoreTrade
    <3>2. history \in Seq(ClosedTrade) /\ Len(history) \in Nat /\ DOMAIN history = 1..Len(history)
      BY DEF ClosedTypeOK
    <3>3. CASE \E i \in Existing(p) : history' = [history EXCEPT ![i] = p]
      <4>1. PICK i \in Existing(p) : history' = [history EXCEPT ![i] = p]
        BY <3>3
      <4>2. i \in DOMAIN history /\ (p.id # Unset => history[i].id = p.id)
        BY DEF Existing, TradeRows
      <4>3. history' \in Seq(ClosedTrade) /\ Len(history') = Len(history) /\ DOMAIN history' = DOMAIN history
        BY <3>2, <4>1, <4>2
      <4>4. \A j \in DOMAIN history' : history'[j] = IF j = i THEN p ELSE history[j]
        BY <4>1, <4>3
      <4>5. \A j, k \in DOMAIN history' : history'[j].id = history'[k].id /\ history'[j].id # Unset => j = k
        BY <4>2, <4>3, <4>4 DEF ClosedTypeOK
      <4> QED BY <3>1, <4>3, <4>5 DEF ClosedTypeOK
    <3>4. CASE Existing(p) = {} /\ Len(history) < MaxTrades /\ history' = Append(history, p)
      <4>1. history' \in Seq(ClosedTrade) /\ Len(history') = Len(history) + 1
            /\ DOMAIN history' = 1..Len(history) + 1
        BY <3>2, <3>4
      <4>2. \A j \in DOMAIN history' : history'[j] = IF j = Len(history) + 1 THEN p ELSE history[j]
        BY <3>2, <3>4, <4>1
      <4>3. \A j \in DOMAIN history : p.id # Unset => history[j].id # p.id
        BY <3>4 DEF Existing, TradeRows
      <4>4. \A j \in DOMAIN history' : j = Len(history) + 1 \/ j \in DOMAIN history
        BY <3>2, <4>1
      <4>5. \A j, k \in DOMAIN history' : history'[j].id = history'[k].id /\ history'[j].id # Unset => j = k
        BY <4>2, <4>3, <4>4 DEF ClosedTypeOK
      <4>6. Len(history') <= MaxTrades
        BY <3>2, <3>4, <4>1, ClosedAssumption
      <4> QED BY <3>1, <4>1, <4>5, <4>6 DEF ClosedTypeOK
    <3> QED BY <2>1, <3>3, <3>4 DEF StoreTrade
  <2>2. ASSUME NEW f \in Filter, Ask(f) PROVE ClosedTypeOK'
    BY <2>2 DEF Ask, ClosedTypeOK
  <2>3. CASE UNCHANGED closedVars
    BY <2>3 DEF closedVars, ClosedTypeOK
  <2> QED BY <2>1, <2>2, <2>3 DEF ClosedNext
<1> QED BY <1>1, <1>2, PTL DEF ClosedSpec

\* The answers of the closed-position analytics are right (ClosedInv), for any rows,
\* filters and time zones: the parts of a breakdown and the days of a period add up, no
\* row is lost uncounted, the calendar is the range, streaks are the longest runs and the
\* drawdown is the largest fall.
THEOREM ClosedHolds == ClosedSpec => []ClosedInv
<1>1. ClosedTypeOK => ClosedInv
  BY BreakdownsAddUp, PeriodsAreDays, NoRowLost, CalendarCoversRange, StreaksAreRuns, DrawdownIsWorst
     DEF ClosedInv
<1> QED BY <1>1, ClosedTyped, PTL

-----------------------------------------------------------------------------
(***************************************************************************)
(* MonthlyGoals: snapshots in order, and the flows between two moments.    *)
(***************************************************************************)

\* And likewise for the minimum.
LEMMA MinIs ==
    ASSUME NEW S \in SUBSET Int, NEW m \in S, \A x \in S : m <= x
    PROVE  Min(S) = m
<1>1. \A y \in S : m =< y
  OBVIOUS
<1>2. Min(S) \in S /\ \A y \in S : Min(S) =< y
  BY <1>1 DEF Min
<1>3. Min(S) <= m /\ m <= Min(S)
  BY <1>1, <1>2
<1>4. Min(S) \in Int /\ m \in Int
  BY <1>2
<1> QED BY <1>3, <1>4

\* Places in increasing order: each once, the smaller ones first.
Rank(I, i) == Cardinality({j \in I : j <= i})

\* The k-th place is the one with k places up to it.
LEMMA InOrderRanks ==
    ASSUME NEW I \in SUBSET Nat, IsFiniteSet(I)
    PROVE  /\ Cardinality(I) \in Nat /\ DOMAIN InOrder(I) = 1..Cardinality(I)
           /\ \A k \in 1..Cardinality(I) : Rank(I, InOrder(I)[k]) = k
           /\ \A k \in 1..Cardinality(I) : InOrder(I)[k] \in I
           /\ \A j, k \in 1..Cardinality(I) : j < k => InOrder(I)[j] < InOrder(I)[k]
           /\ \A i \in I : \E k \in 1..Cardinality(I) : InOrder(I)[k] = i
<1> DEFINE N == Cardinality(I)
           Upto(i) == {j \in I : j <= i}
           place == [i \in I |-> Cardinality(Upto(i))]
<1>1. N \in Nat
  BY FS_CardinalityType
<1>2. \A i \in I : IsFiniteSet(Upto(i)) /\ Upto(i) \in SUBSET I /\ Cardinality(Upto(i)) \in Nat
  <2> TAKE i \in I
  <2>1. Upto(i) \in SUBSET I
    OBVIOUS
  <2> HIDE DEF Upto
  <2> QED BY <2>1, FS_Subset, FS_CardinalityType
<1>3. ASSUME NEW i \in I PROVE Cardinality(Upto(i)) \in 1..N
  <2>1. i \in Upto(i)
    OBVIOUS
  <2> HIDE DEF Upto
  <2>2. Cardinality(Upto(i)) <= N
    BY <1>2, FS_Subset
  <2>3. Cardinality(Upto(i)) # 0
    BY <1>2, <2>1, FS_EmptySet
  <2> HIDE DEF N
  <2> QED BY <1>1, <1>2, <2>2, <2>3
<1>4. ASSUME NEW i \in I, NEW j \in I, i < j PROVE Cardinality(Upto(i)) < Cardinality(Upto(j))
  <2>1. Upto(i) \subseteq Upto(j) /\ j \in Upto(j) /\ j \notin Upto(i)
    <3>1. i \in Nat /\ j \in Nat
      OBVIOUS
    <3>2. \A x \in Nat : x <= i => x <= j
      BY <1>4, <3>1
    <3>3. j <= j /\ ~ (j <= i)
      BY <1>4, <3>1
    <3>4. ASSUME NEW x \in Upto(i) PROVE x \in Upto(j)
      BY <3>2
    <3> QED BY <3>3, <3>4
  <2> HIDE DEF Upto
  <2>2. Cardinality(Upto(i)) <= Cardinality(Upto(j)) /\ Cardinality(Upto(i)) # Cardinality(Upto(j))
    BY <1>2, <2>1, FS_Subset
  <2> QED BY <1>2, <2>2
<1>5. place \in Injection(I, 1..N)
  <2>1. \A i, j \in I : Cardinality(Upto(i)) = Cardinality(Upto(j)) => i = j
    <3> TAKE i, j \in I
    <3>1. i < j \/ j < i \/ i = j
      OBVIOUS
    <3>2. Cardinality(Upto(i)) \in Nat /\ Cardinality(Upto(j)) \in Nat
      BY <1>2
    <3> HIDE DEF Upto
    <3> QED BY <1>4, <3>1, <3>2
  <2> HIDE DEF N, Upto
  <2> QED BY <1>3, <2>1 DEF Injection, IsInjective
<1>6. place \in Surjection(I, 1..N)
  <2>1. IsFiniteSet(1..N) /\ Cardinality(1..N) = N
    BY <1>1, FS_Interval
  <2> HIDE DEF place
  <2> QED BY <1>1, <1>5, <2>1, FS_Injection
<1>7. DOMAIN InOrder(I) = 1..N
  BY DEF InOrder
<1>8. ASSUME NEW k \in 1..N PROVE InOrder(I)[k] \in I /\ Cardinality(Upto(InOrder(I)[k])) = k
  <2>1. \E i \in I : Cardinality(Upto(i)) = k
    <3> HIDE DEF Upto, N
    <3> QED BY <1>6 DEF Surjection
  <2>2. InOrder(I)[k] = CHOOSE i \in I : Cardinality(Upto(i)) = k
    BY DEF InOrder
  <2> HIDE DEF Upto
  <2> QED BY <2>1, <2>2
<1>9. ASSUME NEW j \in 1..N, NEW k \in 1..N, j < k PROVE InOrder(I)[j] < InOrder(I)[k]
  <2> DEFINE x == InOrder(I)[j]
             y == InOrder(I)[k]
  <2>1. x \in I /\ y \in I /\ Cardinality(Upto(x)) = j /\ Cardinality(Upto(y)) = k
    BY <1>8
  <2> HIDE DEF x, y, Upto, N
  <2>2. x < y \/ y < x \/ x = y
    BY <2>1
  <2>3. x # y
    BY <1>9, <2>1
  <2>4. ~ (y < x)
    <3>1. j \in Nat /\ k \in Nat
      BY <1>1
    <3> QED BY <1>4, <1>9, <2>1, <3>1
  <2>5. x < y
    BY <2>2, <2>3, <2>4
  <2> QED BY <2>5 DEF x, y
<1>10. ASSUME NEW i \in I PROVE \E k \in 1..N : InOrder(I)[k] = i
  <2> DEFINE k == Cardinality(Upto(i))
  <2>1. k \in 1..N
    BY <1>3
  <2>2. InOrder(I)[k] \in I /\ Cardinality(Upto(InOrder(I)[k])) = k
    <3> HIDE DEF k, N, Upto
    <3> QED BY <1>8, <2>1
  <2>3. InOrder(I)[k] = i
    <3> DEFINE x == InOrder(I)[k]
    <3>1. x \in I /\ Cardinality(Upto(x)) = Cardinality(Upto(i))
      BY <2>2
    <3>3. Cardinality(Upto(i)) \in Nat
      BY <1>2
    <3> HIDE DEF x, k, Upto
    <3>2. x < i \/ i < x \/ x = i
      <4>1. x \in Nat /\ i \in Nat
        BY <3>1
      <4> QED BY <4>1
    <3>4. x = i
      BY <1>4, <3>1, <3>2, <3>3
    <3> QED BY <3>4 DEF x
  <2> HIDE DEF k, N
  <2> QED BY <2>1, <2>3
<1>11. \A k \in 1..N : Rank(I, InOrder(I)[k]) = k
  BY <1>8 DEF Rank
<1> QED BY <1>1, <1>7, <1>8, <1>9, <1>10, <1>11

\* Each place is once in the order.
LEMMA InOrderIs ==
    ASSUME NEW I \in SUBSET Nat, IsFiniteSet(I)
    PROVE  /\ Cardinality(I) \in Nat /\ DOMAIN InOrder(I) = 1..Cardinality(I)
           /\ \A k \in 1..Cardinality(I) : InOrder(I)[k] \in I
           /\ \A j, k \in 1..Cardinality(I) : j < k => InOrder(I)[j] < InOrder(I)[k]
           /\ \A i \in I : \E k \in 1..Cardinality(I) : InOrder(I)[k] = i
BY InOrderRanks

\* The last of them is the greatest.
LEMMA InOrderEnds ==
    ASSUME NEW I \in SUBSET Nat, IsFiniteSet(I), NEW m \in I, \A i \in I : i <= m
    PROVE  Cardinality(I) \in Nat \ {0} /\ InOrder(I)[Cardinality(I)] = m
<1> DEFINE N == Cardinality(I)
<1>1. PICK k \in 1..N : InOrder(I)[k] = m
  BY InOrderIs
<1>2. N \in Nat
  BY InOrderIs
<1> HIDE DEF N
<1>3. N \in 1..N
  BY <1>1, <1>2
<1>4. InOrder(I)[N] \in I /\ (k < N => InOrder(I)[k] < InOrder(I)[N])
  BY <1>1, <1>3, InOrderIs DEF N
<1>5. ~ (k < N)
  <2> DEFINE x == InOrder(I)[N]
  <2>1. x \in I /\ (k < N => m < x)
    BY <1>1, <1>4
  <2>2. x <= m /\ x \in Nat /\ m \in Nat
    BY <2>1
  <2> HIDE DEF x
  <2> QED BY <2>1, <2>2
<1>6. k = N
  BY <1>1, <1>2, <1>5
<1> QED BY <1>1, <1>2, <1>3, <1>6 DEF N

\* The selected rows of a series, in its order.
LEMMA SelectedIs ==
    ASSUME NEW T, NEW s \in Seq(T), NEW I \in SUBSET DOMAIN s
    PROVE  /\ Selected(s, I) \in Seq(T)
           /\ \A k \in DOMAIN Selected(s, I) : InOrder(I)[k] \in I /\ Selected(s, I)[k] = s[InOrder(I)[k]]
           /\ \A j, k \in DOMAIN Selected(s, I) : j <= k => InOrder(I)[j] <= InOrder(I)[k]
<1> DEFINE N == Cardinality(I)
<1>1. I \in SUBSET Nat /\ IsFiniteSet(I)
  <2>1. Len(s) \in Nat /\ DOMAIN s = 1..Len(s)
    BY LenProperties
  <2>2. IsFiniteSet(1..Len(s))
    BY <2>1, FS_Interval
  <2> QED BY <2>1, <2>2, FS_Subset
<1>2. /\ N \in Nat /\ \A k \in 1..N : InOrder(I)[k] \in I
      /\ \A j, k \in 1..N : j < k => InOrder(I)[j] < InOrder(I)[k]
  BY <1>1, InOrderIs
<1>3. DOMAIN Selected(s, I) = 1..N /\ \A k \in 1..N : Selected(s, I)[k] = s[InOrder(I)[k]]
  BY DEF Selected
<1>4. \A i \in DOMAIN s : s[i] \in T
  BY LenProperties
<1>5. Selected(s, I) \in [1..N -> T]
  <2>1. Selected(s, I) = [k \in 1..N |-> s[InOrder(I)[k]]]
    BY DEF Selected
  <2> HIDE DEF N
  <2> QED BY <1>2, <1>4, <2>1
<1> HIDE DEF N
<1>6. Selected(s, I) \in Seq(T)
  BY <1>2, <1>5, SeqDef
<1>7. \A j, k \in 1..N : j <= k => InOrder(I)[j] <= InOrder(I)[k]
  <2> TAKE j, k \in 1..N
  <2>1. InOrder(I)[j] \in Nat /\ InOrder(I)[k] \in Nat
    BY <1>1, <1>2
  <2>2. j < k => InOrder(I)[j] < InOrder(I)[k]
    BY <1>2
  <2> QED BY <1>2, <2>1, <2>2
<1> QED BY <1>2, <1>3, <1>6, <1>7

Snapshot == [ts : 0..MaxClock, asset : Range(Settlement), equity : Nat]
Sorted(s) == \A i, j \in DOMAIN s : i <= j => s[i].ts <= s[j].ts

\* What the figures of a month rest on: snapshots in the order of time, finitely many flows.
LedgerOK ==
    /\ equities \in Seq(Snapshot) /\ Sorted(equities)
    /\ transfers \subseteq [at : 0..MaxClock, amount : Transfer] /\ IsFiniteSet(transfers)

\* Some rows of an ordered series are ordered.
LEMMA SelectedSorted ==
    ASSUME NEW s \in Seq(Snapshot), Sorted(s), NEW I \in SUBSET DOMAIN s
    PROVE  Sorted(Selected(s, I))
<1> SUFFICES ASSUME NEW j \in DOMAIN Selected(s, I), NEW k \in DOMAIN Selected(s, I), j <= k
             PROVE  Selected(s, I)[j].ts <= Selected(s, I)[k].ts
  BY DEF Sorted
<1>1. /\ InOrder(I)[j] \in I /\ Selected(s, I)[j] = s[InOrder(I)[j]]
      /\ InOrder(I)[k] \in I /\ Selected(s, I)[k] = s[InOrder(I)[k]]
      /\ InOrder(I)[j] <= InOrder(I)[k]
  BY SelectedIs
<1>2. s[InOrder(I)[j]].ts <= s[InOrder(I)[k]].ts
  BY <1>1 DEF Sorted
<1> QED BY <1>1, <1>2

\* The series a return is computed from.
LEMMA SeriesIs ==
    ASSUME LedgerOK
    PROVE  Series \in Seq(Snapshot) /\ Sorted(Series)
<1>1. CASE equities = <<>>
  <2>1. Series = <<>>
    BY <1>1 DEF Series
  <2>2. <<>> \in Seq(Snapshot) /\ DOMAIN <<>> = {}
    BY EmptySeq
  <2> QED BY <2>1, <2>2 DEF Sorted
<1>2. CASE equities # <<>>
  <2> DEFINE I == {i \in DOMAIN equities : equities[i].asset = Preferred(DOMAIN Peak, Peak)}
  <2>1. Series = Selected(equities, I)
    BY <1>2 DEF Series
  <2>2. I \in SUBSET DOMAIN equities
    OBVIOUS
  <2> HIDE DEF I
  <2> QED BY <2>1, <2>2, SelectedIs, SelectedSorted DEF LedgerOK
<1> QED BY <1>1, <1>2

\* The snapshots of a month: none is zero.
LEMMA InMonthIs ==
    ASSUME LedgerOK, NEW m
    PROVE  /\ InMonth(m) \in Seq(Snapshot) /\ Sorted(InMonth(m))
           /\ Len(InMonth(m)) \in Nat /\ DOMAIN InMonth(m) = 1..Len(InMonth(m))
           /\ \A i \in DOMAIN InMonth(m) : /\ InMonth(m)[i].equity \in Nat \ {0}
                                           /\ InMonth(m)[i].ts \in Nat
<1> DEFINE I == {i \in DOMAIN Series : PeriodAt(Series[i].ts, "month") = m /\ Series[i].equity > 0}
<1>1. InMonth(m) = Selected(Series, I)
  BY DEF InMonth
<1>2. I \in SUBSET DOMAIN Series /\ Series \in Seq(Snapshot) /\ Sorted(Series)
  BY SeriesIs
<1>3. ASSUME NEW i \in I PROVE Series[i].equity \in Nat \ {0} /\ Series[i].ts \in Nat
  <2>1. Series[i] \in Snapshot
    <3>1. Series \in [1..Len(Series) -> Snapshot]
      BY <1>2, LenProperties
    <3> QED BY <3>1
  <2> QED BY <2>1, GoalAssumption DEF Snapshot
<1> HIDE DEF I
<1>4. InMonth(m) \in Seq(Snapshot) /\ Sorted(InMonth(m))
  BY <1>1, <1>2, SelectedIs, SelectedSorted
<1>5. \A i \in DOMAIN InMonth(m) : InMonth(m)[i].equity \in Nat \ {0} /\ InMonth(m)[i].ts \in Nat
  <2> TAKE i \in DOMAIN InMonth(m)
  <2>1. InOrder(I)[i] \in I /\ InMonth(m)[i] = Series[InOrder(I)[i]]
    BY <1>1, <1>2, SelectedIs
  <2> QED BY <1>3, <2>1
<1>6. Len(InMonth(m)) \in Nat /\ DOMAIN InMonth(m) = 1..Len(InMonth(m))
  BY <1>4, LenProperties
<1> QED BY <1>4, <1>5, <1>6

\* Of a month the ends are the first and the last of its snapshots.
LEMMA MonthEndpoints ==
    ASSUME LedgerOK, NEW m, Endpoints(InMonth(m)) # NoEndpoints
    PROVE  Len(InMonth(m)) >= 2 /\ Endpoints(InMonth(m)) = <<1, Len(InMonth(m))>>
<1> DEFINE s == InMonth(m)
           nonzero == {i \in DOMAIN s : s[i].equity # 0}
           last == Len(s)
<1>1. last \in Nat /\ DOMAIN s = 1..last /\ \A i \in DOMAIN s : s[i].equity # 0
  BY InMonthIs
<1>2. nonzero = 1..last
  BY <1>1
<1>3. last >= 2
  <2>1. last < 2 => Endpoints(s) = NoEndpoints
    BY <1>1 DEF Endpoints
  <2> HIDE DEF s
  <2> QED BY <1>1, <2>1 DEF s
<1>4. Cardinality(1..last) > 1 /\ 1..last # {} /\ Cardinality(1..last) # 1
  <2> HIDE DEF last
  <2>1. Cardinality(1..last) = last
    BY <1>1, FS_Interval
  <2> QED BY <1>1, <1>3, <2>1
<1>5. Min(1..last) = 1 /\ Max(1..last) = last
  <2> HIDE DEF last
  <2>1. 1..last \in SUBSET Int /\ 1 \in 1..last /\ last \in 1..last
    BY <1>1, <1>3
  <2>2. \A x \in 1..last : 1 <= x /\ x <= last
    BY <1>1
  <2> QED BY <2>1, <2>2, MaxIs, MinIs
<1>6. Endpoints(s) = <<1, last>>
  <2>1. last >= 2 /\ ~(last < 2)
    BY <1>1, <1>3
  <2>2. Endpoints(s) = CASE last < 2 -> NoEndpoints
          [] last >= 2 /\ nonzero = {} -> <<1, last>>
          [] last >= 2 /\ Cardinality(nonzero) = 1 ->
                <<(CHOOSE i \in nonzero : TRUE), IF (CHOOSE i \in nonzero : TRUE) = last THEN last - 1 ELSE last>>
          [] last >= 2 /\ Cardinality(nonzero) > 1 -> <<Min(nonzero), Max(nonzero)>>
    BY DEF Endpoints
  <2>3. nonzero # {} /\ Cardinality(nonzero) # 1 /\ Cardinality(nonzero) > 1
        /\ Min(nonzero) = 1 /\ Max(nonzero) = last
    <3> HIDE DEF last, nonzero
    <3> QED BY <1>2, <1>4, <1>5
  <2> HIDE DEF last, nonzero, s
  <2> QED BY <2>1, <2>2, <2>3
<1> QED BY <1>3, <1>6

\* Flows between two moments are whole amounts, and a moment in between divides them.
LEMMA FlowSums ==
    ASSUME LedgerOK, NEW a \in Int, NEW b \in Int, NEW c \in Int, a <= b, b <= c
    PROVE  /\ Sum(FlowsIn(a, b)) \in Int /\ Sum(FlowsIn(b, c)) \in Int
           /\ Sum(FlowsIn(a, c)) = Sum(FlowsIn(a, b)) + Sum(FlowsIn(b, c))
<1> DEFINE amounts == [f \in transfers |-> f.amount]
<1>1. \A f \in transfers : amounts[f] \in Int /\ amounts[f] = f.amount /\ f.at \in Int
  <2> TAKE f \in transfers
  <2>1. f \in [at : 0..MaxClock, amount : Transfer] /\ MaxClock \in Nat /\ Transfer \subseteq Int
    BY GoalAssumption DEF LedgerOK
  <2>2. f.at \in 0..MaxClock /\ f.amount \in Transfer
    BY <2>1
  <2>3. f.at \in Int /\ f.amount \in Int
    <3>1. \A x \in 0..MaxClock : x \in Int
      BY <2>1
    <3> QED BY <2>1, <2>2, <3>1
  <2>4. amounts[f] = f.amount
    OBVIOUS
  <2> QED BY <2>3, <2>4
<1>2. ASSUME NEW R \in SUBSET transfers
      PROVE  Sum(R) = SumFunctionOnSet(amounts, R) /\ Sum(R) \in Int /\ IsFiniteSet(R)
  <2> DEFINE own == [f \in R |-> f.amount]
  <2>1. IsFiniteSet(R)
    BY FS_Subset DEF LedgerOK
  <2>2. \A f \in R : own[f] \in Int /\ own[f] = amounts[f]
    BY <1>1
  <2>3. Sum(R) = SumFunctionOnSet(own, R)
    BY DEF Sum, SumFunction
  <2> HIDE DEF own, amounts
  <2> QED BY <2>1, <2>2, <2>3, SumCongruent, SumInt
<1> DEFINE A == FlowsIn(a, b)
           B == FlowsIn(b, c)
<1>3. A \in SUBSET transfers /\ B \in SUBSET transfers
  BY DEF FlowsIn
<1>4. FlowsIn(a, c) = A \cup B /\ A \cap B = {}
  BY <1>1 DEF FlowsIn
<1> HIDE DEF A, B
<1>5. SumFunctionOnSet(amounts, A \cup B) = SumFunctionOnSet(amounts, A) + SumFunctionOnSet(amounts, B)
  <2>1. \A f \in A \cup B : amounts[f] \in Int
    BY <1>1, <1>3
  <2> HIDE DEF amounts
  <2> QED BY <1>2, <1>3, <1>4, <2>1, SumUnion
<1>6. Sum(A \cup B) = SumFunctionOnSet(amounts, A \cup B) /\ Sum(A) = SumFunctionOnSet(amounts, A)
      /\ Sum(B) = SumFunctionOnSet(amounts, B) /\ Sum(A) \in Int /\ Sum(B) \in Int
  <2>1. A \cup B \in SUBSET transfers
    BY <1>3
  <2> HIDE DEF amounts
  <2> QED BY <1>2, <1>3, <2>1
<1>7. Sum(A) \in Int /\ Sum(B) \in Int /\ Sum(FlowsIn(a, c)) = Sum(A) + Sum(B)
  <2> HIDE DEF amounts
  <2> QED BY <1>4, <1>5, <1>6
<1> QED BY <1>7 DEF A, B

-----------------------------------------------------------------------------
(***************************************************************************)
(* MonthlyGoals: the buckets of a month add up.                            *)
(***************************************************************************)

\* The net profit of a stretch of a month between two of its snapshots.
Opening(base, m) == IF base # Nothing THEN base ELSE InMonth(m)[1].equity
EndOf(m, kind, k) == BucketEnds(InMonth(m), kind)[k]
NetUpTo(base, m, i) ==
    InMonth(m)[i].equity - Opening(base, m) - Sum(FlowsIn(InMonth(m)[1].ts, InMonth(m)[i].ts))

\* The ends of n buckets.
EndsFit(m, kind, n) ==
    /\ DOMAIN BucketEnds(InMonth(m), kind) = 1..n
    /\ \A k \in 1..n : EndOf(m, kind, k) \in DOMAIN InMonth(m)
    /\ \A k \in 2..n : EndOf(m, kind, k - 1) < EndOf(m, kind, k)
    /\ EndOf(m, kind, n) = Len(InMonth(m))

\* The ends of the buckets: snapshots in order, the last of the month among them.
LEMMA BucketEndsAre ==
    ASSUME LedgerOK, NEW m, NEW kind, Len(InMonth(m)) >= 2
    PROVE  \E n \in Nat \ {0} : EndsFit(m, kind, n)
<1> DEFINE s == InMonth(m)
           E == {i \in DOMAIN s : i = Len(s) \/ PeriodAt(s[i].ts, kind) # PeriodAt(s[i + 1].ts, kind)}
<1>1. Len(s) \in Nat /\ DOMAIN s = 1..Len(s)
  BY InMonthIs
<1>2. E \in SUBSET Nat /\ E \in SUBSET DOMAIN s /\ Len(s) \in E
  BY <1>1
<1>3. IsFiniteSet(E)
  <2>1. IsFiniteSet(1..Len(s))
    BY <1>1, FS_Interval
  <2> HIDE DEF E, s
  <2> QED BY <1>1, <1>2, <2>1, FS_Subset
<1>4. BucketEnds(s, kind) = InOrder(E)
  BY DEF BucketEnds
<1>5. \A i \in E : i <= Len(s)
  BY <1>1
<1> DEFINE n == Cardinality(E)
<1>6. n \in Nat \ {0} /\ InOrder(E)[n] = Len(s)
  <2> HIDE DEF E, s
  <2> QED BY <1>2, <1>3, <1>5, InOrderEnds
<1>7. /\ DOMAIN InOrder(E) = 1..n
      /\ \A k \in 1..n : InOrder(E)[k] \in E
      /\ \A j, k \in 1..n : j < k => InOrder(E)[j] < InOrder(E)[k]
  <2> HIDE DEF E, s
  <2> QED BY <1>2, <1>3, InOrderIs
<1> HIDE DEF n, E
<1>8. \A k \in 2..n : InOrder(E)[k - 1] < InOrder(E)[k]
  <2> TAKE k \in 2..n
  <2>1. k - 1 \in 1..n /\ k \in 1..n /\ k - 1 < k
    BY <1>6
  <2> QED BY <1>7, <2>1
<1>9. \A k : EndOf(m, kind, k) = InOrder(E)[k]
  BY <1>4 DEF EndOf
<1>10. \A k \in 1..n : EndOf(m, kind, k) \in DOMAIN s
  BY <1>2, <1>7, <1>9
<1>11. EndOf(m, kind, n) = Len(s)
  BY <1>6, <1>9
<1>12. \A k \in 2..n : EndOf(m, kind, k - 1) < EndOf(m, kind, k)
  BY <1>8, <1>9
<1>13. DOMAIN BucketEnds(s, kind) = 1..n
  BY <1>4, <1>7
<1> QED BY <1>6, <1>10, <1>11, <1>12, <1>13 DEF EndsFit

BucketsDiffer(base, m, kind, n) ==
    /\ DOMAIN Buckets(base, m, kind) = 1..n
    /\ \A k \in 1..n : NetUpTo(base, m, EndOf(m, kind, k)) \in Int
    /\ Buckets(base, m, kind)[1] = NetUpTo(base, m, EndOf(m, kind, 1))
    /\ \A k \in 2..n : Buckets(base, m, kind)[k]
            = NetUpTo(base, m, EndOf(m, kind, k)) - NetUpTo(base, m, EndOf(m, kind, k - 1))

\* One bucket is the difference of two stretches.
LEMMA BucketIs ==
    ASSUME LedgerOK, NEW m, NEW kind, Len(InMonth(m)) >= 2, NEW base \in Int, NEW n \in Nat \ {0},
           EndsFit(m, kind, n)
    PROVE  BucketsDiffer(base, m, kind, n)
<1> DEFINE s == InMonth(m)
           at(i) == s[i].ts
           eq(i) == s[i].equity
<1>0. /\ DOMAIN BucketEnds(s, kind) = 1..n
      /\ \A k \in 1..n : EndOf(m, kind, k) \in DOMAIN s
      /\ \A k \in 2..n : EndOf(m, kind, k - 1) < EndOf(m, kind, k)
  BY DEF EndsFit
<1>1. /\ Len(s) \in Nat /\ DOMAIN s = 1..Len(s) /\ 1 \in DOMAIN s
      /\ \A i \in DOMAIN s : eq(i) \in Int /\ at(i) \in Int
      /\ \A i, j \in DOMAIN s : i <= j => at(i) <= at(j)
  <2>1. Len(s) \in Nat /\ DOMAIN s = 1..Len(s) /\ Sorted(s)
        /\ \A i \in DOMAIN s : eq(i) \in Nat \ {0} /\ at(i) \in Nat
    BY InMonthIs
  <2> QED BY <2>1 DEF Sorted
<1>2. Opening(base, m) \in Int
  BY <1>1 DEF Opening
<1>3. \A i \in DOMAIN s : Sum(FlowsIn(at(1), at(i))) \in Int /\ NetUpTo(base, m, i) \in Int
  <2> TAKE i \in DOMAIN s
  <2>1. at(1) \in Int /\ at(i) \in Int /\ at(1) <= at(i) /\ at(i) <= at(i)
    <3>1. 1 <= i /\ 1 \in DOMAIN s
      BY <1>1
    <3> HIDE DEF s
    <3>2. at(1) \in Int /\ at(i) \in Int
      BY <1>1, <3>1
    <3>3. at(1) <= at(i)
      BY <1>1, <3>1
    <3> QED BY <3>2, <3>3
  <2>2. Sum(FlowsIn(at(1), at(i))) \in Int
    <3> HIDE DEF at
    <3> QED BY <2>1, FlowSums
  <2>3. NetUpTo(base, m, i) = eq(i) - Opening(base, m) - Sum(FlowsIn(at(1), at(i)))
    BY DEF NetUpTo
  <2>4. eq(i) \in Int
    BY <1>1
  <2> HIDE DEF eq, at
  <2> QED BY <1>2, <2>2, <2>3, <2>4
<1>4. DOMAIN Buckets(base, m, kind) = 1..n
  BY <1>0 DEF Buckets
<1>5. \A k \in 1..n : Buckets(base, m, kind)[k] =
        LET ends == BucketEnds(s, kind)
            before == IF k = 1 THEN 1 ELSE ends[k - 1]
            opening == IF k = 1 /\ base # Nothing THEN base ELSE s[before].equity
        IN  s[ends[k]].equity - opening - Sum(FlowsIn(s[before].ts, s[ends[k]].ts))
  BY <1>0 DEF Buckets
<1>6. Buckets(base, m, kind)[1] = NetUpTo(base, m, EndOf(m, kind, 1))
  <2>1. 1 \in 1..n
    OBVIOUS
  <2> QED BY <1>5, <2>1 DEF NetUpTo, EndOf, Opening
<1>7. ASSUME NEW k \in 2..n
      PROVE  Buckets(base, m, kind)[k]
                = NetUpTo(base, m, EndOf(m, kind, k)) - NetUpTo(base, m, EndOf(m, kind, k - 1))
  <2> DEFINE i == EndOf(m, kind, k - 1)
             j == EndOf(m, kind, k)
  <2>1. k \in 1..n /\ k # 1 /\ k - 1 \in 1..n
    OBVIOUS
  <2>2. i \in DOMAIN s /\ j \in DOMAIN s /\ i < j
    BY <1>0, <2>1
  <2>3. Buckets(base, m, kind)[k] = eq(j) - eq(i) - Sum(FlowsIn(at(i), at(j)))
    BY <1>5, <2>1 DEF EndOf
  <2>4. NetUpTo(base, m, i) = eq(i) - Opening(base, m) - Sum(FlowsIn(at(1), at(i)))
        /\ NetUpTo(base, m, j) = eq(j) - Opening(base, m) - Sum(FlowsIn(at(1), at(j)))
    BY DEF NetUpTo
  <2> HIDE DEF i, j
  <2>5. at(1) <= at(i) /\ at(i) <= at(j) /\ at(1) \in Int /\ at(i) \in Int /\ at(j) \in Int
        /\ eq(i) \in Int /\ eq(j) \in Int
    <3>1. 1 <= i /\ i <= j /\ i \in Int
      BY <1>1, <2>2
    <3> HIDE DEF at, eq, s
    <3> QED BY <1>1, <2>2, <3>1
  <2> HIDE DEF at, eq, s
  <2>6. Sum(FlowsIn(at(1), at(j))) = Sum(FlowsIn(at(1), at(i))) + Sum(FlowsIn(at(i), at(j)))
        /\ Sum(FlowsIn(at(1), at(i))) \in Int /\ Sum(FlowsIn(at(i), at(j))) \in Int
    BY <2>5, FlowSums
  <2>7. Buckets(base, m, kind)[k] = NetUpTo(base, m, j) - NetUpTo(base, m, i)
    BY <1>2, <2>3, <2>4, <2>5, <2>6
  <2> QED BY <2>7 DEF i, j
<1> QED BY <1>0, <1>3, <1>4, <1>6, <1>7 DEF BucketsDiffer

\* What is in the figures of a month.
LEMMA ProgressIs ==
    ASSUME LedgerOK, NEW m, NEW base \in Int
    PROVE  /\ Progress(base, m).opening \in Int /\ Progress(base, m).net \in Int
           /\ Progress(base, m).available \in BOOLEAN
           /\ Progress(base, m).opening = base \/ Progress(base, m).opening > 0
           /\ Progress(base, m).available =>
                Progress(base, m).opening > 0 \/ (Progress(base, m).opening = base /\ base # Nothing)
           /\ Progress(base, m).available =>
                /\ Len(InMonth(m)) >= 2
                /\ Progress(base, m).net = NetUpTo(base, m, Len(InMonth(m)))
<1> DEFINE s == InMonth(m)
           p == Endpoints(s)
<1>1. CASE ~covered \/ p = NoEndpoints
  <2>1. Progress(base, m) = [available |-> FALSE, opening |-> base, net |-> Nothing]
    BY <1>1 DEF Progress
  <2> HIDE DEF p, s
  <2> QED BY <2>1 DEF Nothing
<1>2. CASE ~(~covered \/ p = NoEndpoints)
  <2>1. Len(s) >= 2 /\ p = <<1, Len(s)>>
    BY <1>2, MonthEndpoints
  <2>2. Progress(base, m) = [available |-> TRUE, opening |-> Opening(base, m), net |-> NetUpTo(base, m, Len(s))]
    <3>1. p[1] = 1 /\ p[2] = Len(s)
      BY <2>1
    <3>2. Progress(base, m) =
            [available |-> TRUE, opening |-> IF base # Nothing THEN base ELSE s[p[1]].equity,
             net |-> s[p[2]].equity - (IF base # Nothing THEN base ELSE s[p[1]].equity)
                        - Sum(FlowsIn(s[p[1]].ts, s[p[2]].ts))]
      BY <1>2 DEF Progress
    <3> HIDE DEF p
    <3> QED BY <3>1, <3>2 DEF NetUpTo, Opening
  <2>3. /\ Len(s) \in DOMAIN s /\ 1 \in DOMAIN s /\ Len(s) \in Nat
        /\ s[1].equity \in Nat \ {0} /\ s[Len(s)].equity \in Nat \ {0}
        /\ s[1].ts \in Int /\ s[Len(s)].ts \in Int /\ s[1].ts <= s[Len(s)].ts
    <3>1. Len(s) \in Nat /\ DOMAIN s = 1..Len(s) /\ Sorted(s)
          /\ \A i \in DOMAIN s : s[i].equity \in Nat \ {0} /\ s[i].ts \in Nat
      BY InMonthIs
    <3> HIDE DEF s
    <3>2. 1 \in DOMAIN s /\ Len(s) \in DOMAIN s /\ 1 <= Len(s)
      BY <2>1, <3>1
    <3> QED BY <3>1, <3>2 DEF Sorted
  <2>4. Opening(base, m) \in Int /\ (Opening(base, m) > 0 \/ (Opening(base, m) = base /\ base # Nothing))
    BY <2>3 DEF Opening
  <2>5. Sum(FlowsIn(s[1].ts, s[Len(s)].ts)) \in Int
    <3> DEFINE a == s[1].ts
               b == s[Len(s)].ts
    <3>1. a \in Int /\ b \in Int /\ a <= b /\ b <= b
      BY <2>3
    <3> HIDE DEF a, b
    <3>2. Sum(FlowsIn(a, b)) \in Int
      BY <3>1, FlowSums
    <3> QED BY <3>2 DEF a, b
  <2>6. NetUpTo(base, m, Len(s)) \in Int
    <3>1. NetUpTo(base, m, Len(s)) = s[Len(s)].equity - Opening(base, m) - Sum(FlowsIn(s[1].ts, s[Len(s)].ts))
      BY DEF NetUpTo
    <3> HIDE DEF s
    <3> QED BY <2>3, <2>4, <2>5, <3>1
  <2>7. Progress(base, m).opening = Opening(base, m) /\ Progress(base, m).net = NetUpTo(base, m, Len(s))
        /\ Progress(base, m).available = TRUE
    BY <2>2
  <2> HIDE DEF s, p
  <2> QED BY <2>1, <2>4, <2>6, <2>7 DEF s
<1> QED BY <1>1, <1>2

\* The buckets of a month make it up, one after the other.
LEMMA BucketsAddUp ==
    ASSUME LedgerOK
    PROVE  BucketsMakeMonth
<1> SUFFICES ASSUME NEW m \in Months, NEW base \in BaseEquity \cup {Nothing}, NEW kind \in DOMAIN Ticks,
                    Progress(base, m).available
             PROVE  SumFunction(Buckets(base, m, kind)) = Progress(base, m).net
  BY DEF BucketsMakeMonth
<1>1. base \in Int
  BY GoalAssumption DEF Nothing
<1>2. Len(InMonth(m)) >= 2 /\ Progress(base, m).net = NetUpTo(base, m, Len(InMonth(m)))
  BY <1>1, ProgressIs
<1>3. PICK n \in Nat \ {0} : EndsFit(m, kind, n)
  BY <1>2, BucketEndsAre
<1> DEFINE profits == Buckets(base, m, kind)
           upTo == [k \in 1..n |-> NetUpTo(base, m, EndOf(m, kind, k))]
<1>4. /\ DOMAIN profits = 1..n
      /\ \A k \in 1..n : upTo[k] \in Int
      /\ profits[1] = upTo[1] /\ \A k \in 2..n : profits[k] = upTo[k] - upTo[k - 1]
  <2>1. /\ DOMAIN profits = 1..n
        /\ \A k \in 1..n : NetUpTo(base, m, EndOf(m, kind, k)) \in Int
        /\ profits[1] = NetUpTo(base, m, EndOf(m, kind, 1))
        /\ \A k \in 2..n : profits[k]
                = NetUpTo(base, m, EndOf(m, kind, k)) - NetUpTo(base, m, EndOf(m, kind, k - 1))
    <3>1. BucketsDiffer(base, m, kind, n)
      BY <1>1, <1>2, <1>3, BucketIs
    <3> QED BY <3>1 DEF BucketsDiffer
  <2>2. 1 \in 1..n /\ \A k \in 2..n : k \in 1..n /\ k - 1 \in 1..n
    OBVIOUS
  <2> HIDE DEF profits
  <2> QED BY <2>1, <2>2
<1>5. upTo[n] = NetUpTo(base, m, Len(InMonth(m)))
  BY <1>3 DEF EndsFit
<1> HIDE DEF profits, upTo
<1> DEFINE Good == {k \in 0..n : k # 0 => SumFunctionOnSet(profits, 1..k) = upTo[k]}
<1>6. 0 \in Good
  OBVIOUS
<1>7. ASSUME NEW k \in 1..n, k - 1 \in Good PROVE k \in Good
  <2>1. IsFiniteSet(1..k) /\ k \in 1..k /\ (1..k) \ {k} = 1..k - 1 /\ \A x \in 1..k : x \in 1..n
    <3>1. IsFiniteSet(1..k)
      BY FS_Interval
    <3>2. k \in 1..k /\ (1..k) \ {k} = 1..k - 1
      OBVIOUS
    <3>3. \A x \in 1..k : x \in 1..n
      OBVIOUS
    <3> QED BY <3>1, <3>2, <3>3
  <2>2. \A x \in 1..n : profits[x] \in Int
    <3> TAKE x \in 1..n
    <3>1. x = 1 \/ (x \in 2..n /\ x - 1 \in 1..n)
      OBVIOUS
    <3>2. upTo[x] \in Int /\ (x # 1 => upTo[x - 1] \in Int)
      BY <1>4, <3>1
    <3> QED BY <1>4, <3>1, <3>2
  <2>3. SumFunctionOnSet(profits, 1..k) = profits[k] + SumFunctionOnSet(profits, (1..k) \ {k})
    <3>1. \A x \in 1..k : profits[x] \in Int
      BY <2>1, <2>2
    <3> QED BY <2>1, <3>1, SumTakes
  <2>4. SumFunctionOnSet(profits, 1..k) = profits[k] + SumFunctionOnSet(profits, 1..k - 1)
    BY <2>1, <2>3
  <2>5. CASE k = 1
    <3>1. 1..k - 1 = {}
      BY <2>5
    <3>2. SumFunctionOnSet(profits, 1..k - 1) = 0
      BY <3>1, SumOfNone
    <3>3. SumFunctionOnSet(profits, 1..k) = upTo[k]
      BY <1>4, <2>4, <2>5, <3>2
    <3> QED BY <3>3
  <2>6. CASE k # 1
    <3>1. k \in 2..n /\ k - 1 \in 1..n /\ k - 1 # 0
      BY <2>6
    <3>2. SumFunctionOnSet(profits, 1..k - 1) = upTo[k - 1]
      BY <1>7, <3>1
    <3>3. SumFunctionOnSet(profits, 1..k) = upTo[k]
      BY <1>4, <2>4, <3>1, <3>2
    <3> QED BY <3>3
  <2> QED BY <2>5, <2>6
<1>8. n \in Good
  <2> HIDE DEF Good
  <2>1. 0..n \subseteq Good
    BY <1>6, <1>7, UpTo
  <2> QED BY <2>1
<1>9. SumFunction(profits) = upTo[n]
  BY <1>4, <1>8 DEF SumFunction
<1> QED BY <1>2, <1>5, <1>9 DEF profits

-----------------------------------------------------------------------------
(***************************************************************************)
(* MonthlyGoals: the invariant.                                            *)
(***************************************************************************)

\* What is stored of a month, what is computed of it, and a request.
Plan == [status : {"none", "open", "closed"}, base : Int, redeem : Redeem \cup {0}, net : Int]
Result == [available : BOOLEAN, opening : Int, net : Int]
GoalRequest == [pc : {"idle", "compute", "lookup", "store"}, put : BOOLEAN,
                rows : UNION {[M -> Plan] : M \in SUBSET Months},
                results : UNION {[M -> Result] : M \in SUBSET Months},
                loaded : Plan, month : Months]

\* A row as it may stand: no plan is empty, and only past months are closed.
PlanFits(m) ==
    /\ goals[m].base = Nothing \/ goals[m].base > 0
    /\ goals[m].status = "none" => goals[m] = NoGoal
    /\ goals[m].status = "closed" => m < MonthNow

\* What a request remembers: past months that have a plan, and a plan that is still there.
RequestFits(v) ==
    /\ DOMAIN goalRequest[v].results \subseteq DOMAIN goalRequest[v].rows
    /\ \A m \in DOMAIN goalRequest[v].rows : m < MonthNow /\ goals[m].status # "none"
    /\ goalRequest[v].loaded # NoGoal => goals[goalRequest[v].month].status # "none"

\* The inductive invariant.
GoalIInv ==
    /\ LedgerOK /\ \A i \in DOMAIN equities : equities[i].ts <= clock
    /\ clock \in 0..MaxClock /\ covered \in BOOLEAN
    /\ goals \in [Months -> Plan] /\ \A m \in Months : PlanFits(m)
    /\ goalRequest \in [GoalVisitor -> GoalRequest] /\ \A v \in GoalVisitor : RequestFits(v)
    /\ goalWriter \in GoalVisitor \cup {NoVisitor}

\* The present month is one of the months.
LEMMA MonthsAre ==
    ASSUME clock \in 0..MaxClock
    PROVE  Months \subseteq Nat /\ 0 \in Months /\ MonthNow \in Months
<1>1. MaxClock \in Nat /\ clock \in Nat /\ clock <= MaxClock
  BY GoalAssumption
<1>2. PeriodAt(MaxClock, "month") = MaxClock \div 4 /\ MonthNow = clock \div 4
  BY DEF PeriodAt, MonthNow, Ticks
<1>3. MaxClock \div 4 \in Nat /\ clock \div 4 \in Nat /\ clock \div 4 <= MaxClock \div 4
  BY <1>1
<1>4. Months = 0..(MaxClock \div 4)
  BY <1>2 DEF Months
<1> QED BY <1>2, <1>3, <1>4

\* Where everything begins.
LEMMA EmptyMonths ==
    /\ NoGoal \in Plan
    /\ \A S : <<>> \in UNION {[M -> S] : M \in SUBSET Months}
    /\ DOMAIN <<>> = {}
<1>1. NoGoal \in Plan
  BY DEF NoGoal, Plan, Nothing
<1>2. ASSUME NEW S PROVE <<>> \in [{} -> S] /\ DOMAIN <<>> = {}
  <2>1. <<>> \in Seq(S) /\ Len(<<>>) = 0
    BY EmptySeq
  <2>2. <<>> \in [1..Len(<<>>) -> S] /\ DOMAIN <<>> = 1..Len(<<>>)
    BY <2>1, LenProperties
  <2>3. 1..0 = {}
    OBVIOUS
  <2> QED BY <2>1, <2>2, <2>3
<1>3. {} \in SUBSET Months
  OBVIOUS
<1>4. \A S : <<>> \in UNION {[M -> S] : M \in SUBSET Months}
  BY <1>2, <1>3
<1> QED BY <1>1, <1>2, <1>4

\* The invariant holds at the start.
LEMMA GoalStarts == GoalInit => GoalIInv
<1> SUFFICES ASSUME GoalInit PROVE GoalIInv
  OBVIOUS
<1> USE DEF GoalInit
<1>1. clock \in 0..MaxClock /\ covered \in BOOLEAN /\ goalWriter \in GoalVisitor \cup {NoVisitor}
  BY GoalAssumption
<1>2. LedgerOK /\ \A i \in DOMAIN equities : equities[i].ts <= clock
  <2>1. equities = <<>> /\ <<>> \in Seq(Snapshot) /\ DOMAIN equities = {}
    BY EmptySeq, EmptyMonths
  <2>2. transfers = {} /\ IsFiniteSet({})
    BY FS_EmptySet
  <2> QED BY <2>1, <2>2 DEF LedgerOK, Sorted
<1>3. goals \in [Months -> Plan] /\ \A m \in Months : goals[m] = NoGoal
  BY EmptyMonths
<1>4. \A m \in Months : PlanFits(m)
  BY <1>3 DEF PlanFits, NoGoal
<1>5. NoRequest \in GoalRequest
  <2>1. 0 \in Months
    BY <1>1, MonthsAre
  <2>2. <<>> \in UNION {[M -> Plan] : M \in SUBSET Months} /\ <<>> \in UNION {[M -> Result] : M \in SUBSET Months}
    BY EmptyMonths
  <2> QED BY <2>1, <2>2, EmptyMonths DEF NoRequest, GoalRequest
<1>6. goalRequest \in [GoalVisitor -> GoalRequest] /\ \A v \in GoalVisitor : goalRequest[v] = NoRequest
  BY <1>5
<1>7. \A v \in GoalVisitor : RequestFits(v)
  BY <1>6, EmptyMonths DEF RequestFits, NoRequest
<1> QED BY <1>1, <1>2, <1>3, <1>4, <1>6, <1>7 DEF GoalIInv

\* The figures of a month are a result.
LEMMA ProgressFits ==
    ASSUME LedgerOK, NEW m, NEW base \in Int
    PROVE  Progress(base, m) \in Result
<1>1. Progress(base, m).opening \in Int /\ Progress(base, m).net \in Int /\ Progress(base, m).available \in BOOLEAN
  BY ProgressIs
<1>2. \E a, o, n : Progress(base, m) = [available |-> a, opening |-> o, net |-> n]
  BY DEF Progress
<1>3. PICK a, o, n : Progress(base, m) = [available |-> a, opening |-> o, net |-> n]
  BY <1>2
<1>4. a \in BOOLEAN /\ o \in Int /\ n \in Int
  BY <1>1, <1>3
<1> QED BY <1>3, <1>4 DEF Result

\* The preferred asset is one of those there are.
LEMMA PreferredIs ==
    ASSUME NEW wallet \in [Range(Settlement) -> Nat]
    PROVE  Preferred(DOMAIN wallet, wallet) \in Range(Settlement)
<1> DEFINE A == Range(Settlement)
           place(a) == CHOOSE i \in DOMAIN Settlement : Settlement[i] = a
           rank(a) == (IF wallet[a] > 0 THEN 0 ELSE Len(Settlement)) + place(a)
           Ranks == {rank(a) : a \in A}
<1>1. DOMAIN Settlement = 1..2 /\ Len(Settlement) = 2 /\ Settlement[1] = "USDT"
  BY DEF Settlement
<1>2. ASSUME NEW a \in A PROVE rank(a) \in Nat
  <2>1. \E i \in DOMAIN Settlement : Settlement[i] = a
    BY DEF Range
  <2>2. place(a) \in DOMAIN Settlement
    BY <2>1
  <2> HIDE DEF place
  <2> QED BY <1>1, <2>2
<1>3. Ranks \in SUBSET Nat /\ Ranks # {}
  <2>1. "USDT" \in A
    BY <1>1 DEF Range
  <2> HIDE DEF rank, A
  <2> QED BY <1>2, <2>1
<1>4. PICK r \in Ranks : \A q \in Ranks : r <= q
  <2> HIDE DEF Ranks
  <2> QED BY <1>3, LeastNat
<1>5. \E a \in A : \A b \in A : rank(a) <= rank(b)
  <2>1. PICK a \in A : r = rank(a)
    BY <1>4
  <2> HIDE DEF rank, A
  <2> QED BY <1>4, <2>1
<1>6. Preferred(DOMAIN wallet, wallet) = CHOOSE a \in A : \A b \in A : rank(a) <= rank(b)
  <2>1. DOMAIN wallet = A
    OBVIOUS
  <2> HIDE DEF A
  <2> QED BY <2>1 DEF Preferred
<1> HIDE DEF rank, A
<1> QED BY <1>5, <1>6 DEF A

\* A request that takes no step stays fit while time and plans go on.
LEMMA StaysFit ==
    ASSUME GoalIInv, NEW v \in GoalVisitor, goalRequest'[v] = goalRequest[v],
           MonthNow' \in Int, MonthNow <= MonthNow',
           \A m \in Months : goals[m].status # "none" => goals'[m].status # "none"
    PROVE  RequestFits(v)'
<1> DEFINE r == goalRequest[v]
<1>1. r \in GoalRequest /\ RequestFits(v)
  BY DEF GoalIInv
<1>2. r.month \in Months /\ DOMAIN r.rows \subseteq Months
  <2>1. r.month \in Months /\ r.rows \in UNION {[M -> Plan] : M \in SUBSET Months}
    BY <1>1 DEF GoalRequest
  <2> QED BY <2>1
<1>3. MonthNow \in Nat /\ Months \subseteq Nat
  BY MonthsAre DEF GoalIInv
<1>4. ASSUME NEW m \in DOMAIN r.rows PROVE m < MonthNow' /\ goals'[m].status # "none"
  <2>1. m < MonthNow /\ goals[m].status # "none" /\ m \in Months /\ m \in Nat
    BY <1>1, <1>2, <1>3 DEF RequestFits
  <2> QED BY <1>3, <2>1
<1> QED BY <1>1, <1>2, <1>4 DEF RequestFits

\* A plan that is not touched stays fit while time goes on.
LEMMA PlanStays ==
    ASSUME NEW m \in Int, PlanFits(m), goals'[m] = goals[m], MonthNow \in Int, MonthNow' \in Int, MonthNow <= MonthNow'
    PROVE  PlanFits(m)'
BY DEF PlanFits

\* While the clock stands, the ledger, the plans and the requests are as they were.
LEMMA SameMonth ==
    ASSUME GoalIInv, clock' = clock
    PROVE  MonthNow' = MonthNow /\ MonthNow' \in Int /\ MonthNow <= MonthNow'
<1>1. MonthNow' = MonthNow
  BY DEF MonthNow, PeriodAt, Ticks
<1>2. MonthNow \in Nat
  BY MonthsAre DEF GoalIInv
<1> QED BY <1>1, <1>2

LEMMA SameLedger ==
    ASSUME GoalIInv, UNCHANGED <<clock, equities, transfers>>
    PROVE  LedgerOK' /\ (\A i \in DOMAIN equities : equities[i].ts <= clock)' /\ (clock \in 0..MaxClock)'
BY DEF GoalIInv, LedgerOK, Sorted

\* Plans do not change: neither do those that are fit.
LEMMA SamePlans ==
    ASSUME GoalIInv, UNCHANGED <<clock, goals>>
    PROVE  (goals \in [Months -> Plan])' /\ (\A m \in Months : PlanFits(m))'
<1>1. MonthNow' = MonthNow
  BY SameMonth
<1> QED BY <1>1 DEF GoalIInv, PlanFits

LEMMA SameRequests ==
    ASSUME GoalIInv, UNCHANGED <<clock, goals, goalRequest>>
    PROVE  (goalRequest \in [GoalVisitor -> GoalRequest])' /\ (\A v \in GoalVisitor : RequestFits(v))'
<1>1. \A v \in GoalVisitor : RequestFits(v)'
  BY StaysFit, SameMonth
<1> QED BY <1>1 DEF GoalIInv

\* The invariant is kept by each step of the world.
LEMMA TickKeeps ==
    ASSUME GoalIInv, Tick
    PROVE  GoalIInv'
<1>1. clock' = clock + 1 /\ clock \in Nat /\ clock' \in 0..MaxClock /\ clock <= clock'
  BY GoalAssumption DEF Tick, GoalIInv
<1>2. UNCHANGED <<equities, transfers, covered, goals, goalRequest, goalWriter>>
  BY DEF Tick
<1>3. MonthNow \in Int /\ MonthNow' \in Int /\ MonthNow <= MonthNow'
  <2>1. MonthNow = clock \div 4 /\ MonthNow' = clock' \div 4
    BY DEF MonthNow, PeriodAt, Ticks
  <2> QED BY <1>1, <2>1
<1>4. LedgerOK' /\ (\A i \in DOMAIN equities : equities[i].ts <= clock)'
  <2>1. LedgerOK'
    BY <1>2 DEF GoalIInv, LedgerOK, Sorted
  <2>2. ASSUME NEW i \in DOMAIN equities PROVE equities[i].ts <= clock'
    <3>1. equities[i].ts <= clock
      BY DEF GoalIInv
    <3>2. equities[i] \in Snapshot
      <4>1. equities \in [1..Len(equities) -> Snapshot]
        BY LenProperties DEF GoalIInv, LedgerOK
      <4> QED BY <4>1
    <3>3. equities[i].ts \in 0..MaxClock
      BY <3>2 DEF Snapshot
    <3>4. equities[i].ts \in Int
      BY <3>3, GoalAssumption
    <3> QED BY <1>1, <3>1, <3>4
  <2> QED BY <1>2, <2>1, <2>2
<1>5. (goals \in [Months -> Plan])' /\ (\A m \in Months : PlanFits(m))'
  <2>1. \A m \in Months : m \in Int /\ PlanFits(m) /\ goals'[m] = goals[m]
    BY <1>2, MonthsAre DEF GoalIInv
  <2>2. \A m \in Months : PlanFits(m)'
    BY <1>3, <2>1, PlanStays
  <2> QED BY <1>2, <2>2 DEF GoalIInv
<1>6. (goalRequest \in [GoalVisitor -> GoalRequest])' /\ (\A v \in GoalVisitor : RequestFits(v))'
  <2>1. \A v \in GoalVisitor : RequestFits(v)'
    BY <1>2, <1>3, StaysFit
  <2> QED BY <1>2, <2>1 DEF GoalIInv
<1> QED BY <1>1, <1>2, <1>4, <1>5, <1>6 DEF GoalIInv

LEMMA CoverageKeeps ==
    ASSUME GoalIInv, CoverageChanges
    PROVE  GoalIInv'
<1>1. UNCHANGED <<clock, equities, transfers, goals, goalRequest, goalWriter>> /\ covered' \in BOOLEAN
  BY DEF CoverageChanges, GoalIInv
<1> QED BY <1>1, SameLedger, SamePlans, SameRequests DEF GoalIInv

LEMMA SnapshotKeeps ==
    ASSUME GoalIInv, NEW w \in Wallets, StoreSnapshot(w)
    PROVE  GoalIInv'
<1>1. UNCHANGED <<clock, transfers, covered, goals, goalRequest, goalWriter>>
  BY DEF StoreSnapshot
<1> DEFINE asset == Preferred(DOMAIN w, w)
           new == [ts |-> clock, asset |-> asset, equity |-> w[asset]]
<1>2. new \in Snapshot /\ new.ts = clock
  <2>1. w \in [Range(Settlement) -> Nat]
    BY GoalAssumption
  <2>2. asset \in Range(Settlement)
    BY <2>1, PreferredIs
  <2> HIDE DEF asset
  <2> QED BY <2>1, <2>2 DEF Snapshot, GoalIInv
<1>3. equities' = Append(equities, new)
  BY DEF StoreSnapshot
<1> HIDE DEF new
<1>4. /\ equities \in Seq(Snapshot) /\ Len(equities) \in Nat /\ DOMAIN equities = 1..Len(equities)
      /\ equities' \in Seq(Snapshot) /\ DOMAIN equities' = 1..Len(equities) + 1
      /\ \A i \in 1..Len(equities) : equities'[i] = equities[i]
      /\ equities'[Len(equities) + 1] = new
  <2>1. equities \in Seq(Snapshot)
    BY DEF GoalIInv, LedgerOK
  <2>2. Len(equities) \in Nat /\ DOMAIN equities = 1..Len(equities)
    BY <2>1, LenProperties
  <2>3. /\ equities' \in Seq(Snapshot) /\ Len(equities') = Len(equities) + 1
        /\ \A i \in 1..Len(equities) : equities'[i] = equities[i]
        /\ equities'[Len(equities) + 1] = new
    BY <1>2, <1>3, <2>1, AppendProperties
  <2>4. DOMAIN equities' = 1..Len(equities')
    BY <2>3, LenProperties
  <2> QED BY <2>1, <2>2, <2>3, <2>4
<1>5. \A i \in DOMAIN equities' : equities'[i].ts <= clock
  <2> TAKE i \in DOMAIN equities'
  <2>1. CASE i = Len(equities) + 1
    BY <1>2, <1>4, <2>1 DEF GoalIInv
  <2>2. CASE i # Len(equities) + 1
    <3>1. i \in 1..Len(equities)
      BY <1>4, <2>2
    <3> QED BY <1>4, <3>1 DEF GoalIInv
  <2> QED BY <2>1, <2>2
<1>6. Sorted(equities')
  <2> SUFFICES ASSUME NEW i \in DOMAIN equities', NEW j \in DOMAIN equities', i <= j
               PROVE  equities'[i].ts <= equities'[j].ts
    BY DEF Sorted
  <2>1. CASE j = Len(equities) + 1
    BY <1>2, <1>4, <1>5, <2>1
  <2>2. CASE j # Len(equities) + 1
    <3>1. i \in 1..Len(equities) /\ j \in 1..Len(equities)
      BY <1>4, <2>2
    <3>2. equities[i].ts <= equities[j].ts
      BY <1>4, <3>1 DEF GoalIInv, LedgerOK, Sorted
    <3> QED BY <1>4, <3>1, <3>2
  <2> QED BY <2>1, <2>2
<1>7. LedgerOK' /\ (\A i \in DOMAIN equities : equities[i].ts <= clock)'
  <2>1. LedgerOK'
    BY <1>1, <1>4, <1>6 DEF GoalIInv, LedgerOK, Sorted
  <2> QED BY <1>1, <1>5, <2>1
<1>8. clock' \in 0..MaxClock /\ covered' \in BOOLEAN /\ goalWriter' \in GoalVisitor \cup {NoVisitor}
  BY <1>1 DEF GoalIInv
<1> QED BY <1>1, <1>7, <1>8, SamePlans, SameRequests DEF GoalIInv

LEMMA FlowKeeps ==
    ASSUME GoalIInv, NEW at \in 0..MaxClock, NEW amount \in Transfer, StoreFlow(at, amount)
    PROVE  GoalIInv'
<1>1. UNCHANGED <<clock, equities, covered, goals, goalRequest, goalWriter>>
      /\ transfers' = transfers \cup {[at |-> at, amount |-> amount]}
  BY DEF StoreFlow
<1>2. LedgerOK'
  <2>1. IsFiniteSet(transfers')
    BY <1>1, FS_AddElement DEF GoalIInv, LedgerOK
  <2> QED BY <1>1, <2>1 DEF GoalIInv, LedgerOK, Sorted
<1>3. clock' \in 0..MaxClock /\ covered' \in BOOLEAN /\ goalWriter' \in GoalVisitor \cup {NoVisitor}
      /\ (\A i \in DOMAIN equities : equities[i].ts <= clock)'
  BY <1>1 DEF GoalIInv
<1> QED BY <1>1, <1>2, <1>3, SamePlans, SameRequests DEF GoalIInv

\* A step of one request that leaves the plans and the ledger alone.
LEMMA RequestKeeps ==
    ASSUME GoalIInv, UNCHANGED <<clock, equities, transfers, covered, goals>>,
           NEW v \in GoalVisitor, goalWriter' \in GoalVisitor \cup {NoVisitor},
           NEW new \in GoalRequest, goalRequest' = [goalRequest EXCEPT ![v] = new],
           DOMAIN new.results \subseteq DOMAIN new.rows,
           \A m \in DOMAIN new.rows : m < MonthNow /\ goals[m].status # "none",
           new.loaded # NoGoal => goals[new.month].status # "none"
    PROVE  GoalIInv'
<1>1. goalRequest' \in [GoalVisitor -> GoalRequest] /\ goalRequest'[v] = new
      /\ \A u \in GoalVisitor : u # v => goalRequest'[u] = goalRequest[u]
  BY DEF GoalIInv
<1>2. MonthNow' = MonthNow
  BY SameMonth
<1>3. RequestFits(v)'
  BY <1>1, <1>2 DEF RequestFits
<1>4. \A u \in GoalVisitor : u # v => RequestFits(u)'
  BY <1>1, StaysFit, SameMonth
<1>5. clock' \in 0..MaxClock /\ covered' \in BOOLEAN
  BY DEF GoalIInv
<1> QED BY <1>1, <1>3, <1>4, <1>5, SameLedger, SamePlans DEF GoalIInv

\* The invariant is kept by each step of a request.
LEMMA EmptyRequest ==
    ASSUME GoalIInv
    PROVE  /\ NoRequest \in GoalRequest /\ NoRequest.rows = <<>> /\ NoRequest.results = <<>>
           /\ DOMAIN NoRequest.rows = {} /\ DOMAIN NoRequest.results = {} /\ NoRequest.loaded = NoGoal
           /\ NoRequest.month = 0 /\ NoRequest.month \in Months
<1>1. 0 \in Months
  BY MonthsAre DEF GoalIInv
<1>2. <<>> \in UNION {[M -> Plan] : M \in SUBSET Months} /\ <<>> \in UNION {[M -> Result] : M \in SUBSET Months}
  BY EmptyMonths
<1>3. NoRequest \in GoalRequest
  BY <1>1, <1>2, EmptyMonths DEF NoRequest, GoalRequest
<1> QED BY <1>1, <1>3, EmptyMonths DEF NoRequest

LEMMA SelectKeeps ==
    ASSUME GoalIInv, NEW v \in GoalVisitor, NEW put \in BOOLEAN, SelectStale(v, put)
    PROVE  GoalIInv'
<1> DEFINE rows == [m \in Stale |-> goals[m]]
           pc == IF Stale = {} /\ put THEN "lookup" ELSE IF Stale = {} THEN "idle" ELSE "compute"
           new == [NoRequest EXCEPT !.pc = pc, !.put = put, !.rows = rows]
<1>1. UNCHANGED <<clock, equities, transfers, covered, goals, goalWriter>>
      /\ goalRequest' = [goalRequest EXCEPT ![v] = new]
  BY DEF SelectStale
<1>2. Stale \in SUBSET Months /\ \A m \in Stale : m < MonthNow /\ goals[m].status # "none"
  BY DEF Stale
<1>3. rows \in UNION {[M -> Plan] : M \in SUBSET Months} /\ DOMAIN rows = Stale
  <2>1. rows \in [Stale -> Plan]
    BY <1>2 DEF GoalIInv
  <2> HIDE DEF rows
  <2> QED BY <1>2, <2>1
<1>4. pc \in {"idle", "compute", "lookup", "store"}
  OBVIOUS
<1> HIDE DEF rows, pc
<1>5. new \in GoalRequest /\ new.rows = rows /\ new.results = <<>> /\ new.loaded = NoGoal
  BY <1>3, <1>4, EmptyRequest DEF GoalRequest
<1> HIDE DEF new
<1>6. DOMAIN new.results \subseteq DOMAIN new.rows
  BY <1>5, EmptyMonths
<1>7. \A m \in DOMAIN new.rows : m < MonthNow /\ goals[m].status # "none"
  BY <1>2, <1>3, <1>5
<1>8. goalWriter' \in GoalVisitor \cup {NoVisitor}
  BY <1>1 DEF GoalIInv
<1> QED BY <1>1, <1>5, <1>6, <1>7, <1>8, RequestKeeps

LEMMA ComputeKeeps ==
    ASSUME GoalIInv, NEW v \in GoalVisitor, ComputeStale(v)
    PROVE  GoalIInv'
<1> DEFINE r == goalRequest[v]
           left == DOMAIN r.rows \ DOMAIN r.results
           m == Min(left)
           results == [n \in DOMAIN r.results \cup {m} |->
                            IF n = m THEN Progress(r.rows[m].base, m) ELSE r.results[n]]
           new == [r EXCEPT !.results = results]
<1>1. UNCHANGED <<clock, equities, transfers, covered, goals, goalWriter>> /\ left # {}
      /\ goalRequest' = [goalRequest EXCEPT ![v] = new]
  BY DEF ComputeStale, GoalIInv
<1>2. r \in GoalRequest /\ RequestFits(v)
  BY DEF GoalIInv
<1>3. PICK R \in SUBSET Months : r.rows \in [R -> Plan]
  BY <1>2 DEF GoalRequest
<1>4. PICK S \in SUBSET Months : r.results \in [S -> Result]
  BY <1>2 DEF GoalRequest
<1>5. m \in left
  <2>1. left \in SUBSET Nat /\ left # {}
    BY <1>1, <1>3, MonthsAre DEF GoalIInv
  <2> HIDE DEF left
  <2>2. PICK x \in left : \A y \in left : x <= y
    BY <2>1, LeastNat
  <2>3. left \in SUBSET Int
    BY <2>1
  <2> QED BY <2>2, <2>3, MinIs
<1>6. m \in R /\ m \in Months
  BY <1>3, <1>5
<1> HIDE DEF m, left
<1>7. Progress(r.rows[m].base, m) \in Result
  <2>1. r.rows[m].base \in Int
    <3>1. r.rows[m] \in Plan
      BY <1>3, <1>6
    <3> QED BY <3>1 DEF Plan
  <2> HIDE DEF r
  <2> QED BY <2>1, ProgressFits DEF GoalIInv
<1>8. results \in [S \cup {m} -> Result]
  <2>1. DOMAIN r.results = S /\ \A n \in S : r.results[n] \in Result
    BY <1>4
  <2> HIDE DEF r
  <2> QED BY <1>7, <2>1
<1>9. results \in UNION {[M -> Result] : M \in SUBSET Months} /\ DOMAIN results = DOMAIN r.results \cup {m}
  <2>1. S \cup {m} \in SUBSET Months
    BY <1>6
  <2> HIDE DEF results
  <2> QED BY <1>4, <1>8, <2>1
<1> HIDE DEF results
<1>10. new \in GoalRequest /\ new.rows = r.rows /\ new.results = results
       /\ new.loaded = r.loaded /\ new.month = r.month
  <2> HIDE DEF r
  <2> QED BY <1>2, <1>9 DEF GoalRequest
<1> HIDE DEF new
<1>11. DOMAIN new.results \subseteq DOMAIN new.rows
  BY <1>2, <1>3, <1>6, <1>9, <1>10 DEF RequestFits
<1>12. /\ \A n \in DOMAIN new.rows : n < MonthNow /\ goals[n].status # "none"
       /\ new.loaded # NoGoal => goals[new.month].status # "none"
  BY <1>2, <1>10 DEF RequestFits
<1>13. goalWriter' \in GoalVisitor \cup {NoVisitor}
  BY <1>1 DEF GoalIInv
<1> QED BY <1>1, <1>10, <1>11, <1>12, <1>13, RequestKeeps

LEMMA LookUpKeeps ==
    ASSUME GoalIInv, NEW v \in GoalVisitor, LookUpGoal(v)
    PROVE  GoalIInv'
<1> DEFINE r == goalRequest[v]
           new == [r EXCEPT !.pc = "store", !.month = MonthNow, !.loaded = goals[MonthNow]]
<1>1. UNCHANGED <<clock, equities, transfers, covered, goals, goalWriter>>
      /\ goalRequest' = [goalRequest EXCEPT ![v] = new]
  BY DEF LookUpGoal, GoalIInv
<1>2. r \in GoalRequest /\ RequestFits(v)
  BY DEF GoalIInv
<1>3. MonthNow \in Months /\ goals[MonthNow] \in Plan /\ PlanFits(MonthNow)
  BY MonthsAre DEF GoalIInv
<1>4. new \in GoalRequest /\ new.rows = r.rows /\ new.results = r.results
      /\ new.loaded = goals[MonthNow] /\ new.month = MonthNow
  <2> HIDE DEF r
  <2> QED BY <1>2, <1>3 DEF GoalRequest
<1> HIDE DEF new
<1>5. /\ DOMAIN new.results \subseteq DOMAIN new.rows
      /\ \A n \in DOMAIN new.rows : n < MonthNow /\ goals[n].status # "none"
  BY <1>2, <1>4 DEF RequestFits
<1>6. new.loaded # NoGoal => goals[new.month].status # "none"
  BY <1>3, <1>4 DEF PlanFits
<1>7. goalWriter' \in GoalVisitor \cup {NoVisitor}
  BY <1>1 DEF GoalIInv
<1> QED BY <1>1, <1>4, <1>5, <1>6, <1>7, RequestKeeps

LEMMA ResetKeeps ==
    ASSUME GoalIInv, NEW v \in GoalVisitor, UNCHANGED <<clock, equities, transfers, covered, goals>>,
           goalRequest' = [goalRequest EXCEPT ![v] = NoRequest], goalWriter' \in GoalVisitor \cup {NoVisitor}
    PROVE  GoalIInv'
BY EmptyRequest, RequestKeeps

\* What becomes of the plans when a request closes months.
LEMMA ClosingFits ==
    ASSUME GoalIInv, NEW v \in GoalVisitor, NEW m \in Months
    PROVE  /\ ClosedWith(goalRequest[v])[m] \in Plan
           /\ ClosedWith(goalRequest[v])[m].base = goals[m].base
           /\ ClosedWith(goalRequest[v])[m].redeem = goals[m].redeem
           /\ \/ ClosedWith(goalRequest[v])[m] = goals[m]
              \/ /\ ClosedWith(goalRequest[v])[m].status = "closed"
                 /\ goals[m].status # "none" /\ m < MonthNow
<1> DEFINE r == goalRequest[v]
           row == ClosedWith(r)[m]
<1>1. r \in GoalRequest /\ RequestFits(v) /\ goals[m] \in Plan
  BY DEF GoalIInv
<1>2. PICK S \in SUBSET Months : r.results \in [S -> Result]
  BY <1>1 DEF GoalRequest
<1>3. CASE m \in Closable(r)
  <2>1. m \in DOMAIN r.results
    BY <1>3 DEF Closable
  <2>2. m < MonthNow /\ goals[m].status # "none"
    BY <1>1, <2>1 DEF RequestFits
  <2>3. r.results[m].net \in Int
    <3>1. r.results[m] \in Result
      BY <1>2, <2>1
    <3> QED BY <3>1 DEF Result
  <2>4. row = [goals[m] EXCEPT !.status = "closed", !.net = r.results[m].net]
    BY <1>3 DEF ClosedWith
  <2> HIDE DEF r, row
  <2>5. row \in Plan /\ row.base = goals[m].base /\ row.redeem = goals[m].redeem /\ row.status = "closed"
    BY <1>1, <2>3, <2>4 DEF Plan
  <2> QED BY <2>2, <2>5 DEF row, r
<1>4. CASE m \notin Closable(r)
  <2>1. row = goals[m]
    BY <1>4 DEF ClosedWith
  <2> QED BY <1>1, <2>1
<1> QED BY <1>3, <1>4

\* New plans that are fit, and a request that has ended.
LEMMA PlansKeep ==
    ASSUME GoalIInv, NEW v \in GoalVisitor, UNCHANGED <<clock, equities, transfers, covered>>,
           goals' \in [Months -> Plan],
           \A m \in Months : /\ PlanFits(m)'
                             /\ goals[m].status # "none" => goals'[m].status # "none",
           goalRequest' = [goalRequest EXCEPT ![v] = NoRequest], goalWriter' \in GoalVisitor \cup {NoVisitor}
    PROVE  GoalIInv'
<1>1. goalRequest' \in [GoalVisitor -> GoalRequest] /\ goalRequest'[v] = NoRequest
      /\ \A u \in GoalVisitor : u # v => goalRequest'[u] = goalRequest[u]
  BY EmptyRequest DEF GoalIInv
<1>2. RequestFits(v)'
  BY <1>1, EmptyRequest DEF RequestFits
<1>3. \A u \in GoalVisitor : u # v => RequestFits(u)'
  BY <1>1, StaysFit, SameMonth
<1>4. clock' \in 0..MaxClock /\ covered' \in BOOLEAN
  BY DEF GoalIInv
<1>5. Months' = Months
  BY DEF Months
<1> QED BY <1>1, <1>2, <1>3, <1>4, <1>5, SameLedger DEF GoalIInv

LEMMA FlushKeeps ==
    ASSUME GoalIInv, NEW v \in GoalVisitor, FlushStale(v)
    PROVE  GoalIInv'
<1> DEFINE r == goalRequest[v]
<1>1. r \in GoalRequest /\ RequestFits(v)
  BY DEF GoalIInv
<1>2. CASE r.put
  <2> DEFINE new == [r EXCEPT !.pc = "lookup"]
  <2>1. UNCHANGED <<clock, equities, transfers, covered, goals>>
        /\ goalRequest' = [goalRequest EXCEPT ![v] = new] /\ goalWriter' \in GoalVisitor \cup {NoVisitor}
    BY <1>2 DEF FlushStale, GoalIInv
  <2>2. new \in GoalRequest /\ new.rows = r.rows /\ new.results = r.results
        /\ new.loaded = r.loaded /\ new.month = r.month
    <3> HIDE DEF r
    <3> QED BY <1>1 DEF GoalRequest
  <2> HIDE DEF new
  <2>3. /\ DOMAIN new.results \subseteq DOMAIN new.rows
        /\ \A n \in DOMAIN new.rows : n < MonthNow /\ goals[n].status # "none"
        /\ new.loaded # NoGoal => goals[new.month].status # "none"
    BY <1>1, <2>2 DEF RequestFits
  <2> QED BY <2>1, <2>2, <2>3, RequestKeeps
<1>3. CASE ~r.put
  <2>1. UNCHANGED <<clock, equities, transfers, covered, goalWriter>>
        /\ goalRequest' = [goalRequest EXCEPT ![v] = NoRequest] /\ goals' = ClosedWith(r)
    BY <1>3 DEF FlushStale
  <2>2. \A m \in Months : goals'[m] = ClosedWith(r)[m] /\ ClosedWith(r)[m] \in Plan
    BY <2>1, ClosingFits
  <2>3. goals' \in [Months -> Plan]
    BY <2>1, <2>2 DEF ClosedWith
  <2>4. ASSUME NEW m \in Months
        PROVE  PlanFits(m)' /\ (goals[m].status # "none" => goals'[m].status # "none")
    <3>1. PlanFits(m) /\ MonthNow' = MonthNow
      BY <2>1, SameMonth DEF GoalIInv
    <3>2. goals'[m].base = goals[m].base
          /\ (goals'[m] = goals[m] \/ (goals'[m].status = "closed" /\ goals[m].status # "none" /\ m < MonthNow))
      BY <2>2, ClosingFits
    <3> QED BY <3>1, <3>2 DEF PlanFits
  <2>5. goalWriter' \in GoalVisitor \cup {NoVisitor}
    BY <2>1 DEF GoalIInv
  <2> QED BY <2>1, <2>3, <2>4, <2>5, PlansKeep
<1> QED BY <1>2, <1>3

LEMMA StoreFailsKeeps ==
    ASSUME GoalIInv, NEW v \in GoalVisitor, StoreGoalFails(v)
    PROVE  GoalIInv'
<1>1. UNCHANGED <<clock, equities, transfers, covered, goals>>
      /\ goalRequest' = [goalRequest EXCEPT ![v] = NoRequest] /\ goalWriter' \in GoalVisitor \cup {NoVisitor}
  BY DEF StoreGoalFails, GoalIInv
<1> QED BY <1>1, ResetKeeps

\* The plan that is stored is fit, and so are the months closed with it.
LEMMA StoreKeeps ==
    ASSUME GoalIInv, NEW v \in GoalVisitor, NEW base \in BaseEquity \cup {Nothing}, NEW redeem \in Redeem,
           StoreGoal(v, base, redeem)
    PROVE  GoalIInv'
<1> DEFINE r == goalRequest[v]
           m == r.month
           locked == IF Given(base) THEN base ELSE Progress(base, m).opening
           row == IF r.loaded = NoGoal
                  THEN [status |-> "open", base |-> locked, redeem |-> redeem, net |-> Nothing]
                  ELSE [goals[m] EXCEPT !.redeem = redeem, !.base = IF Given(base) THEN base ELSE @]
<1>1. /\ UNCHANGED <<clock, equities, transfers, covered>> /\ goals' = [ClosedWith(r) EXCEPT ![m] = row]
      /\ goalRequest' = [goalRequest EXCEPT ![v] = NoRequest] /\ goalWriter' = NoVisitor
  BY DEF StoreGoal
<1>2. r \in GoalRequest /\ RequestFits(v) /\ m \in Months /\ goals[m] \in Plan /\ PlanFits(m)
  <2>1. r \in GoalRequest /\ RequestFits(v)
    BY DEF GoalIInv
  <2>2. m \in Months
    BY <2>1 DEF GoalRequest
  <2> QED BY <2>1, <2>2 DEF GoalIInv
<1>3. base \in Int /\ (base = Nothing \/ base > 0)
  BY GoalAssumption DEF Nothing
<1>4. locked \in Int /\ (locked = Nothing \/ locked > 0)
  <2>1. Progress(base, m).opening \in Int
        /\ (Progress(base, m).opening = base \/ Progress(base, m).opening > 0)
    <3> HIDE DEF m
    <3> QED BY <1>3, ProgressIs DEF GoalIInv
  <2> HIDE DEF m
  <2> QED BY <1>3, <2>1
<1> HIDE DEF locked
<1>5. /\ row \in Plan /\ row.status # "none"
      /\ row.base = Nothing \/ row.base > 0
      /\ row.status = "closed" => m < MonthNow
  <2>1. CASE r.loaded = NoGoal
    <3>1. row = [status |-> "open", base |-> locked, redeem |-> redeem, net |-> Nothing]
      BY <2>1
    <3> HIDE DEF row, m, r
    <3> QED BY <1>4, <3>1 DEF Plan, Nothing
  <2>2. CASE r.loaded # NoGoal
    <3>1. row = [goals[m] EXCEPT !.redeem = redeem, !.base = IF Given(base) THEN base ELSE goals[m].base]
      BY <1>2, <2>2 DEF Plan
    <3>2. goals[m].status # "none"
      BY <1>2, <2>2 DEF RequestFits
    <3>3. (goals[m].base = Nothing \/ goals[m].base > 0) /\ (goals[m].status = "closed" => m < MonthNow)
      BY <1>2 DEF PlanFits
    <3> HIDE DEF row, m, r
    <3>4. row \in Plan /\ row.status = goals[m].status
          /\ (row.base = base \/ row.base = goals[m].base)
      BY <1>2, <1>3, <3>1 DEF Plan
    <3> QED BY <1>3, <3>2, <3>3, <3>4
  <2> QED BY <2>1, <2>2
<1> HIDE DEF row
<1>6. /\ DOMAIN ClosedWith(r) = Months
      /\ \A n \in Months : ClosedWith(r)[n] \in Plan
  <2>1. DOMAIN ClosedWith(r) = Months
    BY DEF ClosedWith
  <2> QED BY <2>1, ClosingFits
<1>7. goals' \in [Months -> Plan] /\ goals'[m] = row
      /\ \A n \in Months : n # m => goals'[n] = ClosedWith(r)[n]
  <2>0. ClosedWith(r) = [n \in Months |-> ClosedWith(r)[n]]
    BY DEF ClosedWith
  <2> DEFINE C == ClosedWith(r)
  <2>1. C \in [Months -> Plan] /\ goals' = [C EXCEPT ![m] = row]
    BY <1>1, <1>6, <2>0
  <2> HIDE DEF C, m, r
  <2>2. goals' \in [Months -> Plan] /\ goals'[m] = row /\ \A n \in Months : n # m => goals'[n] = C[n]
    BY <1>2, <1>5, <2>1
  <2> QED BY <2>2 DEF C, m, r
<1>8. ASSUME NEW n \in Months
      PROVE  PlanFits(n)' /\ (goals[n].status # "none" => goals'[n].status # "none")
  <2>1. PlanFits(n) /\ MonthNow' = MonthNow
    BY <1>1, SameMonth DEF GoalIInv
  <2>2. CASE n = m
    <3> HIDE DEF m, r
    <3> QED BY <1>5, <1>7, <2>1, <2>2 DEF PlanFits
  <2>3. CASE n # m
    <3>1. goals'[n].base = goals[n].base
          /\ (goals'[n] = goals[n] \/ (goals'[n].status = "closed" /\ goals[n].status # "none" /\ n < MonthNow))
      BY <1>7, <2>3, ClosingFits
    <3> QED BY <2>1, <3>1 DEF PlanFits
  <2> QED BY <2>2, <2>3
<1>9. goalWriter' \in GoalVisitor \cup {NoVisitor}
  BY <1>1
<1> QED BY <1>1, <1>7, <1>8, <1>9, PlansKeep

\* All steps together.
LEMMA GoalKeeps == GoalIInv /\ [GoalNext]_goalVars => GoalIInv'
<1> SUFFICES ASSUME GoalIInv, [GoalNext]_goalVars PROVE GoalIInv'
  OBVIOUS
<1>1. CASE Tick
  BY <1>1, TickKeeps
<1>2. CASE CoverageChanges
  BY <1>2, CoverageKeeps
<1>3. CASE \E w \in Wallets : StoreSnapshot(w)
  BY <1>3, SnapshotKeeps
<1>4. CASE \E at \in 0..MaxClock, amount \in Transfer : StoreFlow(at, amount)
  BY <1>4, FlowKeeps
<1>5. ASSUME NEW v \in GoalVisitor PROVE (\E put \in BOOLEAN : SelectStale(v, put)) => GoalIInv'
  BY SelectKeeps
<1>6. ASSUME NEW v \in GoalVisitor
      PROVE  ComputeStale(v) \/ FlushStale(v) \/ LookUpGoal(v) \/ StoreGoalFails(v) => GoalIInv'
  BY ComputeKeeps, FlushKeeps, LookUpKeeps, StoreFailsKeeps
<1>7. ASSUME NEW v \in GoalVisitor
      PROVE  (\E base \in BaseEquity \cup {Nothing}, redeem \in Redeem : StoreGoal(v, base, redeem)) => GoalIInv'
  BY StoreKeeps
<1>8. CASE UNCHANGED goalVars
  <2>1. UNCHANGED <<clock, equities, transfers, covered, goals, goalRequest, goalWriter>>
    BY <1>8 DEF goalVars
  <2> QED BY <2>1, SameLedger, SamePlans, SameRequests DEF GoalIInv
<1> QED BY <1>1, <1>2, <1>3, <1>4, <1>5, <1>6, <1>7, <1>8 DEF GoalNext

\* A month that is available has an opening to compare with.
LEMMA OpeningIsPositive ==
    ASSUME LedgerOK, NEW m, NEW base \in Int, base = Nothing \/ base > 0, Progress(base, m).available
    PROVE  Progress(base, m).opening \in Nat \ {0} /\ Progress(base, m).net \in Int
<1> DEFINE o == Progress(base, m).opening
<1>1. o \in Int /\ Progress(base, m).net \in Int /\ (o > 0 \/ (o = base /\ base # Nothing))
  BY ProgressIs
<1> HIDE DEF o
<1>2. o > 0
  BY <1>1
<1> QED BY <1>1, <1>2 DEF o

\* Factors keep the order.
LEMMA FactorKeeps ==
    ASSUME NEW a \in Int, NEW b \in Int, NEW c \in Nat, a <= b
    PROVE  a * c <= b * c
<1>1. (b - a) * c >= 0
  BY SMT
<1>2. (b - a) * c = b * c - a * c
  BY SMT
<1> QED BY <1>1, <1>2

\* What is rounded lies within half a unit of what it stands for, and so does the state.
LEMMA StateIsNear ==
    ASSUME GoalIInv
    PROVE  StateMatchesRemaining
<1> SUFFICES ASSUME NEW m \in Months, NEW target \in Target, Progress(goals[m].base, m).available,
                    NEW return \in ReturnPct(Progress(goals[m].base, m))
             PROVE  LET p == Progress(goals[m].base, m)
                        unit == p.opening * ROUNDING
                        shown == Shown(p, return, target)
                    IN  /\ shown.state = "AHEAD" => 2 * shown.remaining <= unit
                        /\ shown.state = "BEHIND" => 2 * shown.remaining >= -unit
                        /\ shown.state = "BEHIND" /\ target % ROUNDING = 0 => shown.remaining > 0
  BY DEF StateMatchesRemaining
<1> DEFINE p == Progress(goals[m].base, m)
           o == p.opening
           parts == p.net * 100 * PARTS
           unit == o * ROUNDING
           remaining == o * target - parts
<1>1. o \in Nat \ {0} /\ p.net \in Int
  <2>1. goals[m] \in Plan /\ PlanFits(m) /\ LedgerOK
    BY DEF GoalIInv
  <2>2. goals[m].base \in Int /\ (goals[m].base = Nothing \/ goals[m].base > 0)
    BY <2>1 DEF Plan, PlanFits
  <2> QED BY <2>1, <2>2, OpeningIsPositive
<1>2. Shown(p, return, target) =
        [state |-> IF return >= target THEN "AHEAD" ELSE "BEHIND", remaining |-> remaining]
  BY DEF Shown
<1>3. PICK n : n \in {parts \div unit, parts \div unit + 1}
               /\ 2 * (parts - n * unit) \in -unit..unit /\ return = n * ROUNDING
  BY DEF ReturnPct
<1> HIDE DEF p
<1>4. ROUNDING \in Nat \ {0} /\ PARTS \in Nat \ {0} /\ target \in Nat
  BY GoalAssumption
<1>5. parts \in Int /\ unit \in Nat \ {0}
  <2>1. p.net * 100 \in Int
    BY <1>1
  <2>2. unit >= 1
    BY <1>1, <1>4
  <2> QED BY <1>1, <1>4, <2>1, <2>2
<1> HIDE DEF o, parts
<1>6. n \in Int
  BY <1>3, <1>5
<1>7. n * unit = return * o /\ return \in Int /\ o * target = target * o
  BY <1>1, <1>3, <1>4, <1>6
<1> HIDE DEF unit
<1>8. n * unit \in Int /\ 2 * (parts - n * unit) >= -unit /\ 2 * (parts - n * unit) <= unit
  BY <1>3, <1>5, <1>6
<1>9. CASE return >= target
  <2>1. target * o <= return * o
    BY <1>1, <1>4, <1>7, <1>9, FactorKeeps
  <2>2. 2 * remaining <= unit
    BY <2>1, <1>1, <1>4, <1>5, <1>7, <1>8
  <2> QED BY <2>2, <1>2, <1>9 DEF unit, p, o
<1>10. CASE return < target
  <2>1. return * o <= target * o
    BY <1>1, <1>4, <1>7, <1>10, FactorKeeps
  <2>2. 2 * remaining >= -unit
    BY <2>1, <1>1, <1>4, <1>5, <1>7, <1>8
  <2>3. ASSUME target % ROUNDING = 0 PROVE remaining > 0
    <3> DEFINE k == target \div ROUNDING
    <3>1. k \in Int /\ target = k * ROUNDING
      BY <2>3, <1>4
    <3> HIDE DEF k
    <3>2. n + 1 <= k
      <4>1. CASE k <= n
        <5>1. k * ROUNDING <= n * ROUNDING
          BY <4>1, <3>1, <1>4, <1>6, FactorKeeps
        <5> QED BY <5>1, <3>1, <1>3, <1>4, <1>7, <1>10
      <4> QED BY <4>1, <3>1, <1>6
    <3>3. (n + 1) * unit <= k * unit
      BY <3>1, <3>2, <1>5, <1>6, FactorKeeps
    <3>4. (n + 1) * unit = n * unit + unit
      BY <1>5, <1>6
    <3>5. k * unit = target * o
      BY <3>1, <1>1, <1>4 DEF unit
    <3> QED BY <3>3, <3>4, <3>5, <1>1, <1>4, <1>5, <1>7, <1>8
  <2> QED BY <2>2, <2>3, <1>1, <1>2, <1>4, <1>7, <1>10 DEF unit, p, o
<1> QED BY <1>4, <1>7, <1>9, <1>10

\* The type invariant of the module follows.
LEMMA GoalTyped == GoalIInv => GoalTypeOK
<1> SUFFICES ASSUME GoalIInv PROVE GoalTypeOK
  OBVIOUS
<1>1. \A m \in Months :
        /\ goals[m].status \in {"none", "open", "closed"} /\ goals[m].redeem \in Redeem \cup {0}
        /\ goals[m].base = Nothing \/ goals[m].base > 0
        /\ goals[m].status = "none" => goals[m] = NoGoal
        /\ goals[m].status = "closed" => m < MonthNow
  <2> TAKE m \in Months
  <2>1. goals[m] \in Plan /\ PlanFits(m)
    BY DEF GoalIInv
  <2> QED BY <2>1 DEF Plan, PlanFits
<1>2. \A v \in GoalVisitor : goalRequest[v].pc \in {"idle", "compute", "lookup", "store"}
  BY DEF GoalIInv, GoalRequest
<1>3. equities \in Seq([ts : 0..MaxClock, asset : Range(Settlement), equity : Nat])
      /\ transfers \subseteq [at : 0..MaxClock, amount : Transfer]
  BY DEF GoalIInv, LedgerOK, Snapshot
<1> QED BY <1>1, <1>2, <1>3 DEF GoalIInv, GoalTypeOK

\* For any wallets, flows, coverage and interleaving of requests: the profits of the days,
\* of the weeks and of the month add up to the profit of the month, although flows are learnt
\* of late and buckets are cut at snapshots, and the state shown of a goal agrees with what
\* remains of its amount to half a unit of the rounding (_profit_buckets, compute_month_progress, snapshot_now).
THEOREM GoalHolds == GoalSpec => []GoalInv
<1>1. GoalIInv => GoalInv
  BY GoalTyped, BucketsAddUp, StateIsNear DEF GoalInv, GoalIInv
<1> QED BY <1>1, GoalStarts, GoalKeeps, PTL DEF GoalSpec

-----------------------------------------------------------------------------
(***************************************************************************)
(* MonthlyGoals: closed months, for one request at a time.                 *)
(***************************************************************************)

\* What a single request knows of the plans is true of them still: what it closes is open,
\* what it loaded is there.
OneKnows ==
    \A v \in GoalVisitor :
        /\ \A m \in DOMAIN goalRequest[v].rows : goals[m].status = "open"
        /\ goalRequest[v].pc = "store" => goalRequest[v].loaded = goals[goalRequest[v].month]

\* Closed months are as they were.
ClosedStay == \A m \in Months : goals[m].status = "closed" => goals'[m] = goals[m]

\* At the start nothing is known.
LEMMA OneStarts == GoalInit => OneKnows
<1> SUFFICES ASSUME GoalInit, NEW v \in GoalVisitor
             PROVE  DOMAIN goalRequest[v].rows = {} /\ goalRequest[v].pc = "idle"
  BY DEF OneKnows
<1>1. goalRequest[v] = NoRequest
  BY DEF GoalInit
<1> QED BY <1>1, EmptyMonths DEF NoRequest

\* What a single request closes was open.
LEMMA ClosesOpen ==
    ASSUME GoalIInv, OneKnows, NEW v \in GoalVisitor, NEW m \in Months, goals[m].status = "closed"
    PROVE  ClosedWith(goalRequest[v])[m] = goals[m]
<1>1. m \notin DOMAIN goalRequest[v].rows
  BY DEF OneKnows
<1>2. m \notin DOMAIN goalRequest[v].results
  BY <1>1 DEF GoalIInv, RequestFits
<1>3. m \notin Closable(goalRequest[v])
  BY <1>2 DEF Closable
<1> QED BY <1>3 DEF ClosedWith

\* Each step of it keeps that, and leaves closed months alone.
LEMMA OneKeeps ==
    ASSUME \A u, v \in GoalVisitor : u = v, GoalIInv, OneKnows, [GoalNext]_goalVars
    PROVE  OneKnows' /\ ClosedStay
<1> USE DEF GoalRequest
<1>1. CASE UNCHANGED <<goals, goalRequest>>
  BY <1>1 DEF OneKnows, ClosedStay
<1>2. ASSUME NEW v \in GoalVisitor, NEW put \in BOOLEAN, SelectStale(v, put)
      PROVE  OneKnows' /\ ClosedStay
  <2>1. UNCHANGED goals /\ goalRequest'[v].rows = [m \in Stale |-> goals[m]]
        /\ goalRequest'[v].pc # "store"
    <3> DEFINE new == [NoRequest EXCEPT
            !.pc = IF Stale = {} /\ put THEN "lookup" ELSE IF Stale = {} THEN "idle" ELSE "compute",
            !.put = put, !.rows = [m \in Stale |-> goals[m]]]
    <3>1. goalRequest' = [goalRequest EXCEPT ![v] = new] /\ UNCHANGED goals
      BY <1>2 DEF SelectStale
    <3>2. new.rows = [m \in Stale |-> goals[m]] /\ new.pc # "store"
      BY DEF NoRequest
    <3> HIDE DEF new
    <3>3. goalRequest'[v] = new
      BY <3>1 DEF GoalIInv
    <3> QED BY <3>1, <3>2, <3>3
  <2>2. \A m \in DOMAIN goalRequest'[v].rows : goals'[m].status = "open"
    BY <2>1 DEF Stale
  <2>3. \A u \in GoalVisitor : u = v
    OBVIOUS
  <2> QED BY <2>1, <2>2, <2>3 DEF OneKnows, ClosedStay
<1>3. ASSUME NEW v \in GoalVisitor, ComputeStale(v)
      PROVE  OneKnows' /\ ClosedStay
  <2>1. UNCHANGED goals /\ goalRequest'[v].rows = goalRequest[v].rows /\ goalRequest'[v].pc = goalRequest[v].pc
        /\ goalRequest[v].pc = "compute"
    BY <1>3 DEF ComputeStale, GoalIInv
  <2>2. \A u \in GoalVisitor : u = v
    OBVIOUS
  <2> QED BY <2>1, <2>2 DEF OneKnows, ClosedStay
<1>4. ASSUME NEW v \in GoalVisitor, goalRequest' = [goalRequest EXCEPT ![v] = NoRequest], ClosedStay
      PROVE  OneKnows' /\ ClosedStay
  <2>1. goalRequest'[v] = NoRequest
    BY <1>4 DEF GoalIInv
  <2>2. DOMAIN goalRequest'[v].rows = {} /\ goalRequest'[v].pc = "idle"
    BY <2>1, EmptyMonths DEF NoRequest
  <2>3. \A u \in GoalVisitor : u = v
    OBVIOUS
  <2> QED BY <1>4, <2>2, <2>3 DEF OneKnows
<1>5. ASSUME NEW v \in GoalVisitor, FlushStale(v)
      PROVE  OneKnows' /\ ClosedStay
  <2>1. CASE goalRequest[v].put
    <3>1. UNCHANGED goals /\ goalRequest' = [goalRequest EXCEPT ![v].pc = "lookup"]
      BY <1>5, <2>1 DEF FlushStale
    <3>2. goalRequest'[v].rows = goalRequest[v].rows /\ goalRequest'[v].pc = "lookup"
      BY <3>1 DEF GoalIInv
    <3>3. \A u \in GoalVisitor : u = v
      OBVIOUS
    <3> QED BY <3>1, <3>2, <3>3 DEF OneKnows, ClosedStay
  <2>2. CASE ~goalRequest[v].put
    <3>1. goals' = ClosedWith(goalRequest[v]) /\ goalRequest' = [goalRequest EXCEPT ![v] = NoRequest]
      BY <1>5, <2>2 DEF FlushStale
    <3>2. ClosedStay
      BY <3>1, ClosesOpen DEF ClosedStay
    <3> QED BY <1>4, <3>1, <3>2
  <2> QED BY <2>1, <2>2
<1>6. ASSUME NEW v \in GoalVisitor, LookUpGoal(v)
      PROVE  OneKnows' /\ ClosedStay
  <2>1. UNCHANGED <<clock, goals>>
        /\ goalRequest' = [goalRequest EXCEPT ![v].pc = "store", ![v].month = MonthNow,
                                              ![v].loaded = goals[MonthNow]]
    BY <1>6 DEF LookUpGoal
  <2>2. goalRequest'[v].rows = goalRequest[v].rows /\ goalRequest'[v].month = MonthNow
        /\ goalRequest'[v].loaded = goals[MonthNow]
    BY <2>1 DEF GoalIInv
  <2>3. \A u \in GoalVisitor : u = v
    OBVIOUS
  <2> QED BY <2>1, <2>2, <2>3 DEF OneKnows, ClosedStay
<1>7. ASSUME NEW v \in GoalVisitor, StoreGoalFails(v)
      PROVE  OneKnows' /\ ClosedStay
  <2>1. UNCHANGED goals /\ goalRequest' = [goalRequest EXCEPT ![v] = NoRequest]
    BY <1>7 DEF StoreGoalFails
  <2>2. ClosedStay
    BY <2>1 DEF ClosedStay
  <2> QED BY <1>4, <2>1, <2>2
<1>8. ASSUME NEW v \in GoalVisitor, NEW base \in BaseEquity \cup {Nothing}, NEW redeem \in Redeem,
             StoreGoal(v, base, redeem)
      PROVE  OneKnows' /\ ClosedStay
  <2> DEFINE r == goalRequest[v]
  <2>1. /\ goalRequest' = [goalRequest EXCEPT ![v] = NoRequest]
        /\ \E row : goals' = [ClosedWith(r) EXCEPT ![r.month] = row]
        /\ r.pc = "store" /\ r.loaded.status # "closed"
    BY <1>8 DEF StoreGoal
  <2>2. goals[r.month].status # "closed"
    BY <2>1 DEF OneKnows
  <2>3. ASSUME NEW m \in Months, goals[m].status = "closed" PROVE goals'[m] = goals[m]
    <3>1. m # r.month
      BY <2>2, <2>3
    <3>2. DOMAIN ClosedWith(r) = Months
      BY DEF ClosedWith
    <3>3. goals'[m] = ClosedWith(r)[m]
      <4> HIDE DEF r
      <4> QED BY <2>1, <3>1, <3>2
    <3> QED BY <2>3, <3>3, ClosesOpen
  <2> QED BY <1>4, <2>1, <2>3 DEF ClosedStay
<1>9. CASE Tick
  BY <1>1, <1>9 DEF Tick
<1>10. CASE CoverageChanges
  BY <1>1, <1>10 DEF CoverageChanges
<1>11. CASE \E w \in Wallets : StoreSnapshot(w)
  BY <1>1, <1>11 DEF StoreSnapshot
<1>12. CASE \E at \in 0..MaxClock, amount \in Transfer : StoreFlow(at, amount)
  BY <1>1, <1>12 DEF StoreFlow
<1>13. CASE UNCHANGED goalVars
  BY <1>1, <1>13 DEF goalVars
<1> QED BY <1>2, <1>3, <1>5, <1>6, <1>7, <1>8, <1>9, <1>10, <1>11, <1>12, <1>13 DEF GoalNext

\* While one request runs at a time, for any wallets, flows and plans: a closed month is never
\* changed (close_stale_goals: "an immutable declaration").  Two requests may change it: each
\* writes what it read before the other one closed the month.
THEOREM ClosedHoldsForOne ==
    ASSUME \A u, v \in GoalVisitor : u = v
    PROVE  GoalSpec => ClosedIsFinal
<1>1. GoalIInv /\ OneKnows /\ [GoalNext]_goalVars => OneKnows'
  BY OneKeeps
<1>2. GoalIInv /\ OneKnows /\ [GoalNext]_goalVars => [ClosedStay]_goalVars
  BY OneKeeps
<1>3. GoalSpec => [][ClosedStay]_goalVars
  BY <1>1, <1>2, GoalStarts, GoalKeeps, OneStarts, PTL DEF GoalSpec
<1> QED BY <1>3 DEF ClosedIsFinal, ClosedStay

-----------------------------------------------------------------------------
(***************************************************************************)
(* DcaMetrics: the drawdown is the deepest fall of the profit curve, and   *)
(* the parts of the report agree.                                          *)
(***************************************************************************)

\* The recursion of _max_drawdown, which has a solution.
DropsUpTo(nets, m, g) ==
    g = [n \in 0..m |-> IF n = 0 THEN NoDrawdown ELSE DrawdownStep(g[n - 1], nets[n])]

\* It is defined on every length.
LEMMA DropsUpToExists ==
    ASSUME NEW nets, NEW N \in Nat
    PROVE  \E g : DropsUpTo(nets, N, g)
<1> DEFINE Good == {m \in 0..N : \E g : DropsUpTo(nets, m, g)}
<1>1. 0 \in Good
  <2> DEFINE g == [n \in 0..0 |-> NoDrawdown]
  <2>1. DropsUpTo(nets, 0, g)
    BY DEF DropsUpTo
  <2> HIDE DEF g
  <2> QED BY <2>1
<1>2. ASSUME NEW m \in 1..N, m - 1 \in Good PROVE m \in Good
  <2>1. PICK g : DropsUpTo(nets, m - 1, g)
    BY <1>2
  <2> DEFINE h == [n \in 0..m |-> IF n = m THEN DrawdownStep(g[m - 1], nets[m]) ELSE g[n]]
             e == [n \in 0..m |-> IF n = 0 THEN NoDrawdown ELSE DrawdownStep(h[n - 1], nets[n])]
  <2>2. \A n \in 0..m : h[n] = e[n]
    <3> TAKE n \in 0..m
    <3>1. CASE n = m
      <4>1. h[n] = DrawdownStep(g[m - 1], nets[m]) /\ h[m - 1] = g[m - 1]
        BY <3>1
      <4>2. e[n] = DrawdownStep(h[m - 1], nets[m])
        BY <3>1
      <4> QED BY <4>1, <4>2
    <3>2. CASE n # m
      <4>1. h[n] = g[n] /\ n \in 0..m - 1
        BY <3>2
      <4>2. g[n] = IF n = 0 THEN NoDrawdown ELSE DrawdownStep(g[n - 1], nets[n])
        BY <2>1, <4>1 DEF DropsUpTo
      <4>3. n # 0 => h[n - 1] = g[n - 1]
        BY <3>2
      <4>4. e[n] = IF n = 0 THEN NoDrawdown ELSE DrawdownStep(h[n - 1], nets[n])
        OBVIOUS
      <4> HIDE DEF h, e
      <4> QED BY <4>1, <4>2, <4>3, <4>4
    <3> QED BY <3>1, <3>2
  <2>3. h = e
    <3>1. h = [n \in 0..m |-> h[n]] /\ e = [n \in 0..m |-> e[n]]
      OBVIOUS
    <3> HIDE DEF h, e
    <3> QED BY <2>2, <3>1
  <2> HIDE DEF h
  <2>4. DropsUpTo(nets, m, h)
    BY <2>3 DEF DropsUpTo
  <2> QED BY <2>4
<1> HIDE DEF Good
<1>3. 0..N \subseteq Good
  BY <1>1, <1>2, UpTo
<1> QED BY <1>3 DEF Good

\* What _max_drawdown keeps.
DropState == [total : Int, peak : Int, drawdown : Int, percent : {NoMetric} \cup (Int \X Int)]

\* A step of the loop as conditions.
LEMMA DropIs ==
    ASSUME NEW s \in DropState, NEW net \in Int
    PROVE  /\ DrawdownStep(s, net) \in DropState
           /\ DrawdownStep(s, net).total = s.total + net
           /\ DrawdownStep(s, net).peak = IF s.peak >= s.total + net THEN s.peak ELSE s.total + net
           /\ DrawdownStep(s, net).drawdown =
                LET d == DrawdownStep(s, net).peak - (s.total + net)
                IN  IF s.drawdown >= d THEN s.drawdown ELSE d
<1> DEFINE total == s.total + net
           peak == IF total > s.peak THEN total ELSE s.peak
           drop == peak - total
           deepest == IF drop > s.drawdown THEN drop ELSE s.drawdown
           percent == IF drop > s.drawdown THEN IF peak > 0 THEN <<drop, peak>> ELSE NoMetric ELSE s.percent
<1>1. s.total \in Int /\ s.peak \in Int /\ s.drawdown \in Int /\ s.percent \in {NoMetric} \cup (Int \X Int)
  BY DEF DropState
<1>2. DrawdownStep(s, net) = [total |-> total, peak |-> peak, drawdown |-> deepest, percent |-> percent]
  BY DEF DrawdownStep
<1>3. total \in Int /\ peak \in Int /\ peak = IF s.peak >= total THEN s.peak ELSE total
  BY <1>1
<1> HIDE DEF total, peak
<1>4. drop \in Int
  BY <1>3
<1>5. deepest \in Int /\ deepest = IF s.drawdown >= drop THEN s.drawdown ELSE drop
  BY <1>1, <1>4
<1>6. percent \in {NoMetric} \cup (Int \X Int)
  BY <1>1, <1>3, <1>4
<1> HIDE DEF drop, deepest, percent
<1>7. /\ DrawdownStep(s, net) \in DropState /\ DrawdownStep(s, net).total = total
      /\ DrawdownStep(s, net).peak = peak /\ DrawdownStep(s, net).drawdown = deepest
  BY <1>2, <1>3, <1>5, <1>6 DEF DropState
<1> QED BY <1>3, <1>5, <1>7 DEF total, drop

\* By induction over the trades.
LEMMA DrawdownFalls ==
    ASSUME NEW nets \in Seq(Int)
    PROVE  \E sum, peak : FallOf(nets, sum, peak, _max_drawdown(nets).drawdown, Len(nets))
<1> DEFINE N == Len(nets)
           g == CHOOSE h : DropsUpTo(nets, N, h)
           Falls(s, n) == s \in DropState /\ FallOf(nets, s.total, s.peak, s.drawdown, n)
           Good == {n \in 0..N : Falls(g[n], n)}
<1>1. N \in Nat /\ \A n \in 1..N : nets[n] \in Int
  BY LenProperties
<1>2. _max_drawdown(nets) = g[N]
  BY DEF _max_drawdown, DropsUpTo
<1>3. DropsUpTo(nets, N, g)
  BY <1>1, DropsUpToExists
<1> HIDE DEF g, N
<1>4. 0 \in Good
  <2>1. g[0] = NoDrawdown
    BY <1>1, <1>3 DEF DropsUpTo
  <2>2. NoDrawdown \in DropState /\ NoDrawdown.total = 0 /\ NoDrawdown.peak = 0 /\ NoDrawdown.drawdown = 0
    BY DEF NoDrawdown, DropState
  <2> QED BY <1>1, <2>1, <2>2, FallStarts
<1>5. ASSUME NEW n \in 1..N, n - 1 \in Good PROVE n \in Good
  <2> DEFINE s == g[n - 1]
             t == DrawdownStep(s, nets[n])
  <2>1. n \in 0..N /\ n # 0
    BY <1>1
  <2>2. g[n] = t
    BY <1>3, <2>1 DEF DropsUpTo
  <2>3. s \in DropState /\ FallOf(nets, s.total, s.peak, s.drawdown, n - 1)
    BY <1>5
  <2>4. nets[n] \in Int
    BY <1>1
  <2>5. /\ t \in DropState /\ t.total = s.total + nets[n]
        /\ t.peak = (IF s.peak >= s.total + nets[n] THEN s.peak ELSE s.total + nets[n])
        /\ t.drawdown = (IF s.drawdown >= t.peak - (s.total + nets[n]) THEN s.drawdown
                         ELSE t.peak - (s.total + nets[n]))
    <3> HIDE DEF s
    <3> QED BY <2>3, <2>4, DropIs
  <2> HIDE DEF s, t
  <2>6. FallOf(nets, s.total + nets[n], t.peak, t.drawdown, n)
    BY <1>1, <2>3, <2>5, FallStep
  <2>7. Falls(t, n)
    BY <2>5, <2>6
  <2> QED BY <2>1, <2>2, <2>7
<1>6. N \in Good
  <2> HIDE DEF Good
  <2>1. 0..N \subseteq Good
    BY <1>1, <1>4, <1>5, UpTo
  <2> QED BY <1>1, <2>1
<1>7. FallOf(nets, g[N].total, g[N].peak, g[N].drawdown, N)
  BY <1>6
<1> QED BY <1>2, <1>7 DEF N

-----------------------------------------------------------------------------
\* Reconstructed trades.
LEMMA TradeIs ==
    ASSUME NEW t \in Trade
    PROVE  t.net \in Int /\ t.start \in Nat /\ t.end \in Nat /\ t.notional \in Nat \ {0} /\ t.levels \in SUBSET LadderLevel
BY MetricsAssumption

\* The profits of a list of trades are integers, one for each.
LEMMA NetsAre ==
    ASSUME NEW list \in Seq(Trade)
    PROVE  /\ Nets(list) \in Seq(Int) /\ Len(Nets(list)) = Len(list) /\ Len(list) \in Nat
           /\ DOMAIN list = 1..Len(list) /\ DOMAIN Nets(list) = 1..Len(list) /\ IsFiniteSet(DOMAIN list)
           /\ \A i \in 1..Len(list) : /\ Nets(list)[i] = list[i].net /\ Nets(list)[i] \in Int
                                      /\ list[i] \in Trade
<1> DEFINE N == Len(list)
<1>1. N \in Nat /\ DOMAIN list = 1..N /\ \A i \in 1..N : list[i] \in Trade
  BY LenProperties
<1> HIDE DEF N
<1>2. Nets(list) = [i \in 1..N |-> list[i].net] /\ \A i \in 1..N : list[i].net \in Int
  BY <1>1, TradeIs DEF Nets
<1>3. Nets(list) \in [1..N -> Int]
  BY <1>2
<1>4. Nets(list) \in Seq(Int)
  BY <1>1, <1>3, SeqDef
<1>5. Len(Nets(list)) = N
  <2>1. DOMAIN Nets(list) = 1..Len(Nets(list)) /\ Len(Nets(list)) \in Nat
    BY <1>4, LenProperties
  <2>2. DOMAIN Nets(list) = 1..N
    BY <1>2
  <2>3. \A n \in Nat : Cardinality(1..n) = n
    BY FS_Interval
  <2>4. Cardinality(1..N) = Cardinality(1..Len(Nets(list)))
    BY <2>1, <2>2
  <2> QED BY <1>1, <2>1, <2>3, <2>4
<1>6. IsFiniteSet(DOMAIN list)
  BY <1>1, FS_Interval
<1> QED BY <1>1, <1>2, <1>3, <1>4, <1>5, <1>6 DEF N

\* The drawdown is the deepest fall of the curve.
LEMMA DrawdownDeepest ==
    ASSUME validationTrades \in Seq(Trade)
    PROVE  DrawdownIsDeepest
<1> DEFINE nets == Nets(validationTrades)
           N == Len(nets)
           D == _max_drawdown(nets).drawdown
           spans == {p \in (0..N) \X (0..N) : p[1] <= p[2]}
           falls == {Curve(nets, p[1]) - Curve(nets, p[2]) : p \in spans}
<1>1. nets \in Seq(Int)
  BY NetsAre
<1>2. \A i : Curve(nets, i) = Balance(nets, i)
  BY DEF Curve, Balance
<1> HIDE DEF nets, D
<1>3. PICK sum, peak : FallOf(nets, sum, peak, D, N)
  BY <1>1, DrawdownFalls DEF D
<1>4. D \in falls
  <2>1. PICK m \in 0..N, k \in 0..N : m <= k /\ D = Balance(nets, m) - Balance(nets, k)
    BY <1>3 DEF FallOf
  <2>2. <<m, k>> \in spans /\ <<m, k>>[1] = m /\ <<m, k>>[2] = k
    BY <2>1
  <2>3. D = Curve(nets, <<m, k>>[1]) - Curve(nets, <<m, k>>[2])
    BY <1>2, <2>1
  <2> HIDE DEF spans
  <2> QED BY <2>2, <2>3
<1>5. \A fall \in falls : fall <= D
  <2>1. \A p \in spans : Balance(nets, p[1]) - Balance(nets, p[2]) <= D
    BY <1>3 DEF FallOf
  <2> QED BY <1>2, <2>1
<1> QED BY <1>4, <1>5 DEF DrawdownIsDeepest, nets, D

\* The parts of the sum: what was won and what was lost.
LEMMA ProfitAndLoss ==
    ASSUME NEW list \in Seq(Trade)
    PROVE  /\ GrossProfit(list) \in Int /\ GrossLoss(list) \in Int /\ NetTotal(Nets(list)) \in Int
           /\ NetTotal(Nets(list)) = Balance(Nets(list), Len(list))
           /\ GrossProfit(list) - GrossLoss(list) = NetTotal(Nets(list))
           /\ \A S \in SUBSET DOMAIN list : -GrossLoss(list) <= SumFunctionOnSet(Nets(list), S)
<1> DEFINE D == 1..Len(list)
           f == Nets(list)
           W == Winning(list)
           L == Losing(list)
           Z == {i \in D : f[i] = 0}
<1>1. /\ DOMAIN list = D /\ DOMAIN f = D /\ IsFiniteSet(D)
      /\ \A i \in D : f[i] = list[i].net /\ f[i] \in Int
  BY NetsAre
<1> HIDE DEF D, f
<1>2. W = {i \in D : f[i] > 0} /\ L = {i \in D : f[i] < 0}
  BY <1>1 DEF Winning, Losing
<1> HIDE DEF W, L
<1>3. /\ W \subseteq D /\ L \subseteq D /\ Z \subseteq D
      /\ W \cap L = {} /\ (W \cup L) \cap Z = {} /\ (W \cup L) \cup Z = D
  BY <1>1, <1>2
<1>4. \A i \in Z : f[i] = 0
  OBVIOUS
<1> HIDE DEF Z
<1>5. IsFiniteSet(W) /\ IsFiniteSet(L) /\ IsFiniteSet(Z) /\ IsFiniteSet(W \cup L)
  BY <1>1, <1>3, FS_Subset, FS_Union
<1>6. SumFunctionOnSet(f, W \cup L) = SumFunctionOnSet(f, W) + SumFunctionOnSet(f, L)
  <2>1. \A i \in W \cup L : f[i] \in Int
    BY <1>1, <1>3
  <2> QED BY <1>3, <1>5, <2>1, SumUnion
<1>7. SumFunctionOnSet(f, (W \cup L) \cup Z) = SumFunctionOnSet(f, W \cup L) + SumFunctionOnSet(f, Z)
  <2> DEFINE A == W \cup L
  <2>1. \A i \in A \cup Z : f[i] \in Int
    BY <1>1, <1>3
  <2>2. A \cap Z = {} /\ IsFiniteSet(A)
    BY <1>3, <1>5
  <2> HIDE DEF A
  <2>3. SumFunctionOnSet(f, A \cup Z) = SumFunctionOnSet(f, A) + SumFunctionOnSet(f, Z)
    BY <1>5, <2>1, <2>2, SumUnion
  <2> QED BY <2>3 DEF A
<1>8. SumFunctionOnSet(f, Z) = 0
  BY <1>4, <1>5, SumOfZeros
<1>9. SumFunctionOnSet(f, W) \in Int /\ SumFunctionOnSet(f, L) \in Int
  <2>1. (\A i \in W : f[i] \in Int) /\ (\A i \in L : f[i] \in Int)
    BY <1>1, <1>3
  <2> QED BY <1>5, <2>1, SumInt
<1>10. NetTotal(f) = SumFunctionOnSet(f, D)
  BY <1>1 DEF NetTotal, SumFunction
<1>11. NetTotal(f) = SumFunctionOnSet(f, W) + SumFunctionOnSet(f, L)
  <2>1. SumFunctionOnSet(f, D) = SumFunctionOnSet(f, W \cup L) + SumFunctionOnSet(f, Z)
    BY <1>3, <1>7
  <2> QED BY <1>6, <1>8, <1>9, <1>10, <2>1
<1>12. GrossProfit(list) = SumFunctionOnSet(f, W) /\ GrossLoss(list) = -SumFunctionOnSet(f, L)
  BY DEF GrossProfit, GrossLoss, f, W, L
<1>13. ASSUME NEW S \in SUBSET D PROVE SumFunctionOnSet(f, L) <= SumFunctionOnSet(f, S)
  BY <1>1, <1>2, SumOfPart
<1>14. /\ GrossProfit(list) \in Int /\ GrossLoss(list) \in Int /\ NetTotal(f) \in Int
       /\ GrossProfit(list) - GrossLoss(list) = NetTotal(f)
  BY <1>9, <1>11, <1>12
<1>15. \A S \in SUBSET D : -GrossLoss(list) <= SumFunctionOnSet(f, S)
  BY <1>9, <1>12, <1>13
<1>16. NetTotal(f) = Balance(f, Len(list))
  BY <1>10 DEF Balance, D
<1> QED BY <1>1, <1>14, <1>15, <1>16 DEF f

\* The share of the ladder: in full when every level is filled, and less otherwise.
LEMMA LadderShare ==
    ASSUME NEW levels \in SUBSET LadderLevel
    PROVE  /\ Allocated(levels) \in Nat /\ Allocated(levels) <= 100
           /\ Allocated(levels) = 100 <=> levels = LadderLevel
<1> DEFINE f == ALLOCATION_PERCENT
           a == SumFunctionOnSet(f, levels)
           b == SumFunctionOnSet(f, LadderLevel \ levels)
<1>1. f[1] = 20 /\ f[2] = 20 /\ f[3] = 60 /\ LadderLevel = {1, 2, 3} /\ \A l \in LadderLevel : f[l] \in Nat /\ f[l] > 0
  BY DEF ALLOCATION_PERCENT, LadderLevel
<1> HIDE DEF f
<1>2. IsFiniteSet(LadderLevel) /\ IsFiniteSet(levels) /\ IsFiniteSet(LadderLevel \ levels)
  <2>1. LadderLevel \in SUBSET Nat /\ 3 \in Nat /\ \A l \in LadderLevel : l <= 3
    BY <1>1
  <2>2. IsFiniteSet(LadderLevel)
    BY <2>1, FS_BoundedSetOfNaturals
  <2> QED BY <2>2, FS_Subset
<1>3. SumFunctionOnSet(f, LadderLevel) = 100
  <2>1. IsFiniteSet({}) /\ IsFiniteSet({1}) /\ IsFiniteSet({1, 2})
    <3>1. {1} \in SUBSET LadderLevel /\ {1, 2} \in SUBSET LadderLevel /\ {} \in SUBSET LadderLevel
      BY <1>1
    <3> QED BY <1>2, <3>1, FS_Subset
  <2>2. SumFunctionOnSet(f, {} \cup {1}) = f[1] + SumFunctionOnSet(f, {})
    BY <1>1, <2>1, SumAdds
  <2>3. SumFunctionOnSet(f, {1} \cup {2}) = f[2] + SumFunctionOnSet(f, {1})
    <3>1. f[2] \in Int /\ \A x \in {1} : f[x] \in Int
      BY <1>1
    <3> QED BY <2>1, <3>1, SumAdds
  <2>4. SumFunctionOnSet(f, {1, 2} \cup {3}) = f[3] + SumFunctionOnSet(f, {1, 2})
    <3>1. f[3] \in Int /\ \A x \in {1, 2} : f[x] \in Int
      BY <1>1
    <3>2. 3 \notin {1, 2}
      OBVIOUS
    <3> QED BY <2>1, <3>1, <3>2, SumAdds
  <2>5. {} \cup {1} = {1} /\ {1} \cup {2} = {1, 2} /\ {1, 2} \cup {3} = LadderLevel
    BY <1>1
  <2>6. SumFunctionOnSet(f, {}) = 0
    BY SumOfNone
  <2> QED BY <1>1, <2>2, <2>3, <2>4, <2>5, <2>6
<1>4. a \in Nat /\ b \in Nat
  <2>1. (\A l \in levels : f[l] \in Nat) /\ (\A l \in LadderLevel \ levels : f[l] \in Nat)
    BY <1>1
  <2> QED BY <1>2, <2>1, SumNatural
<1>5. a + b = 100
  <2> DEFINE rest == LadderLevel \ levels
  <2>1. levels \cap rest = {} /\ levels \cup rest = LadderLevel
    OBVIOUS
  <2>4. \A l \in levels \cup rest : f[l] \in Int
    BY <1>1, <2>1
  <2>2. IsFiniteSet(rest)
    BY <1>2
  <2> HIDE DEF rest
  <2>3. SumFunctionOnSet(f, levels \cup rest) = SumFunctionOnSet(f, levels) + SumFunctionOnSet(f, rest)
    BY <1>2, <2>1, <2>2, <2>4, SumUnion
  <2> QED BY <1>3, <2>1, <2>3 DEF rest
<1>6. levels # LadderLevel => b > 0
  <2> SUFFICES ASSUME levels # LadderLevel PROVE b > 0
    OBVIOUS
  <2>1. PICK l \in LadderLevel : l \notin levels
    OBVIOUS
  <2> DEFINE rest == LadderLevel \ levels
  <2>2. l \in rest /\ IsFiniteSet(rest) /\ \A x \in rest : f[x] \in Nat
    BY <1>1, <1>2, <2>1
  <2> HIDE DEF rest
  <2>3. f[l] <= SumFunctionOnSet(f, rest)
    BY <2>2, SumAtLeast
  <2>4. f[l] <= b
    BY <2>3 DEF rest
  <2> HIDE DEF b
  <2> QED BY <1>1, <1>4, <2>1, <2>4
<1>7. levels = LadderLevel => b = 0
  <2>1. LadderLevel \ LadderLevel = {}
    OBVIOUS
  <2> QED BY <2>1, SumOfNone
<1>8. Allocated(levels) = a
  BY DEF Allocated, f
<1> HIDE DEF a, b
<1> QED BY <1>4, <1>5, <1>6, <1>7, <1>8

\* Every trade was exposed in full when the exposure says so.
LEMMA FullExposure ==
    ASSUME NEW list \in Seq(Trade)
    PROVE  Exposure(list) = 100 * Len(list) <=> Completed(list) = DOMAIN list
<1> DEFINE D == 1..Len(list)
           f == [i \in D |-> Allocated(list[i].levels)]
           missing == [i \in D |-> 100 - f[i]]
           one == [i \in D |-> 1]
<1>1. DOMAIN list = D /\ IsFiniteSet(D) /\ \A i \in D : list[i] \in Trade
  BY NetsAre
<1>2. Len(list) \in Nat /\ Cardinality(D) = Len(list)
  <2>1. Len(list) \in Nat
    BY NetsAre
  <2>2. \A n \in Nat : Cardinality(1..n) = n
    BY FS_Interval
  <2> QED BY <2>1, <2>2
<1> HIDE DEF D
<1>3. \A i \in D : /\ f[i] \in Int /\ missing[i] \in Nat
                   /\ missing[i] = 100 * one[i] + (-1) * f[i]
                   /\ missing[i] = 0 <=> list[i].levels = LadderLevel
  <2> TAKE i \in D
  <2>1. list[i].levels \in SUBSET LadderLevel
    BY <1>1, TradeIs
  <2> DEFINE x == Allocated(list[i].levels)
  <2>2. x \in Nat /\ x <= 100 /\ (x = 100 <=> list[i].levels = LadderLevel)
    BY <2>1, LadderShare
  <2>3. f[i] = x /\ missing[i] = 100 - x /\ one[i] = 1
    OBVIOUS
  <2> HIDE DEF x, f, missing, one
  <2> QED BY <2>2, <2>3
<1>4. \A i \in D : one[i] = 1
  OBVIOUS
<1>5. Exposure(list) = SumFunctionOnSet(f, D)
  BY <1>1 DEF Exposure, NetTotal, SumFunction
<1> HIDE DEF f, missing, one
<1>6. SumFunctionOnSet(one, D) = Len(list)
  BY <1>1, <1>2, <1>4, SumOfOnes
<1>7. SumFunctionOnSet(missing, D) = 100 * SumFunctionOnSet(one, D) + (-1) * SumFunctionOnSet(f, D)
  <2>1. \A i \in D : /\ one[i] \in Int /\ f[i] \in Int /\ missing[i] = 100 * one[i] + (-1) * f[i]
    BY <1>3, <1>4
  <2> DEFINE p == 100
             q == -1
  <2>2. p \in Int /\ q \in Int /\ Mixed(one, f, missing, D, p, q)
    BY <2>1 DEF Mixed
  <2> HIDE DEF p, q
  <2>3. SumFunctionOnSet(missing, D) = p * SumFunctionOnSet(one, D) + q * SumFunctionOnSet(f, D)
    BY <1>1, <2>2, SumCombines
  <2> QED BY <2>3 DEF p, q
<1>8. SumFunctionOnSet(f, D) \in Int
  BY <1>1, <1>3, SumInt
<1>9. Exposure(list) = 100 * Len(list) <=> SumFunctionOnSet(missing, D) = 0
  BY <1>2, <1>5, <1>6, <1>7, <1>8
<1>10. SumFunctionOnSet(missing, D) = 0 <=> \A i \in D : missing[i] = 0
  <2>1. (\A i \in D : missing[i] = 0) => SumFunctionOnSet(missing, D) = 0
    BY <1>1, SumOfZeros
  <2>2. ASSUME NEW i \in D, SumFunctionOnSet(missing, D) = 0 PROVE missing[i] = 0
    <3>1. missing[i] <= SumFunctionOnSet(missing, D)
      BY <1>1, <1>3, SumAtLeast
    <3> QED BY <1>3, <2>2, <3>1
  <2> QED BY <2>1, <2>2
<1>11. Completed(list) = D <=> \A i \in D : missing[i] = 0
  BY <1>1, <1>3 DEF Completed
<1> QED BY <1>1, <1>9, <1>10, <1>11

\* The report on the trades agrees with itself.
LEMMA ReportAgrees ==
    ASSUME validationTrades \in Seq(Trade)
    PROVE  ReportAddsUp
<1> DEFINE list == validationTrades
           N == Len(list)
           f == Nets(list)
           loss == GrossLoss(list)
           total == NetTotal(f)
           drop == _max_drawdown(f).drawdown
<1>1. /\ f \in Seq(Int) /\ Len(f) = N /\ N \in Nat /\ DOMAIN list = 1..N /\ IsFiniteSet(DOMAIN list)
      /\ \A i \in 1..N : f[i] = list[i].net /\ f[i] \in Int /\ list[i] \in Trade
  BY NetsAre
<1>2. /\ GrossProfit(list) \in Int /\ loss \in Int /\ total \in Int
      /\ total = Balance(f, N)
      /\ GrossProfit(list) - loss = total
      /\ \A S \in SUBSET DOMAIN list : -loss <= SumFunctionOnSet(f, S)
  BY ProfitAndLoss
<1>3. PICK sum, peak : FallOf(f, sum, peak, drop, Len(f))
  BY <1>1, DrawdownFalls
<1>4. Exposure(list) = 100 * N <=> Completed(list) = DOMAIN list
  BY FullExposure
<1>5. /\ Balance(f, 0) = 0
      /\ \A n \in 0..N : Balance(f, n) \in Int
      /\ \A a, b \in 1..N : a <= b => SumFunctionOnSet(f, a..b) = Balance(f, b) - Balance(f, a - 1)
  <2> HIDE DEF f, N
  <2> QED BY <1>1, BalanceGrows
<1> HIDE DEF f, N, loss, total, drop
<1>6. drop <= loss
  <2>1. PICK m \in 0..N, k \in 0..N : m <= k /\ drop = Balance(f, m) - Balance(f, k)
    BY <1>1, <1>3 DEF FallOf
  <2>2. CASE m = k
    <3>1. drop = 0
      BY <1>5, <2>1, <2>2
    <3>2. SumFunctionOnSet(f, {}) = 0 /\ {} \in SUBSET DOMAIN list
      BY SumOfNone
    <3>3. -loss <= 0
      BY <1>2, <3>2
    <3> QED BY <1>2, <3>1, <3>3
  <2>3. CASE m # k
    <3> DEFINE a == m + 1
    <3>1. a \in 1..N /\ k \in 1..N /\ a <= k /\ a - 1 = m /\ a..k \in SUBSET (1..N)
      BY <1>1, <2>1, <2>3
    <3> HIDE DEF a
    <3>2. SumFunctionOnSet(f, a..k) = Balance(f, k) - Balance(f, m)
      BY <1>5, <3>1
    <3>3. -loss <= SumFunctionOnSet(f, a..k)
      BY <1>1, <1>2, <3>1
    <3>4. Balance(f, k) \in Int /\ Balance(f, m) \in Int
      BY <1>5
    <3> QED BY <1>2, <2>1, <3>2, <3>3, <3>4
  <2> QED BY <2>2, <2>3
<1>7. total < 0 => drop > 0
  <2>1. 0 \in 0..N /\ N \in 0..N /\ 0 <= N
    BY <1>1
  <2>2. Balance(f, 0) - Balance(f, N) <= drop /\ drop \in Int
    BY <1>1, <1>3, <2>1 DEF FallOf
  <2> QED BY <1>2, <1>5, <2>2
<1>8. total < 0 => Losing(list) # {}
  <2> SUFFICES ASSUME Losing(list) = {} PROVE ~ (total < 0)
    OBVIOUS
  <2>1. \A i \in 1..N : f[i] \in Nat
    BY <1>1 DEF Losing
  <2>2. IsFiniteSet(1..N)
    BY <1>1
  <2>3. Balance(f, N) \in Nat
    BY <2>1, <2>2, SumNatural DEF Balance
  <2> QED BY <1>2, <2>3
<1>9. Wins(list) = N => loss = 0
  <2> SUFFICES ASSUME Wins(list) = N PROVE loss = 0
    OBVIOUS
  <2>1. Winning(list) \in SUBSET DOMAIN list
    BY DEF Winning
  <2>2. Cardinality(DOMAIN list) = N
    BY <1>1, FS_Interval
  <2>3. Winning(list) = DOMAIN list
    BY <1>1, <2>1, <2>2, FS_Subset DEF Wins
  <2>4. Losing(list) = {}
    BY <1>1, <2>3 DEF Winning, Losing
  <2>5. loss = -SumFunctionOnSet(f, {})
    BY <2>4 DEF loss, GrossLoss, f
  <2>6. SumFunctionOnSet(f, {}) = 0
    BY SumOfNone
  <2> QED BY <2>5, <2>6
<1>10. Completed(list) # {} => LevelsFilled(list) = LadderLevel
  <2> SUFFICES ASSUME Completed(list) # {} PROVE LevelsFilled(list) = LadderLevel
    OBVIOUS
  <2>1. PICK i \in DOMAIN list : list[i].levels = LadderLevel
    BY DEF Completed
  <2>2. \A j \in DOMAIN list : list[j].levels \subseteq LadderLevel
    BY <1>1, TradeIs
  <2> QED BY <2>1, <2>2 DEF LevelsFilled
<1> DEFINE report == _trade_metrics(list)
<1>11. /\ report.gross_profit = GrossProfit(list) /\ report.gross_loss = loss /\ report.total = total
       /\ report.drawdown = drop /\ report.trades = N /\ report.wins = Wins(list)
       /\ report.exposure = Exposure(list)
       /\ report.profit_factor = IF loss = 0 THEN NoMetric ELSE <<GrossProfit(list), loss>>
  BY DEF _trade_metrics, _profit_factor, f, N, loss, total, drop
<1> HIDE DEF report
<1>12. total < 0 /\ N >= MIN_RETURN_OBSERVATIONS => _sortino_exists(list)
  BY <1>8 DEF _sortino_exists, N
<1> QED BY <1>2, <1>4, <1>6, <1>7, <1>9, <1>10, <1>11, <1>12 DEF ReportAddsUp, report

-----------------------------------------------------------------------------
(***************************************************************************)
(* DcaMetrics: the split loses no trade, and the theorem.                  *)
(***************************************************************************)

\* Trades by their end.
LEMMA EndsBeforeOrders ==
    ASSUME NEW list \in Seq(Trade)
    PROVE  /\ \A i \in DOMAIN list : ~EndsBefore(list, i, i)
           /\ \A i, j \in DOMAIN list : i # j => EndsBefore(list, i, j) \/ EndsBefore(list, j, i)
           /\ \A i, j, k \in DOMAIN list : EndsBefore(list, i, j) /\ EndsBefore(list, j, k) => EndsBefore(list, i, k)
<1>1. \A i \in DOMAIN list : i \in Nat /\ list[i].end \in Nat
  BY NetsAre, TradeIs
<1> QED BY <1>1 DEF EndsBefore

\* Each trade has a place of its own by its end.
LEMMA PlacesByEnd ==
    ASSUME NEW list \in Seq(Trade)
    PROVE  /\ \A i \in DOMAIN list : PlaceByEnd(list, i) \in DOMAIN list
           /\ \A i, j \in DOMAIN list : EndsBefore(list, i, j) => PlaceByEnd(list, i) < PlaceByEnd(list, j)
           /\ \A k \in DOMAIN list : \E i \in DOMAIN list : PlaceByEnd(list, i) = k
<1> DEFINE D == DOMAIN list
           N == Len(list)
           Earlier(i) == {j \in D : EndsBefore(list, j, i)}
           place == [i \in D |-> PlaceByEnd(list, i)]
<1>1. IsFiniteSet(D) /\ N \in Nat /\ D = 1..N
  BY NetsAre
<1>0. Cardinality(D) = N
  <2>1. \A n \in Nat : Cardinality(1..n) = n
    BY FS_Interval
  <2> HIDE DEF D, N
  <2> QED BY <1>1, <2>1
<1>2. \A i \in D : /\ IsFiniteSet(Earlier(i)) /\ Cardinality(Earlier(i)) \in Nat
                   /\ PlaceByEnd(list, i) = 1 + Cardinality(Earlier(i))
  <2> TAKE i \in D
  <2>1. Earlier(i) \subseteq D
    OBVIOUS
  <2>2. PlaceByEnd(list, i) = 1 + Cardinality(Earlier(i))
    BY DEF PlaceByEnd
  <2> HIDE DEF Earlier
  <2> QED BY <1>1, <2>1, <2>2, FS_Subset, FS_CardinalityType
<1>3. ASSUME NEW i \in D PROVE PlaceByEnd(list, i) \in 1..N
  <2>1. Earlier(i) \subseteq D /\ Earlier(i) # D
    BY EndsBeforeOrders
  <2> HIDE DEF Earlier
  <2>2. Cardinality(Earlier(i)) <= N /\ Cardinality(Earlier(i)) # N
    BY <1>0, <1>1, <2>1, FS_Subset
  <2> HIDE DEF N
  <2> QED BY <1>1, <1>2, <2>2
<1>4. ASSUME NEW i \in D, NEW j \in D, EndsBefore(list, i, j)
      PROVE  PlaceByEnd(list, i) < PlaceByEnd(list, j)
  <2>1. Earlier(i) \subseteq Earlier(j) /\ i \in Earlier(j) /\ i \notin Earlier(i)
    BY <1>4, EndsBeforeOrders
  <2> HIDE DEF Earlier
  <2>2. Cardinality(Earlier(i)) <= Cardinality(Earlier(j)) /\ Cardinality(Earlier(i)) # Cardinality(Earlier(j))
    BY <1>2, <2>1, FS_Subset
  <2> QED BY <1>2, <2>2
<1>5. place \in Injection(D, 1..N)
  <2>1. \A i, j \in D : PlaceByEnd(list, i) = PlaceByEnd(list, j) => i = j
    <3> TAKE i, j \in D
    <3>1. PlaceByEnd(list, i) \in Nat /\ PlaceByEnd(list, j) \in Nat
      <4> HIDE DEF Earlier, D
      <4> QED BY <1>2
    <3> HIDE DEF D
    <3>2. i = j \/ PlaceByEnd(list, i) < PlaceByEnd(list, j) \/ PlaceByEnd(list, j) < PlaceByEnd(list, i)
      BY <1>4, EndsBeforeOrders DEF D
    <3> QED BY <3>1, <3>2
  <2> HIDE DEF D, N
  <2> QED BY <1>3, <2>1 DEF Injection, IsInjective
<1>6. place \in Surjection(D, 1..N)
  <2>1. IsFiniteSet(1..N) /\ Cardinality(1..N) = N
    BY <1>1, FS_Interval
  <2> HIDE DEF place, D, N
  <2> QED BY <1>0, <1>1, <1>5, <2>1, FS_Injection
<1>7. \A k \in 1..N : \E i \in D : PlaceByEnd(list, i) = k
  <2> HIDE DEF D, N
  <2> QED BY <1>6 DEF Surjection
<1> QED BY <1>1, <1>3, <1>4, <1>7

\* Sorting moves every trade to a place of its own, the ends in order.
Rearranged(list, sorted, f) ==
    /\ f \in Bijection(DOMAIN list, DOMAIN list) /\ f \in [DOMAIN list -> DOMAIN list]
    /\ \A k \in DOMAIN list : sorted[k] = list[f[k]]
    /\ \A j, k \in DOMAIN list : j < k => list[f[j]].end <= list[f[k]].end

\* The list by end holds each trade of the list once.
LEMMA ByEndIs ==
    ASSUME NEW list \in Seq(Trade)
    PROVE  \E f : Rearranged(list, ByEnd(list), f)
<1> DEFINE D == DOMAIN list
           f == [k \in D |-> CHOOSE i \in D : PlaceByEnd(list, i) = k]
<1>1. /\ \A i \in D : PlaceByEnd(list, i) \in D
      /\ \A i, j \in D : EndsBefore(list, i, j) => PlaceByEnd(list, i) < PlaceByEnd(list, j)
      /\ \A k \in D : \E i \in D : PlaceByEnd(list, i) = k
  BY PlacesByEnd
<1>2. D \subseteq Nat /\ \A i \in D : list[i].end \in Nat
  BY NetsAre, TradeIs
<1>3. \A k \in D : ByEnd(list)[k] = list[f[k]]
  BY DEF ByEnd
<1> HIDE DEF D
<1>4. \A k \in D : f[k] \in D /\ PlaceByEnd(list, f[k]) = k
  BY <1>1
<1>5. \A i \in D : f[PlaceByEnd(list, i)] = i
  <2> TAKE i \in D
  <2> DEFINE k == PlaceByEnd(list, i)
             j == f[k]
  <2>1. k \in D /\ j \in D /\ PlaceByEnd(list, j) = k /\ k \in Nat
    BY <1>1, <1>2, <1>4
  <2> HIDE DEF j, f
  <2>2. i # j => PlaceByEnd(list, i) < PlaceByEnd(list, j) \/ PlaceByEnd(list, j) < PlaceByEnd(list, i)
    BY <1>1, <2>1, EndsBeforeOrders DEF D
  <2>3. i = j
    BY <2>1, <2>2
  <2> QED BY <2>3 DEF j
<1>6. f \in [D -> D]
  BY <1>4
<1>7. f \in Bijection(D, D)
  <2> HIDE DEF f
  <2>1. IsInjective(f)
    BY <1>4, <1>6 DEF IsInjective
  <2>2. \A i \in D : \E k \in D : f[k] = i
    BY <1>1, <1>5
  <2> QED BY <1>6, <2>1, <2>2 DEF Bijection, Injection, Surjection
<1>8. ASSUME NEW j \in D, NEW k \in D, j < k PROVE list[f[j]].end <= list[f[k]].end
  <2> DEFINE x == f[j]
             y == f[k]
  <2>1. x \in D /\ y \in D /\ PlaceByEnd(list, x) = j /\ PlaceByEnd(list, y) = k
    BY <1>4
  <2>2. j \in Nat /\ k \in Nat
    BY <1>2
  <2> HIDE DEF x, y, f
  <2>3. ~EndsBefore(list, y, x)
    BY <1>1, <1>8, <2>1, <2>2
  <2>4. ~ (list[y].end < list[x].end)
    BY <2>3 DEF EndsBefore
  <2>5. list[x].end <= list[y].end
    BY <1>2, <2>1, <2>4
  <2> QED BY <2>5 DEF x, y
<1> HIDE DEF f
<1>9. Rearranged(list, ByEnd(list), f)
  BY <1>3, <1>6, <1>7, <1>8 DEF Rearranged, D
<1> QED BY <1>9

\* The split leaves both sides something when there are two trades.
LEMMA SplitIs ==
    ASSUME NEW n \in Nat \ {0}
    PROVE  SplitAt(n) \in 1..n /\ (n >= 2 => SplitAt(n) < n)
<1> DEFINE up == (n * SplitPercent + 99) \div 100
           least == IF up < 1 THEN 1 ELSE IF up > n THEN n ELSE up
<1>1. up \in Int
  <2>1. SplitPercent \in Int
    BY MetricsAssumption
  <2>2. n * SplitPercent + 99 \in Int
    BY <2>1
  <2> QED BY <2>2
<1>2. SplitAt(n) = IF least = n /\ n > 1 THEN n - 1 ELSE least
  BY DEF SplitAt
<1> HIDE DEF up
<1>3. least \in 1..n
  BY <1>1
<1> HIDE DEF least
<1> QED BY <1>2, <1>3

\* The two samples: the sorted trades up to the split, and those after it.
SplitUp(list, s, in, out) ==
    /\ in \in Seq(Trade) /\ out \in Seq(Trade) /\ Len(in) = s /\ Len(out) = Len(list) - s
    /\ \A i \in 1..s : in[i] = ByEnd(list)[i]
    /\ \A j \in 1..Len(list) - s : out[j] = ByEnd(list)[s + j]

\* The two samples are the trades by end up to the split, and after it.
LEMMA SamplesAre ==
    ASSUME NEW list \in Seq(Trade), list # <<>>
    PROVE  SplitUp(list, SplitAt(Len(list)), _walk_forward(list).in, _walk_forward(list).out)
<1> DEFINE N == Len(list)
           s == SplitAt(N)
           B == ByEnd(list)
           in == SubSeq(B, 1, s)
           out == SubSeq(B, s + 1, N)
<1>1. N \in Nat \ {0} /\ DOMAIN list = 1..N /\ \A i \in 1..N : list[i] \in Trade
  BY NetsAre, EmptySeq
<1>2. s \in 1..N
  BY <1>1, SplitIs
<1>3. \A i \in 1..N : B[i] \in Trade
  <2>1. PICK f : Rearranged(list, B, f)
    BY ByEndIs
  <2> QED BY <1>1, <2>1 DEF Rearranged
<1>4. _walk_forward(list).in = in /\ _walk_forward(list).out = out
  BY DEF _walk_forward
<1> HIDE DEF N, s, B
<1>5. in \in Seq(Trade) /\ Len(in) = s /\ \A i \in 1..s : in[i] = B[i]
  <2>1. \A i \in 1..s : B[i] \in Trade
    BY <1>1, <1>2, <1>3
  <2>2. s \in Int /\ 1 \in Int /\ 1 <= s /\ s - 1 + 1 = s
    BY <1>1, <1>2
  <2>3. /\ in \in Seq(Trade) /\ Len(in) = IF 1 <= s THEN s - 1 + 1 ELSE 0
        /\ \A i \in 1..s - 1 + 1 : in[i] = B[1 + i - 1]
    BY <2>1, <2>2, SubSeqProperties
  <2>4. \A i \in 1..s : 1 + i - 1 = i
    BY <1>1, <1>2
  <2> HIDE DEF in
  <2> QED BY <2>2, <2>3, <2>4
<1>6. out \in Seq(Trade) /\ Len(out) = N - s /\ \A j \in 1..N - s : out[j] = B[s + j]
  <2> DEFINE a == s + 1
  <2>1. \A i \in a..N : B[i] \in Trade
    BY <1>1, <1>2, <1>3
  <2>2. a \in Int /\ N \in Int /\ N - a + 1 = N - s /\ (IF a <= N THEN N - a + 1 ELSE 0) = N - s
    BY <1>1, <1>2
  <2>5. \A j \in 1..N - s : a + j - 1 = s + j
    BY <1>1, <1>2
  <2> HIDE DEF a
  <2>3. /\ SubSeq(B, a, N) \in Seq(Trade) /\ Len(SubSeq(B, a, N)) = IF a <= N THEN N - a + 1 ELSE 0
        /\ \A i \in 1..N - a + 1 : SubSeq(B, a, N)[i] = B[a + i - 1]
    BY <2>1, <2>2, SubSeqProperties
  <2>4. out = SubSeq(B, a, N)
    BY DEF a
  <2> HIDE DEF out
  <2> QED BY <2>2, <2>3, <2>4, <2>5
<1> QED BY <1>4, <1>5, <1>6 DEF SplitUp, B, N, s

\* How often a trade is in a list.
Times(list, t) == Cardinality({i \in DOMAIN list : list[i] = t})

\* No trade is lost or counted twice by it.
LEMMA NoTradeLost ==
    ASSUME NEW list \in Seq(Trade), NEW s \in Nat, s <= Len(list), NEW in, NEW out, SplitUp(list, s, in, out),
           NEW t
    PROVE  Times(list, t) = Times(in, t) + Times(out, t)
<1> DEFINE N == Len(list)
           D == 1..N
           B == ByEnd(list)
           K == {i \in D : list[i] = t}
           S == {i \in D : B[i] = t}
           low == {i \in 1..s : B[i] = t}
           high == {i \in s + 1..N : B[i] = t}
           after == {j \in 1..N - s : B[s + j] = t}
<1>1. N \in Nat /\ DOMAIN list = D /\ IsFiniteSet(D)
  BY NetsAre
<1>2. PICK f : Rearranged(list, B, f)
  BY ByEndIs
<1> HIDE DEF N, B
<1>3. Cardinality(K) = Cardinality(S)
  <2> DEFINE g == [k \in S |-> f[k]]
  <2>1. /\ f \in [D -> D] /\ (\A j, k \in D : f[j] = f[k] => j = k) /\ (\A i \in D : \E k \in D : f[k] = i)
        /\ \A k \in D : B[k] = list[f[k]]
    BY <1>1, <1>2 DEF Rearranged, Bijection, Injection, Surjection, IsInjective
  <2> HIDE DEF D
  <2>2. g \in [S -> K]
    BY <2>1
  <2>3. g \in Injection(S, K)
    BY <2>1, <2>2 DEF Injection, IsInjective
  <2>4. g \in Surjection(S, K)
    <3>1. ASSUME NEW i \in K PROVE \E k \in S : g[k] = i
      <4>1. PICK k \in D : f[k] = i
        BY <2>1
      <4>2. k \in S
        BY <2>1, <4>1
      <4> QED BY <4>1, <4>2
    <3> QED BY <2>2, <3>1 DEF Surjection
  <2>5. IsFiniteSet(S) /\ ExistsBijection(S, K)
    BY <1>1, <2>3, <2>4, FS_Subset DEF ExistsBijection, Bijection
  <2> HIDE DEF S, K
  <2> QED BY <2>5, FS_Bijection
<1>4. Cardinality(S) = Cardinality(low) + Cardinality(high)
  <2>1. S = low \cup high /\ low \cap high = {} /\ low \in SUBSET D /\ high \in SUBSET D
    BY <1>1
  <2> HIDE DEF low, high, S, D
  <2>2. IsFiniteSet(low) /\ IsFiniteSet(high)
    BY <1>1, <2>1, FS_Subset
  <2>3. Cardinality(S) = Cardinality(low) + Cardinality(high) - Cardinality({})
    BY <2>1, <2>2, FS_Union
  <2>4. Cardinality({}) = 0 /\ Cardinality(low) \in Nat /\ Cardinality(high) \in Nat
    BY <2>2, FS_EmptySet, FS_CardinalityType
  <2> QED BY <2>3, <2>4
<1>5. Cardinality(after) = Cardinality(high)
  <2> DEFINE g == [j \in after |-> s + j]
  <2>1. \A j \in 1..N - s : s + j \in s + 1..N
    BY <1>1
  <2>2. g \in [after -> high]
    BY <2>1
  <2>3. g \in Injection(after, high)
    <3>1. \A j, k \in after : s + j = s + k => j = k
      OBVIOUS
    <3>2. \A j \in after : g[j] = s + j
      OBVIOUS
    <3> HIDE DEF after, high, g
    <3> QED BY <2>2, <3>1, <3>2 DEF Injection, IsInjective
  <2>4. g \in Surjection(after, high)
    <3>1. ASSUME NEW i \in high PROVE \E j \in after : g[j] = i
      <4>1. i - s \in 1..N - s /\ s + (i - s) = i
        BY <1>1
      <4>2. i - s \in after
        BY <4>1
      <4> QED BY <4>1, <4>2
    <3> QED BY <2>2, <3>1 DEF Surjection
  <2>5. IsFiniteSet(after)
    <3>1. after \in SUBSET (1..N - s) /\ N - s \in Int /\ 1 \in Int
      BY <1>1
    <3>2. IsFiniteSet(1..N - s)
      BY <3>1, FS_Interval
    <3> QED BY <3>1, <3>2, FS_Subset
  <2>6. ExistsBijection(after, high)
    BY <2>3, <2>4 DEF ExistsBijection, Bijection
  <2> HIDE DEF after, high
  <2> QED BY <2>5, <2>6, FS_Bijection
<1>6. {i \in DOMAIN in : in[i] = t} = low /\ {i \in DOMAIN out : out[i] = t} = after
  <2>1. /\ DOMAIN in = 1..s /\ DOMAIN out = 1..N - s
        /\ \A i \in 1..s : in[i] = B[i]
        /\ \A j \in 1..N - s : out[j] = B[s + j]
    BY LenProperties DEF SplitUp, N, B
  <2> QED BY <2>1
<1> QED BY <1>1, <1>3, <1>4, <1>5, <1>6 DEF Times

\* The split is fair (_walk_forward).
LEMMA SplitFair ==
    ASSUME validationTrades \in Seq(Trade)
    PROVE  SplitIsFair
<1> DEFINE list == validationTrades
           N == Len(list)
           in == _walk_forward(list).in
           out == _walk_forward(list).out
<1>1. N \in Nat /\ DOMAIN list = 1..N /\ \A i \in DOMAIN list : list[i].end \in Nat
  BY NetsAre, TradeIs
<1>2. CASE list = <<>>
  <2>1. in = <<>> /\ out = <<>> /\ N = 0
    BY <1>2, EmptySeq DEF _walk_forward
  <2>2. DOMAIN <<>> = {}
    OBVIOUS
  <2>3. ~Underperforms(list)
    BY <2>1 DEF Underperforms
  <2>4. \A t : Times(list, t) = Times(in, t) + Times(out, t)
    <3> TAKE t
    <3>1. /\ {i \in DOMAIN list : list[i] = t} = {} /\ {i \in DOMAIN in : in[i] = t} = {}
          /\ {i \in DOMAIN out : out[i] = t} = {}
      BY <1>2, <2>1, <2>2
    <3>2. Cardinality({}) = 0
      BY FS_EmptySet
    <3>3. Times(list, t) = 0 /\ Times(in, t) = 0 /\ Times(out, t) = 0
      BY <3>1, <3>2 DEF Times
    <3> QED BY <3>3
  <2> HIDE DEF in, out, N
  <2>5. /\ \A i \in DOMAIN in, j \in DOMAIN out : in[i].end <= out[j].end
        /\ ~ (N >= 2)
    BY <1>2, <2>1, <2>2
  <2> QED BY <2>3, <2>4, <2>5 DEF SplitIsFair, Times, in, out, N
<1>3. CASE list # <<>>
  <2> DEFINE s == SplitAt(N)
  <2>1. SplitUp(list, s, in, out)
    BY <1>3, SamplesAre
  <2>2. N \in Nat \ {0}
    BY <1>3, EmptySeq
  <2>3. s \in 1..N /\ (N >= 2 => s < N)
    BY <2>2, SplitIs
  <2> HIDE DEF s, in, out, N
  <2>4. /\ in \in Seq(Trade) /\ out \in Seq(Trade) /\ Len(in) = s /\ Len(out) = N - s
        /\ DOMAIN in = 1..s /\ DOMAIN out = 1..N - s
    BY <2>1, LenProperties DEF SplitUp, N
  <2>5. \A i \in DOMAIN in, j \in DOMAIN out : in[i].end <= out[j].end
    <3> TAKE i \in DOMAIN in, j \in DOMAIN out
    <3>1. PICK f : Rearranged(list, ByEnd(list), f)
      BY ByEndIs
    <3> DEFINE k == s + j
    <3>2. i \in 1..N /\ k \in 1..N /\ i < k
      BY <2>2, <2>3, <2>4
    <3>3. in[i] = ByEnd(list)[i] /\ out[j] = ByEnd(list)[k]
      BY <2>1, <2>4 DEF SplitUp, N
    <3> HIDE DEF k
    <3>4. list[f[i]].end <= list[f[k]].end /\ ByEnd(list)[i] = list[f[i]] /\ ByEnd(list)[k] = list[f[k]]
      BY <1>1, <3>1, <3>2 DEF Rearranged
    <3> QED BY <3>3, <3>4
  <2>6. \A t \in Trade : Times(list, t) = Times(in, t) + Times(out, t)
    <3> TAKE t \in Trade
    <3>1. s \in Nat /\ s <= Len(list)
      BY <2>2, <2>3 DEF N
    <3> QED BY <2>1, <3>1, NoTradeLost
  <2>7. N >= 2 => in # <<>> /\ out # <<>>
    <3>1. in = <<>> => s = 0
      BY <2>4
    <3>2. out = <<>> => N - s = 0
      BY <2>4
    <3> QED BY <2>2, <2>3, <3>1, <3>2
  <2>8. Underperforms(list) => N >= 2
    <3>1. Underperforms(list) => in # <<>> /\ out # <<>>
      BY DEF Underperforms, in, out
    <3>2. in # <<>> => s > 0
      BY <2>3, <2>2
    <3>3. out # <<>> => N - s # 0
      BY <2>4, EmptySeq
    <3> QED BY <2>2, <2>3, <3>1, <3>3
  <2> QED BY <2>5, <2>6, <2>7, <2>8 DEF SplitIsFair, Times, in, out, N
<1> QED BY <1>2, <1>3

TradesOK == validationTrades \in Seq(Trade)

\* The metrics are right whatever the trades (MetricsSpec).
THEOREM MetricsHolds == MetricsSpec => []MetricsInv
<1>1. MetricsInit => TradesOK
  BY EmptySeq DEF MetricsInit, TradesOK
<1>2. TradesOK /\ [MetricsNext]_metricsVars => TradesOK'
  BY AppendProperties DEF MetricsNext, AddTrade, metricsVars, TradesOK
<1>3. TradesOK => MetricsInv
  BY DrawdownDeepest, SplitFair, ReportAgrees DEF MetricsInv, TradesOK
<1> QED BY <1>1, <1>2, <1>3, PTL DEF MetricsSpec

-----------------------------------------------------------------------------
(***************************************************************************)
(* DcaReplay: the scans the replay runs over, and its recursion.           *)
(***************************************************************************)

\* One more place, after all others: the others keep theirs.
LEMMA InOrderGrows ==
    ASSUME NEW I \in SUBSET Nat, IsFiniteSet(I), NEW m \in Nat, \A i \in I : i < m
    PROVE  /\ Cardinality(I \cup {m}) = Cardinality(I) + 1
           /\ \A k \in 1..Cardinality(I) : InOrder(I \cup {m})[k] = InOrder(I)[k]
           /\ InOrder(I \cup {m})[Cardinality(I) + 1] = m
<1> DEFINE J == I \cup {m}
           N == Cardinality(I)
<1>1. J \in SUBSET Nat /\ IsFiniteSet(J) /\ Cardinality(J) = N + 1 /\ m \in J /\ m \notin I
  <2>1. m \notin I
    OBVIOUS
  <2> QED BY <2>1, FS_AddElement
<1>2. /\ N \in Nat /\ \A k \in 1..N : Rank(I, InOrder(I)[k]) = k
      /\ \A k \in 1..N : InOrder(I)[k] \in I
      /\ \A i \in I : \E k \in 1..N : InOrder(I)[k] = i
  BY InOrderRanks
<1>3. \A i \in J : i <= m
  OBVIOUS
<1>4. InOrder(J)[N + 1] = m
  <2>1. InOrder(J)[Cardinality(J)] = m
    <3> HIDE DEF J
    <3> QED BY <1>1, <1>3, InOrderEnds
  <2> QED BY <1>1, <2>1
<1>5. \A i \in I : Rank(J, i) = Rank(I, i)
  <2> TAKE i \in I
  <2>1. {j \in J : j <= i} = {j \in I : j <= i}
    OBVIOUS
  <2> QED BY <2>1 DEF Rank
<1>6. ASSUME NEW k \in 1..N PROVE InOrder(J)[k] = InOrder(I)[k]
  <2> DEFINE x == InOrder(J)[k]
  <2>1. x \in J /\ Rank(J, x) = k /\ x < m
    <3>1. k \in 1..Cardinality(J) /\ N + 1 \in 1..Cardinality(J) /\ k < N + 1
      BY <1>1, <1>2
    <3> HIDE DEF J
    <3> QED BY <1>1, <1>4, <3>1, InOrderRanks
  <2> HIDE DEF x
  <2>2. x \in I
    BY <2>1
  <2>3. Rank(I, x) = k
    BY <1>5, <2>1, <2>2
  <2>4. PICK n \in 1..N : InOrder(I)[n] = x
    BY <1>2, <2>2
  <2>5. n = k
    BY <1>2, <2>3, <2>4
  <2> QED BY <2>4, <2>5 DEF x
<1> QED BY <1>1, <1>4, <1>6

\* Selecting from a list with one more row.
LEMMA SelectedAppends ==
    ASSUME NEW T, NEW s \in Seq(T), NEW x \in T, NEW I \in SUBSET DOMAIN s
    PROVE  /\ Selected(Append(s, x), I) = Selected(s, I)
           /\ Selected(Append(s, x), I \cup {Len(s) + 1}) = Append(Selected(s, I), x)
<1> DEFINE N == Cardinality(I)
           m == Len(s) + 1
           J == I \cup {m}
           t == Append(s, x)
<1>1. /\ Len(s) \in Nat /\ DOMAIN s = 1..Len(s) /\ I \in SUBSET Nat /\ IsFiniteSet(I)
      /\ m \in Nat /\ \A i \in I : i < m
  <2>1. Len(s) \in Nat /\ DOMAIN s = 1..Len(s)
    BY LenProperties
  <2>2. IsFiniteSet(1..Len(s))
    BY <2>1, FS_Interval
  <2>3. IsFiniteSet(I)
    BY <2>1, <2>2, FS_Subset
  <2> QED BY <2>1, <2>3
<1>2. t \in Seq(T) /\ Len(t) = m /\ (\A i \in DOMAIN s : t[i] = s[i]) /\ t[m] = x
  BY <1>1, AppendProperties
<1>3. /\ N \in Nat /\ \A k \in 1..N : InOrder(I)[k] \in DOMAIN s
  BY <1>1, InOrderIs
<1>4. /\ Cardinality(J) = N + 1 /\ (\A k \in 1..N : InOrder(J)[k] = InOrder(I)[k])
      /\ InOrder(J)[N + 1] = m
  BY <1>1, InOrderGrows
<1>5. Selected(s, I) \in Seq(T)
  BY SelectedIs
<1>6. Selected(s, I) = [k \in 1..N |-> s[InOrder(I)[k]]] /\ Selected(t, I) = [k \in 1..N |-> t[InOrder(I)[k]]]
      /\ Selected(t, J) = [k \in 1..N + 1 |-> t[InOrder(J)[k]]]
  BY <1>4 DEF Selected
<1> HIDE DEF N, J, t
<1>7. Selected(t, I) = Selected(s, I)
  <2>1. \A k \in 1..N : t[InOrder(I)[k]] = s[InOrder(I)[k]]
    BY <1>2, <1>3
  <2> QED BY <1>6, <2>1
<1>8. Selected(t, J) = Append(Selected(s, I), x)
  <2> DEFINE a == Selected(s, I)
             b == Append(a, x)
             c == Selected(t, J)
  <2>1. Len(a) = N
    <3>1. DOMAIN a = 1..N
      BY <1>6
    <3>2. DOMAIN a = 1..Len(a) /\ Len(a) \in Nat
      BY <1>5, LenProperties
    <3>3. \A n \in Nat : Cardinality(1..n) = n
      BY FS_Interval
    <3>4. Cardinality(1..N) = Cardinality(1..Len(a))
      BY <3>1, <3>2
    <3> QED BY <1>3, <3>2, <3>3, <3>4
  <2>2. a \in Seq(T)
    BY <1>5
  <2>3. \A k \in 1..N : a[k] = s[InOrder(I)[k]]
    BY <1>6
  <2>4. DOMAIN c = 1..N + 1 /\ \A k \in 1..N + 1 : c[k] = t[InOrder(J)[k]]
    BY <1>6
  <2>6. c = [k \in 1..N + 1 |-> c[k]]
    BY <1>6
  <2> HIDE DEF a, c
  <2>5. /\ b \in Seq(T) /\ Len(b) = N + 1 /\ (\A k \in 1..N : b[k] = a[k]) /\ b[N + 1] = x
    BY <2>1, <2>2, AppendProperties
  <2> HIDE DEF b
  <2>7. b = [k \in 1..N + 1 |-> b[k]]
    BY <1>3, <2>5, LenProperties
  <2>8. \A k \in 1..N + 1 : b[k] = c[k]
    <3> TAKE k \in 1..N + 1
    <3>1. CASE k = N + 1
      BY <1>2, <1>4, <2>4, <2>5, <3>1
    <3>2. CASE k # N + 1
      <4>1. k \in 1..N
        BY <1>3, <3>2
      <4> DEFINE i == InOrder(I)[k]
      <4>2. b[k] = s[i] /\ i \in DOMAIN s
        BY <1>3, <2>3, <2>5, <4>1
      <4>3. c[k] = t[InOrder(J)[k]] /\ InOrder(J)[k] = i
        BY <1>4, <2>4, <4>1
      <4> HIDE DEF i
      <4> QED BY <1>2, <4>2, <4>3
    <3> QED BY <3>1, <3>2
  <2>9. b = c
    BY <2>6, <2>7, <2>8
  <2> QED BY <2>9 DEF a, b, c
<1> QED BY <1>7, <1>8 DEF t, J

\* Scans as they are stored, and those of which the replay makes use.
Marks == {m \in Nat : m > 0 => Notional % (5 * m) = 0}
StoredScan == [at : Nat, direction : {"LONG", "SHORT", "none"}, rsi : Nat \cup {NoReading}, mark : Marks \cup {NoReading}]
UsableScan == [at : Nat, direction : {"LONG", "SHORT"}, rsi : Nat, mark : Marks]
Sides == {"LONG", "SHORT", "none"}
Rising(s) == \A i, j \in DOMAIN s : i < j => s[i].at < s[j].at

\* A usable scan is complete, and there is a position.
LEMMA UsableRow ==
    ASSUME NEW s \in StoredScan, NEW side \in Sides, _skip(s, side) = "usable"
    PROVE  s \in UsableScan /\ side # "none"
<1>1. side # "none" /\ s.direction # "none" /\ s.rsi # NoReading /\ s.mark # NoReading
  BY DEF _skip
<1>2. s.at \in Nat /\ s.direction \in {"LONG", "SHORT"} /\ s.rsi \in Nat /\ s.mark \in Marks
  BY <1>1 DEF StoredScan
<1>3. s = [at |-> s.at, direction |-> s.direction, rsi |-> s.rsi, mark |-> s.mark]
  BY DEF StoredScan
<1> QED BY <1>1, <1>2, <1>3 DEF UsableScan

\* What the replay runs over: some of the stored scans, in their order.
LEMMA UsableIs ==
    ASSUME NEW scans \in Seq(StoredScan), Rising(scans), NEW side \in Sides
    PROVE  /\ Usable(scans, side) \in Seq(UsableScan) /\ Rising(Usable(scans, side))
           /\ \A k \in DOMAIN Usable(scans, side) : \E i \in DOMAIN scans : Usable(scans, side)[k] = scans[i]
           /\ side = "none" => Usable(scans, side) = <<>>
<1> DEFINE I == CanUse(scans, side)
           u == Usable(scans, side)
           N == Cardinality(I)
<1>1. I \in SUBSET DOMAIN scans /\ \A i \in I : scans[i] \in StoredScan /\ _skip(scans[i], side) = "usable"
  BY LenProperties DEF CanUse
<1>2. u = Selected(scans, I)
  BY DEF Usable
<1> HIDE DEF I, u
<1>3. /\ u \in Seq(StoredScan)
      /\ \A k \in DOMAIN u : InOrder(I)[k] \in I /\ u[k] = scans[InOrder(I)[k]]
  BY <1>1, <1>2, SelectedIs
<1>4. I \in SUBSET Nat /\ IsFiniteSet(I)
  <2>1. Len(scans) \in Nat /\ DOMAIN scans = 1..Len(scans)
    BY LenProperties
  <2>2. IsFiniteSet(1..Len(scans))
    BY <2>1, FS_Interval
  <2> QED BY <1>1, <2>1, <2>2, FS_Subset
<1>5. /\ N \in Nat /\ DOMAIN u = 1..N
      /\ \A j, k \in 1..N : j < k => InOrder(I)[j] < InOrder(I)[k]
  <2>1. DOMAIN u = 1..N
    BY <1>2 DEF Selected
  <2> QED BY <1>4, <2>1, InOrderIs
<1> HIDE DEF N
<1>6. \A k \in DOMAIN u : u[k] \in UsableScan /\ side # "none"
  BY <1>1, <1>3, UsableRow
<1>7. u \in Seq(UsableScan)
  <2>1. u \in [1..N -> UsableScan]
    <3>1. u = [k \in 1..N |-> u[k]]
      BY <1>3, <1>5, LenProperties
    <3> QED BY <1>5, <1>6, <3>1
  <2> QED BY <1>5, <2>1, SeqDef
<1>8. Rising(u)
  <2> SUFFICES ASSUME NEW j \in DOMAIN u, NEW k \in DOMAIN u, j < k PROVE u[j].at < u[k].at
    BY DEF Rising
  <2>1. /\ InOrder(I)[j] < InOrder(I)[k] /\ InOrder(I)[j] \in DOMAIN scans /\ InOrder(I)[k] \in DOMAIN scans
        /\ u[j] = scans[InOrder(I)[j]] /\ u[k] = scans[InOrder(I)[k]]
    BY <1>1, <1>3, <1>5
  <2> QED BY <2>1 DEF Rising
<1>9. side = "none" => u = <<>>
  <2> SUFFICES ASSUME side = "none" PROVE u = <<>>
    OBVIOUS
  <2>1. DOMAIN u = {}
    BY <1>6
  <2> QED BY <1>3, <2>1, EmptySeq, LenProperties
<1> QED BY <1>1, <1>3, <1>7, <1>8, <1>9 DEF u

\* One more scan is used, or is not.
LEMMA UsableAppends ==
    ASSUME NEW scans \in Seq(StoredScan), NEW x \in StoredScan, NEW side
    PROVE  \/ Usable(Append(scans, x), side) = Usable(scans, side)
           \/ Usable(Append(scans, x), side) = Append(Usable(scans, side), x)
<1> DEFINE I == CanUse(scans, side)
           m == Len(scans) + 1
           t == Append(scans, x)
<1>1. /\ Len(scans) \in Nat /\ DOMAIN scans = 1..Len(scans) /\ DOMAIN t = 1..m
      /\ (\A i \in DOMAIN scans : t[i] = scans[i]) /\ t[m] = x
  <2>1. Len(scans) \in Nat /\ DOMAIN scans = 1..Len(scans)
    BY LenProperties
  <2>2. t \in Seq(StoredScan) /\ Len(t) = m /\ (\A i \in 1..Len(scans) : t[i] = scans[i]) /\ t[m] = x
    BY AppendProperties
  <2>3. DOMAIN t = 1..m
    <3> HIDE DEF t, m
    <3> QED BY <2>2, LenProperties
  <2> QED BY <2>1, <2>2, <2>3
<1>2. I \in SUBSET DOMAIN scans
  BY DEF CanUse
<1>3. /\ Selected(t, I) = Selected(scans, I)
      /\ Selected(t, I \cup {m}) = Append(Selected(scans, I), x)
  BY <1>2, SelectedAppends
<1>4. CanUse(t, side) = I \/ CanUse(t, side) = I \cup {m}
  <2> HIDE DEF t, m
  <2>1. 1..m = (1..Len(scans)) \cup {m}
    BY <1>1 DEF m
  <2>2. \A i \in DOMAIN scans : _skip(t[i], side) = _skip(scans[i], side)
    BY <1>1
  <2> QED BY <1>1, <2>1, <2>2 DEF CanUse
<1>5. Usable(t, side) = Selected(t, CanUse(t, side)) /\ Usable(scans, side) = Selected(scans, I)
  BY DEF Usable
<1> HIDE DEF I, m, t
<1>6. Usable(t, side) = Usable(scans, side) \/ Usable(t, side) = Append(Usable(scans, side), x)
  BY <1>3, <1>4, <1>5
<1> QED BY <1>6 DEF t

-----------------------------------------------------------------------------
\* The recursion of _simulate_events, which has a solution.
RunUpTo(side, scans, m, g) ==
    g = [i \in 1..m |-> IF i = 1 THEN NothingYet ELSE SimulateStep(side, g[i - 1], scans[i - 1], scans[i])]

\* It is defined on every length.
LEMMA RunUpToExists ==
    ASSUME NEW side, NEW scans, NEW N \in Nat
    PROVE  \E g : RunUpTo(side, scans, N, g)
<1> DEFINE Good == {m \in 0..N : \E g : RunUpTo(side, scans, m, g)}
<1>1. 0 \in Good
  <2> DEFINE g == [n \in 1..0 |-> NothingYet]
  <2>1. RunUpTo(side, scans, 0, g)
    BY DEF RunUpTo
  <2> HIDE DEF g
  <2> QED BY <2>1
<1>2. ASSUME NEW m \in 1..N, m - 1 \in Good PROVE m \in Good
  <2>1. PICK g : RunUpTo(side, scans, m - 1, g)
    BY <1>2
  <2> DEFINE new == IF m = 1 THEN NothingYet ELSE SimulateStep(side, g[m - 1], scans[m - 1], scans[m])
             h == [n \in 1..m |-> IF n = m THEN new ELSE g[n]]
             e == [n \in 1..m |-> IF n = 1 THEN NothingYet
                                  ELSE SimulateStep(side, h[n - 1], scans[n - 1], scans[n])]
  <2>2. \A n \in 1..m : h[n] = e[n]
    <3> TAKE n \in 1..m
    <3>1. CASE n = m
      <4>1. h[n] = new /\ (n # 1 => h[n - 1] = g[n - 1])
        BY <3>1
      <4>2. e[n] = IF n = 1 THEN NothingYet ELSE SimulateStep(side, h[n - 1], scans[n - 1], scans[n])
        OBVIOUS
      <4> HIDE DEF h, e
      <4> QED BY <3>1, <4>1, <4>2
    <3>2. CASE n # m
      <4>1. h[n] = g[n] /\ n \in 1..m - 1
        BY <3>2
      <4>2. g[n] = IF n = 1 THEN NothingYet ELSE SimulateStep(side, g[n - 1], scans[n - 1], scans[n])
        BY <2>1, <4>1 DEF RunUpTo
      <4>3. n # 1 => h[n - 1] = g[n - 1]
        BY <3>2
      <4>4. e[n] = IF n = 1 THEN NothingYet ELSE SimulateStep(side, h[n - 1], scans[n - 1], scans[n])
        OBVIOUS
      <4> HIDE DEF h, e
      <4> QED BY <4>1, <4>2, <4>3, <4>4
    <3> QED BY <3>1, <3>2
  <2>3. h = e
    <3>1. h = [n \in 1..m |-> h[n]] /\ e = [n \in 1..m |-> e[n]]
      OBVIOUS
    <3> HIDE DEF h, e
    <3> QED BY <2>2, <3>1
  <2> HIDE DEF h
  <2>4. RunUpTo(side, scans, m, h)
    BY <2>3 DEF RunUpTo
  <2> QED BY <2>4
<1> HIDE DEF Good
<1>3. 0..N \subseteq Good
  BY <1>1, <1>2, UpTo
<1> QED BY <1>3 DEF Good

\* Over the same scans two runs are the same.
LEMMA RunsAgree ==
    ASSUME NEW side, NEW m \in Nat, NEW n \in Nat, m <= n, NEW s, NEW t, \A i \in 1..m : s[i] = t[i],
           NEW g, RunUpTo(side, s, m, g), NEW h, RunUpTo(side, t, n, h)
    PROVE  \A i \in 1..m : g[i] = h[i]
<1> DEFINE Good == {i \in 0..m : i \in 1..m => g[i] = h[i]}
<1>1. 0 \in Good
  OBVIOUS
<1>2. ASSUME NEW i \in 1..m, i - 1 \in Good PROVE i \in Good
  <2>1. i \in 0..m /\ i \in 1..n /\ (i # 1 => i - 1 \in 1..m)
    OBVIOUS
  <2>2. g[i] = IF i = 1 THEN NothingYet ELSE SimulateStep(side, g[i - 1], s[i - 1], s[i])
    BY DEF RunUpTo
  <2>3. h[i] = IF i = 1 THEN NothingYet ELSE SimulateStep(side, h[i - 1], t[i - 1], t[i])
    BY <2>1 DEF RunUpTo
  <2>4. i # 1 => g[i - 1] = h[i - 1]
    BY <1>2, <2>1
  <2> QED BY <2>1, <2>2, <2>3, <2>4
<1> HIDE DEF Good
<1>3. 0..m \subseteq Good
  BY <1>1, <1>2, UpTo
<1> QED BY <1>3 DEF Good

\* What _simulate_events answers: the last of the run.
LEMMA SimulatedRun ==
    ASSUME NEW side, NEW scans, Len(scans) \in Nat
    PROVE  \E g : /\ RunUpTo(side, scans, Len(scans), g)
                  /\ _simulate_events(side, scans) = IF Len(scans) < MIN_USABLE_SCANS THEN NothingYet
                                                     ELSE g[Len(scans)]
<1> DEFINE g == CHOOSE h : RunUpTo(side, scans, Len(scans), h)
<1>1. RunUpTo(side, scans, Len(scans), g)
  BY RunUpToExists
<1>2. _simulate_events(side, scans) = IF Len(scans) < MIN_USABLE_SCANS THEN NothingYet ELSE g[Len(scans)]
  BY DEF _simulate_events, RunUpTo
<1> HIDE DEF g
<1> QED BY <1>1, <1>2

-----------------------------------------------------------------------------
(***************************************************************************)
(* DcaReplay: what a level is worth and buys.                              *)
(***************************************************************************)

\* What a level is worth, and that the levels together are worth the margin.
Share(level) == (Notional * ALLOCATION_PERCENT[level]) \div 100
Shares == [l \in LadderLevel |-> Share(l)]

\* The shares are fifths of the margin: one, one and three.
LEMMA SharesAre ==
    /\ Share(1) = Notional \div 5 /\ Share(2) = Notional \div 5 /\ Share(3) = 3 * (Notional \div 5)
    /\ Notional = 5 * (Notional \div 5) /\ Notional \div 5 \in Nat \ {0}
    /\ \A l \in LadderLevel : Share(l) \in Nat \ {0}
<1>1. Notional \in Nat \ {0} /\ Notional % 5 = 0
  BY ReplayAssumption
<1>2. Share(1) = (Notional * 20) \div 100 /\ Share(2) = (Notional * 20) \div 100 /\ Share(3) = (Notional * 60) \div 100
  BY DEF Share, ALLOCATION_PERCENT
<1> DEFINE k == Notional \div 5
<1>3. k \in Nat \ {0} /\ Notional = 5 * k
  BY <1>1
<1> HIDE DEF k
<1>4. (Notional * 20) \div 100 = k /\ (Notional * 60) \div 100 = 3 * k
  BY <1>3
<1>5. Share(1) = k /\ Share(2) = k /\ Share(3) = 3 * k
  BY <1>2, <1>4
<1>6. \A l \in LadderLevel : Share(l) \in Nat \ {0}
  BY <1>3, <1>5 DEF LadderLevel
<1> QED BY <1>3, <1>5, <1>6 DEF k

\* No levels are worth more than the margin.
LEMMA SharesFit ==
    ASSUME NEW levels \in SUBSET LadderLevel
    PROVE  SumFunctionOnSet(Shares, levels) \in Nat /\ SumFunctionOnSet(Shares, levels) <= Notional
<1> DEFINE f == Shares
           rest == LadderLevel \ levels
<1>1. /\ \A l \in LadderLevel : f[l] \in Nat /\ f[l] \in Int
      /\ f[1] = Notional \div 5 /\ f[2] = Notional \div 5 /\ f[3] = 3 * (Notional \div 5)
  BY SharesAre DEF Shares, LadderLevel
<1> HIDE DEF f
<1>2. \A S \in SUBSET LadderLevel : IsFiniteSet(S)
  <2>1. LadderLevel \in SUBSET Nat /\ 3 \in Nat /\ \A l \in LadderLevel : l <= 3
    BY DEF LadderLevel
  <2>2. IsFiniteSet(LadderLevel)
    BY <2>1, FS_BoundedSetOfNaturals
  <2> QED BY <2>2, FS_Subset
<1>3. SumFunctionOnSet(f, LadderLevel) = Notional
  <2>1. {} \in SUBSET LadderLevel /\ {1} \in SUBSET LadderLevel /\ {1, 2} \in SUBSET LadderLevel
    BY DEF LadderLevel
  <2>2. IsFiniteSet({}) /\ IsFiniteSet({1}) /\ IsFiniteSet({1, 2})
    BY <1>2, <2>1
  <2>0. f[1] \in Int /\ f[2] \in Int /\ f[3] \in Int
    BY <1>1 DEF LadderLevel
  <2>3. SumFunctionOnSet(f, {} \cup {1}) = f[1] + SumFunctionOnSet(f, {})
    BY <2>0, <2>2, SumAdds
  <2>4. SumFunctionOnSet(f, {1} \cup {2}) = f[2] + SumFunctionOnSet(f, {1})
    <3>1. \A x \in {1} : f[x] \in Int
      BY <2>0
    <3> QED BY <2>0, <2>2, <3>1, SumAdds
  <2>5. SumFunctionOnSet(f, {1, 2} \cup {3}) = f[3] + SumFunctionOnSet(f, {1, 2})
    <3>1. \A x \in {1, 2} : f[x] \in Int
      BY <2>0
    <3>2. 3 \notin {1, 2}
      OBVIOUS
    <3> QED BY <2>0, <2>2, <3>1, <3>2, SumAdds
  <2>6. {} \cup {1} = {1} /\ {1} \cup {2} = {1, 2} /\ {1, 2} \cup {3} = LadderLevel
    BY DEF LadderLevel
  <2>7. SumFunctionOnSet(f, {}) = 0
    BY SumOfNone
  <2>8. Notional = 5 * (Notional \div 5) /\ Notional \div 5 \in Nat
    BY SharesAre
  <2> DEFINE k == Notional \div 5
  <2>9. f[1] = k /\ f[2] = k /\ f[3] = 3 * k /\ Notional = 5 * k /\ k \in Nat
    BY <1>1, <2>8
  <2> HIDE DEF k
  <2>10. SumFunctionOnSet(f, {1}) = f[1] + SumFunctionOnSet(f, {})
    BY <2>3, <2>6
  <2>11. SumFunctionOnSet(f, {1, 2}) = f[2] + SumFunctionOnSet(f, {1})
    BY <2>4, <2>6
  <2>12. SumFunctionOnSet(f, LadderLevel) = f[3] + SumFunctionOnSet(f, {1, 2})
    BY <2>5, <2>6
  <2> QED BY <2>7, <2>9, <2>10, <2>11, <2>12
<1>4. levels \cap rest = {} /\ levels \cup rest = LadderLevel /\ IsFiniteSet(levels) /\ IsFiniteSet(rest)
  BY <1>2
<1>5. (\A l \in levels : f[l] \in Nat) /\ (\A l \in rest : f[l] \in Nat)
  BY <1>1
<1> HIDE DEF rest
<1>6. SumFunctionOnSet(f, levels) \in Nat /\ SumFunctionOnSet(f, rest) \in Nat
  BY <1>4, <1>5, SumNatural
<1>7. SumFunctionOnSet(f, levels \cup rest) = SumFunctionOnSet(f, levels) + SumFunctionOnSet(f, rest)
  <2>1. \A l \in levels \cup rest : f[l] \in Int
    BY <1>5
  <2> QED BY <1>4, <2>1, SumUnion
<1>8. SumFunctionOnSet(f, levels) + SumFunctionOnSet(f, rest) = Notional
  BY <1>3, <1>4, <1>7
<1>9. Notional \in Nat
  BY ReplayAssumption
<1>10. SumFunctionOnSet(f, levels) \in Nat /\ SumFunctionOnSet(f, levels) <= Notional
  BY <1>6, <1>8, <1>9
<1> QED BY <1>10 DEF f

\* What is bought for a share costs the share.
LEMMA ShareBuys ==
    ASSUME NEW level \in LadderLevel, NEW mark \in Marks
    PROVE  /\ (IF mark = 0 THEN 0 ELSE Share(level) \div mark) \in Nat
           /\ mark > 0 => (IF mark = 0 THEN 0 ELSE Share(level) \div mark) * mark = Share(level)
<1>1. CASE mark = 0
  BY <1>1
<1>2. CASE mark # 0
  <2> DEFINE five == 5 * mark
             q == Notional \div five
  <2>1. mark \in Nat /\ mark > 0 /\ Notional % five = 0 /\ Notional \in Nat
    BY <1>2, ReplayAssumption DEF Marks
  <2>2. five \in Nat /\ five > 0
    BY <2>1
  <2>3. q \in Nat /\ Notional = five * q
    <3> HIDE DEF five
    <3> QED BY <2>1, <2>2
  <2> HIDE DEF q
  <2> DEFINE r == mark * q
  <2>4. r \in Nat /\ Notional = 5 * r
    <3>1. (5 * mark) * q = 5 * (mark * q) /\ mark * q \in Nat
      BY <2>1, <2>3
    <3> QED BY <2>3, <3>1
  <2>5. Notional \div 5 = r
    <3> HIDE DEF r
    <3> QED BY <2>4
  <2>6. Share(level) = r \/ Share(level) = 3 * r
    <3> HIDE DEF r
    <3> QED BY <2>5, SharesAre DEF LadderLevel
  <2>7. PICK c \in Nat : Share(level) = mark * c
    <3>1. 3 * r = mark * (3 * q) /\ 3 * q \in Nat
      BY <2>1, <2>3
    <3> QED BY <2>3, <2>6, <3>1
  <2>8. (mark * c) \div mark = c
    BY <2>1
  <2>9. c * mark = mark * c
    BY <2>1
  <2> QED BY <1>2, <2>7, <2>8, <2>9
<1> QED BY <1>1, <1>2

-----------------------------------------------------------------------------
(***************************************************************************)
(* One step of the replay.                                                 *)
(***************************************************************************)
EventRow == [at : Nat, recommendation : {"HOLD", "ADD", "CLOSE"}]
FillRow == [level : LadderLevel, at : Nat, mark : Marks, notional : Nat, quantity : Nat, assumed : BOOLEAN]
RunState == [events : Seq(EventRow), fills : Seq(FillRow), filled : SUBSET LadderLevel, close : Seq(UsableScan)]

Bought(level, mark) == IF mark = 0 THEN 0 ELSE Share(level) \div mark

\* The four things a step may do.
Closed(r, acc) == acc.close # <<>> /\ r = acc

Closes(r, side, acc, now) ==
    /\ acc.close = <<>> /\ acc.fills # <<>>
    /\ r = [events |-> Append(acc.events, Event(now, "CLOSE")), fills |-> acc.fills, filled |-> acc.filled,
            close |-> <<now>>]

Holds(r, acc, now) ==
    /\ acc.close = <<>>
    /\ r = [events |-> Append(acc.events, Event(now, "HOLD")), fills |-> acc.fills, filled |-> acc.filled,
            close |-> acc.close]

Adds(r, side, acc, before, now, level) ==
    /\ acc.close = <<>> /\ now.direction = side /\ level \notin acc.filled
    /\ r = [events |-> Append(acc.events, Event(now, "ADD")),
            fills |-> Append(acc.fills, Fill(level, before, now)), filled |-> acc.filled \cup {level},
            close |-> acc.close]

\* A step does one of them.
LEMMA StepIs ==
    ASSUME NEW side, NEW acc \in RunState, NEW before, NEW now
    PROVE  \/ Closed(SimulateStep(side, acc, before, now), acc)
           \/ Closes(SimulateStep(side, acc, before, now), side, acc, now)
           \/ Holds(SimulateStep(side, acc, before, now), acc, now)
           \/ \E level \in LadderLevel : Adds(SimulateStep(side, acc, before, now), side, acc, before, now, level)
<1> DEFINE crossed == CrossedLevels(side, acc, before, now)
           r == SimulateStep(side, acc, before, now)
           level == Min(crossed)
<1>0. acc = [events |-> acc.events, fills |-> acc.fills, filled |-> acc.filled, close |-> acc.close]
  BY DEF RunState
<1>1. CASE acc.close # <<>>
  <2>1. r = acc
    BY <1>1 DEF SimulateStep
  <2> QED BY <1>1, <2>1 DEF Closed
<1>2. CASE acc.close = <<>> /\ now.direction # side /\ acc.fills # <<>>
  <2>1. r = [acc EXCEPT !.events = Append(@, Event(now, "CLOSE")), !.close = <<now>>]
    BY <1>2 DEF SimulateStep
  <2>2. r = [events |-> Append(acc.events, Event(now, "CLOSE")), fills |-> acc.fills, filled |-> acc.filled,
             close |-> <<now>>]
    BY <1>0, <2>1
  <2> QED BY <1>2, <2>2 DEF Closes
<1>3. CASE acc.close = <<>> /\ ((now.direction # side /\ acc.fills = <<>>)
                                \/ (now.direction = side /\ crossed = {}))
  <2>1. r = [acc EXCEPT !.events = Append(@, Event(now, "HOLD"))]
    BY <1>3 DEF SimulateStep
  <2>2. r = [events |-> Append(acc.events, Event(now, "HOLD")), fills |-> acc.fills, filled |-> acc.filled,
             close |-> acc.close]
    BY <1>0, <2>1
  <2> QED BY <1>3, <2>2 DEF Holds
<1>4. CASE acc.close = <<>> /\ now.direction = side /\ crossed # {}
  <2>1. r = [acc EXCEPT !.events = Append(@, Event(now, "ADD")), !.filled = @ \cup {level},
                        !.fills = Append(@, Fill(level, before, now))]
    BY <1>4 DEF SimulateStep
  <2>2. r = [events |-> Append(acc.events, Event(now, "ADD")),
             fills |-> Append(acc.fills, Fill(level, before, now)), filled |-> acc.filled \cup {level},
             close |-> acc.close]
    <3> HIDE DEF level
    <3> QED BY <1>0, <2>1
  <2>3. level \in crossed
    <3>1. crossed \in SUBSET Nat /\ crossed \in SUBSET Int
      BY DEF CrossedLevels, LadderLevel
    <3> HIDE DEF crossed
    <3>2. PICK m \in crossed : \A x \in crossed : m <= x
      BY <1>4, <3>1, LeastNat
    <3>3. Min(crossed) = m
      BY <3>1, <3>2, MinIs
    <3> QED BY <3>3
  <2>4. level \in LadderLevel /\ level \notin acc.filled
    <3> HIDE DEF level
    <3> QED BY <2>3 DEF CrossedLevels
  <2> HIDE DEF level
  <2>5. Adds(r, side, acc, before, now, level)
    BY <1>4, <2>2, <2>4 DEF Adds
  <2> QED BY <2>4, <2>5
<1> QED BY <1>1, <1>2, <1>3, <1>4

\* What is filled at a scan.
LEMMA FillIs ==
    ASSUME NEW level \in LadderLevel, NEW before \in UsableScan, NEW now \in UsableScan
    PROVE  LET x == Fill(level, before, now)
           IN  /\ x \in FillRow /\ x.level = level /\ x.at = now.at /\ x.mark = now.mark
               /\ x.notional = Share(level) /\ x.quantity = Bought(level, now.mark)
<1> DEFINE x == Fill(level, before, now)
           b == now.at - before.at > METHOD_GAP_HOURS
<1>1. now.at \in Nat /\ now.mark \in Marks
  BY DEF UsableScan
<1>2. x = [level |-> level, at |-> now.at, mark |-> now.mark, notional |-> Share(level),
           quantity |-> Bought(level, now.mark), assumed |-> b]
  BY DEF Fill, Share, Bought
<1>3. b \in BOOLEAN
  OBVIOUS
<1>4. Share(level) \in Nat /\ Bought(level, now.mark) \in Nat
  BY <1>1, SharesAre, ShareBuys DEF Bought
<1> HIDE DEF x, b
<1>5. x \in FillRow
  BY <1>1, <1>2, <1>3, <1>4 DEF FillRow
<1>6. /\ x.level = level /\ x.at = now.at /\ x.mark = now.mark
      /\ x.notional = Share(level) /\ x.quantity = Bought(level, now.mark)
  BY <1>2
<1> QED BY <1>5, <1>6 DEF x

\* What the fills are worth together.
Notionals(fills) == [i \in DOMAIN fills |-> fills[i].notional]

\* One more fill adds its notional.
LEMMA NotionalsAppend ==
    ASSUME NEW fills \in Seq(FillRow), NEW x \in FillRow
    PROVE  NetTotal(Notionals(Append(fills, x))) = x.notional + NetTotal(Notionals(fills))
<1> DEFINE n == Len(fills)
           t == Append(fills, x)
           f == Notionals(fills)
           g == Notionals(t)
           D == 1..n
<1>1. n \in Nat /\ DOMAIN fills = D /\ DOMAIN t = D \cup {n + 1} /\ IsFiniteSet(D) /\ n + 1 \notin D
      /\ (\A i \in D : t[i] = fills[i] /\ fills[i] \in FillRow) /\ t[n + 1] = x
  <2>1. n \in Nat /\ DOMAIN fills = D /\ \A i \in D : fills[i] \in FillRow
    BY LenProperties
  <2>2. t \in Seq(FillRow) /\ Len(t) = n + 1 /\ (\A i \in D : t[i] = fills[i]) /\ t[n + 1] = x
    BY AppendProperties
  <2>3. DOMAIN t = 1..n + 1
    <3> HIDE DEF t, n
    <3> QED BY <2>2, LenProperties
  <2>4. 1..n + 1 = D \cup {n + 1} /\ n + 1 \notin D
    BY <2>1
  <2>5. IsFiniteSet(D)
    BY <2>1, FS_Interval
  <2> QED BY <2>1, <2>2, <2>3, <2>4, <2>5
<1>2. /\ DOMAIN f = D /\ DOMAIN g = D \cup {n + 1}
      /\ \A i \in D : f[i] = fills[i].notional /\ g[i] = fills[i].notional
      /\ g[n + 1] = x.notional
  <2> HIDE DEF D, n, t
  <2> QED BY <1>1 DEF Notionals
<1> HIDE DEF f, g, D, t
<1>3. (\A i \in D : f[i] \in Int /\ f[i] = g[i]) /\ (\A i \in D : g[i] \in Int) /\ g[n + 1] \in Int
  BY <1>1, <1>2 DEF FillRow
<1>4. SumFunctionOnSet(g, D \cup {n + 1}) = g[n + 1] + SumFunctionOnSet(g, D)
  BY <1>1, <1>3, SumAdds
<1>5. SumFunctionOnSet(f, D) = SumFunctionOnSet(g, D)
  BY <1>1, <1>3, SumCongruent
<1>6. NetTotal(f) = SumFunctionOnSet(f, D) /\ NetTotal(g) = SumFunctionOnSet(g, D \cup {n + 1})
  BY <1>2 DEF NetTotal, SumFunction
<1> QED BY <1>2, <1>4, <1>5, <1>6 DEF f, g, t

\* A list with one more row.
LEMMA AppendIs ==
    ASSUME NEW T, NEW s \in Seq(T), NEW x \in T
    PROVE  /\ Append(s, x) \in Seq(T) /\ Append(s, x) # <<>> /\ Len(s) \in Nat
           /\ Len(Append(s, x)) = Len(s) + 1 /\ DOMAIN s = 1..Len(s) /\ DOMAIN Append(s, x) = 1..Len(s) + 1
           /\ (\A i \in 1..Len(s) : Append(s, x)[i] = s[i]) /\ Append(s, x)[Len(s) + 1] = x
<1> DEFINE t == Append(s, x)
<1>1. /\ t \in Seq(T) /\ t # <<>> /\ Len(t) = Len(s) + 1
      /\ (\A i \in 1..Len(s) : t[i] = s[i]) /\ t[Len(s) + 1] = x
  BY AppendProperties
<1>2. Len(s) \in Nat /\ DOMAIN s = 1..Len(s)
  BY LenProperties
<1> HIDE DEF t
<1>3. DOMAIN t = 1..Len(t)
  BY <1>1, LenProperties
<1> QED BY <1>1, <1>2, <1>3 DEF t

\* The replay after its first n scans: each level is filled at most once, in a scan of the position's
\* direction and for its share; until a scan closes it every scan but the first has its event, and the
\* close comes after the first fill and ends the events.
FilledAt(side, s, x, n) ==
    /\ x.notional = Share(x.level) /\ x.quantity = Bought(x.level, x.mark)
    /\ \E k \in 2..n : s[k].at = x.at /\ s[k].direction = side

RunFills(side, s, r, n) ==
    /\ \A i \in DOMAIN r.fills : r.fills[i].level \in r.filled /\ FilledAt(side, s, r.fills[i], n)
    /\ \A i, j \in DOMAIN r.fills : i # j => r.fills[i].level # r.fills[j].level

ClosedAt(s, r, k) ==
    /\ r.fills # <<>> /\ r.close = <<s[k]>> /\ r.fills[1].at < s[k].at
    /\ \A i \in DOMAIN r.events : r.events[i].recommendation = "CLOSE" => i = Len(r.events) /\ r.events[i].at = s[k].at

RunEvents(s, r, n) ==
    /\ r.close = <<>> => Len(r.events) = n - 1 /\ \A i \in DOMAIN r.events : r.events[i].recommendation # "CLOSE"
    /\ r.close # <<>> => \E k \in 2..n : ClosedAt(s, r, k)

RunOK(side, s, r, n) ==
    /\ r \in RunState
    /\ RunFills(side, s, r, n)
    /\ NetTotal(Notionals(r.fills)) = SumFunctionOnSet(Shares, r.filled)
    /\ RunEvents(s, r, n)

\* One more scan takes nothing from what was filled.
LEMMA FillsStay ==
    ASSUME NEW side, NEW s, NEW r, NEW n \in Nat \ {0, 1}, RunFills(side, s, r, n - 1)
    PROVE  RunFills(side, s, r, n)
<1>1. 2..n - 1 \subseteq 2..n
  OBVIOUS
<1>2. \A x : FilledAt(side, s, x, n - 1) => FilledAt(side, s, x, n)
  BY <1>1 DEF FilledAt
<1> QED BY <1>2 DEF RunFills

\* A closed replay stays as it is.
LEMMA StaysClosed ==
    ASSUME NEW side, NEW s, NEW acc, NEW n \in Nat \ {0, 1}, RunOK(side, s, acc, n - 1), acc.close # <<>>
    PROVE  RunOK(side, s, acc, n)
<1>1. RunFills(side, s, acc, n)
  BY FillsStay DEF RunOK
<1>2. RunEvents(s, acc, n)
  <2>1. 2..n - 1 \subseteq 2..n
    OBVIOUS
  <2> QED BY <2>1 DEF RunOK, RunEvents
<1> QED BY <1>1, <1>2 DEF RunOK

\* A close keeps the replay sound.
LEMMA ClosesRightly ==
    ASSUME NEW side, NEW s \in Seq(UsableScan), Rising(s), NEW n \in 2..Len(s), NEW acc, NEW r,
           RunOK(side, s, acc, n - 1), Closes(r, side, acc, s[n])
    PROVE  RunOK(side, s, r, n)
<1> DEFINE x == Event(s[n], "CLOSE")
           e == acc.events
<1>1. /\ Len(s) \in Nat /\ DOMAIN s = 1..Len(s) /\ n \in DOMAIN s /\ s[n] \in UsableScan /\ n \in Nat \ {0, 1}
  BY LenProperties
<1>2. x \in EventRow /\ x.recommendation = "CLOSE" /\ x.at = s[n].at
  BY <1>1 DEF Event, EventRow, UsableScan
<1>3. e \in Seq(EventRow) /\ acc.fills \in Seq(FillRow) /\ acc.filled \in SUBSET LadderLevel
  BY DEF RunOK, RunState
<1>4. /\ r.events = Append(e, x) /\ r.fills = acc.fills /\ r.filled = acc.filled /\ r.close = <<s[n]>>
      /\ acc.close = <<>> /\ acc.fills # <<>>
      /\ r = [events |-> Append(e, x), fills |-> acc.fills, filled |-> acc.filled, close |-> <<s[n]>>]
  BY DEF Closes
<1> HIDE DEF x, e
<1>5. /\ Append(e, x) \in Seq(EventRow) /\ Len(e) \in Nat /\ Len(Append(e, x)) = Len(e) + 1
      /\ DOMAIN e = 1..Len(e) /\ DOMAIN Append(e, x) = 1..Len(e) + 1
      /\ (\A i \in 1..Len(e) : Append(e, x)[i] = e[i]) /\ Append(e, x)[Len(e) + 1] = x
  BY <1>2, <1>3, AppendIs
<1>6. r \in RunState
  <2>1. <<s[n]>> \in Seq(UsableScan)
    BY <1>1
  <2> QED BY <1>3, <1>4, <1>5, <2>1 DEF RunState
<1>7. RunFills(side, s, r, n)
  <2>1. RunFills(side, s, acc, n)
    BY <1>1, FillsStay DEF RunOK
  <2> QED BY <1>4, <2>1 DEF RunFills
<1>8. ClosedAt(s, r, n)
  <2>1. r.fills[1].at < s[n].at
    <3>1. 1 \in DOMAIN acc.fills
      BY <1>3, <1>4, EmptySeq, LenProperties
    <3>2. PICK k \in 2..n - 1 : s[k].at = acc.fills[1].at
      BY <3>1 DEF RunOK, RunFills, FilledAt
    <3>3. k \in DOMAIN s /\ k < n
      BY <1>1
    <3> QED BY <1>1, <1>4, <3>2, <3>3 DEF Rising
  <2>2. ASSUME NEW i \in DOMAIN r.events, r.events[i].recommendation = "CLOSE"
        PROVE  i = Len(r.events) /\ r.events[i].at = s[n].at
    <3>1. \A j \in DOMAIN e : e[j].recommendation # "CLOSE"
      BY <1>4 DEF RunOK, RunEvents, e
    <3>2. i \notin 1..Len(e)
      BY <1>4, <1>5, <2>2, <3>1
    <3>3. i = Len(e) + 1
      BY <1>4, <1>5, <3>2
    <3> QED BY <1>2, <1>4, <1>5, <3>3
  <2> QED BY <1>4, <2>1, <2>2 DEF ClosedAt
<1>9. RunEvents(s, r, n)
  <2>1. r.close # <<>> /\ n \in 2..n
    BY <1>1, <1>4
  <2> QED BY <1>8, <2>1 DEF RunEvents
<1>10. NetTotal(Notionals(r.fills)) = SumFunctionOnSet(Shares, r.filled)
  BY <1>4 DEF RunOK
<1> QED BY <1>6, <1>7, <1>9, <1>10 DEF RunOK

\* So does a scan in which nothing happens.
LEMMA HoldsRightly ==
    ASSUME NEW side, NEW s \in Seq(UsableScan), NEW n \in 2..Len(s), NEW acc, NEW r,
           RunOK(side, s, acc, n - 1), Holds(r, acc, s[n])
    PROVE  RunOK(side, s, r, n)
<1> DEFINE x == Event(s[n], "HOLD")
           e == acc.events
<1>1. Len(s) \in Nat /\ s[n] \in UsableScan /\ n \in Nat \ {0, 1}
  BY LenProperties
<1>2. x \in EventRow /\ x.recommendation = "HOLD"
  BY <1>1 DEF Event, EventRow, UsableScan
<1>3. /\ e \in Seq(EventRow) /\ acc.fills \in Seq(FillRow) /\ acc.filled \in SUBSET LadderLevel
      /\ acc.close \in Seq(UsableScan)
  BY DEF RunOK, RunState
<1>4. /\ r.events = Append(e, x) /\ r.fills = acc.fills /\ r.filled = acc.filled /\ r.close = acc.close
      /\ acc.close = <<>>
      /\ r = [events |-> Append(e, x), fills |-> acc.fills, filled |-> acc.filled, close |-> acc.close]
  BY DEF Holds
<1>5. Len(e) = n - 2 /\ \A i \in DOMAIN e : e[i].recommendation # "CLOSE"
  BY <1>1, <1>4 DEF RunOK, RunEvents
<1> HIDE DEF x, e
<1>6. /\ Append(e, x) \in Seq(EventRow) /\ Len(e) \in Nat /\ Len(Append(e, x)) = Len(e) + 1
      /\ DOMAIN e = 1..Len(e) /\ DOMAIN Append(e, x) = 1..Len(e) + 1
      /\ (\A i \in 1..Len(e) : Append(e, x)[i] = e[i]) /\ Append(e, x)[Len(e) + 1] = x
  BY <1>2, <1>3, AppendIs
<1>7. r \in RunState
  BY <1>3, <1>4, <1>6 DEF RunState
<1>8. RunFills(side, s, r, n)
  <2>1. RunFills(side, s, acc, n)
    BY <1>1, FillsStay DEF RunOK
  <2> QED BY <1>4, <2>1 DEF RunFills
<1>9. RunEvents(s, r, n)
  <2>1. Len(r.events) = n - 1
    BY <1>1, <1>4, <1>5, <1>6
  <2>2. \A i \in DOMAIN r.events : r.events[i].recommendation # "CLOSE"
    <3> TAKE i \in DOMAIN r.events
    <3>1. i \in 1..Len(e) \/ i = Len(e) + 1
      BY <1>4, <1>6
    <3> QED BY <1>2, <1>4, <1>5, <1>6, <3>1
  <2> QED BY <1>4, <2>1, <2>2 DEF RunEvents
<1>10. NetTotal(Notionals(r.fills)) = SumFunctionOnSet(Shares, r.filled)
  BY <1>4 DEF RunOK
<1> QED BY <1>7, <1>8, <1>9, <1>10 DEF RunOK

\* So does a fill.
LEMMA AddsRightly ==
    ASSUME NEW side, NEW s \in Seq(UsableScan), NEW n \in 2..Len(s), NEW acc, NEW r,
           NEW level \in LadderLevel, RunOK(side, s, acc, n - 1), Adds(r, side, acc, s[n - 1], s[n], level)
    PROVE  RunOK(side, s, r, n)
<1> DEFINE x == Event(s[n], "ADD")
           e == acc.events
           f == acc.fills
           y == Fill(level, s[n - 1], s[n])
<1>1. /\ Len(s) \in Nat /\ s[n] \in UsableScan /\ n \in Nat \ {0, 1} /\ s[n - 1] \in UsableScan
      /\ n \in 2..n
  BY LenProperties
<1>2. x \in EventRow /\ x.recommendation = "ADD"
  BY <1>1 DEF Event, EventRow, UsableScan
<1>3. /\ e \in Seq(EventRow) /\ f \in Seq(FillRow) /\ acc.filled \in SUBSET LadderLevel
      /\ acc.close \in Seq(UsableScan)
  BY DEF RunOK, RunState
<1>4. /\ r.events = Append(e, x) /\ r.fills = Append(f, y) /\ r.filled = acc.filled \cup {level}
      /\ r.close = acc.close /\ acc.close = <<>> /\ s[n].direction = side /\ level \notin acc.filled
      /\ r = [events |-> Append(e, x), fills |-> Append(f, y), filled |-> acc.filled \cup {level},
              close |-> acc.close]
  BY DEF Adds
<1>5. Len(e) = n - 2 /\ \A i \in DOMAIN e : e[i].recommendation # "CLOSE"
  BY <1>1, <1>4 DEF RunOK, RunEvents
<1>6. /\ y \in FillRow /\ y.level = level /\ y.at = s[n].at /\ y.mark = s[n].mark
      /\ y.notional = Share(level) /\ y.quantity = Bought(level, s[n].mark)
  BY <1>1, FillIs
<1>7. RunFills(side, s, acc, n)
  BY <1>1, FillsStay DEF RunOK
<1>8. NetTotal(Notionals(f)) = SumFunctionOnSet(Shares, acc.filled)
  BY DEF RunOK
<1>9. (\A i \in DOMAIN f : f[i].level \in acc.filled /\ FilledAt(side, s, f[i], n))
      /\ \A i, j \in DOMAIN f : i # j => f[i].level # f[j].level
  BY <1>7 DEF RunFills
<1> HIDE DEF x, e, f, y
<1>10. /\ Append(e, x) \in Seq(EventRow) /\ Len(e) \in Nat /\ Len(Append(e, x)) = Len(e) + 1
       /\ DOMAIN e = 1..Len(e) /\ DOMAIN Append(e, x) = 1..Len(e) + 1
       /\ (\A i \in 1..Len(e) : Append(e, x)[i] = e[i]) /\ Append(e, x)[Len(e) + 1] = x
  BY <1>2, <1>3, AppendIs
<1>11. /\ Append(f, y) \in Seq(FillRow) /\ Len(f) \in Nat
       /\ DOMAIN f = 1..Len(f) /\ DOMAIN Append(f, y) = 1..Len(f) + 1
       /\ (\A i \in 1..Len(f) : Append(f, y)[i] = f[i]) /\ Append(f, y)[Len(f) + 1] = y
  BY <1>3, <1>6, AppendIs
<1>12. r \in RunState
  <2>1. acc.filled \cup {level} \in SUBSET LadderLevel
    BY <1>3
  <2> QED BY <1>3, <1>4, <1>10, <1>11, <2>1 DEF RunState
<1>13. RunFills(side, s, r, n)
  <2>1. FilledAt(side, s, y, n)
    BY <1>1, <1>4, <1>6 DEF FilledAt
  <2>2. \A i \in DOMAIN r.fills : (i \in DOMAIN f /\ r.fills[i] = f[i]) \/ (i = Len(f) + 1 /\ r.fills[i] = y)
    BY <1>4, <1>11
  <2>3. \A i \in DOMAIN r.fills : r.fills[i].level \in r.filled /\ FilledAt(side, s, r.fills[i], n)
    BY <1>4, <1>6, <1>9, <2>1, <2>2
  <2>4. \A i, j \in DOMAIN r.fills : i # j => r.fills[i].level # r.fills[j].level
    BY <1>4, <1>6, <1>9, <2>2
  <2> QED BY <2>3, <2>4 DEF RunFills
<1>14. NetTotal(Notionals(r.fills)) = SumFunctionOnSet(Shares, r.filled)
  <2>1. NetTotal(Notionals(r.fills)) = Share(level) + NetTotal(Notionals(f))
    BY <1>3, <1>4, <1>6, NotionalsAppend
  <2>2. SumFunctionOnSet(Shares, acc.filled \cup {level}) = Shares[level] + SumFunctionOnSet(Shares, acc.filled)
    <3> DEFINE F == acc.filled
    <3>1. IsFiniteSet(F)
      <4>1. F \in SUBSET Nat /\ 3 \in Nat /\ \A l \in F : l <= 3
        BY <1>3 DEF LadderLevel
      <4> QED BY <4>1, FS_BoundedSetOfNaturals
    <3>2. (\A l \in F : Shares[l] \in Int) /\ Shares[level] \in Int /\ level \notin F
      BY <1>3, <1>4, SharesAre DEF Shares
    <3> HIDE DEF F
    <3>3. SumFunctionOnSet(Shares, F \cup {level}) = Shares[level] + SumFunctionOnSet(Shares, F)
      BY <3>1, <3>2, SumAdds
    <3> QED BY <3>3 DEF F
  <2>3. Shares[level] = Share(level)
    BY DEF Shares
  <2> QED BY <1>4, <1>8, <2>1, <2>2, <2>3
<1>15. RunEvents(s, r, n)
  <2>1. Len(r.events) = n - 1
    BY <1>1, <1>4, <1>5, <1>10
  <2>2. \A i \in DOMAIN r.events : r.events[i].recommendation # "CLOSE"
    <3> TAKE i \in DOMAIN r.events
    <3>1. i \in 1..Len(e) \/ i = Len(e) + 1
      BY <1>4, <1>10
    <3> QED BY <1>2, <1>4, <1>5, <1>10, <3>1
  <2> QED BY <1>4, <2>1, <2>2 DEF RunEvents
<1> QED BY <1>12, <1>13, <1>14, <1>15 DEF RunOK

\* The replay is sound after every scan.
LEMMA RunIsOK ==
    ASSUME NEW side, NEW s \in Seq(UsableScan), Rising(s), NEW g, RunUpTo(side, s, Len(s), g)
    PROVE  \A n \in 1..Len(s) : RunOK(side, s, g[n], n)
<1> DEFINE N == Len(s)
           Good == {n \in 0..N : n = 0 \/ RunOK(side, s, g[n], n)}
<1>1. N \in Nat
  BY LenProperties
<1>2. 0 \in Good
  BY <1>1
<1>3. ASSUME NEW n \in 1..N, n - 1 \in Good PROVE n \in Good
  <2>1. g[n] = IF n = 1 THEN NothingYet ELSE SimulateStep(side, g[n - 1], s[n - 1], s[n])
    BY DEF RunUpTo
  <2>2. CASE n = 1
    <3>1. NothingYet \in RunState
      BY DEF NothingYet, RunState
    <3>2. RunFills(side, s, NothingYet, 1)
      BY DEF RunFills, NothingYet
    <3>3. RunEvents(s, NothingYet, 1)
      BY DEF RunEvents, NothingYet
    <3>4. NetTotal(Notionals(NothingYet.fills)) = SumFunctionOnSet(Shares, NothingYet.filled)
      <4>1. DOMAIN Notionals(NothingYet.fills) = {} /\ NothingYet.filled = {}
        BY DEF Notionals, NothingYet
      <4>2. NetTotal(Notionals(NothingYet.fills)) = SumFunctionOnSet(Notionals(NothingYet.fills), {})
        BY <4>1 DEF NetTotal, SumFunction
      <4> QED BY <4>1, <4>2, SumOfNone
    <3>5. RunOK(side, s, g[n], n)
      BY <2>1, <2>2, <3>1, <3>2, <3>3, <3>4 DEF RunOK
    <3> QED BY <1>1, <3>5
  <2>3. CASE n # 1
    <3> DEFINE acc == g[n - 1]
               r == SimulateStep(side, acc, s[n - 1], s[n])
    <3>1. n \in 2..N /\ n \in Nat \ {0, 1} /\ RunOK(side, s, acc, n - 1)
      BY <1>1, <1>3, <2>3
    <3>2. acc \in RunState
      BY <3>1 DEF RunOK
    <3>3. \/ Closed(r, acc) \/ Closes(r, side, acc, s[n]) \/ Holds(r, acc, s[n])
          \/ \E level \in LadderLevel : Adds(r, side, acc, s[n - 1], s[n], level)
      <4> HIDE DEF acc
      <4> QED BY <3>2, StepIs
    <3> HIDE DEF acc, r
    <3>4. RunOK(side, s, r, n)
      <4>1. CASE Closed(r, acc)
        BY <3>1, <4>1, StaysClosed DEF Closed
      <4>2. CASE Closes(r, side, acc, s[n])
        BY <3>1, <4>2, ClosesRightly
      <4>3. CASE Holds(r, acc, s[n])
        BY <3>1, <4>3, HoldsRightly
      <4>4. ASSUME NEW level \in LadderLevel, Adds(r, side, acc, s[n - 1], s[n], level)
            PROVE  RunOK(side, s, r, n)
        BY <3>1, <4>4, AddsRightly
      <4> QED BY <3>3, <4>1, <4>2, <4>3, <4>4
    <3>5. g[n] = r
      BY <2>1, <2>3 DEF acc, r
    <3> QED BY <1>1, <3>4, <3>5
  <2> QED BY <2>2, <2>3
<1> HIDE DEF Good
<1>4. 0..N \subseteq Good
  BY <1>1, <1>2, <1>3, UpTo
<1> QED BY <1>1, <1>4 DEF Good

-----------------------------------------------------------------------------
(***************************************************************************)
(* What the validation of a symbol reports.                                *)
(***************************************************************************)
Replays(side, u, run) ==
    \/ Len(u) < 2 /\ run = NothingYet
    \/ Len(u) >= 2 /\ side # "none" /\ RunOK(side, u, run, Len(u))

\* The replay of a symbol is sound, or there was too little to replay.
LEMMA ReplayIs ==
    ASSUME NEW scans \in Seq(StoredScan), Rising(scans), NEW side \in Sides
    PROVE  /\ Usable(scans, side) \in Seq(UsableScan) /\ Rising(Usable(scans, side))
           /\ \A k \in DOMAIN Usable(scans, side) : \E i \in DOMAIN scans : Usable(scans, side)[k] = scans[i]
           /\ Replays(side, Usable(scans, side), _simulate_events(side, Usable(scans, side)))
<1> DEFINE u == Usable(scans, side)
<1>1. /\ u \in Seq(UsableScan) /\ Rising(u)
      /\ \A k \in DOMAIN u : \E i \in DOMAIN scans : u[k] = scans[i]
      /\ side = "none" => u = <<>>
  BY UsableIs
<1> HIDE DEF u
<1>2. Len(u) \in Nat
  BY <1>1, LenProperties
<1>3. PICK g : /\ RunUpTo(side, u, Len(u), g)
               /\ _simulate_events(side, u) = IF Len(u) < MIN_USABLE_SCANS THEN NothingYet ELSE g[Len(u)]
  BY <1>2, SimulatedRun
<1>4. CASE Len(u) < 2
  <2>1. Replays(side, u, _simulate_events(side, u))
    BY <1>3, <1>4 DEF Replays, MIN_USABLE_SCANS
  <2> QED BY <1>1, <2>1 DEF u
<1>5. CASE Len(u) >= 2
  <2>1. Len(u) \in 1..Len(u)
    BY <1>2, <1>5
  <2>2. RunOK(side, u, g[Len(u)], Len(u))
    BY <1>1, <1>3, <2>1, RunIsOK
  <2>3. _simulate_events(side, u) = g[Len(u)]
    BY <1>2, <1>3, <1>5 DEF MIN_USABLE_SCANS
  <2>4. side # "none"
    <3>1. Len(<<>>) = 0
      OBVIOUS
    <3> QED BY <1>1, <1>5, <3>1
  <2>5. Replays(side, u, _simulate_events(side, u))
    BY <1>5, <2>2, <2>3, <2>4 DEF Replays
  <2> QED BY <1>1, <2>5 DEF u
<1> QED BY <1>2, <1>4, <1>5

\* The parts of the report.
Reports(c, side, u, run) ==
    /\ c.side = side /\ c.scans = Len(u) /\ c.events = run.events /\ c.fills = run.fills
    /\ c.status = (IF Len(u) >= MIN_USABLE_SCANS THEN "metrics_available" ELSE "insufficient_history")
    /\ c.closed = (run.close # <<>>)
    /\ run.fills # <<>> => c.mark = Valuation(run, u).mark /\ c.end = Valuation(run, u).at
    /\ side # "none" => c.pnl = ReplayPnl(side, run, u)

\* The report shows the replay.
LEMMA ReportIs ==
    ASSUME NEW scans, NEW side
    PROVE  Reports(_coverage_for_symbol(side, scans), side, Usable(scans, side),
                   _simulate_events(side, Usable(scans, side)))
BY DEF Reports, _coverage_for_symbol

\* A replay that filled something: over two scans or more, and valued at one of them.
LEMMA Filled ==
    ASSUME NEW side, NEW u \in Seq(UsableScan), Rising(u), NEW run, Replays(side, u, run), run.fills # <<>>
    PROVE  /\ side # "none" /\ RunOK(side, u, run, Len(u)) /\ run.fills \in Seq(FillRow) /\ 1 \in DOMAIN run.fills
           /\ Valuation(run, u) \in UsableScan /\ run.fills[1].at <= Valuation(run, u).at
<1> DEFINE N == Len(u)
<1>1. N \in Nat /\ DOMAIN u = 1..N /\ \A k \in 1..N : u[k] \in UsableScan
  BY LenProperties
<1>2. N >= 2 /\ side # "none" /\ RunOK(side, u, run, N)
  BY DEF Replays, NothingYet
<1>3. run.fills \in Seq(FillRow) /\ run.close \in Seq(UsableScan)
  BY <1>2 DEF RunOK, RunState
<1>4. 1 \in DOMAIN run.fills
  BY <1>3, EmptySeq, LenProperties
<1>5. PICK k \in 2..N : u[k].at = run.fills[1].at
  BY <1>2, <1>4 DEF RunOK, RunFills, FilledAt
<1>6. Valuation(run, u) \in UsableScan /\ run.fills[1].at <= Valuation(run, u).at
  <2>1. CASE run.close = <<>>
    <3>1. Valuation(run, u) = u[N]
      BY <2>1 DEF Valuation, Last
    <3>0. k \in DOMAIN u /\ N \in DOMAIN u /\ (k = N \/ k < N)
      <4>1. k \in 2..N
        OBVIOUS
      <4> HIDE DEF N
      <4> QED BY <1>1, <1>2, <4>1
    <3>2. u[k] \in UsableScan /\ u[N] \in UsableScan /\ (k = N \/ u[k].at < u[N].at)
      BY <1>1, <3>0 DEF Rising
    <3>3. u[k].at \in Nat /\ u[N].at \in Nat
      BY <3>2 DEF UsableScan
    <3> QED BY <1>5, <3>1, <3>2, <3>3
  <2>2. CASE run.close # <<>>
    <3>1. PICK m \in 2..N : ClosedAt(u, run, m)
      BY <1>2, <2>2 DEF RunOK, RunEvents
    <3>2. Valuation(run, u) = u[m] /\ run.fills[1].at < u[m].at
      BY <2>2, <3>1 DEF Valuation, ClosedAt
    <3>3. u[m] \in UsableScan /\ u[k].at \in Nat /\ u[m].at \in Nat
      BY <1>1 DEF UsableScan
    <3> QED BY <1>5, <3>2, <3>3
  <2> QED BY <2>1, <2>2
<1> QED BY <1>2, <1>3, <1>4, <1>6

\* What a fill costs: its share and the slippage, or nothing when the price is zero.
Cost(side, fill) == fill.quantity * _entry_fill_price(side, fill.mark)
Costs(side, fills) == [i \in DOMAIN fills |-> Cost(side, fills[i])]

LEMMA FillCosts ==
    ASSUME NEW side, NEW fill \in FillRow, fill.notional = Share(fill.level),
           fill.quantity = Bought(fill.level, fill.mark)
    PROVE  Cost(side, fill) \in Int /\ Cost(side, fill) <= 10005 * fill.notional
<1> DEFINE q == fill.quantity
           m == fill.mark
           n == fill.notional
<1>1. q \in Nat /\ m \in Nat /\ n \in Nat /\ fill.level \in LadderLevel /\ m \in Marks
  BY DEF FillRow, Marks
<1>2. m = 0 \/ q * m = n
  BY <1>1, ShareBuys DEF Bought
<1>3. Cost(side, fill) = q * (m * 10005) \/ Cost(side, fill) = q * (m * 9995)
  BY DEF Cost, _entry_fill_price, SLIPPAGE
<1> HIDE DEF q, m
<1>4. q * (m * 10005) = 10005 * (q * m) /\ q * (m * 9995) = 9995 * (q * m) /\ q * m \in Nat
  BY <1>1
<1>5. q * m = 0 \/ q * m = n
  BY <1>1, <1>2
<1> HIDE DEF n
<1> DEFINE v == q * m
<1>6. v \in Nat /\ n \in Nat /\ (v = 0 \/ v = n) /\ (Cost(side, fill) = 10005 * v \/ Cost(side, fill) = 9995 * v)
  BY <1>1, <1>3, <1>4, <1>5
<1> HIDE DEF v
<1>7. Cost(side, fill) \in Int /\ Cost(side, fill) <= 10005 * n
  BY <1>6
<1> QED BY <1>7 DEF n

\* What the fills cost together is within the slippage of their notional.
LEMMA FillsCost ==
    ASSUME NEW side, NEW fills \in Seq(FillRow),
           \A i \in DOMAIN fills : /\ fills[i].notional = Share(fills[i].level)
                                   /\ fills[i].quantity = Bought(fills[i].level, fills[i].mark),
           NetTotal(Notionals(fills)) <= Notional
    PROVE  NetTotal(Costs(side, fills)) <= 10005 * Notional
<1> DEFINE D == DOMAIN fills
           f == Costs(side, fills)
           g == Notionals(fills)
           h == [i \in D |-> 10005 * g[i] + (-1) * f[i]]
<1>1. IsFiniteSet(D) /\ \A i \in D : fills[i] \in FillRow
  <2>1. /\ Len(fills) \in Nat /\ DOMAIN fills = 1..Len(fills)
        /\ \A i \in DOMAIN fills : fills[i] \in FillRow
    BY LenProperties
  <2>2. IsFiniteSet(1..Len(fills))
    BY <2>1, FS_Interval
  <2> QED BY <2>1, <2>2
<1>2. \A i \in D : Cost(side, fills[i]) \in Int /\ Cost(side, fills[i]) <= 10005 * fills[i].notional
  BY <1>1, FillCosts
<1>3. \A i \in D : f[i] = Cost(side, fills[i]) /\ g[i] = fills[i].notional /\ fills[i].notional \in Int
  BY <1>1 DEF Notionals, Costs, FillRow
<1>4. DOMAIN f = D /\ DOMAIN g = D /\ DOMAIN h = D /\ \A i \in D : h[i] = 10005 * g[i] + (-1) * f[i]
  BY DEF Notionals, Costs
<1> HIDE DEF D, f, g, h
<1>5. \A i \in D : f[i] \in Int /\ g[i] \in Int /\ h[i] \in Nat /\ h[i] = 10005 * g[i] + (-1) * f[i]
  BY <1>2, <1>3, <1>4
<1>6. Mixed(g, f, h, D, 10005, -1)
  BY <1>5 DEF Mixed
<1>7. /\ NetTotal(f) = SumFunctionOnSet(f, D) /\ NetTotal(g) = SumFunctionOnSet(g, D)
  BY <1>4 DEF NetTotal, SumFunction
<1>8. SumFunctionOnSet(h, D) = 10005 * SumFunctionOnSet(g, D) + (-1) * SumFunctionOnSet(f, D)
  BY <1>1, <1>6, SumCombines
<1>9. SumFunctionOnSet(h, D) \in Nat /\ SumFunctionOnSet(f, D) \in Int /\ SumFunctionOnSet(g, D) \in Int
  BY <1>1, <1>5, SumNatural, SumInt
<1>10. Notional \in Nat /\ SumFunctionOnSet(g, D) <= Notional
  BY <1>7, ReplayAssumption DEF g
<1>11. NetTotal(f) <= 10005 * Notional
  BY <1>7, <1>8, <1>9, <1>10
<1> QED BY <1>11 DEF f

\* What is filled is bounded.
LEMMA FillsBounded ==
    ASSUME storedScans \in Seq(StoredScan), Rising(storedScans), held \in Sides
    PROVE  FillsAreBounded(Replayed(storedScans))
<1> DEFINE u == Usable(storedScans, held)
           run == _simulate_events(held, u)
           c == Replayed(storedScans)
<1>1. /\ u \in Seq(UsableScan) /\ Rising(u) /\ Replays(held, u, run)
      /\ \A k \in DOMAIN u : \E i \in DOMAIN storedScans : u[k] = storedScans[i]
  BY ReplayIs
<1>2. Reports(c, held, u, run)
  BY ReportIs DEF Replayed
<1> HIDE DEF u, run, c
<1>3. c.side = held /\ c.fills = run.fills
  BY <1>2 DEF Reports
<1>4. Notional \in Nat
  BY ReplayAssumption
<1>5. ASSUME run = NothingYet PROVE FillsAreBounded(c)
  <2>1. c.fills = <<>>
    BY <1>3, <1>5 DEF NothingYet
  <2>2. NetTotal([i \in DOMAIN c.fills |-> c.fills[i].notional]) = 0
    <3> DEFINE h == [i \in DOMAIN c.fills |-> c.fills[i].notional]
    <3>1. DOMAIN h = {}
      BY <2>1
    <3> HIDE DEF h
    <3>2. NetTotal(h) = SumFunctionOnSet(h, {})
      BY <3>1 DEF NetTotal, SumFunction
    <3>3. NetTotal(h) = 0
      BY <3>2, SumOfNone
    <3> QED BY <3>3 DEF h
  <2>3. NetTotal([i \in DOMAIN c.fills |-> c.fills[i].quantity * _entry_fill_price(c.side, c.fills[i].mark)]) = 0
    <3> DEFINE h == [i \in DOMAIN c.fills |-> c.fills[i].quantity * _entry_fill_price(c.side, c.fills[i].mark)]
    <3>1. DOMAIN h = {}
      BY <2>1
    <3> HIDE DEF h
    <3>2. NetTotal(h) = SumFunctionOnSet(h, {})
      BY <3>1 DEF NetTotal, SumFunction
    <3>3. NetTotal(h) = 0
      BY <3>2, SumOfNone
    <3> QED BY <3>3 DEF h
  <2> QED BY <1>4, <2>1, <2>2, <2>3 DEF FillsAreBounded, SLIPPAGE
<1>6. ASSUME RunOK(held, u, run, Len(u)) PROVE FillsAreBounded(c)
  <2>1. \A i, j \in DOMAIN c.fills : i # j => c.fills[i].level # c.fills[j].level
    BY <1>3, <1>6 DEF RunOK, RunFills
  <2>2. ASSUME NEW i \in DOMAIN c.fills
        PROVE  \E k \in DOMAIN storedScans : storedScans[k].at = c.fills[i].at /\ storedScans[k].direction = c.side
    <3>1. PICK k \in 2..Len(u) : u[k].at = c.fills[i].at /\ u[k].direction = held
      BY <1>3, <1>6 DEF RunOK, RunFills, FilledAt
    <3>2. k \in DOMAIN u
      BY <1>1, LenProperties
    <3>3. PICK j \in DOMAIN storedScans : u[k] = storedScans[j]
      BY <1>1, <3>2
    <3> QED BY <1>3, <3>1, <3>3
  <2>3. NetTotal(Notionals(c.fills)) = SumFunctionOnSet(Shares, run.filled) /\ run.filled \in SUBSET LadderLevel
    BY <1>3, <1>6 DEF RunOK, RunState
  <2>4. NetTotal(Notionals(c.fills)) <= Notional
    BY <2>3, SharesFit
  <2>5. /\ c.fills \in Seq(FillRow)
        /\ \A i \in DOMAIN c.fills : /\ c.fills[i].notional = Share(c.fills[i].level)
                                      /\ c.fills[i].quantity = Bought(c.fills[i].level, c.fills[i].mark)
    BY <1>3, <1>6 DEF RunOK, RunState, RunFills, FilledAt
  <2>6. NetTotal(Costs(c.side, c.fills)) <= 10005 * Notional
    BY <2>4, <2>5, FillsCost
  <2> QED BY <2>1, <2>2, <2>4, <2>6 DEF FillsAreBounded, Notionals, Costs, Cost, SLIPPAGE
<1>7. FillsAreBounded(c)
  BY <1>1, <1>5, <1>6 DEF Replays
<1> QED BY <1>7 DEF c

\* A close is the last event.
LEMMA ClosesLast ==
    ASSUME storedScans \in Seq(StoredScan), Rising(storedScans), held \in Sides
    PROVE  CloseIsLast(Replayed(storedScans))
<1> DEFINE u == Usable(storedScans, held)
           run == _simulate_events(held, u)
           c == Replayed(storedScans)
<1>1. u \in Seq(UsableScan) /\ Replays(held, u, run) /\ Len(u) \in Nat
  BY ReplayIs, LenProperties
<1>2. Reports(c, held, u, run)
  BY ReportIs DEF Replayed
<1> HIDE DEF u, run, c
<1>3. /\ c.fills = run.fills /\ c.events = run.events /\ c.scans = Len(u) /\ c.closed = (run.close # <<>>)
      /\ c.status = (IF Len(u) >= MIN_USABLE_SCANS THEN "metrics_available" ELSE "insufficient_history")
  BY <1>2 DEF Reports
<1>4. ASSUME Len(u) < 2, run = NothingYet PROVE CloseIsLast(c)
  <2>1. c.events = <<>> /\ c.status # "metrics_available"
    BY <1>1, <1>3, <1>4 DEF NothingYet, MIN_USABLE_SCANS
  <2> QED BY <2>1 DEF CloseIsLast
<1>5. ASSUME RunOK(held, u, run, Len(u)) PROVE CloseIsLast(c)
  <2>1. RunEvents(u, run, Len(u))
    BY <1>5 DEF RunOK
  <2>2. ~c.closed => Len(c.events) = c.scans - 1
    BY <1>3, <2>1 DEF RunEvents
  <2>3. ASSUME NEW i \in DOMAIN c.events, c.events[i].recommendation = "CLOSE"
        PROVE  i = Len(c.events) /\ c.fills # <<>> /\ c.fills[1].at < c.events[i].at
    <3>1. run.close # <<>>
      BY <1>3, <2>1, <2>3 DEF RunEvents
    <3>2. PICK k \in 2..Len(u) : ClosedAt(u, run, k)
      BY <2>1, <3>1 DEF RunEvents
    <3> QED BY <1>3, <2>3, <3>2 DEF ClosedAt
  <2> QED BY <2>2, <2>3 DEF CloseIsLast
<1>6. CloseIsLast(c)
  BY <1>1, <1>4, <1>5 DEF Replays
<1> QED BY <1>6 DEF c

\* What one fill gained at the closing price, once its fees and slippage are counted: the gain of the
\* marks less the slippage of what was bought and sold.
Explained(side, fill, mark) ==
    fill.quantity * (IF side = "LONG" THEN _exit_fill_price(side, mark) - _entry_fill_price(side, fill.mark)
                     ELSE _entry_fill_price(side, fill.mark) - _exit_fill_price(side, mark))

\* It is what the profit says of the fill.
LEMMA FillExplained ==
    ASSUME NEW side, NEW fill \in FillRow, NEW mark \in Nat, fill.quantity * fill.mark = fill.notional
    PROVE  /\ _raw_pnl(side, fill, mark) \in Int /\ fill.notional + fill.quantity * mark \in Int
           /\ Explained(side, fill, mark)
                = 10000 * _raw_pnl(side, fill, mark) + (-5) * (fill.notional + fill.quantity * mark)
<1> DEFINE q == fill.quantity
           m == fill.mark
           n == fill.notional
<1>1. q \in Nat /\ m \in Nat /\ n \in Nat /\ q * m = n
  BY DEF FillRow, Marks
<1>2. CASE side = "LONG"
  <2>1. _raw_pnl(side, fill, mark) = q * (mark - m)
    BY <1>2 DEF _raw_pnl
  <2>2. Explained(side, fill, mark) = q * (mark * (10000 - 5) - m * (10000 + 5))
    BY <1>2 DEF Explained, _exit_fill_price, _entry_fill_price, SLIPPAGE
  <2> HIDE DEF q, m, n
  <2>3. q * (mark * (10000 - 5) - m * (10000 + 5)) = 10000 * (q * (mark - m)) + (-5) * (q * m + q * mark)
    BY <1>1
  <2>4. q * (mark - m) \in Int /\ n + q * mark \in Int
    BY <1>1
  <2> QED BY <1>1, <2>1, <2>2, <2>3, <2>4 DEF q, n
<1>3. CASE side # "LONG"
  <2>1. _raw_pnl(side, fill, mark) = q * (m - mark)
    BY <1>3 DEF _raw_pnl
  <2>2. Explained(side, fill, mark) = q * (m * (10000 - 5) - mark * (10000 + 5))
    BY <1>3 DEF Explained, _exit_fill_price, _entry_fill_price, SLIPPAGE
  <2> HIDE DEF q, m, n
  <2>3. q * (m * (10000 - 5) - mark * (10000 + 5)) = 10000 * (q * (m - mark)) + (-5) * (q * m + q * mark)
    BY <1>1
  <2>4. q * (m - mark) \in Int /\ n + q * mark \in Int
    BY <1>1
  <2> QED BY <1>1, <2>1, <2>2, <2>3, <2>4 DEF q, n
<1> QED BY <1>2, <1>3

\* The prices explain the profit.
LEMMA PricesExplain ==
    ASSUME storedScans \in Seq(StoredScan), Rising(storedScans), held \in Sides
    PROVE  PricesExplainProfit(Replayed(storedScans))
<1> DEFINE u == Usable(storedScans, held)
           run == _simulate_events(held, u)
           c == Replayed(storedScans)
<1>1. u \in Seq(UsableScan) /\ Rising(u) /\ Replays(held, u, run)
  BY ReplayIs
<1>2. Reports(c, held, u, run)
  BY ReportIs DEF Replayed
<1> HIDE DEF u, run, c
<1>3. c.fills = run.fills /\ c.side = held
  BY <1>2 DEF Reports
<1> DEFINE D == DOMAIN c.fills
           mark == c.mark
           f == [i \in D |-> _raw_pnl(held, run.fills[i], mark)]
           g == [i \in D |-> run.fills[i].notional + run.fills[i].quantity * mark]
           h == [i \in D |-> Explained(held, c.fills[i], mark)]
<1>4. ASSUME c.fills # <<>>, \A i \in D : c.fills[i].mark > 0 PROVE c.pnl.net + c.pnl.fees = NetTotal(h)
  <2>1. /\ held # "none" /\ RunOK(held, u, run, Len(u)) /\ run.fills \in Seq(FillRow)
        /\ Valuation(run, u) \in UsableScan
    BY <1>1, <1>3, <1>4, Filled
  <2>2. mark = Valuation(run, u).mark /\ mark \in Nat /\ c.pnl = ReplayPnl(held, run, u)
    <3>1. c.mark = Valuation(run, u).mark /\ c.pnl = ReplayPnl(held, run, u)
      BY <1>2, <1>3, <1>4, <2>1 DEF Reports
    <3> QED BY <2>1, <3>1 DEF UsableScan, Marks
  <2> HIDE DEF mark
  <2>3. IsFiniteSet(D) /\ \A i \in D : run.fills[i] \in FillRow
    <3>1. /\ Len(run.fills) \in Nat /\ DOMAIN run.fills = 1..Len(run.fills)
          /\ \A i \in DOMAIN run.fills : run.fills[i] \in FillRow
      BY <2>1, LenProperties
    <3>2. IsFiniteSet(1..Len(run.fills))
      BY <3>1, FS_Interval
    <3> QED BY <1>3, <3>1, <3>2
  <2>4. ASSUME NEW i \in D PROVE run.fills[i].quantity * run.fills[i].mark = run.fills[i].notional
    <3> DEFINE x == run.fills[i]
    <3>1. x \in FillRow /\ x.mark > 0
      BY <1>3, <1>4, <2>3
    <3>2. x.notional = Share(x.level) /\ x.quantity = Bought(x.level, x.mark)
      BY <1>3, <2>1 DEF RunOK, RunFills, FilledAt
    <3>3. x.level \in LadderLevel /\ x.mark \in Marks
      BY <3>1 DEF FillRow
    <3> HIDE DEF x
    <3>4. Bought(x.level, x.mark) * x.mark = Share(x.level)
      BY <3>1, <3>3, ShareBuys DEF Bought
    <3>5. x.quantity * x.mark = x.notional
      BY <3>2, <3>4
    <3> QED BY <3>5 DEF x
  <2>5. \A i \in D : /\ _raw_pnl(held, run.fills[i], mark) \in Int
                     /\ run.fills[i].notional + run.fills[i].quantity * mark \in Int
                     /\ Explained(held, run.fills[i], mark)
                          = 10000 * _raw_pnl(held, run.fills[i], mark)
                            + (-5) * (run.fills[i].notional + run.fills[i].quantity * mark)
    BY <2>2, <2>3, <2>4, FillExplained
  <2>6. Mixed(f, g, h, D, 10000, -5)
    <3>1. \A i \in D : /\ f[i] = _raw_pnl(held, run.fills[i], mark)
                       /\ g[i] = run.fills[i].notional + run.fills[i].quantity * mark
                       /\ h[i] = Explained(held, run.fills[i], mark)
      BY <1>3
    <3> HIDE DEF f, g, h, D
    <3> QED BY <2>5, <3>1 DEF Mixed
  <2>7. /\ NetTotal(f) = SumFunctionOnSet(f, D) /\ NetTotal(g) = SumFunctionOnSet(g, D)
        /\ NetTotal(h) = SumFunctionOnSet(h, D)
    BY DEF NetTotal, SumFunction
  <2>8. c.pnl.net = 10000 * NetTotal(f) - FEE * NetTotal(g) - SLIPPAGE * NetTotal(g) /\ c.pnl.fees = FEE * NetTotal(g)
    <3>1. run.fills # <<>>
      BY <1>3, <1>4
    <3>2. /\ f = [i \in DOMAIN run.fills |-> _raw_pnl(held, run.fills[i], Valuation(run, u).mark)]
          /\ g = [i \in DOMAIN run.fills |-> run.fills[i].notional + run.fills[i].quantity * Valuation(run, u).mark]
      BY <1>3, <2>2
    <3>3. ReplayPnl(held, run, u) =
              [gross |-> 10000 * NetTotal(f), fees |-> FEE * NetTotal(g), slippage |-> SLIPPAGE * NetTotal(g),
               net |-> 10000 * NetTotal(f) - FEE * NetTotal(g) - SLIPPAGE * NetTotal(g)]
      <4> HIDE DEF f, g
      <4> QED BY <3>1, <3>2 DEF ReplayPnl
    <3> HIDE DEF f, g
    <3> QED BY <2>2, <3>3
  <2> HIDE DEF f, g, h, D
  <2>9. NetTotal(h) = 10000 * NetTotal(f) + (-5) * NetTotal(g)
    <3>1. SumFunctionOnSet(h, D) = 10000 * SumFunctionOnSet(f, D) + (-5) * SumFunctionOnSet(g, D)
      BY <2>3, <2>6, SumCombines
    <3> QED BY <2>7, <3>1
  <2>10. NetTotal(f) \in Int /\ NetTotal(g) \in Int
    <3>1. (\A i \in D : f[i] \in Int) /\ (\A i \in D : g[i] \in Int)
      BY <2>6 DEF Mixed
    <3> QED BY <2>3, <2>7, <3>1, SumInt
  <2> QED BY <2>8, <2>9, <2>10 DEF FEE, SLIPPAGE
<1>5. h = [i \in DOMAIN c.fills |->
              LET paid == _entry_fill_price(c.side, c.fills[i].mark)
                  got == _exit_fill_price(c.side, c.mark)
              IN  c.fills[i].quantity * (IF c.side = "LONG" THEN got - paid ELSE paid - got)]
  BY <1>3 DEF Explained
<1> HIDE DEF h
<1>6. PricesExplainProfit(c)
  BY <1>4, <1>5 DEF PricesExplainProfit
<1> QED BY <1>6 DEF c

\* The trades given to the metrics are sound.
LEMMA TradesSound ==
    ASSUME storedScans \in Seq(StoredScan), Rising(storedScans), held \in Sides
    PROVE  TradesAreSound(Replayed(storedScans))
<1> DEFINE u == Usable(storedScans, held)
           run == _simulate_events(held, u)
           c == Replayed(storedScans)
<1>1. u \in Seq(UsableScan) /\ Rising(u) /\ Replays(held, u, run)
  BY ReplayIs
<1>2. Reports(c, held, u, run)
  BY ReportIs DEF Replayed
<1> HIDE DEF u, run, c
<1>3. c.fills = run.fills
  BY <1>2 DEF Reports
<1>4. ASSUME NEW t \in Range(CoverageTrades(c)) PROVE t.start <= t.end /\ t.notional > 0 /\ t.levels # {}
  <2>1. c.fills # <<>> /\ t = _trade_from_coverage(c)
    BY DEF Range, CoverageTrades
  <2>2. /\ RunOK(held, u, run, Len(u)) /\ run.fills \in Seq(FillRow) /\ 1 \in DOMAIN run.fills
        /\ run.fills[1].at <= Valuation(run, u).at
    BY <1>1, <1>3, <2>1, Filled
  <2>3. c.end = Valuation(run, u).at
    BY <1>2, <1>3, <2>1 DEF Reports
  <2> DEFINE D == DOMAIN run.fills
             f == Notionals(run.fills)
  <2>4. /\ t.start = c.fills[1].at /\ t.end = c.end /\ t.notional = NetTotal(Notionals(c.fills))
        /\ t.levels = {c.fills[i].level : i \in DOMAIN c.fills}
    BY <2>1 DEF _trade_from_coverage, Notionals
  <2>5. t.start <= t.end
    BY <1>3, <2>2, <2>3, <2>4
  <2>6. t.levels # {}
    BY <1>3, <2>2, <2>4
  <2>7. t.notional > 0
    <3>1. IsFiniteSet(D)
      <4>1. Len(run.fills) \in Nat /\ DOMAIN run.fills = 1..Len(run.fills)
        BY <2>2, LenProperties
      <4>2. IsFiniteSet(1..Len(run.fills))
        BY <4>1, FS_Interval
      <4> QED BY <4>1, <4>2
    <3>2. \A i \in D : f[i] \in Nat \ {0}
      <4> TAKE i \in D
      <4>1. run.fills[i].level \in LadderLevel
        <5>1. \A j \in DOMAIN run.fills : run.fills[j] \in FillRow
          BY <2>2, LenProperties
        <5> QED BY <5>1 DEF FillRow
      <4>2. run.fills[i].notional = Share(run.fills[i].level)
        BY <2>2 DEF RunOK, RunFills, FilledAt
      <4>3. run.fills[i].notional \in Nat \ {0}
        BY <4>1, <4>2, SharesAre
      <4> QED BY <4>3 DEF Notionals
    <3>3. DOMAIN f = D
      BY DEF Notionals
    <3> HIDE DEF f
    <3>4. NetTotal(f) = SumFunctionOnSet(f, D)
      BY <3>3 DEF NetTotal, SumFunction
    <3> HIDE DEF D
    <3>5. 1 \in D
      BY <2>2 DEF D
    <3>6. \A i \in D : f[i] \in Nat
      BY <3>2
    <3>7. f[1] <= SumFunctionOnSet(f, D) /\ SumFunctionOnSet(f, D) \in Nat
      BY <3>1, <3>5, <3>6, SumAtLeast, SumNatural
    <3>8. NetTotal(f) > 0
      BY <3>2, <3>4, <3>5, <3>7
    <3> QED BY <1>3, <2>4, <3>8 DEF f
  <2> QED BY <2>5, <2>6, <2>7
<1>5. TradesAreSound(c)
  BY <1>4 DEF TradesAreSound
<1> QED BY <1>5 DEF c

\* A list begins as it was before a row was appended.
LEMMA BeginsAlike ==
    ASSUME NEW T, NEW s \in Seq(T)
    PROVE  /\ IsPrefix(s, s) /\ IsPrefix(<<>>, s)
           /\ \A x \in T : IsPrefix(s, Append(s, x))
<1>1. Len(s) \in Nat /\ \A i \in 1..Len(s) : s[i] \in T
  BY LenProperties
<1>2. IsPrefix(s, s)
  BY <1>1 DEF IsPrefix
<1>3. IsPrefix(<<>>, s)
  <2>1. Len(<<>>) = 0 /\ SubSeq(<<>>, 1, 0) = <<>> /\ SubSeq(s, 1, 0) = <<>>
    BY SubSeqEmpty
  <2> QED BY <1>1, <2>1 DEF IsPrefix
<1>4. ASSUME NEW x \in T PROVE IsPrefix(s, Append(s, x))
  <2> DEFINE t == Append(s, x)
             n == Len(s)
  <2>1. Len(t) = n + 1 /\ \A i \in 1..n : t[i] = s[i]
    BY AppendProperties
  <2>2. SubSeq(s, 1, n) = [i \in 1..n |-> s[i]] /\ SubSeq(t, 1, n) = [i \in 1..n |-> t[i]]
    <3>1. \A e : SubSeq(e, 1, n) = [i \in 1..n |-> e[i]]
      BY <1>1
    <3> QED BY <3>1
  <2> HIDE DEF t
  <2>3. SubSeq(s, 1, n) = SubSeq(t, 1, n)
    BY <2>1, <2>2
  <2>4. IsPrefix(s, t)
    BY <1>1, <2>1, <2>3 DEF IsPrefix
  <2> QED BY <2>4 DEF t
<1> QED BY <1>2, <1>3, <1>4

\* A step only adds to what a run has decided.
LEMMA StepAdds ==
    ASSUME NEW side, NEW acc \in RunState, NEW before \in UsableScan, NEW now \in UsableScan
    PROVE  LET r == SimulateStep(side, acc, before, now)
           IN  IsPrefix(acc.events, r.events) /\ IsPrefix(acc.fills, r.fills)
<1> DEFINE r == SimulateStep(side, acc, before, now)
<1>1. acc.events \in Seq(EventRow) /\ acc.fills \in Seq(FillRow)
  BY DEF RunState
<1>2. IsPrefix(acc.events, acc.events) /\ IsPrefix(acc.fills, acc.fills)
  BY <1>1, BeginsAlike
<1>3. ASSUME NEW kind \in {"HOLD", "ADD", "CLOSE"} PROVE IsPrefix(acc.events, Append(acc.events, Event(now, kind)))
  <2>1. Event(now, kind) \in EventRow
    BY DEF Event, EventRow, UsableScan
  <2> QED BY <1>1, <2>1, BeginsAlike
<1>4. ASSUME NEW level \in LadderLevel PROVE IsPrefix(acc.fills, Append(acc.fills, Fill(level, before, now)))
  <2>1. Fill(level, before, now) \in FillRow
    BY FillIs
  <2> QED BY <1>1, <2>1, BeginsAlike
<1>5. \/ Closed(r, acc) \/ Closes(r, side, acc, now) \/ Holds(r, acc, now)
      \/ \E level \in LadderLevel : Adds(r, side, acc, before, now, level)
  BY StepIs
<1> HIDE DEF r
<1>6. IsPrefix(acc.events, r.events) /\ IsPrefix(acc.fills, r.fills)
  <2>1. CASE Closed(r, acc)
    BY <1>2, <2>1 DEF Closed
  <2>2. CASE Closes(r, side, acc, now)
    BY <1>2, <1>3, <2>2 DEF Closes
  <2>3. CASE Holds(r, acc, now)
    BY <1>2, <1>3, <2>3 DEF Holds
  <2>4. CASE \E level \in LadderLevel : Adds(r, side, acc, before, now, level)
    BY <1>3, <1>4, <2>4 DEF Adds
  <2> QED BY <1>5, <2>1, <2>2, <2>3, <2>4
<1> QED BY <1>6 DEF r

\* A replay over one more scan begins as the replay without it.
LEMMA OneScanMore ==
    ASSUME NEW side, NEW u \in Seq(UsableScan), Rising(u), NEW x \in UsableScan, Rising(Append(u, x))
    PROVE  /\ IsPrefix(_simulate_events(side, u).events, _simulate_events(side, Append(u, x)).events)
           /\ IsPrefix(_simulate_events(side, u).fills, _simulate_events(side, Append(u, x)).fills)
<1> DEFINE t == Append(u, x)
           m == Len(u)
           n == m + 1
           run == _simulate_events(side, u)
           later == _simulate_events(side, t)
<1>1. /\ t \in Seq(UsableScan) /\ m \in Nat /\ Len(t) = n /\ (\A i \in 1..m : t[i] = u[i])
      /\ \A i \in 1..n : t[i] \in UsableScan
  <2>1. t \in Seq(UsableScan) /\ m \in Nat /\ Len(t) = n /\ \A i \in 1..m : t[i] = u[i]
    BY AppendIs
  <2>2. \A i \in 1..Len(t) : t[i] \in UsableScan
    <3> HIDE DEF t
    <3> QED BY <2>1, LenProperties
  <2> QED BY <2>1, <2>2
<1>2. Rising(t)
  OBVIOUS
<1> HIDE DEF t, m
<1>3. PICK g : RunUpTo(side, u, m, g) /\ run = IF m < MIN_USABLE_SCANS THEN NothingYet ELSE g[m]
  <2>1. Len(u) \in Nat
    BY <1>1 DEF m
  <2> QED BY <2>1, SimulatedRun DEF m
<1>4. PICK h : RunUpTo(side, t, n, h) /\ later = IF n < MIN_USABLE_SCANS THEN NothingYet ELSE h[n]
  <2>1. Len(t) \in Nat
    BY <1>1
  <2> QED BY <1>1, <2>1, SimulatedRun
<1> HIDE DEF run, later
<1>5. \A i \in 1..n : RunOK(side, t, h[i], i)
  BY <1>1, <1>2, <1>4, RunIsOK
<1>6. later \in RunState
  <2>1. CASE n < MIN_USABLE_SCANS
    BY <1>4, <2>1 DEF NothingYet, RunState
  <2>2. CASE ~(n < MIN_USABLE_SCANS)
    <3>1. n \in 1..n
      BY <1>1
    <3> QED BY <1>4, <1>5, <2>2, <3>1 DEF RunOK
  <2> QED BY <2>1, <2>2
<1>7. IsPrefix(run.events, later.events) /\ IsPrefix(run.fills, later.fills)
  <2>1. CASE m < MIN_USABLE_SCANS
    <3>1. run.events = <<>> /\ run.fills = <<>>
      BY <1>3, <2>1 DEF NothingYet
    <3>2. later.events \in Seq(EventRow) /\ later.fills \in Seq(FillRow)
      BY <1>6 DEF RunState
    <3> QED BY <3>1, <3>2, BeginsAlike
  <2>2. CASE ~(m < MIN_USABLE_SCANS)
    <3>1. m >= 2 /\ m \in 1..m /\ m \in 1..n /\ n \in 1..n /\ n # 1 /\ n - 1 = m /\ ~(n < MIN_USABLE_SCANS)
      BY <1>1, <2>2 DEF MIN_USABLE_SCANS
    <3>2. g[m] = h[m]
      <4>1. m <= n /\ n \in Nat
        BY <1>1
      <4> HIDE DEF n
      <4>2. \A i \in 1..m : g[i] = h[i]
        <5>1. \A i \in 1..m : u[i] = t[i]
          BY <1>1
        <5> QED BY <1>1, <1>3, <1>4, <4>1, <5>1, RunsAgree
      <4> QED BY <3>1, <4>2
    <3>3. h[n] = SimulateStep(side, h[m], t[m], t[n])
      <4> HIDE DEF n
      <4>1. h[n] = IF n = 1 THEN NothingYet ELSE SimulateStep(side, h[n - 1], t[n - 1], t[n])
        BY <1>4, <3>1 DEF RunUpTo
      <4> QED BY <3>1, <4>1
    <3>4. run = g[m] /\ later = h[n]
      BY <1>3, <1>4, <2>2, <3>1
    <3>5. h[m] \in RunState /\ t[m] \in UsableScan /\ t[n] \in UsableScan
      BY <1>1, <1>5, <3>1 DEF RunOK
    <3> HIDE DEF n
    <3> QED BY <3>2, <3>3, <3>4, <3>5, StepAdds
  <2> QED BY <2>1, <2>2
<1> QED BY <1>7 DEF run, later, t

\* A later scan takes nothing from what was decided.
LEMMA LaterScans ==
    ASSUME storedScans \in Seq(StoredScan), Rising(storedScans), held \in Sides
    PROVE  LaterScansAddOnly(Replayed(storedScans))
<1> SUFFICES ASSUME storedScans # <<>>
             PROVE  /\ IsPrefix(Replayed(Front(storedScans)).events, Replayed(storedScans).events)
                    /\ IsPrefix(Replayed(Front(storedScans)).fills, Replayed(storedScans).fills)
  BY DEF LaterScansAddOnly
<1> DEFINE s == storedScans
           n == Len(s)
           a == Front(s)
           x == s[n]
           u == Usable(a, held)
           t == Usable(s, held)
           run == _simulate_events(held, u)
           later == _simulate_events(held, t)
<1>1. n \in Nat \ {0} /\ DOMAIN s = 1..n /\ (\A i \in 1..n : s[i] \in StoredScan) /\ x \in StoredScan
  BY EmptySeq, LenProperties
<1>2. a \in Seq(StoredScan) /\ DOMAIN a = 1..n - 1 /\ (\A i \in 1..n - 1 : a[i] = s[i]) /\ Len(a) = n - 1
  <2>1. a = SubSeq(s, 1, n - 1)
    BY DEF Front
  <2>2. /\ a \in Seq(StoredScan) /\ Len(a) = (IF 1 <= n - 1 THEN n - 1 - 1 + 1 ELSE 0)
        /\ \A i \in 1..n - 1 - 1 + 1 : a[i] = s[1 + i - 1]
    <3> HIDE DEF s, n, a
    <3>1. \A i \in 1..n - 1 : s[i] \in StoredScan
      BY <1>1
    <3>2. 1 \in Int /\ n - 1 \in Int
      BY <1>1
    <3> QED BY <2>1, <3>1, <3>2, SubSeqProperties
  <2> HIDE DEF s, n, a
  <2>3. Len(a) = n - 1
    BY <1>1, <2>2
  <2>4. \A i \in 1..n - 1 : a[i] = s[i]
    <3> TAKE i \in 1..n - 1
    <3>1. i \in 1..n - 1 - 1 + 1 /\ 1 + i - 1 = i
      BY <1>1
    <3> QED BY <2>2, <3>1
  <2>5. DOMAIN a = 1..n - 1
    BY <2>2, <2>3, LenProperties
  <2> QED BY <2>2, <2>3, <2>4, <2>5
<1>3. s = Append(a, x)
  <2> DEFINE b == Append(a, x)
  <2>1. b \in Seq(StoredScan) /\ DOMAIN b = 1..n /\ (\A i \in 1..n - 1 : b[i] = a[i]) /\ b[n] = x
    <3> HIDE DEF s, n, a, x
    <3>1. /\ b \in Seq(StoredScan) /\ DOMAIN b = 1..Len(a) + 1
          /\ (\A i \in 1..Len(a) : b[i] = a[i]) /\ b[Len(a) + 1] = x
      BY <1>1, <1>2, AppendIs
    <3>2. Len(a) + 1 = n
      BY <1>1, <1>2
    <3> HIDE DEF b
    <3> QED BY <1>2, <3>1, <3>2
  <2>2. s \in Seq(StoredScan)
    OBVIOUS
  <2>3. b[n] = s[n]
    BY <2>1
  <2> HIDE DEF b, s, n, a, x
  <2>4. \A i \in 1..n : b[i] = s[i]
    <3> TAKE i \in 1..n
    <3>1. i = n \/ i \in 1..n - 1
      BY <1>1
    <3> QED BY <1>2, <2>1, <2>3, <3>1
  <2>5. b = [i \in 1..n |-> b[i]] /\ s = [i \in 1..n |-> s[i]]
    <3>1. b \in [1..Len(b) -> StoredScan] /\ s \in [1..Len(s) -> StoredScan]
      BY <2>1, <2>2, LenProperties
    <3> QED BY <1>1, <2>1, <3>1
  <2>6. b = s
    BY <2>4, <2>5
  <2> QED BY <2>6 DEF b
<1>4. Rising(s) /\ held \in Sides /\ s \in Seq(StoredScan)
  OBVIOUS
<1>5. Reports(Replayed(a), held, u, run) /\ Reports(Replayed(s), held, t, later)
  BY ReportIs DEF Replayed
<1> HIDE DEF n, a, x, s
<1>6. Rising(a)
  BY <1>1, <1>2, <1>4 DEF Rising
<1>7. u \in Seq(UsableScan) /\ Rising(u) /\ Replays(held, u, run)
  BY <1>2, <1>4, <1>6, ReplayIs
<1>8. t \in Seq(UsableScan) /\ Rising(t) /\ Replays(held, t, later)
  BY <1>4, ReplayIs
<1>9. t = u \/ t = Append(u, x)
  BY <1>1, <1>2, <1>3, UsableAppends
<1> HIDE DEF u, t
<1>10. IsPrefix(run.events, later.events) /\ IsPrefix(run.fills, later.fills)
  <2>1. CASE t = u
    <3>1. run = later
      BY <2>1
    <3>2. run \in RunState
      <4>1. CASE run = NothingYet
        BY <4>1 DEF NothingYet, RunState
      <4>2. CASE RunOK(held, u, run, Len(u))
        BY <4>2 DEF RunOK
      <4> HIDE DEF run
      <4> QED BY <1>7, <4>1, <4>2 DEF Replays
    <3> HIDE DEF run, later
    <3>3. run.events \in Seq(EventRow) /\ run.fills \in Seq(FillRow)
      BY <3>2 DEF RunState
    <3> QED BY <3>1, <3>3, BeginsAlike
  <2>2. CASE t = Append(u, x)
    <3>1. x \in UsableScan
      <4>1. Len(Append(u, x)) = Len(u) + 1 /\ Append(u, x)[Len(u) + 1] = x /\ Len(u) \in Nat
        BY <1>7, LenProperties
      <4>2. Len(u) + 1 \in 1..Len(t) /\ t[Len(u) + 1] = x
        BY <2>2, <4>1
      <4> QED BY <1>8, <4>2, LenProperties
    <3>2. Rising(Append(u, x))
      BY <1>8, <2>2
    <3> QED BY <1>7, <2>2, <3>1, <3>2, OneScanMore
  <2> QED BY <1>9, <2>1, <2>2
<1> HIDE DEF run, later
<1>11. /\ IsPrefix(Replayed(a).events, Replayed(s).events)
       /\ IsPrefix(Replayed(a).fills, Replayed(s).fills)
  BY <1>5, <1>10 DEF Reports
<1> QED BY <1>11 DEF a, s

-----------------------------------------------------------------------------
(***************************************************************************)
(* The validation route.                                                   *)
(***************************************************************************)
\* Completed payloads are kept under the end date they were computed for.
OwnPayloads ==
    /\ DOMAIN validations = Validator
    /\ \A key \in DOMAIN lastCompleted : lastCompleted[key] # NotCompleted => lastCompleted[key][2] = key

ScansStored == storedScans \in Seq(StoredScan) /\ Rising(storedScans)

ReplayIInv == ScansStored /\ held \in Sides /\ OwnPayloads /\ TimeoutShowsOwn

\* A scan is stored after the scans before it.
LEMMA ScanIsStored ==
    ASSUME ScansStored, NEW scan \in Scan, NEW gap \in ScanGap, StoreScan(scan, gap)
    PROVE  ScansStored'
<1> DEFINE s == storedScans
           x == [at |-> Newest + gap, direction |-> scan.direction, rsi |-> scan.rsi, mark |-> scan.mark]
<1>1. s \in Seq(StoredScan) /\ Rising(s) /\ storedScans' = Append(s, x)
  BY DEF ScansStored, StoreScan
<1>2. Len(s) \in Nat /\ DOMAIN s = 1..Len(s) /\ \A i \in 1..Len(s) : s[i] \in StoredScan
  BY <1>1, LenProperties
<1>3. Newest \in Nat /\ \A i \in DOMAIN s : s[i].at <= Newest
  <2>1. CASE s = <<>>
    BY <2>1 DEF Newest
  <2>2. CASE s # <<>>
    <3>1. Len(s) \in DOMAIN s
      BY <1>1, <1>2, <2>2, EmptySeq
    <3>2. Newest = s[Len(s)].at
      BY <2>2 DEF Newest, Last
    <3>3. \A i \in DOMAIN s : s[i].at \in Nat
      BY <1>2 DEF StoredScan
    <3> HIDE DEF s
    <3>4. \A i \in DOMAIN s : i = Len(s) \/ s[i].at < s[Len(s)].at
      <4>1. \A i \in DOMAIN s : i = Len(s) \/ i < Len(s)
        BY <1>2
      <4> QED BY <1>1, <3>1, <4>1 DEF Rising
    <3> QED BY <3>1, <3>2, <3>3, <3>4
  <2> QED BY <2>1, <2>2
<1>4. gap \in Nat \ {0}
  BY ReplayAssumption
<1>5. x \in StoredScan /\ x.at = Newest + gap
  <2>1. /\ scan.direction \in {"LONG", "SHORT", "none"} /\ scan.rsi \in Nat \cup {NoReading}
        /\ scan.mark \in Nat \cup {NoReading} /\ (scan.mark > 0 => Notional % (5 * scan.mark) = 0)
    BY ReplayAssumption
  <2>2. scan.mark \in Marks \cup {NoReading}
    BY <2>1 DEF Marks
  <2>3. Newest + gap \in Nat
    BY <1>3, <1>4
  <2> QED BY <2>1, <2>2, <2>3 DEF StoredScan
<1> HIDE DEF s, x
<1> DEFINE t == Append(s, x)
<1>6. t \in Seq(StoredScan) /\ DOMAIN t = 1..Len(s) + 1 /\ (\A i \in 1..Len(s) : t[i] = s[i]) /\ t[Len(s) + 1] = x
  BY <1>1, <1>5, AppendIs
<1> HIDE DEF t
<1>7. Rising(t)
  <2> SUFFICES ASSUME NEW i \in DOMAIN t, NEW j \in DOMAIN t, i < j PROVE t[i].at < t[j].at
    BY DEF Rising
  <2>1. i \in DOMAIN s /\ t[i] = s[i] /\ s[i].at \in Nat
    BY <1>2, <1>6 DEF StoredScan
  <2>2. CASE j = Len(s) + 1
    <3>1. s[i].at <= Newest /\ t[j].at = Newest + gap
      BY <1>3, <1>5, <1>6, <2>1, <2>2
    <3> QED BY <1>3, <1>4, <2>1, <3>1
  <2>3. CASE j # Len(s) + 1
    <3>1. j \in DOMAIN s /\ t[j] = s[j]
      BY <1>2, <1>6, <2>3
    <3> QED BY <1>1, <2>1, <3>1 DEF Rising
  <2> QED BY <2>2, <2>3
<1>8. storedScans' = t
  BY <1>1 DEF t
<1> QED BY <1>6, <1>7, <1>8 DEF ScansStored

\* The steps of the requests keep every payload with its own dates.
LEMMA RequestsKeepOwn ==
    ASSUME OwnPayloads, TimeoutShowsOwn, NEW v \in Validator,
           \/ \E end \in RequestEnd : get_dca_validation(v, end)
           \/ _load_positions(v) \/ _load_analyses(v) \/ Complete(v) \/ Timeout(v) \/ Answered(v)
    PROVE  /\ OwnPayloads' /\ TimeoutShowsOwn'
           /\ UNCHANGED <<storedScans, held>>
<1>1. ASSUME NEW row, validations' = [validations EXCEPT ![v] = row], UNCHANGED lastCompleted,
             row.at = "reconstructing" /\ row.payload # NotCompleted => row.payload[2] = row.end
      PROVE  OwnPayloads' /\ TimeoutShowsOwn'
  <2>1. OwnPayloads'
    BY <1>1 DEF OwnPayloads
  <2>2. ASSUME NEW w \in Validator, validations'[w].at = "reconstructing", validations'[w].payload # NotCompleted
        PROVE  validations'[w].payload[2] = validations'[w].end
    <3>1. CASE w = v
      <4>1. validations'[w] = row
        BY <1>1, <3>1 DEF OwnPayloads
      <4> QED BY <1>1, <2>2, <4>1
    <3>2. CASE w # v
      <4>1. validations'[w] = validations[w]
        BY <1>1, <3>2 DEF OwnPayloads
      <4> QED BY <2>2, <4>1 DEF TimeoutShowsOwn
    <3> QED BY <3>1, <3>2
  <2> QED BY <2>1, <2>2 DEF TimeoutShowsOwn
<1>2. ASSUME NEW end \in RequestEnd, get_dca_validation(v, end)
      PROVE  OwnPayloads' /\ TimeoutShowsOwn' /\ UNCHANGED <<storedScans, held>>
  <2> DEFINE row == [at |-> "positions", end |-> end]
  <2>1. validations' = [validations EXCEPT ![v] = row] /\ UNCHANGED <<storedScans, held, lastCompleted>>
    BY <1>2 DEF get_dca_validation
  <2>2. row.at # "reconstructing"
    OBVIOUS
  <2> QED BY <1>1, <2>1, <2>2
<1>3. CASE _load_positions(v)
  <2> DEFINE row == [at |-> "analyses", end |-> validations[v].end, side |-> held]
  <2>1. validations' = [validations EXCEPT ![v] = row] /\ UNCHANGED <<storedScans, held, lastCompleted>>
    BY <1>3 DEF _load_positions, OwnPayloads
  <2>2. row.at # "reconstructing"
    OBVIOUS
  <2> QED BY <1>1, <2>1, <2>2
<1>4. CASE _load_analyses(v)
  <2> DEFINE row == [at |-> "computed", end |-> validations[v].end,
                     payload |-> Payload(validations[v].side, Until(storedScans, validations[v].end))]
  <2>1. validations' = [validations EXCEPT ![v] = row] /\ UNCHANGED <<storedScans, held, lastCompleted>>
    BY <1>4 DEF _load_analyses
  <2>2. row.at # "reconstructing"
    OBVIOUS
  <2> QED BY <1>1, <2>1, <2>2
<1>5. CASE Complete(v)
  <2> DEFINE run == validations[v]
             key == run.end
  <2>1. /\ lastCompleted' = [k \in (DOMAIN lastCompleted) \cup {key} |->
                                IF k = key THEN <<run.payload, key>> ELSE lastCompleted[k]]
        /\ validations' = [validations EXCEPT ![v] = NoValidation] /\ UNCHANGED <<storedScans, held>>
    BY <1>5 DEF Complete, _cache_key
  <2>2. OwnPayloads'
    <3>1. DOMAIN validations' = Validator
      BY <2>1 DEF OwnPayloads
    <3>2. ASSUME NEW k \in DOMAIN lastCompleted', lastCompleted'[k] # NotCompleted PROVE lastCompleted'[k][2] = k
      <4> HIDE DEF run, key
      <4>1. k = key \/ (k # key /\ k \in DOMAIN lastCompleted)
        BY <2>1
      <4>2. CASE k = key
        BY <2>1, <4>2
      <4>3. CASE k # key /\ k \in DOMAIN lastCompleted
        <5>1. lastCompleted'[k] = lastCompleted[k]
          BY <2>1, <4>3
        <5> QED BY <3>2, <4>3, <5>1 DEF OwnPayloads
      <4> QED BY <4>1, <4>2, <4>3
    <3> QED BY <3>1, <3>2 DEF OwnPayloads
  <2>3. TimeoutShowsOwn'
    <3>1. ASSUME NEW w \in Validator, validations'[w].at = "reconstructing", validations'[w].payload # NotCompleted
          PROVE  validations'[w].payload[2] = validations'[w].end
      <4>1. w # v
        <5>1. validations'[v].at = "idle"
          BY <2>1 DEF OwnPayloads, NoValidation
        <5> QED BY <3>1, <5>1
      <4>2. validations'[w] = validations[w]
        BY <2>1, <4>1 DEF OwnPayloads
      <4> QED BY <3>1, <4>2 DEF TimeoutShowsOwn
    <3> QED BY <3>1 DEF TimeoutShowsOwn
  <2> QED BY <2>1, <2>2, <2>3
<1>6. CASE Timeout(v)
  <2> DEFINE key == validations[v].end
             shown == IF key \in DOMAIN lastCompleted THEN lastCompleted[key] ELSE NotCompleted
             row == [at |-> "reconstructing", end |-> key, payload |-> shown]
  <2>1. validations' = [validations EXCEPT ![v] = row] /\ UNCHANGED <<storedScans, held, lastCompleted>>
    BY <1>6 DEF Timeout, _cache_key
  <2>2. row.payload # NotCompleted => row.payload[2] = row.end
    <3>1. shown # NotCompleted => shown[2] = key
      BY DEF OwnPayloads
    <3> HIDE DEF shown, key
    <3> QED BY <3>1
  <2> HIDE DEF row
  <2> QED BY <1>1, <2>1, <2>2
<1>7. CASE Answered(v)
  <2>1. validations' = [validations EXCEPT ![v] = NoValidation] /\ UNCHANGED <<storedScans, held, lastCompleted>>
    BY <1>7 DEF Answered
  <2>2. NoValidation.at # "reconstructing"
    BY DEF NoValidation
  <2> QED BY <1>1, <2>1, <2>2
<1> QED BY <1>2, <1>3, <1>4, <1>5, <1>6, <1>7

\* The invariant holds at the start.
LEMMA ReplayStarts == ReplayInit => ReplayIInv
<1> SUFFICES ASSUME ReplayInit PROVE ReplayIInv
  OBVIOUS
<1>1. ScansStored
  BY DEF ReplayInit, ScansStored, Rising
<1>2. held \in Sides
  BY ReplayAssumption DEF ReplayInit, Sides
<1>3. OwnPayloads
  BY DEF ReplayInit, OwnPayloads
<1>4. TimeoutShowsOwn
  BY DEF ReplayInit, TimeoutShowsOwn, NoValidation
<1> QED BY <1>1, <1>2, <1>3, <1>4 DEF ReplayIInv

\* Every step keeps the invariant.
LEMMA ReplayMoves == ReplayIInv /\ [ReplayNext]_replayVars => ReplayIInv'
<1> SUFFICES ASSUME ReplayIInv, [ReplayNext]_replayVars PROVE ReplayIInv'
  OBVIOUS
<1> USE DEF ReplayIInv
<1>1. ASSUME NEW scan \in Scan, NEW gap \in ScanGap, StoreScan(scan, gap) PROVE ReplayIInv'
  <2>1. ScansStored'
    BY <1>1, ScanIsStored
  <2>2. UNCHANGED <<held, validations, lastCompleted>>
    BY <1>1 DEF StoreScan
  <2> QED BY <2>1, <2>2 DEF OwnPayloads, TimeoutShowsOwn
<1>2. ASSUME NEW side \in HeldSide, HoldOther(side) PROVE ReplayIInv'
  <2>1. held' \in Sides /\ UNCHANGED <<storedScans, validations, lastCompleted>>
    BY <1>2, ReplayAssumption DEF HoldOther, Sides
  <2> QED BY <2>1 DEF ScansStored, OwnPayloads, TimeoutShowsOwn
<1>3. ASSUME NEW v \in Validator,
             \/ \E end \in RequestEnd : get_dca_validation(v, end)
             \/ _load_positions(v) \/ _load_analyses(v) \/ Complete(v) \/ Timeout(v) \/ Answered(v)
      PROVE  ReplayIInv'
  <2>1. OwnPayloads' /\ TimeoutShowsOwn' /\ UNCHANGED <<storedScans, held>>
    BY <1>3, RequestsKeepOwn
  <2> QED BY <2>1 DEF ScansStored
<1>4. CASE UNCHANGED replayVars
  BY <1>4 DEF replayVars, ScansStored, OwnPayloads, TimeoutShowsOwn
<1> QED BY <1>1, <1>2, <1>3, <1>4 DEF ReplayNext

\* What the replay reports, in every state.
ReplayReports ==
    LET c == Replayed(storedScans)
    IN  /\ FillsAreBounded(c) /\ CloseIsLast(c)
        /\ PricesExplainProfit(c) /\ TradesAreSound(c)
        /\ LaterScansAddOnly(c)

\* The DCA validation is right (ReplayInv of DcaReplay): it fills no level twice and no more than the
\* margin, closes last, its prices explain its profit, no later scan rewrites what an earlier replay
\* decided, a request out of time is shown its own dates, and the metrics are right.
THEOREM ReplayHolds == ReplaySpec /\ MetricsSpec => []ReplayInv
<1>1. ReplayIInv => ReplayReports /\ TimeoutShowsOwn
  <2> SUFFICES ASSUME ReplayIInv PROVE ReplayReports /\ TimeoutShowsOwn
    OBVIOUS
  <2>1. storedScans \in Seq(StoredScan) /\ Rising(storedScans) /\ held \in Sides /\ TimeoutShowsOwn
    BY DEF ReplayIInv, ScansStored
  <2>2. /\ FillsAreBounded(Replayed(storedScans)) /\ CloseIsLast(Replayed(storedScans))
        /\ PricesExplainProfit(Replayed(storedScans)) /\ TradesAreSound(Replayed(storedScans))
        /\ LaterScansAddOnly(Replayed(storedScans))
    BY <2>1, FillsBounded, ClosesLast, PricesExplain, TradesSound, LaterScans
  <2> QED BY <2>1, <2>2 DEF ReplayReports
<1>2. ReplayReports /\ TimeoutShowsOwn /\ MetricsInv => ReplayInv
  BY DEF ReplayReports, ReplayInv
<1>3. ReplaySpec => []ReplayIInv
  BY ReplayStarts, ReplayMoves, PTL DEF ReplaySpec
<1> QED BY <1>1, <1>2, <1>3, MetricsHolds, PTL

=============================================================================
