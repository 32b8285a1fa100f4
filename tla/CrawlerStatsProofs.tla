---- MODULE CrawlerStatsProofs ----
(***************************************************************************)
(* What holds of the crawler's statistics for any processes, hours, limits *)
(* and numbers of events: the types, that nothing is dropped before it is  *)
(* stored, that what is said to be covered is, that an hour is the sum of  *)
(* its minutes, and that a report counts every event once.                 *)
(***************************************************************************)
EXTENDS CrawlerStats, FiniteSetTheorems, TLAPS

-----------------------------------------------------------------------------
(* Least and greatest elements, and minimal sets. *)

LEMMA Greatest ==
    ASSUME NEW S, IsFiniteSet(S), S # {}, NEW f \in [S -> Nat]
    PROVE  \E x \in S : \A y \in S : f[y] <= f[x]
<1> DEFINE Has(U) == \E x \in U : \A y \in U : f[y] <= f[x]
           T == {U \in SUBSET S : U # {} /\ ~Has(U)}
<1>1. IsWellFoundedOn(StrictSubsetOrdering(S), SUBSET S)
  BY FS_StrictSubsetOrderingWellFounded, FS_FiniteSubsetsOfFinite
<1>2. ASSUME T # {}
      PROVE  FALSE
  <2>1. \E U \in T : \A V \in T : <<V, U>> \notin StrictSubsetOrdering(S)
    <3> HIDE DEF Has
    <3>1. T \subseteq SUBSET S
      OBVIOUS
    <3> HIDE DEF T
    <3> QED
      BY <1>1, <1>2, <3>1, WFMin
  <2>2. PICK U \in T : \A V \in T : <<V, U>> \notin StrictSubsetOrdering(S)
    BY <2>1
  <2>3. PICK x \in U : TRUE
    OBVIOUS
  <2>4. U \ {x} \notin T
    BY <2>2, <2>3 DEF StrictSubsetOrdering
  <2>5. CASE U \ {x} = {}
    <3>1. \A y \in U : y = x
      BY <2>5
    <3> QED
      BY <2>3, <3>1
  <2>6. CASE Has(U \ {x})
    <3>1. PICK z \in U \ {x} : \A y \in U \ {x} : f[y] <= f[z]
      BY <2>6
    <3>2. f[x] \in Nat /\ f[z] \in Nat /\ \A y \in U : f[y] \in Nat
      BY <2>3
    <3>3. \A y \in U : y = x \/ f[y] <= f[z]
      BY <3>1
    <3> QED
      BY <2>3, <3>1, <3>2, <3>3
  <2> QED
    BY <2>4, <2>5, <2>6
<1> QED
  BY <1>2

LEMMA LeastNumber ==
    ASSUME NEW S \in SUBSET Nat, S # {}
    PROVE  \E i \in S : \A j \in S : i <= j
<1>1. PICK n \in S : TRUE
  OBVIOUS
<1> DEFINE U == {i \in S : i <= n}
           f == [i \in U |-> n - i]
<1>2. IsFiniteSet(U)
  <2>1. n \in Nat /\ U \in SUBSET Nat /\ \A i \in U : i <= n
    BY <1>1
  <2> HIDE DEF U
  <2> QED
    BY <2>1, FS_BoundedSetOfNaturals
<1>3. U # {} /\ f \in [U -> Nat]
  <2>1. n \in U
    BY <1>1
  <2>2. \A i \in U : n - i \in Nat
    BY <1>1
  <2> HIDE DEF U
  <2> QED
    BY <2>1, <2>2
<1>4. PICK i \in U : \A j \in U : f[j] <= f[i]
  <2> HIDE DEF U, f
  <2> QED
    BY <1>2, <1>3, Greatest
<1>5. \A j \in U : i <= j
  BY <1>4
<1> QED
  BY <1>1, <1>5

LEMMA MinimalSubset ==
    ASSUME NEW S, IsFiniteSet(S), NEW Z \in SUBSET SUBSET S, Z # {}
    PROVE  \E U \in Z : \A x \in U : U \ {x} \notin Z
<1>1. IsWellFoundedOn(StrictSubsetOrdering(S), SUBSET S)
  BY FS_StrictSubsetOrderingWellFounded, FS_FiniteSubsetsOfFinite
<1>2. \E U \in Z : \A V \in Z : <<V, U>> \notin StrictSubsetOrdering(S)
  BY <1>1, WFMin
<1>3. PICK U \in Z : \A V \in Z : <<V, U>> \notin StrictSubsetOrdering(S)
  BY <1>2
<1>4. ASSUME NEW x \in U, U \ {x} \in Z
      PROVE  FALSE
  <2>1. <<U \ {x}, U>> \in StrictSubsetOrdering(S)
    BY DEF StrictSubsetOrdering
  <2> QED
    BY <1>3, <1>4, <2>1
<1> QED
  BY <1>4

-----------------------------------------------------------------------------
(* Sums. MapThenSumSet goes through the subsets of a set by a recursive function: it exists for a finite set, and    *)
(* what it gives for a subset depends neither on the set nor on the order of its elements.                           *)

Pick(T) == CHOOSE x \in T : TRUE

\* The sum of the values of w over S.
SumOver(w, S) == MapThenSumSet(LAMBDA x : w[x], S)

Folded(w, f, T) == IF T = {} THEN 0 ELSE w[Pick(T)] + f[T \ {Pick(T)}]

Adds(w, S, f) == f = [T \in SUBSET S |-> Folded(w, f, T)]

LEMMA PickIn == \A T : T # {} => Pick(T) \in T
BY DEF Pick

LEMMA SumDef ==
    ASSUME NEW w, NEW S
    PROVE  SumOver(w, S) = (CHOOSE f : Adds(w, S, f))[S]
BY DEF SumOver, Adds, Folded, Pick, MapThenSumSet, MapThenFoldSet

LEMMA AddsExists ==
    ASSUME NEW w, NEW S, IsFiniteSet(S)
    PROVE  \E f : Adds(w, S, f)
<1> DEFINE UpTo(n, f) == \A T \in SUBSET S : Cardinality(T) <= n => f[T] = Folded(w, f, T)
           Has(n) == \E f : UpTo(n, f)
           Bad == {n \in Nat : ~Has(n)}
<1>1. \A T \in SUBSET S : IsFiniteSet(T) /\ Cardinality(T) \in Nat /\ Cardinality(T) <= Cardinality(S)
  BY FS_Subset, FS_CardinalityType
<1>2. ASSUME Bad # {}
      PROVE  FALSE
  <2>1. PICK n \in Bad : \A m \in Bad : n <= m
    <3>1. Bad \in SUBSET Nat
      OBVIOUS
    <3> HIDE DEF Bad
    <3> QED
      BY <1>2, <3>1, LeastNumber
  <2>2. CASE n = 0
    <3> DEFINE f == [T \in SUBSET S |-> 0]
    <3>1. ASSUME NEW T \in SUBSET S, Cardinality(T) <= 0
          PROVE  f[T] = Folded(w, f, T)
      <4>1. T = {}
        BY <1>1, <3>1, FS_EmptySet
      <4> QED
        BY <4>1 DEF Folded
    <3>2. UpTo(0, f)
      BY <3>1
    <3> HIDE DEF f
    <3> QED
      BY <2>2, <3>2
  <2>3. CASE n # 0
    <3>1. n - 1 \in Nat /\ n - 1 \notin Bad
      BY <2>1, <2>3
    <3>2. PICK g : UpTo(n - 1, g)
      BY <3>1
    <3> DEFINE f == [T \in SUBSET S |-> Folded(w, g, T)]
    <3>3. ASSUME NEW T \in SUBSET S, Cardinality(T) <= n
          PROVE  f[T] = Folded(w, f, T)
      <4>1. CASE T = {}
        BY <4>1 DEF Folded
      <4>2. CASE T # {}
        <5>1. PICK U \in SUBSET S : U = T \ {Pick(T)}
          OBVIOUS
        <5>2. Cardinality(U) = Cardinality(T) - 1
          BY <1>1, <4>2, <5>1, PickIn, FS_RemoveElement
        <5>3. Cardinality(U) <= n - 1
          BY <1>1, <2>1, <3>3, <5>2
        <5>4. g[U] = f[U]
          BY <3>2, <5>3
        <5> HIDE DEF f
        <5>5. f[T] = Folded(w, g, T)
          BY DEF f
        <5> QED
          BY <4>2, <5>1, <5>4, <5>5 DEF Folded
      <4> QED
        BY <4>1, <4>2
    <3>4. UpTo(n, f)
      BY <3>3
    <3> HIDE DEF f
    <3> QED
      BY <2>1, <3>4
  <2> QED
    BY <2>2, <2>3
<1>3. Cardinality(S) \in Nat
  BY FS_CardinalityType
<1>4. PICK f : UpTo(Cardinality(S), f)
  BY <1>2, <1>3
<1> DEFINE h == [T \in SUBSET S |-> f[T]]
<1>5. \A T \in SUBSET S : f[T] = Folded(w, f, T)
  BY <1>1, <1>4
<1>6. \A T \in SUBSET S : h[T] = Folded(w, h, T)
  BY <1>5 DEF Folded
<1>7. h = [T \in SUBSET S |-> Folded(w, h, T)]
  BY <1>6
<1> QED
  BY <1>7 DEF Adds

LEMMA AddsUnique ==
    ASSUME NEW w, NEW S, NEW R, NEW f, NEW g, Adds(w, S, f), Adds(w, R, g), NEW T, IsFiniteSet(T), T \subseteq S, T \subseteq R
    PROVE  f[T] = g[T]
<1> DEFINE Z == {U \in SUBSET T : f[U] # g[U]}
<1>1. ASSUME Z # {}
      PROVE  FALSE
  <2>1. PICK U \in Z : \A x \in U : U \ {x} \notin Z
    <3>1. Z \in SUBSET SUBSET T
      OBVIOUS
    <3> HIDE DEF Z
    <3> QED
      BY <1>1, <3>1, MinimalSubset
  <2>2. f[U] = Folded(w, f, U) /\ g[U] = Folded(w, g, U)
    <3>1. U \in SUBSET S /\ U \in SUBSET R
      OBVIOUS
    <3> QED
      BY <3>1 DEF Adds
  <2>3. U # {} => f[U \ {Pick(U)}] = g[U \ {Pick(U)}]
    BY <2>1, PickIn
  <2> QED
    BY <2>1, <2>2, <2>3 DEF Folded
<1> QED
  BY <1>1

LEMMA SumAdds ==
    ASSUME NEW w, NEW S, IsFiniteSet(S)
    PROVE  \E f : Adds(w, S, f) /\ \A T \in SUBSET S : f[T] = SumOver(w, T)
<1> DEFINE fold(T) == CHOOSE f : Adds(w, T, f)
<1>1. \A T \in SUBSET S : IsFiniteSet(T) /\ Adds(w, T, fold(T)) /\ SumOver(w, T) = fold(T)[T]
  <2> SUFFICES ASSUME NEW T \in SUBSET S
               PROVE  IsFiniteSet(T) /\ Adds(w, T, fold(T)) /\ SumOver(w, T) = fold(T)[T]
    OBVIOUS
  <2>1. IsFiniteSet(T)
    BY FS_Subset
  <2>2. \E f : Adds(w, T, f)
    BY <2>1, AddsExists
  <2>3. SumOver(w, T) = fold(T)[T]
    BY SumDef
  <2> QED
    BY <2>1, <2>2, <2>3
<1>2. PICK f : f = fold(S) /\ Adds(w, S, f)
  BY <1>1
<1> HIDE DEF fold
<1>3. \A T \in SUBSET S : f[T] = fold(T)[T]
  BY <1>1, <1>2, AddsUnique
<1> QED
  BY <1>1, <1>2, <1>3

LEMMA SumEmpty == \A w : SumOver(w, {}) = 0
<1> SUFFICES ASSUME NEW w PROVE SumOver(w, {}) = 0
  OBVIOUS
<1>1. IsFiniteSet({})
  BY FS_EmptySet
<1>2. PICK f : Adds(w, {}, f) /\ f[{}] = SumOver(w, {})
  BY <1>1, SumAdds
<1>3. {} \in SUBSET {}
  OBVIOUS
<1> QED
  BY <1>2, <1>3 DEF Adds, Folded

LEMMA SumStep ==
    ASSUME NEW w, NEW T, IsFiniteSet(T), T # {}
    PROVE  SumOver(w, T) = w[Pick(T)] + SumOver(w, T \ {Pick(T)})
<1>1. PICK f : Adds(w, T, f) /\ \A U \in SUBSET T : f[U] = SumOver(w, U)
  BY SumAdds
<1>2. f[T] = Folded(w, f, T)
  BY <1>1 DEF Adds
<1>3. f[T] = SumOver(w, T) /\ f[T \ {Pick(T)}] = SumOver(w, T \ {Pick(T)})
  BY <1>1
<1> QED
  BY <1>2, <1>3 DEF Folded

LEMMA SumType ==
    ASSUME NEW S, IsFiniteSet(S), NEW w \in [S -> Nat], NEW T \in SUBSET S
    PROVE  SumOver(w, T) \in Nat
<1> DEFINE Z == {U \in SUBSET S : SumOver(w, U) \notin Nat}
<1>1. ASSUME Z # {}
      PROVE  FALSE
  <2>1. PICK U \in Z : \A x \in U : U \ {x} \notin Z
    <3>1. Z \in SUBSET SUBSET S
      OBVIOUS
    <3> HIDE DEF Z
    <3> QED
      BY <1>1, <3>1, MinimalSubset
  <2>2. U # {}
    BY <2>1, SumEmpty
  <2>3. PICK p \in U : p = Pick(U)
    BY <2>2, PickIn
  <2>4. SumOver(w, U \ {p}) \in Nat /\ w[p] \in Nat
    BY <2>1, <2>3
  <2>5. SumOver(w, U) = w[p] + SumOver(w, U \ {p})
    <3>1. IsFiniteSet(U)
      BY FS_Subset
    <3> QED
      BY <2>2, <2>3, <3>1, SumStep
  <2> QED
    BY <2>4, <2>5
<1> QED
  BY <1>1

\* Any element may be taken first.
LEMMA SumRemove ==
    ASSUME NEW S, IsFiniteSet(S), NEW w \in [S -> Nat], NEW T \in SUBSET S, NEW x \in T
    PROVE  SumOver(w, T) = w[x] + SumOver(w, T \ {x})
<1> DEFINE Z == {U \in SUBSET S : \E y \in U : SumOver(w, U) # w[y] + SumOver(w, U \ {y})}
<1>1. ASSUME Z # {}
      PROVE  FALSE
  <2>1. PICK U \in Z : \A y \in U : U \ {y} \notin Z
    <3>1. Z \in SUBSET SUBSET S
      OBVIOUS
    <3> HIDE DEF Z
    <3> QED
      BY <1>1, <3>1, MinimalSubset
  <2>2. PICK y \in U : SumOver(w, U) # w[y] + SumOver(w, U \ {y})
    BY <2>1
  <2>3. PICK p \in U : p = Pick(U)
    BY <2>2, PickIn
  <2>4. SumOver(w, U) = w[p] + SumOver(w, U \ {p})
    <3>1. IsFiniteSet(U) /\ U # {}
      BY FS_Subset
    <3> QED
      BY <2>3, <3>1, SumStep
  <2>5. y # p
    BY <2>2, <2>4
  <2>6. SumOver(w, U \ {p}) = w[y] + SumOver(w, (U \ {p}) \ {y})
    BY <2>1, <2>5
  <2>7. SumOver(w, U \ {y}) = w[p] + SumOver(w, (U \ {y}) \ {p})
    BY <2>1, <2>5
  <2>8. (U \ {p}) \ {y} = (U \ {y}) \ {p}
    OBVIOUS
  <2>9. SumOver(w, (U \ {p}) \ {y}) \in Nat /\ w[p] \in Nat /\ w[y] \in Nat
    BY SumType
  <2> QED
    BY <2>2, <2>4, <2>6, <2>7, <2>8, <2>9
<1> QED
  BY <1>1

LEMMA SumUnion ==
    ASSUME NEW S, IsFiniteSet(S), NEW w \in [S -> Nat], NEW A \in SUBSET S, NEW B \in SUBSET S, A \cap B = {}
    PROVE  SumOver(w, A \cup B) = SumOver(w, A) + SumOver(w, B)
<1> DEFINE Z == {U \in SUBSET A : SumOver(w, U \cup B) # SumOver(w, U) + SumOver(w, B)}
<1>1. ASSUME Z # {}
      PROVE  FALSE
  <2>1. PICK U \in Z : \A y \in U : U \ {y} \notin Z
    <3>1. Z \in SUBSET SUBSET A /\ IsFiniteSet(A)
      BY FS_Subset
    <3> HIDE DEF Z
    <3> QED
      BY <1>1, <3>1, MinimalSubset
  <2>2. SumOver(w, B) \in Nat
    BY SumType
  <2>3. CASE U = {}
    BY <2>1, <2>2, <2>3, SumEmpty
  <2>4. CASE U # {}
    <3>1. PICK x \in U : TRUE
      BY <2>4
    <3>2. SumOver(w, (U \ {x}) \cup B) = SumOver(w, U \ {x}) + SumOver(w, B)
      BY <2>1, <3>1
    <3>3. SumOver(w, U) = w[x] + SumOver(w, U \ {x}) /\ SumOver(w, U \ {x}) \in Nat /\ w[x] \in Nat
      <4>1. U \in SUBSET S /\ U \ {x} \in SUBSET S /\ x \in S
        OBVIOUS
      <4> QED
        BY <4>1, SumRemove, SumType
    <3>4. SumOver(w, U \cup B) = w[x] + SumOver(w, (U \ {x}) \cup B)
      <4>1. U \cup B \in SUBSET S /\ x \in U \cup B /\ (U \cup B) \ {x} = (U \ {x}) \cup B
        OBVIOUS
      <4> QED
        BY <4>1, SumRemove
    <3> QED
      BY <2>1, <2>2, <3>2, <3>3, <3>4
  <2> QED
    BY <2>3, <2>4
<1> QED
  BY <1>1

LEMMA SumSubset ==
    ASSUME NEW S, IsFiniteSet(S), NEW w \in [S -> Nat], NEW A \in SUBSET S, NEW B \in SUBSET A
    PROVE  SumOver(w, B) <= SumOver(w, A)
<1>1. A = B \cup (A \ B) /\ B \cap (A \ B) = {} /\ B \in SUBSET S /\ A \ B \in SUBSET S
  OBVIOUS
<1>2. SumOver(w, A) = SumOver(w, B) + SumOver(w, A \ B)
  BY <1>1, SumUnion
<1>3. SumOver(w, A \ B) \in Nat /\ SumOver(w, B) \in Nat
  BY <1>1, SumType
<1> QED
  BY <1>2, <1>3

LEMMA SumAtMost ==
    ASSUME NEW S, IsFiniteSet(S), NEW R, IsFiniteSet(R), NEW v \in [S -> Nat], NEW w \in [R -> Nat],
           NEW T \in SUBSET S, T \subseteq R, \A x \in T : v[x] <= w[x]
    PROVE  SumOver(v, T) <= SumOver(w, T)
<1> DEFINE Z == {U \in SUBSET T : ~(SumOver(v, U) <= SumOver(w, U))}
<1>1. ASSUME Z # {}
      PROVE  FALSE
  <2>1. PICK U \in Z : \A y \in U : U \ {y} \notin Z
    <3>1. Z \in SUBSET SUBSET T /\ IsFiniteSet(T)
      BY FS_Subset
    <3> HIDE DEF Z
    <3> QED
      BY <1>1, <3>1, MinimalSubset
  <2>2. U # {}
    BY <2>1, SumEmpty
  <2>3. PICK x \in U : x \in T
    BY <2>2
  <2>4. SumOver(v, U \ {x}) <= SumOver(w, U \ {x})
    BY <2>1, <2>3
  <2>5. /\ SumOver(v, U) = v[x] + SumOver(v, U \ {x}) /\ SumOver(v, U \ {x}) \in Nat /\ v[x] \in Nat
        /\ SumOver(w, U) = w[x] + SumOver(w, U \ {x}) /\ SumOver(w, U \ {x}) \in Nat /\ w[x] \in Nat
    <3>1. U \in SUBSET S /\ U \ {x} \in SUBSET S /\ x \in S /\ U \in SUBSET R /\ U \ {x} \in SUBSET R /\ x \in R
      OBVIOUS
    <3> QED
      BY <3>1, SumRemove, SumType
  <2> QED
    BY <2>1, <2>3, <2>4, <2>5
<1> QED
  BY <1>1

LEMMA SumSame ==
    ASSUME NEW S, IsFiniteSet(S), NEW R, IsFiniteSet(R), NEW v \in [S -> Nat], NEW w \in [R -> Nat],
           NEW T \in SUBSET S, T \subseteq R, \A x \in T : v[x] = w[x]
    PROVE  SumOver(v, T) = SumOver(w, T)
<1>1. \A x \in T : v[x] <= w[x] /\ w[x] <= v[x]
  OBVIOUS
<1>2. SumOver(v, T) <= SumOver(w, T) /\ SumOver(w, T) <= SumOver(v, T)
  BY <1>1, SumAtMost
<1>3. SumOver(v, T) \in Nat /\ SumOver(w, T) \in Nat
  BY SumType
<1> QED
  BY <1>2, <1>3

\* The sum over the images of the elements of a set.
LEMMA SumImage ==
    ASSUME NEW S, IsFiniteSet(S), NEW w \in [S -> Nat], NEW R, IsFiniteSet(R), NEW v \in [R -> Nat],
           NEW e \in [S -> R], \A x, y \in S : e[x] = e[y] => x = y, \A x \in S : v[e[x]] = w[x],
           NEW T \in SUBSET S
    PROVE  SumOver(v, {e[x] : x \in T}) = SumOver(w, T)
<1> DEFINE image(U) == {e[x] : x \in U}
           Z == {U \in SUBSET T : SumOver(v, image(U)) # SumOver(w, U)}
<1>1. ASSUME Z # {}
      PROVE  FALSE
  <2>1. PICK U \in Z : \A y \in U : U \ {y} \notin Z
    <3>1. Z \in SUBSET SUBSET T /\ IsFiniteSet(T)
      BY FS_Subset
    <3> HIDE DEF Z
    <3> QED
      BY <1>1, <3>1, MinimalSubset
  <2>2. U # {}
    BY <2>1, SumEmpty
  <2>3. PICK x \in U : x \in S
    BY <2>2
  <2>4. SumOver(v, image(U \ {x})) = SumOver(w, U \ {x})
    BY <2>1, <2>3
  <2>5. image(U \ {x}) = image(U) \ {e[x]} /\ image(U) \in SUBSET R /\ e[x] \in image(U)
    BY <2>3
  <2>6. SumOver(v, image(U)) = v[e[x]] + SumOver(v, image(U \ {x}))
    BY <2>5, SumRemove
  <2>7. SumOver(w, U) = w[x] + SumOver(w, U \ {x})
    BY <2>3, SumRemove
  <2> QED
    BY <2>1, <2>3, <2>4, <2>6, <2>7
<1> QED
  BY <1>1

\* The sum over a set that is divided into parts is the sum over the parts.
LEMMA SumParts ==
    ASSUME NEW S, IsFiniteSet(S), NEW w \in [S -> Nat], NEW C, IsFiniteSet(C), NEW part \in [C -> SUBSET S],
           \A c, d \in C : c # d => part[c] \cap part[d] = {},
           NEW v \in [C -> Nat], \A c \in C : v[c] = SumOver(w, part[c]), NEW D \in SUBSET C
    PROVE  SumOver(v, D) = SumOver(w, UNION {part[c] : c \in D})
<1> DEFINE cover(U) == UNION {part[c] : c \in U}
           Z == {U \in SUBSET D : SumOver(v, U) # SumOver(w, cover(U))}
<1>1. ASSUME Z # {}
      PROVE  FALSE
  <2>1. PICK U \in Z : \A y \in U : U \ {y} \notin Z
    <3>1. Z \in SUBSET SUBSET D /\ IsFiniteSet(D)
      BY FS_Subset
    <3> HIDE DEF Z
    <3> QED
      BY <1>1, <3>1, MinimalSubset
  <2>2. CASE U = {}
    <3>1. cover(U) = {}
      BY <2>2
    <3> QED
      BY <2>1, <2>2, <3>1, SumEmpty
  <2>3. CASE U # {}
    <3>1. PICK c \in U : c \in C
      BY <2>3
    <3>2. SumOver(v, U \ {c}) = SumOver(w, cover(U \ {c}))
      BY <2>1, <3>1
    <3>3. SumOver(v, U) = v[c] + SumOver(v, U \ {c})
      BY <3>1, SumRemove
    <3>4. cover(U) = part[c] \cup cover(U \ {c})
      BY <3>1
    <3>5. part[c] \cap cover(U \ {c}) = {} /\ part[c] \in SUBSET S /\ cover(U \ {c}) \in SUBSET S
      BY <3>1
    <3>6. SumOver(w, cover(U)) = SumOver(w, part[c]) + SumOver(w, cover(U \ {c}))
      BY <3>4, <3>5, SumUnion
    <3> QED
      BY <2>1, <3>1, <3>2, <3>3, <3>6
  <2> QED
    BY <2>2, <2>3
<1> QED
  BY <1>1

-----------------------------------------------------------------------------
(* The invariant. *)

(* The collector of a process: p, its buckets bs, the minute n, what the database says it has covered, the events that *)
(* there were, the rows that are stored, and the minutes that were overtaken.                                         *)

Running(p) == p.status \in {"up", "closing"}

Writing(p) == p.pc \in {"save", "saved"}

Stored(sto, m) == IF sto[m] = NoRow THEN 0 ELSE sto[m].count

\* The minute has its row, with all of its events.
Full(m, rec, sto) == sto[m] # NoRow /\ sto[m].count = rec[m]

\* The minutes that a process passes are in order, and it holds nothing unless it runs.
ProcessOK(p, bs, n, cov, rec, sto) ==
    /\ ~Running(p) => p.pc = "idle" /\ bs = NoBuckets
    /\ p.status = "new" => cov = 0 /\ \A m \in Minute : rec[m] = 0 /\ sto[m] = NoRow
    /\ Running(p) => /\ p.started <= p.heartbeatAt /\ p.heartbeatAt <= n
                     /\ p.coveredTo <= p.heartbeatAt /\ cov <= p.heartbeatAt
    /\ p.pc \notin {"idle", "exit"} => p.at = p.heartbeatAt
    /\ ~Writing(p) => p.captured = {}

\* A minute that has no bucket has had no event yet, or was stored.
AbsentOK(m, p, rec, sto) ==
    /\ m < p.started \/ m >= p.heartbeatAt => rec[m] = 0 /\ sto[m] = NoRow
    /\ p.started <= m /\ m < p.heartbeatAt => Full(m, rec, sto)

\* A bucket has all events of its minute, and its sketch has them too until it is stored.
HeldOK(m, b, p, n, rec, sto, over) ==
    /\ p.started <= m
    /\ b.count = rec[m]
    /\ b.dirty \/ m >= n => b.live = rec[m]
    /\ ~b.dirty => Full(m, rec, sto) /\ (m \notin over => sto[m].samples = rec[m])

MemoryOK(bs, p, n, rec, sto, over) ==
    \A m \in Minute : /\ bs[m] = NoBucket => AbsentOK(m, p, rec, sto)
                      /\ bs[m] # NoBucket => HeldOK(m, bs[m], p, n, rec, sto, over)

\* The samples serialized miss nothing but what came while the metrics were marked.
SampledOK(bs, rec, over) ==
    \A m \in Minute : bs[m] # NoBucket /\ bs[m].dirty /\ m \notin over => bs[m].samples = rec[m]

\* What is being written is the bucket as it is, unless the bucket has a later generation; minutes that were over when
\* the flush was called have none.
CapturedOK(c, p, bs, rec, sto, over) ==
    LET b == bs[c.minute] IN
    /\ \A d \in p.captured : c.minute = d.minute => c = d
    /\ b # NoBucket /\ b.dirty
    /\ c.generation <= b.generation
    /\ c.minute < p.at => c.generation = b.generation
    /\ c.generation = b.generation => /\ c.row.count = rec[c.minute]
                                      /\ c.minute \notin over => c.row.samples = rec[c.minute]
    /\ Stored(sto, c.minute) <= c.row.count /\ c.row.count <= rec[c.minute]
    /\ p.pc = "saved" => sto[c.minute] = c.row

\* Every minute that was over and dirty is being written.
AllCaptured(p, bs) ==
    \A m \in Minute : bs[m] # NoBucket /\ bs[m].dirty /\ m < p.at => \E c \in p.captured : c.minute = m

StoredOK(p, cov, rec, sto) ==
    /\ \A m \in Minute : Stored(sto, m) <= rec[m]
    /\ Running(p) => \A m \in p.started..(p.coveredTo - 1) : Full(m, rec, sto)
    /\ \A m \in p.started..(cov - 1) : Full(m, rec, sto)

Collector(p, bs, n, cov, rec, sto, over) ==
    /\ ProcessOK(p, bs, n, cov, rec, sto)
    /\ Running(p) => MemoryOK(bs, p, n, rec, sto, over)
    /\ p.pc = "mark" => SampledOK(bs, rec, over)
    /\ Writing(p) => AllCaptured(p, bs)
    /\ \A c \in p.captured : CapturedOK(c, p, bs, rec, sto, over)
    /\ StoredOK(p, cov, rec, sto)

Overtaken(i) == {m \in Minute : <<i, m>> \in overtaken}

CollectorOf(i) == Collector(process[i], buckets[i], now, covered[i], recorded[i], stored[i], Overtaken(i))

CollectorOK == \A i \in Instance : CollectorOf(i)

\* What the rollup has in hand: different hours, that are pending; the sum it has read is that of the rows unless
\* the hour has a later generation.
InHand == rollup.todo \cup ({rollup.entry} \ {NoEntry})

RollupOK ==
    /\ ~rollup.on => InHand = {}
    /\ rollup.entry \notin rollup.todo
    /\ \A e, f \in InHand : e.source = f.source /\ e.hour = f.hour => e = f
    /\ \A e \in InHand : 0 < e.generation /\ e.generation <= pending[e.source][e.hour]
    /\ rollup.entry # NoEntry =>
          LET e == rollup.entry IN
          pending[e.source][e.hour] = e.generation => rollup.row = Sum(StoredOf(e.source, e.hour))

Pairs == Instance \X Minute

Counts == [x \in Pairs |-> Count(x[1], x[2])]

MinutesOf(i, h) == {x \in Pairs : x[1] = i /\ HourOf(x[2]) = h}

HourCount(i, h) == IF hours[i][h] = NoRow THEN 0 ELSE hours[i][h].count

\* No sum is more than what is stored by now.
HoursOK ==
    /\ \A i \in Instance, h \in Hour : HourCount(i, h) <= SumOver(Counts, MinutesOf(i, h))
    /\ rollup.entry # NoEntry => rollup.row.count <= SumOver(Counts, MinutesOf(rollup.entry.source, rollup.entry.hour))

\* The rows of the report's begin, which its floor was summed from: the hours with nothing pending had them in.
BaseOK(base) ==
    /\ \A x \in Pairs : base[x] <= Counts[x]
    /\ report.floor = SumOver(base, Instance \X (report.from..(report.to - 1)))
    /\ \A i \in Instance, h \in Hour \ report.unrolled : SumOver(base, MinutesOf(i, h)) <= HourCount(i, h)
    /\ rollup.entry # NoEntry /\ rollup.entry.hour \notin report.unrolled =>
          SumOver(base, MinutesOf(rollup.entry.source, rollup.entry.hour)) <= rollup.row.count

CleanMinutes(r) == {m \in r.from..(r.to - 1) : HourOf(m) \in r.clean}

ReportOK ==
    /\ report.pc = "hours" => \E base \in [Pairs -> Nat] : BaseOK(base)
    /\ report.pc = "minutes" => /\ report.floor <= report.sum + SumOver(Counts, Instance \X Rest(report))
                                /\ report.sum <= SumOver(Counts, Instance \X CleanMinutes(report))

StatsInv == TypeOK /\ CollectorOK /\ RollupOK /\ RolledIsExact /\ HoursOK /\ ReportOK

-----------------------------------------------------------------------------
(* Numbers, and the types of what the actions are made of. *)

LEMMA Numbers ==
    /\ MaxTime \in Nat /\ MaxFaults \in Nat /\ MemoryRetention \in Nat /\ HourLength \in Nat \ {0}
    /\ Minute \subseteq Nat /\ Hour \subseteq Nat /\ 0 \in Minute
    /\ \A m \in Nat : m \in Minute <=> m <= MaxTime
<1>1. MaxTime \in Nat /\ MaxFaults \in Nat /\ MemoryRetention \in Nat /\ HourLength \in Nat \ {0}
  BY NumberAssumption
<1> QED
  BY <1>1 DEF Minute, Hour

LEMMA HourBounds ==
    ASSUME NEW m \in Nat
    PROVE  HourOf(m) \in Nat /\ HourOf(m) * HourLength <= m /\ m < (HourOf(m) + 1) * HourLength
BY Numbers DEF HourOf

LEMMA HourType == \A m \in Minute : HourOf(m) \in Hour
<1> SUFFICES ASSUME NEW m \in Minute PROVE HourOf(m) \in Hour
  OBVIOUS
<1>1. PICK n \in Nat \ {0} : n = HourLength
  BY Numbers
<1>2. PICK k \in Nat : k = MaxTime
  BY Numbers
<1>3. m \in Nat /\ m <= k
  BY <1>2, Numbers
<1>4. m \div n \in Nat /\ k \div n \in Nat /\ m \div n <= k \div n
  BY <1>3
<1> QED
  BY <1>1, <1>2, <1>4 DEF HourOf, Hour

LEMMA MaxOf ==
    ASSUME NEW S \in SUBSET Nat, S # {}, NEW n \in Nat, \A x \in S : x <= n
    PROVE  Max(S) \in S /\ \A x \in S : x <= Max(S)
<1> DEFINE f == [x \in S |-> x]
<1>1. IsFiniteSet(S)
  BY FS_BoundedSetOfNaturals
<1>2. f \in [S -> Nat]
  OBVIOUS
<1>3. PICK x \in S : \A y \in S : f[y] <= f[x]
  <2> HIDE DEF f
  <2> QED
    BY <1>1, <1>2, Greatest
<1>4. \A y \in S : x >= y
  BY <1>3
<1>5. Max(S) \in S /\ \A y \in S : Max(S) >= y
  BY <1>4 DEF Max
<1> QED
  BY <1>5

LEMMA MaxOfTwo ==
    ASSUME NEW a \in Nat, NEW b \in Nat
    PROVE  Max({a, b}) = IF a >= b THEN a ELSE b
<1>1. \E x \in {a, b} : \A y \in {a, b} : x >= y
  OBVIOUS
<1>2. Max({a, b}) \in {a, b} /\ \A y \in {a, b} : Max({a, b}) >= y
  BY <1>1 DEF Max
<1> QED
  BY <1>2

LEMMA MinOfTwo ==
    ASSUME NEW a \in Nat, NEW b \in Nat
    PROVE  Min({a, b}) = IF a <= b THEN a ELSE b
<1>1. \E x \in {a, b} : \A y \in {a, b} : x <= y
  OBVIOUS
<1>2. Min({a, b}) \in {a, b} /\ \A y \in {a, b} : Min({a, b}) <= y
  BY <1>1 DEF Min
<1> QED
  BY <1>2

\* What a save covers: up to a minute that was covered before, or up to the end of one that it writes.
LEMMA CoveredBounds ==
    ASSUME NEW p \in Process
    PROVE  /\ NextCovered(p) \in Minute
           /\ p.coveredTo <= NextCovered(p)
           /\ NextCovered(p) # p.coveredTo => \E c \in p.captured : NextCovered(p) <= c.minute + 1 /\ NextCovered(p) <= p.at
<1> DEFINE ends == {Min({c.minute + 1, p.at}) : c \in p.captured}
           S == {p.coveredTo} \cup ends
<1>1. p.coveredTo \in Nat /\ p.at \in Nat /\ p.coveredTo <= MaxTime /\ p.at <= MaxTime
  BY Numbers DEF Process
<1>2. \A c \in p.captured : /\ c.minute + 1 \in Nat
                            /\ Min({c.minute + 1, p.at}) \in Nat
                            /\ Min({c.minute + 1, p.at}) <= p.at /\ Min({c.minute + 1, p.at}) <= c.minute + 1
  <2> SUFFICES ASSUME NEW c \in p.captured
               PROVE  /\ c.minute + 1 \in Nat
                      /\ Min({c.minute + 1, p.at}) \in Nat
                      /\ Min({c.minute + 1, p.at}) <= p.at /\ Min({c.minute + 1, p.at}) <= c.minute + 1
    OBVIOUS
  <2>1. c.minute \in Nat
    BY Numbers DEF Process, Captured
  <2>2. PICK n \in Nat : n = c.minute + 1
    BY <2>1
  <2>3. Min({n, p.at}) = IF n <= p.at THEN n ELSE p.at
    BY <1>1, MinOfTwo
  <2> QED
    BY <1>1, <2>2, <2>3
<1>3. S \in SUBSET Nat /\ S # {} /\ \A x \in S : x <= MaxTime
  <2>1. ASSUME NEW x \in ends
        PROVE  x \in Nat /\ x <= MaxTime
    <3>1. PICK c \in p.captured : x = Min({c.minute + 1, p.at})
      OBVIOUS
    <3>2. x \in Nat /\ x <= p.at
      BY <1>2, <3>1
    <3> HIDE DEF ends
    <3> QED
      BY <1>1, <3>2, Numbers
  <2> HIDE DEF ends
  <2> QED
    BY <1>1, <2>1
<1>4. Max(S) \in S /\ \A x \in S : x <= Max(S)
  <2> HIDE DEF S
  <2> QED
    BY <1>3, Numbers, MaxOf
<1>5. NextCovered(p) = Max(S)
  BY DEF NextCovered
<1> QED
  BY <1>1, <1>2, <1>3, <1>4, <1>5, Numbers

BucketMap == [Minute -> Bucket \cup {NoBucket}]

LEMMA NewTypes == NewProcess \in Process /\ NoBuckets \in BucketMap /\ EmptyBucket \in Bucket /\ NoRollup \in Rollup
<1>1. NoBuckets \in BucketMap
  BY DEF NoBuckets, BucketMap
<1>2. NewProcess \in Process
  BY Numbers DEF NewProcess, Process
<1>3. NoRollup \in Rollup
  BY DEF NoRollup, Rollup, Row
<1> QED
  BY <1>1, <1>2, <1>3 DEF EmptyBucket, Bucket

LEMMA MarkDirtyType ==
    ASSUME NEW b \in Bucket
    PROVE  /\ MarkDirty(b) \in Bucket
           /\ MarkDirty(b).dirty /\ MarkDirty(b).generation = b.generation + 1
           /\ MarkDirty(b).count = b.count /\ MarkDirty(b).live = b.live /\ MarkDirty(b).samples = b.samples
<1>1. PICK g \in Nat : g = b.generation
  BY DEF Bucket
<1>2. MarkDirty(b) = [b EXCEPT !.dirty = TRUE, !.generation = g + 1]
  BY <1>1 DEF MarkDirty, Bucket
<1>3. g + 1 \in Nat
  OBVIOUS
<1> QED
  BY <1>1, <1>2, <1>3 DEF Bucket

LEMMA MemoryTypes ==
    ASSUME NEW bs \in BucketMap
    PROVE  /\ Materialize(bs) \in BucketMap
           /\ \A current : Evict(bs, current) \in BucketMap
           /\ \A from, current : FillGaps(bs, from, current) \in BucketMap
           /\ \A p : (\A c \in p.captured : c.minute \in Minute /\ bs[c.minute] # NoBucket) => Settled(p, bs) \in BucketMap
<1>1. \A m \in Minute : bs[m] # NoBucket => bs[m] \in Bucket
  BY DEF BucketMap
<1>2. \A b \in Bucket : /\ [b EXCEPT !.samples = b.live] \in Bucket
                        /\ [b EXCEPT !.live = b.samples] \in Bucket
                        /\ [b EXCEPT !.dirty = FALSE] \in Bucket
  BY DEF Bucket
<1>3. Materialize(bs) \in BucketMap
  BY <1>1, <1>2 DEF Materialize, BucketMap
<1>4. \A current : Evict(bs, current) \in BucketMap
  BY <1>1, <1>2 DEF Evict, BucketMap
<1>5. MarkDirty(EmptyBucket) \in Bucket
  BY NewTypes, MarkDirtyType
<1>6. \A from, current : FillGaps(bs, from, current) \in BucketMap
  BY <1>5 DEF FillGaps, BucketMap
<1>7. ASSUME NEW p, \A c \in p.captured : c.minute \in Minute /\ bs[c.minute] # NoBucket
      PROVE  Settled(p, bs) \in BucketMap
  <2>1. \A m \in Minute : (\E c \in p.captured : c.minute = m /\ c.generation = bs[m].generation)
                             => [bs[m] EXCEPT !.dirty = FALSE] \in Bucket
    BY <1>1, <1>2, <1>7
  <2> QED
    BY <2>1 DEF Settled, BucketMap
<1> QED
  BY <1>3, <1>4, <1>6, <1>7

LEMMA EndType ==
    ASSUME NEW p \in Process
    PROVE  /\ End(p) \in Process
           /\ End(p).pc = IF p.status = "closing" THEN "exit" ELSE "idle"
           /\ End(p).captured = {}
           /\ End(p).status = p.status /\ End(p).started = p.started
           /\ End(p).heartbeatAt = p.heartbeatAt /\ End(p).coveredTo = p.coveredTo
BY Numbers DEF End, Process

\* What a capture does: it takes the dirty buckets, or ends the flush as there are none.
Takes(p, bs, q) ==
    LET dirty == {m \in Minute : bs[m] # NoBucket /\ bs[m].dirty} IN
    /\ dirty # {}
    /\ q = [p EXCEPT !.pc = "save", !.captured =
               {[minute |-> m, generation |-> bs[m].generation,
                 row |-> [count |-> bs[m].count, samples |-> bs[m].samples]] : m \in dirty}]

LEMMA TakesType ==
    ASSUME NEW p \in Process, NEW bs \in BucketMap, NEW q, Takes(p, bs, q)
    PROVE  q \in Process
<1> DEFINE dirty == {m \in Minute : bs[m] # NoBucket /\ bs[m].dirty}
           captured == {[minute |-> m, generation |-> bs[m].generation,
                         row |-> [count |-> bs[m].count, samples |-> bs[m].samples]] : m \in dirty}
<1>1. ASSUME NEW m \in dirty
      PROVE  [minute |-> m, generation |-> bs[m].generation,
              row |-> [count |-> bs[m].count, samples |-> bs[m].samples]] \in Captured
  <2>1. bs[m] \in Bucket
    BY DEF BucketMap
  <2> QED
    BY <2>1 DEF Bucket, Captured, Row
<1>2. captured \in SUBSET Captured
  BY <1>1
<1>3. q = [p EXCEPT !.pc = "save", !.captured = captured]
  BY DEF Takes
<1> HIDE DEF captured
<1> QED
  BY <1>2, <1>3 DEF Process

LEMMA CaptureCases ==
    ASSUME TypeOK, NEW i \in Instance, NEW p \in Process, NEW bs \in BucketMap, Capture(i, p, bs)
    PROVE  \/ \E q \in Process : /\ Takes(p, bs, q)
                                 /\ process' = [process EXCEPT ![i] = q]
                                 /\ buckets' = [buckets EXCEPT ![i] = bs]
                                 /\ UNCHANGED <<covered, faults>>
           \/ /\ \A m \in Minute : bs[m] = NoBucket \/ ~bs[m].dirty
              /\ process' = [process EXCEPT ![i] = End(p)]
              /\ buckets' = [buckets EXCEPT ![i] = Evict(bs, p.at)]
              /\ covered' = covered \/ covered' = [covered EXCEPT ![i] = process[i].coveredTo]
              /\ faults' = faults \/ Fault
<1> DEFINE dirty == {m \in Minute : bs[m] # NoBucket /\ bs[m].dirty}
           captured == {[minute |-> m, generation |-> bs[m].generation,
                         row |-> [count |-> bs[m].count, samples |-> bs[m].samples]] : m \in dirty}
<1>1. CASE dirty # {} /\ process' = [process EXCEPT ![i] = [p EXCEPT !.pc = "save", !.captured = captured]]
           /\ buckets' = [buckets EXCEPT ![i] = bs] /\ UNCHANGED <<covered, faults>>
  <2>1. PICK q : q = [p EXCEPT !.pc = "save", !.captured = captured]
    OBVIOUS
  <2>2. Takes(p, bs, q)
    BY <1>1, <2>1 DEF Takes
  <2>3. q \in Process
    BY <2>2, TakesType
  <2> HIDE DEF captured, dirty
  <2> QED
    BY <1>1, <2>1, <2>2, <2>3
<1>2. CASE dirty = {} /\ process' = [process EXCEPT ![i] = End(p)] /\ buckets' = [buckets EXCEPT ![i] = Evict(bs, p.at)]
           /\ IF p.saved THEN UNCHANGED <<covered, faults>> ELSE TouchInstance(i)
  <2>1. \A m \in Minute : bs[m] = NoBucket \/ ~bs[m].dirty
    BY <1>2
  <2> QED
    BY <1>2, <2>1 DEF TouchInstance
<1> QED
  BY <1>1, <1>2 DEF Capture

LEMMA CaptureTypes ==
    ASSUME TypeOK, NEW i \in Instance, NEW p \in Process, NEW bs \in BucketMap, Capture(i, p, bs)
    PROVE  /\ process' \in [Instance -> Process] /\ buckets' \in [Instance -> BucketMap]
           /\ covered' \in [Instance -> Minute] /\ faults' \in 0..MaxFaults
<1>1. /\ process \in [Instance -> Process] /\ buckets \in [Instance -> BucketMap]
      /\ covered \in [Instance -> Minute] /\ faults \in 0..MaxFaults
  BY DEF TypeOK, BucketMap
<1>2. process[i].coveredTo \in Minute
  BY <1>1 DEF Process
<1>3. Fault => faults' \in 0..MaxFaults
  BY <1>1, Numbers DEF Fault
<1>4. End(p) \in Process /\ Evict(bs, p.at) \in BucketMap
  BY EndType, MemoryTypes
<1> QED
  BY <1>1, <1>2, <1>3, <1>4, CaptureCases

-----------------------------------------------------------------------------
(* The sums of the model. *)

LEMMA SumZero ==
    ASSUME NEW S, IsFiniteSet(S), NEW w \in [S -> Nat], NEW A \in SUBSET S, NEW B \in SUBSET A, \A x \in A \ B : w[x] = 0
    PROVE  SumOver(w, A) = SumOver(w, B)
<1> DEFINE C == A \ B
           Z == {U \in SUBSET C : SumOver(w, U) # 0}
<1>1. ASSUME Z # {}
      PROVE  FALSE
  <2>1. PICK U \in Z : \A y \in U : U \ {y} \notin Z
    <3>1. Z \in SUBSET SUBSET C /\ IsFiniteSet(C)
      BY FS_Subset
    <3> HIDE DEF Z
    <3> QED
      BY <1>1, <3>1, MinimalSubset
  <2>2. U # {}
    BY <2>1, SumEmpty
  <2>3. PICK x \in U : x \in C
    BY <2>2
  <2>4. SumOver(w, U \ {x}) = 0 /\ w[x] = 0
    BY <2>1, <2>3
  <2>5. SumOver(w, U) = w[x] + SumOver(w, U \ {x})
    <3>1. U \in SUBSET S
      OBVIOUS
    <3> QED
      BY <2>3, <3>1, SumRemove
  <2> QED
    BY <2>1, <2>4, <2>5
<1>2. SumOver(w, C) = 0
  BY <1>1
<1>3. SumOver(w, B \cup C) = SumOver(w, B) + SumOver(w, C)
  <2>1. B \in SUBSET S /\ C \in SUBSET S /\ B \cap C = {}
    OBVIOUS
  <2> HIDE DEF C
  <2> QED
    BY <2>1, SumUnion
<1>4. B \cup C = A /\ SumOver(w, B) \in Nat
  <2>1. B \in SUBSET S
    OBVIOUS
  <2> QED
    BY <2>1, SumType
<1>5. SumOver(w, A) = SumOver(w, B) + SumOver(w, C)
  BY <1>3, <1>4
<1> QED
  BY <1>2, <1>4, <1>5

LEMMA SumOfIs == \A w : SumOf(w) = SumOver(w, DOMAIN w)
BY DEF SumOf, SumOver

LEMMA Finite == IsFiniteSet(Minute) /\ IsFiniteSet(Hour) /\ IsFiniteSet(Pairs) /\ IsFiniteSet(Instance \X Hour)
<1>1. IsFiniteSet(Minute)
  BY Numbers, FS_Interval DEF Minute
<1>2. IsFiniteSet(Hour)
  <2>1. PICK n \in Nat \ {0} : n = HourLength
    BY Numbers
  <2>2. PICK k \in Nat : k = MaxTime
    BY Numbers
  <2>3. k \div n \in Int
    OBVIOUS
  <2> QED
    BY <2>1, <2>2, <2>3, FS_Interval DEF Hour
<1> QED
  BY <1>1, <1>2, InstanceAssumption, FS_Product DEF Pairs

LEMMA RowFacts ==
    ASSUME TypeOK
    PROVE  /\ Counts \in [Pairs -> Nat]
           /\ \A i \in Instance, m \in Minute :
                 /\ <<i, m>> \in Pairs /\ Counts[<<i, m>>] = Count(i, m) /\ Count(i, m) \in Nat
                 /\ stored[i][m] # NoRow => stored[i][m] \in Row /\ Count(i, m) = stored[i][m].count
                 /\ stored[i][m] = NoRow => Count(i, m) = 0
           /\ \A i \in Instance, h \in Hour :
                 /\ HourCount(i, h) \in Nat
                 /\ hours[i][h] # NoRow => hours[i][h] \in Row /\ HourCount(i, h) = hours[i][h].count
<1>1. \A i \in Instance, m \in Minute : stored[i][m] # NoRow => stored[i][m] \in Row /\ stored[i][m].count \in Nat
  BY DEF TypeOK, Row
<1>2. \A i \in Instance, m \in Minute : Count(i, m) \in Nat
  BY <1>1 DEF Count
<1>3. \A x \in Pairs : x[1] \in Instance /\ x[2] \in Minute
  BY DEF Pairs
<1>4. Counts \in [Pairs -> Nat]
  BY <1>2, <1>3 DEF Counts
<1>5. \A i \in Instance, m \in Minute : <<i, m>> \in Pairs /\ Counts[<<i, m>>] = Count(i, m)
  BY DEF Counts, Pairs
<1>6. \A i \in Instance, h \in Hour : hours[i][h] # NoRow => hours[i][h] \in Row /\ hours[i][h].count \in Nat
  BY DEF TypeOK, Row
<1>7. \A i \in Instance, h \in Hour : HourCount(i, h) \in Nat
  BY <1>6 DEF HourCount
<1> QED
  BY <1>1, <1>2, <1>4, <1>5, <1>6, <1>7 DEF Count, HourCount

\* The sum of an hour's rows, as the rollup reads it, is the sum of what is stored of its minutes.
LEMMA SumOfHour ==
    ASSUME TypeOK, NEW i \in Instance, NEW h \in Hour
    PROVE  /\ Sum(StoredOf(i, h)) \in Row
           /\ Sum(StoredOf(i, h)).count = SumOver(Counts, MinutesOf(i, h))
           /\ StoredOf(i, h) = {} => SumOver(Counts, MinutesOf(i, h)) = 0
<1> DEFINE R == StoredOf(i, h)
           w == [r \in R |-> r[2].count]
           v == [r \in R |-> r[2].samples]
           e == [r \in R |-> <<i, r[1]>>]
           T == {x \in Pairs : x[1] = i /\ HourOf(x[2]) = h /\ stored[i][x[2]] # NoRow}
<1>1. \A r \in R : /\ r = <<r[1], r[2]>> /\ r[1] \in Minute /\ HourOf(r[1]) = h /\ stored[i][r[1]] # NoRow
                   /\ r[2] = stored[i][r[1]] /\ r[2] \in Row
  <2> SUFFICES ASSUME NEW r \in R
               PROVE  /\ r = <<r[1], r[2]>> /\ r[1] \in Minute /\ HourOf(r[1]) = h /\ stored[i][r[1]] # NoRow
                      /\ r[2] = stored[i][r[1]] /\ r[2] \in Row
    OBVIOUS
  <2>1. PICK m \in Minute : r = <<m, stored[i][m]>> /\ HourOf(m) = h /\ stored[i][m] # NoRow
    BY DEF StoredOf
  <2>2. stored[i][m] \in Row
    BY <2>1, RowFacts
  <2> QED
    BY <2>1, <2>2
<1>2. w \in [R -> Nat] /\ v \in [R -> Nat]
  BY <1>1 DEF Row
<1>3. e \in [R -> Pairs]
  BY <1>1 DEF Pairs
<1>4. \A r, s \in R : e[r] = e[s] => r = s
  <2> SUFFICES ASSUME NEW r \in R, NEW s \in R, e[r] = e[s]
               PROVE  r = s
    OBVIOUS
  <2>1. r[1] = s[1]
    OBVIOUS
  <2>2. r[2] = s[2]
    BY <1>1, <2>1
  <2>3. r = <<r[1], r[2]>> /\ s = <<s[1], s[2]>>
    BY <1>1
  <2> QED
    BY <2>1, <2>2, <2>3
<1>5. \A r \in R : Counts[e[r]] = w[r]
  BY <1>1, RowFacts
<1>6. {e[r] : r \in R} = T
  <2>1. ASSUME NEW r \in R
        PROVE  e[r] \in T
    BY <1>1 DEF Pairs
  <2>2. ASSUME NEW x \in T
        PROVE  \E r \in R : x = e[r]
    <3>1. x = <<i, x[2]>> /\ x[2] \in Minute
      BY DEF Pairs
    <3>2. <<x[2], stored[i][x[2]]>> \in R
      BY <3>1 DEF StoredOf
    <3> QED
      BY <3>1, <3>2
  <2> QED
    BY <2>1, <2>2
<1>7. IsFiniteSet(R)
  <2>1. e \in Injection(R, Pairs)
    <3> HIDE DEF R, e
    <3> QED
      BY <1>3, <1>4 DEF Injection, IsInjective
  <2> HIDE DEF R, e
  <2> QED
    BY <2>1, Finite, FS_Injection
<1>8. SumOver(Counts, T) = SumOver(w, R)
  <2>1. Counts \in [Pairs -> Nat] /\ IsFiniteSet(Pairs) /\ R \in SUBSET R
    BY RowFacts, Finite
  <2> HIDE DEF R, w, e, T
  <2>2. SumOver(Counts, {e[r] : r \in R}) = SumOver(w, R)
    BY <1>2, <1>3, <1>4, <1>5, <1>7, <2>1, SumImage
  <2> QED
    BY <1>6, <2>2
<1>9. SumOver(Counts, MinutesOf(i, h)) = SumOver(Counts, T)
  <2>1. MinutesOf(i, h) \in SUBSET Pairs /\ T \in SUBSET MinutesOf(i, h)
    BY DEF MinutesOf
  <2>2. \A x \in MinutesOf(i, h) \ T : Counts[x] = 0
    <3> SUFFICES ASSUME NEW x \in MinutesOf(i, h) \ T
                 PROVE  Counts[x] = 0
      OBVIOUS
    <3>1. x = <<i, x[2]>> /\ x[2] \in Minute /\ stored[i][x[2]] = NoRow
      BY DEF MinutesOf, Pairs
    <3> QED
      BY <3>1, RowFacts
  <2> HIDE DEF T
  <2> QED
    BY <2>1, <2>2, RowFacts, Finite, SumZero
<1>10. SumOver(w, R) \in Nat /\ SumOver(v, R) \in Nat
  <2> HIDE DEF R, w, v
  <2> QED
    BY <1>2, <1>7, SumType
<1>11. Sum(R) = [count |-> SumOver(w, R), samples |-> SumOver(v, R)]
  <2>1. SumOf(w) = SumOver(w, DOMAIN w) /\ DOMAIN w = R /\ SumOf(v) = SumOver(v, DOMAIN v) /\ DOMAIN v = R
    BY SumOfIs
  <2>2. Sum(R) = [count |-> SumOf(w), samples |-> SumOf(v)]
    BY DEF Sum
  <2> QED
    BY <2>1, <2>2
<1>12. R = {} => SumOver(w, R) = 0
  BY SumEmpty
<1> HIDE DEF R, w, v, T
<1>13. Sum(R) \in Row /\ Sum(R).count = SumOver(w, R)
  BY <1>10, <1>11 DEF Row
<1>14. R = StoredOf(i, h)
  BY DEF R
<1> QED
  BY <1>8, <1>9, <1>12, <1>13, <1>14

LEMMA StoredInIs ==
    ASSUME TypeOK, NEW minutes \in SUBSET Minute
    PROVE  StoredIn(minutes) = SumOver(Counts, Instance \X minutes) /\ StoredIn(minutes) \in Nat
<1> DEFINE A == Instance \X minutes
           B == {x \in A : stored[x[1]][x[2]] # NoRow}
           w == [x \in B |-> stored[x[1]][x[2]].count]
<1>1. A \in SUBSET Pairs /\ B \in SUBSET A /\ B \in SUBSET Pairs /\ B \subseteq B
  BY DEF Pairs
<1>2. \A x \in A : /\ stored[x[1]][x[2]] # NoRow => Counts[x] = stored[x[1]][x[2]].count /\ stored[x[1]][x[2]].count \in Nat
                   /\ stored[x[1]][x[2]] = NoRow => Counts[x] = 0
  <2> SUFFICES ASSUME NEW x \in A
               PROVE  /\ stored[x[1]][x[2]] # NoRow => Counts[x] = stored[x[1]][x[2]].count /\ stored[x[1]][x[2]].count \in Nat
                      /\ stored[x[1]][x[2]] = NoRow => Counts[x] = 0
    OBVIOUS
  <2>1. x = <<x[1], x[2]>> /\ x[1] \in Instance /\ x[2] \in Minute
    OBVIOUS
  <2> QED
    BY <2>1, RowFacts DEF Row
<1>3. w \in [B -> Nat] /\ \A x \in B : w[x] = Counts[x]
  BY <1>2
<1>4. StoredIn(minutes) = SumOver(w, B)
  <2>1. SumOf(w) = SumOver(w, DOMAIN w) /\ DOMAIN w = B
    BY SumOfIs
  <2> QED
    BY <2>1 DEF StoredIn
<1>5. \A x \in A \ B : Counts[x] = 0
  BY <1>2
<1>6. IsFiniteSet(Pairs) /\ Counts \in [Pairs -> Nat]
  BY Finite, RowFacts
<1> HIDE DEF A, B, w
<1>7. IsFiniteSet(B)
  BY <1>1, <1>6, FS_Subset
<1>8. B \in SUBSET B /\ B \subseteq Pairs
  BY <1>1
<1>9. SumOver(w, B) = SumOver(Counts, B)
  BY <1>3, <1>6, <1>7, <1>8, SumSame
<1>10. SumOver(Counts, A) = SumOver(Counts, B)
  BY <1>1, <1>5, <1>6, SumZero
<1>11. SumOver(Counts, A) \in Nat
  BY <1>1, <1>6, SumType
<1>12. A = Instance \X minutes
  BY DEF A
<1> QED
  BY <1>4, <1>9, <1>10, <1>11, <1>12

HourCounts == [x \in Instance \X Hour |-> HourCount(x[1], x[2])]

LEMMA ReportSum ==
    ASSUME TypeOK, NEW clean \in SUBSET Hour
    PROVE  /\ SumOf([x \in {x \in Instance \X clean : x[1] \in RolledRows(x[2])} |-> hours[x[1]][x[2]].count])
                  = SumOver(HourCounts, Instance \X clean)
           /\ SumOver(HourCounts, Instance \X clean) \in Nat
           /\ HourCounts \in [Instance \X Hour -> Nat]
<1> DEFINE A == Instance \X clean
           B == {x \in A : x[1] \in RolledRows(x[2])}
           w == [x \in B |-> hours[x[1]][x[2]].count]
           C == Instance \X Hour
<1>1. A \in SUBSET C /\ B \in SUBSET A /\ B \in SUBSET C /\ B \subseteq B
  OBVIOUS
<1>2. \A x \in A : /\ x \in B => HourCounts[x] = hours[x[1]][x[2]].count /\ hours[x[1]][x[2]].count \in Nat
                   /\ x \notin B => HourCounts[x] = 0
  <2> SUFFICES ASSUME NEW x \in A
               PROVE  /\ x \in B => HourCounts[x] = hours[x[1]][x[2]].count /\ hours[x[1]][x[2]].count \in Nat
                      /\ x \notin B => HourCounts[x] = 0
    OBVIOUS
  <2>1. x = <<x[1], x[2]>> /\ x[1] \in Instance /\ x[2] \in Hour
    OBVIOUS
  <2>2. x \in B <=> hours[x[1]][x[2]] # NoRow
    BY <2>1 DEF RolledRows
  <2>3. HourCounts[x] = HourCount(x[1], x[2])
    BY <2>1 DEF HourCounts
  <2> HIDE DEF B
  <2> QED
    BY <2>1, <2>2, <2>3, RowFacts DEF Row, HourCount
<1>3. w \in [B -> Nat] /\ \A x \in B : w[x] = HourCounts[x]
  BY <1>2
<1>4. SumOf(w) = SumOver(w, B)
  <2>1. SumOf(w) = SumOver(w, DOMAIN w) /\ DOMAIN w = B
    BY SumOfIs
  <2> QED
    BY <2>1
<1>5. \A x \in A \ B : HourCounts[x] = 0
  BY <1>2
<1>6. IsFiniteSet(C) /\ HourCounts \in [C -> Nat]
  <2>1. \A x \in C : HourCount(x[1], x[2]) \in Nat
    BY RowFacts
  <2> QED
    BY <2>1, Finite DEF HourCounts
<1>7. IsFiniteSet(B)
  <2> HIDE DEF B, C
  <2> QED
    BY <1>1, <1>6, FS_Subset
<1>8. SumOver(w, B) = SumOver(HourCounts, B)
  <2> HIDE DEF A, B, C, w
  <2> QED
    BY <1>1, <1>3, <1>6, <1>7, SumSame
<1>9. SumOver(HourCounts, A) = SumOver(HourCounts, B) /\ SumOver(HourCounts, A) \in Nat
  <2> HIDE DEF A, B, C, w
  <2> QED
    BY <1>1, <1>5, <1>6, SumZero, SumType
<1>10. SumOf(w) = SumOver(HourCounts, A)
  <2> HIDE DEF A, B, C, w
  <2> QED
    BY <1>4, <1>8, <1>9
<1> QED
  BY <1>6, <1>9, <1>10

-----------------------------------------------------------------------------
(* Types. *)

LEMMA BeginCases ==
    ASSUME TypeOK, NEW i \in Instance, NEW p \in Process, Begin(i, now, p), p.heartbeatAt <= now
    PROVE  \E q \in Process :
              /\ process' = [process EXCEPT ![i] = q]
              /\ q.pc = "heartbeat" /\ q.at = now /\ q.heartbeatAt = now
              /\ q.status = p.status /\ q.started = p.started /\ q.coveredTo = p.coveredTo /\ q.captured = p.captured
<1>1. p.heartbeatAt \in Nat /\ now \in Nat /\ now \in Minute
  BY Numbers DEF TypeOK, Process
<1>2. Max({p.heartbeatAt, now}) = now
  BY <1>1, MaxOfTwo
<1>3. PICK q : q = [p EXCEPT !.pc = "heartbeat", !.at = now, !.heartbeatAt = now]
  OBVIOUS
<1>4. q \in Process
  BY <1>1, <1>3 DEF Process
<1>5. process' = [process EXCEPT ![i] = q]
  BY <1>2, <1>3 DEF Begin
<1> QED
  BY <1>3, <1>4, <1>5 DEF Process

LEMMA PendingType == TypeOK => \A e \in Pending : /\ e \in Entry /\ 0 < e.generation
                                                  /\ e.generation = pending[e.source][e.hour]
<1> SUFFICES ASSUME TypeOK, NEW e \in Pending
             PROVE  e \in Entry /\ 0 < e.generation /\ e.generation = pending[e.source][e.hour]
  OBVIOUS
<1>1. PICK x \in Instance \X Hour : pending[x[1]][x[2]] # 0 /\ e = [hour |-> x[2], source |-> x[1], generation |-> pending[x[1]][x[2]]]
  BY DEF Pending
<1>2. PICK g \in Nat : g = pending[x[1]][x[2]]
  BY DEF TypeOK
<1> QED
  BY <1>1, <1>2 DEF Entry

LEMMA ProcessTypes ==
    ASSUME TypeOK, CollectorOK, NEW i \in Instance,
           Start(i) \/ Flush(i) \/ Close(i) \/ SaveCommits(i) \/ SaveReturns(i) \/ SaveFails(i) \/ Exit(i) \/ Crash(i)
           \/ Heartbeat(i) \/ Marked(i)
    PROVE  process' \in [Instance -> Process]
<1>1. process \in [Instance -> Process] /\ process[i] \in Process /\ now \in Minute
  BY DEF TypeOK
<1>2. process[i].started \in Minute /\ process[i].heartbeatAt \in Minute
  BY <1>1 DEF Process
<1>3. CASE Start(i)
  <2>1. [NewProcess EXCEPT !.status = "up", !.started = now, !.heartbeatAt = now, !.coveredTo = now] \in Process
    BY <1>1, NewTypes DEF Process
  <2> QED
    BY <1>1, <1>3, <2>1 DEF Start
<1>4. ASSUME process[i].status = "up"
      PROVE  process[i].heartbeatAt <= now
  BY <1>4 DEF CollectorOK, CollectorOf, Collector, ProcessOK, Running
<1>5. CASE Flush(i)
  BY <1>1, <1>4, <1>5, BeginCases DEF Flush
<1>6. CASE Close(i)
  <2>1. PICK p : p = [process[i] EXCEPT !.status = "closing"]
    OBVIOUS
  <2>2. p \in Process /\ p.heartbeatAt = process[i].heartbeatAt
    BY <1>1, <2>1 DEF Process
  <2>3. Begin(i, now, p) /\ p.heartbeatAt <= now
    BY <1>4, <1>6, <2>1, <2>2 DEF Close
  <2> QED
    BY <1>1, <2>2, <2>3, BeginCases
<1>7. CASE SaveCommits(i)
  <2>1. [process[i] EXCEPT !.pc = "saved"] \in Process
    BY <1>1 DEF Process
  <2> QED
    BY <1>1, <1>7, <2>1 DEF SaveCommits
<1>8. CASE SaveReturns(i)
  <2>1. PICK p : p = [process[i] EXCEPT !.coveredTo = NextCovered(process[i]), !.saved = TRUE]
    OBVIOUS
  <2>2. p \in Process
    BY <1>1, <2>1, CoveredBounds DEF Process
  <2>3. End(p) \in Process
    BY <2>2, EndType
  <2> QED
    BY <1>1, <1>8, <2>1, <2>3 DEF SaveReturns
<1>9. CASE SaveFails(i)
  BY <1>1, <1>9, EndType DEF SaveFails
<1>10. ASSUME Down(i)
       PROVE  process' \in [Instance -> Process]
  <2>1. [NewProcess EXCEPT !.status = "down", !.started = process[i].started] \in Process
    BY <1>2, NewTypes DEF Process
  <2> QED
    BY <1>1, <1>10, <2>1 DEF Down
<1>11. CASE Exit(i) \/ Crash(i)
  BY <1>10, <1>11 DEF Exit, Crash
<1>12. buckets[i] \in BucketMap /\ Materialize(buckets[i]) \in BucketMap
  BY MemoryTypes DEF TypeOK, BucketMap
<1>13. CASE Heartbeat(i)
  <2>1. [process[i] EXCEPT !.pc = "mark", !.marked = TRUE] \in Process
    BY <1>1 DEF Process
  <2> QED
    BY <1>1, <1>12, <1>13, <2>1, CaptureTypes DEF Heartbeat
<1>14. CASE Marked(i)
  BY <1>1, <1>12, <1>14, CaptureTypes DEF Marked
<1> QED
  BY <1>3, <1>5, <1>6, <1>7, <1>8, <1>9, <1>11, <1>13, <1>14

\* The bucket that an event is counted in.
Counted(i) == LET b == IF buckets[i][now] = NoBucket THEN EmptyBucket ELSE buckets[i][now]
              IN  MarkDirty([b EXCEPT !.count = @ + 1, !.live = @ + 1])

LEMMA CountedType ==
    ASSUME TypeOK, NEW i \in Instance
    PROVE  LET b == IF buckets[i][now] = NoBucket THEN EmptyBucket ELSE buckets[i][now] IN
           /\ Counted(i) \in Bucket /\ b \in Bucket
           /\ Counted(i).dirty /\ Counted(i).generation = b.generation + 1
           /\ Counted(i).count = b.count + 1 /\ Counted(i).live = b.live + 1
<1>1. PICK b \in Bucket : b = IF buckets[i][now] = NoBucket THEN EmptyBucket ELSE buckets[i][now]
  BY NewTypes DEF TypeOK
<1>2. PICK n \in Nat, l \in Nat : n = b.count /\ l = b.live
  BY DEF Bucket
<1>3. PICK c : c = [b EXCEPT !.count = n + 1, !.live = l + 1]
  OBVIOUS
<1>4. c \in Bucket /\ c.count = n + 1 /\ c.live = l + 1 /\ c.generation = b.generation
  <2>1. PICK k \in Nat, j \in Nat : k = n + 1 /\ j = l + 1
    OBVIOUS
  <2>2. c = [b EXCEPT !.count = k, !.live = j]
    BY <1>3, <2>1
  <2> QED
    BY <2>1, <2>2 DEF Bucket
<1>5. Counted(i) = MarkDirty(c)
  BY <1>1, <1>2, <1>3 DEF Counted, Bucket
<1> QED
  BY <1>1, <1>2, <1>4, <1>5, MarkDirtyType

LEMMA BucketTypes ==
    ASSUME TypeOK, CollectorOK, NEW i \in Instance,
           Record(i) \/ Flush(i) \/ Close(i) \/ SaveReturns(i) \/ SaveFails(i) \/ Exit(i) \/ Crash(i) \/ Heartbeat(i)
           \/ Marked(i)
    PROVE  buckets' \in [Instance -> BucketMap]
<1>1. buckets \in [Instance -> BucketMap] /\ buckets[i] \in BucketMap /\ process[i] \in Process /\ now \in Minute
  BY DEF TypeOK, BucketMap
<1>2. \A bs \in BucketMap : [buckets EXCEPT ![i] = bs] \in [Instance -> BucketMap]
  BY <1>1
<1>3. CASE Record(i)
  <2>1. buckets' = [buckets EXCEPT ![i] = [buckets[i] EXCEPT ![now] = Counted(i)]]
    BY <1>3 DEF Record, Counted
  <2>2. [buckets[i] EXCEPT ![now] = Counted(i)] \in BucketMap
    BY <1>1, CountedType DEF BucketMap
  <2> QED
    BY <1>2, <2>1, <2>2
<1>4. CASE Flush(i) \/ Close(i)
  <2>1. \A from : Evict(FillGaps(buckets[i], from, now), now) \in BucketMap
    BY <1>1, MemoryTypes
  <2> QED
    BY <1>2, <1>4, <2>1 DEF Flush, Close, Begin
<1>5. CASE SaveReturns(i)
  <2>1. \A c \in process[i].captured : c.minute \in Minute /\ buckets[i][c.minute] # NoBucket
    BY <1>1 DEF CollectorOK, CollectorOf, Collector, CapturedOK, Process, Captured
  <2>2. Settled(process[i], buckets[i]) \in BucketMap
    BY <1>1, <2>1, MemoryTypes
  <2> QED
    BY <1>2, <1>5, <2>2, MemoryTypes DEF SaveReturns
<1>6. CASE SaveFails(i)
  BY <1>1, <1>2, <1>6, MemoryTypes DEF SaveFails
<1>7. CASE Exit(i) \/ Crash(i)
  BY <1>2, <1>7, NewTypes DEF Exit, Crash, Down
<1>8. CASE Heartbeat(i)
  <2>1. Materialize(buckets[i]) \in BucketMap
    BY <1>1, MemoryTypes
  <2> QED
    BY <1>1, <1>2, <1>8, <2>1, CaptureTypes DEF Heartbeat
<1>9. CASE Marked(i)
  BY <1>1, <1>9, CaptureTypes DEF Marked
<1> QED
  BY <1>3, <1>4, <1>5, <1>6, <1>7, <1>8, <1>9

LEMMA DatabaseTypes ==
    ASSUME TypeOK, NEW i \in Instance, SaveCommits(i)
    PROVE  /\ stored' \in [Instance -> [Minute -> Row \cup {NoRow}]]
           /\ covered' \in [Instance -> Minute]
           /\ pending' \in [Instance -> [Hour -> Nat]]
<1> DEFINE p == process[i]
           minutes == {c.minute : c \in p.captured}
           at(m) == CHOOSE c \in p.captured : c.minute = m
<1>1. p \in Process /\ covered \in [Instance -> Minute]
  BY DEF TypeOK
<1>2. \A m \in minutes : at(m) \in p.captured
  OBVIOUS
<1>3. \A m \in minutes : at(m).row \in Row
  BY <1>1, <1>2 DEF Process, Captured
<1>4. stored \in [Instance -> [Minute -> Row \cup {NoRow}]]
      /\ stored' = [stored EXCEPT ![i] = [m \in Minute |-> IF m \in minutes THEN at(m).row ELSE stored[i][m]]]
  BY DEF SaveCommits, TypeOK
<1>5. stored' \in [Instance -> [Minute -> Row \cup {NoRow}]]
  <2> HIDE DEF at, minutes
  <2>1. [m \in Minute |-> IF m \in minutes THEN at(m).row ELSE stored[i][m]] \in [Minute -> Row \cup {NoRow}]
    BY <1>3, <1>4
  <2> QED
    BY <1>4, <2>1
<1>6. covered' \in [Instance -> Minute]
  BY <1>1, CoveredBounds DEF SaveCommits
<1>7. pending' \in [Instance -> [Hour -> Nat]]
  BY DEF SaveCommits, TypeOK
<1> QED
  BY <1>5, <1>6, <1>7

LEMMA RollupTypes ==
    ASSUME TypeOK, RollupBegin \/ RollupRead \/ RollupSave \/ RollupFails
    PROVE  /\ rollup' \in Rollup
           /\ pending' \in [Instance -> [Hour -> Nat]]
           /\ hours' \in [Instance -> [Hour -> Row \cup {NoRow}]]
<1>1. rollup \in Rollup /\ pending \in [Instance -> [Hour -> Nat]] /\ hours \in [Instance -> [Hour -> Row \cup {NoRow}]]
  BY DEF TypeOK
<1>2. CASE RollupBegin
  <2>1. PICK todo \in SUBSET Pending : rollup' = [NoRollup EXCEPT !.on = TRUE, !.todo = todo]
    BY <1>2 DEF RollupBegin, kSubset
  <2>2. todo \in SUBSET Entry
    BY PendingType
  <2> QED
    BY <1>1, <1>2, <2>1, <2>2, NewTypes DEF Rollup, RollupBegin, database
<1>3. CASE RollupRead
  <2>1. PICK e \in rollup.todo : rollup' = [rollup EXCEPT !.todo = @ \ {e}, !.entry = e, !.row = Sum(StoredOf(e.source, e.hour))]
    BY <1>3 DEF RollupRead
  <2>2. e \in Entry /\ rollup.todo \ {e} \in SUBSET Entry
    BY <1>1 DEF Rollup
  <2>3. Sum(StoredOf(e.source, e.hour)) \in Row
    BY <2>2, SumOfHour DEF Entry
  <2> QED
    BY <1>1, <1>3, <2>1, <2>2, <2>3 DEF Rollup, RollupRead, database
<1>4. CASE RollupSave
  <2>1. PICK e \in Entry : e = rollup.entry
    BY <1>1, <1>4 DEF RollupSave, Rollup
  <2>2. e.source \in Instance /\ e.hour \in Hour
    BY <2>1 DEF Entry
  <2>3. pending' \in [Instance -> [Hour -> Nat]]
    BY <1>1, <1>4, <2>1, <2>2 DEF RollupSave, Without
  <2>4. rollup.row \in Row
    BY <1>1 DEF Rollup
  <2>5. hours' \in [Instance -> [Hour -> Row \cup {NoRow}]]
    BY <1>1, <1>4, <2>1, <2>2, <2>4 DEF RollupSave
  <2>6. [rollup EXCEPT !.entry = NoEntry, !.row = NoRollup.row] \in Rollup
    BY <1>1, NewTypes DEF Rollup
  <2> QED
    BY <1>4, <2>3, <2>5, <2>6, NewTypes DEF RollupSave
<1>5. CASE RollupFails
  BY <1>1, <1>5, NewTypes DEF RollupFails, database
<1> QED
  BY <1>2, <1>3, <1>4, <1>5

LEMMA ReportTypes ==
    ASSUME TypeOK, (\E from \in Minute : ReportBegin(from)) \/ ReportHours \/ ReportMinutes
    PROVE  report' \in Report
<1>0. NoReport \in Report
  BY Numbers DEF NoReport, Report
<1>1. CASE \E from \in Minute : ReportBegin(from)
  <2>1. PICK from \in Minute : ReportBegin(from)
    BY <1>1
  <2>2. now \in Minute
    BY DEF TypeOK
  <2>3. from..(now - 1) \in SUBSET Minute
    BY <2>2, Numbers
  <2>4. StoredIn(from..(now - 1)) \in Nat
    BY <2>3, StoredInIs
  <2>5. {h \in Hour : \E i \in Instance : pending[i][h] # 0} \in SUBSET Hour
    OBVIOUS
  <2> QED
    BY <1>0, <2>1, <2>2, <2>4, <2>5 DEF ReportBegin, Report
<1>2. CASE ReportHours
  <2>1. PICK clean \in SUBSET Hour : clean = CleanHours(report)
    BY DEF CleanHours, WholeHours
  <2>2. PICK n \in Nat : n = SumOf([x \in {x \in Instance \X clean : x[1] \in RolledRows(x[2])} |-> hours[x[1]][x[2]].count])
    BY ReportSum
  <2>3. report' = [report EXCEPT !.pc = "minutes", !.unrolled = {}, !.clean = clean, !.sum = n]
    BY <1>2, <2>1, <2>2 DEF ReportHours
  <2>4. report \in Report
    BY DEF TypeOK
  <2> QED
    BY <2>3, <2>4 DEF Report
<1>3. CASE ReportMinutes
  BY <1>0, <1>3 DEF ReportMinutes
<1> QED
  BY <1>1, <1>2, <1>3

LEMMA TypesKept ==
    ASSUME TypeOK, CollectorOK, [Next]_vars
    PROVE  TypeOK'
<1> USE DEF TypeOK, BucketMap
<1>1. ASSUME NEW i \in Instance, Start(i)
      PROVE  TypeOK'
  BY <1>1, ProcessTypes DEF Start, database, history
<1>2. ASSUME NEW i \in Instance, Record(i)
      PROVE  TypeOK'
  <2>1. recorded' \in [Instance -> [Minute -> Nat]]
    BY <1>2 DEF Record
  <2>2. overtaken' \subseteq Instance \X Minute
    BY <1>2 DEF Record
  <2> QED
    BY <1>2, <2>1, <2>2, BucketTypes DEF Record, database
<1>3. ASSUME NEW i \in Instance, Flush(i) \/ Close(i)
      PROVE  TypeOK'
  <2>1. process' \in [Instance -> Process] /\ buckets' \in [Instance -> BucketMap]
    BY <1>3, ProcessTypes, BucketTypes
  <2> QED
    BY <1>3, <2>1 DEF Flush, Close, database, history
<1>4. ASSUME NEW i \in Instance, Heartbeat(i) \/ Marked(i)
      PROVE  TypeOK'
  <2>1. process' \in [Instance -> Process] /\ buckets' \in [Instance -> BucketMap]
    BY <1>4, ProcessTypes, BucketTypes
  <2>2. covered' \in [Instance -> Minute] /\ faults' \in 0..MaxFaults
    <3>1. buckets[i] \in BucketMap /\ Materialize(buckets[i]) \in BucketMap /\ process[i] \in Process
      BY MemoryTypes
    <3>2. \A p, bs : p \in Process /\ bs \in BucketMap /\ Capture(i, p, bs)
                        => covered' \in [Instance -> Minute] /\ faults' \in 0..MaxFaults
      BY CaptureTypes
    <3> QED
      BY <1>4, <3>1, <3>2 DEF Heartbeat, Marked
  <2> QED
    BY <1>4, <2>1, <2>2 DEF Heartbeat, Marked
<1>5. ASSUME NEW i \in Instance, SaveCommits(i)
      PROVE  TypeOK'
  BY <1>5, ProcessTypes, DatabaseTypes DEF SaveCommits, history
<1>6. ASSUME NEW i \in Instance, SaveReturns(i)
      PROVE  TypeOK'
  BY <1>6, ProcessTypes, BucketTypes DEF SaveReturns, database, history
<1>7. ASSUME NEW i \in Instance, SaveFails(i)
      PROVE  TypeOK'
  <2>1. covered' \in [Instance -> Minute]
    <3>1. process[i].coveredTo \in Minute
      BY DEF Process
    <3> QED
      BY <1>7, <3>1 DEF SaveFails
  <2>2. faults' \in 0..MaxFaults
    BY <1>7, Numbers DEF SaveFails, Fault
  <2> QED
    BY <1>7, <2>1, <2>2, ProcessTypes, BucketTypes DEF SaveFails
<1>8. ASSUME NEW i \in Instance, Exit(i)
      PROVE  TypeOK'
  <2>1. covered' \in [Instance -> Minute]
    <3>1. process[i].coveredTo \in Minute
      BY DEF Process
    <3> QED
      BY <1>8, <3>1 DEF Exit
  <2> QED
    BY <1>8, <2>1, ProcessTypes, BucketTypes DEF Exit, history
<1>9. ASSUME NEW i \in Instance, Crash(i)
      PROVE  TypeOK'
  <2>1. faults' \in 0..MaxFaults
    BY <1>9, Numbers DEF Crash, Fault
  <2> QED
    BY <1>9, <2>1, ProcessTypes, BucketTypes DEF Crash, database
<1>10. CASE RollupBegin \/ RollupRead \/ RollupSave \/ RollupFails
  <2>1. UNCHANGED <<now, process, buckets, stored, covered, report, recorded, overtaken, faults>>
    BY <1>10 DEF RollupBegin, RollupRead, RollupSave, RollupFails, memory, database, history
  <2> QED
    BY <1>10, <2>1, RollupTypes
<1>11. CASE (\E from \in Minute : ReportBegin(from)) \/ ReportHours \/ ReportMinutes
  <2>1. UNCHANGED <<now, process, buckets, stored, covered, pending, hours, rollup, recorded, overtaken, faults>>
    BY <1>11 DEF ReportBegin, ReportHours, ReportMinutes, memory, database, history
  <2> QED
    BY <1>11, <2>1, ReportTypes
<1>12. CASE Tick
  <2>1. now' \in Minute
    BY <1>12, Numbers DEF Tick
  <2> QED
    BY <1>12, <2>1 DEF Tick, memory, database, history
<1>13. CASE UNCHANGED vars
  BY <1>13 DEF vars, memory, database, history
<1> QED
  BY <1>1, <1>2, <1>3, <1>4, <1>5, <1>6, <1>7, <1>8, <1>9, <1>10, <1>11, <1>12, <1>13 DEF Next

-----------------------------------------------------------------------------
(* The collector of one process. *)

Typed(p, bs, n, cov, rec, sto) ==
    /\ p \in Process /\ bs \in BucketMap /\ n \in Minute /\ cov \in Minute
    /\ rec \in [Minute -> Nat] /\ sto \in [Minute -> Row \cup {NoRow}]

LEMMA TypedFacts ==
    ASSUME NEW p, NEW bs, NEW n, NEW cov, NEW rec, NEW sto, Typed(p, bs, n, cov, rec, sto)
    PROVE  /\ n \in Nat /\ cov \in Nat
           /\ p.started \in Nat /\ p.heartbeatAt \in Nat /\ p.coveredTo \in Nat /\ p.at \in Nat
           /\ \A c \in p.captured : /\ c.minute \in Minute /\ c.minute \in Nat /\ c.generation \in Nat
                                    /\ c.row \in Row /\ c.row.count \in Nat /\ c.row.samples \in Nat
           /\ \A m \in Minute : /\ m \in Nat /\ rec[m] \in Nat
                                /\ sto[m] # NoRow => sto[m] \in Row /\ sto[m].count \in Nat /\ sto[m].samples \in Nat
                                /\ Stored(sto, m) \in Nat
                                /\ bs[m] # NoBucket => bs[m] \in Bucket /\ bs[m].generation \in Nat
<1>1. n \in Nat /\ cov \in Nat /\ p.started \in Nat /\ p.heartbeatAt \in Nat /\ p.coveredTo \in Nat /\ p.at \in Nat
  BY Numbers DEF Typed, Process
<1>2. \A c \in p.captured : /\ c.minute \in Minute /\ c.minute \in Nat /\ c.generation \in Nat
                            /\ c.row \in Row /\ c.row.count \in Nat /\ c.row.samples \in Nat
  BY Numbers DEF Typed, Process, Captured, Row
<1>3. \A m \in Minute : m \in Nat /\ rec[m] \in Nat
  BY Numbers DEF Typed
<1>4. \A m \in Minute : sto[m] # NoRow => sto[m] \in Row /\ sto[m].count \in Nat /\ sto[m].samples \in Nat
  BY DEF Typed, Row
<1>5. \A m \in Minute : bs[m] # NoBucket => bs[m] \in Bucket /\ bs[m].generation \in Nat
  BY DEF Typed, BucketMap, Bucket
<1> QED
  BY <1>1, <1>2, <1>3, <1>4, <1>5 DEF Stored

LEMMA MarkedBucket == /\ MarkDirty(EmptyBucket) \in Bucket /\ MarkDirty(EmptyBucket) # NoBucket
                      /\ MarkDirty(EmptyBucket).count = 0 /\ MarkDirty(EmptyBucket).live = 0 /\ MarkDirty(EmptyBucket).dirty
<1>1. MarkDirty(EmptyBucket) \in Bucket
  BY NewTypes, MarkDirtyType
<1>2. EmptyBucket.count = 0 /\ EmptyBucket.live = 0
  BY DEF EmptyBucket
<1> QED
  BY <1>1, <1>2, NewTypes, MarkDirtyType, BucketAssumption

\* Eviction takes a bucket or its sketch only of a minute that is stored in full.
LEMMA EvictKeeps ==
    ASSUME NEW p, NEW bs, NEW n, NEW cov, NEW rec, NEW sto, NEW over, Typed(p, bs, n, cov, rec, sto),
           NEW current \in Nat, current <= p.heartbeatAt, current <= n, MemoryOK(bs, p, n, rec, sto, over)
    PROVE  MemoryOK(Evict(bs, current), p, n, rec, sto, over)
<1> SUFFICES ASSUME NEW m \in Minute
             PROVE  /\ Evict(bs, current)[m] = NoBucket => AbsentOK(m, p, rec, sto)
                    /\ Evict(bs, current)[m] # NoBucket => HeldOK(m, Evict(bs, current)[m], p, n, rec, sto, over)
  BY DEF MemoryOK
<1>1. /\ bs[m] = NoBucket => AbsentOK(m, p, rec, sto)
      /\ bs[m] # NoBucket => HeldOK(m, bs[m], p, n, rec, sto, over)
  BY DEF MemoryOK
<1>2. m \in Nat /\ p.started \in Nat /\ p.heartbeatAt \in Nat /\ n \in Nat
  BY TypedFacts
<1>3. CASE bs[m] = NoBucket \/ bs[m].dirty \/ m >= current
  <2>1. Evict(bs, current)[m] = bs[m]
    BY <1>3 DEF Evict
  <2> QED
    BY <1>1, <2>1
<1>4. CASE bs[m] # NoBucket /\ ~bs[m].dirty /\ ~(m >= current)
  <2>1. bs[m] \in Bucket
    BY <1>4, TypedFacts
  <2>2. HeldOK(m, bs[m], p, n, rec, sto, over)
    BY <1>1, <1>4
  <2>3. CASE m < current - MemoryRetention
    <3>1. Evict(bs, current)[m] = NoBucket
      BY <1>4, <2>3 DEF Evict
    <3>2. p.started <= m /\ Full(m, rec, sto) /\ m < p.heartbeatAt
      BY <1>2, <1>4, <2>2 DEF HeldOK
    <3> QED
      BY <1>2, <3>1, <3>2 DEF AbsentOK
  <2>4. CASE ~(m < current - MemoryRetention)
    <3>1. PICK b : b = [bs[m] EXCEPT !.live = bs[m].samples]
      OBVIOUS
    <3>2. Evict(bs, current)[m] = b
      BY <1>4, <2>4, <3>1 DEF Evict
    <3>3. b \in Bucket /\ b.count = bs[m].count /\ b.dirty = bs[m].dirty
      BY <2>1, <3>1 DEF Bucket
    <3>4. ~(m >= n)
      BY <1>2, <1>4
    <3>5. HeldOK(m, b, p, n, rec, sto, over)
      BY <1>4, <2>2, <3>3, <3>4 DEF HeldOK
    <3> QED
      BY <3>2, <3>3, <3>5, BucketAssumption
  <2> QED
    BY <2>3, <2>4
<1> QED
  BY <1>3, <1>4

\* The minutes that were passed without an event get their bucket.
LEMMA FillKeeps ==
    ASSUME NEW p, NEW bs, NEW n, NEW cov, NEW rec, NEW sto, NEW over, Typed(p, bs, n, cov, rec, sto),
           MemoryOK(bs, p, n, rec, sto, over), p.started <= p.heartbeatAt, p.heartbeatAt <= n,
           NEW q \in Process, q.heartbeatAt = n, q.started = p.started
    PROVE  MemoryOK(FillGaps(bs, p.heartbeatAt, n), q, n, rec, sto, over)
<1> DEFINE f == FillGaps(bs, p.heartbeatAt, n)
<1> SUFFICES ASSUME NEW m \in Minute
             PROVE  /\ f[m] = NoBucket => AbsentOK(m, q, rec, sto)
                    /\ f[m] # NoBucket => HeldOK(m, f[m], q, n, rec, sto, over)
  BY DEF MemoryOK
<1>1. /\ bs[m] = NoBucket => AbsentOK(m, p, rec, sto)
      /\ bs[m] # NoBucket => HeldOK(m, bs[m], p, n, rec, sto, over)
  BY DEF MemoryOK
<1>2. m \in Nat /\ p.started \in Nat /\ p.heartbeatAt \in Nat /\ n \in Nat
  BY TypedFacts
<1>3. CASE m \in p.heartbeatAt..(n - 1) /\ bs[m] = NoBucket
  <2>1. f[m] = MarkDirty(EmptyBucket)
    BY <1>3 DEF FillGaps
  <2>2. rec[m] = 0 /\ p.started <= m
    BY <1>1, <1>2, <1>3 DEF AbsentOK
  <2> QED
    BY <2>1, <2>2, MarkedBucket DEF HeldOK
<1>4. CASE bs[m] # NoBucket
  <2>1. f[m] = bs[m]
    BY <1>4 DEF FillGaps
  <2> QED
    BY <1>1, <1>4, <2>1 DEF HeldOK
<1>5. CASE bs[m] = NoBucket /\ m \notin p.heartbeatAt..(n - 1)
  <2>1. f[m] = NoBucket
    BY <1>5 DEF FillGaps
  <2>2. AbsentOK(m, q, rec, sto)
    BY <1>1, <1>2, <1>5 DEF AbsentOK
  <2> QED
    BY <2>1, <2>2
<1> QED
  BY <1>3, <1>4, <1>5

LEMMA MaterializeKeeps ==
    ASSUME NEW p, NEW bs, NEW n, NEW cov, NEW rec, NEW sto, NEW over, Typed(p, bs, n, cov, rec, sto),
           MemoryOK(bs, p, n, rec, sto, over)
    PROVE  MemoryOK(Materialize(bs), p, n, rec, sto, over) /\ SampledOK(Materialize(bs), rec, over)
<1>1. ASSUME NEW m \in Minute
      PROVE  /\ Materialize(bs)[m] = NoBucket => AbsentOK(m, p, rec, sto)
             /\ Materialize(bs)[m] # NoBucket => /\ HeldOK(m, Materialize(bs)[m], p, n, rec, sto, over)
                                                 /\ Materialize(bs)[m].dirty => Materialize(bs)[m].samples = rec[m]
  <2>1. /\ bs[m] = NoBucket => AbsentOK(m, p, rec, sto)
        /\ bs[m] # NoBucket => HeldOK(m, bs[m], p, n, rec, sto, over)
    BY DEF MemoryOK
  <2>2. CASE bs[m] # NoBucket /\ bs[m].dirty
    <3>1. PICK b : b = [bs[m] EXCEPT !.samples = bs[m].live]
      OBVIOUS
    <3>2. Materialize(bs)[m] = b
      BY <2>2, <3>1 DEF Materialize
    <3>3. bs[m] \in Bucket
      BY <2>2, TypedFacts
    <3>4. b.count = bs[m].count /\ b.live = bs[m].live /\ b.dirty = bs[m].dirty /\ b.samples = bs[m].live
      BY <3>1, <3>3 DEF Bucket
    <3>5. b \in Bucket
      BY <3>1, <3>3 DEF Bucket
    <3> QED
      BY <2>1, <2>2, <3>2, <3>4, <3>5, BucketAssumption DEF HeldOK
  <2>3. CASE bs[m] = NoBucket \/ ~bs[m].dirty
    <3>1. Materialize(bs)[m] = bs[m]
      BY <2>3 DEF Materialize
    <3> QED
      BY <2>1, <2>3, <3>1
  <2> QED
    BY <2>2, <2>3
<1> QED
  BY <1>1 DEF MemoryOK, SampledOK

LEMMA MemorySame ==
    ASSUME NEW p, NEW q, NEW bs, NEW n, NEW rec, NEW sto, NEW over, MemoryOK(bs, p, n, rec, sto, over),
           q.started = p.started, q.heartbeatAt = p.heartbeatAt
    PROVE  MemoryOK(bs, q, n, rec, sto, over)
BY DEF MemoryOK, AbsentOK, HeldOK

LEMMA StartKeeps ==
    ASSUME NEW p, NEW bs, NEW n, NEW cov, NEW rec, NEW sto, NEW over, Typed(p, bs, n, cov, rec, sto),
           Collector(p, bs, n, cov, rec, sto, over), p.status = "new",
           NEW q, q = [NewProcess EXCEPT !.status = "up", !.started = n, !.heartbeatAt = n, !.coveredTo = n]
    PROVE  Collector(q, bs, n, cov, rec, sto, over)
<1>1. /\ q.status = "up" /\ q.started = n /\ q.heartbeatAt = n /\ q.coveredTo = n /\ q.pc = "idle" /\ q.captured = {}
  BY DEF NewProcess
<1>2. bs = NoBuckets /\ cov = 0 /\ \A m \in Minute : rec[m] = 0 /\ sto[m] = NoRow
  BY DEF Collector, ProcessOK, Running
<1>3. n \in Nat
  BY TypedFacts
<1>4. ProcessOK(q, bs, n, cov, rec, sto)
  BY <1>1, <1>2, <1>3 DEF ProcessOK, Running, Writing
<1>5. MemoryOK(bs, q, n, rec, sto, over)
  <2>1. \A m \in Minute : bs[m] = NoBucket
    BY <1>2 DEF NoBuckets
  <2>2. \A m \in Minute : AbsentOK(m, q, rec, sto)
    BY <1>1, <1>2, <1>3, TypedFacts DEF AbsentOK
  <2> QED
    BY <2>1, <2>2 DEF MemoryOK
<1>6. StoredOK(q, cov, rec, sto)
  <2>1. n..(n - 1) = {} /\ n..(cov - 1) = {}
    BY <1>2, <1>3
  <2> QED
    BY <1>1, <1>2, <2>1 DEF StoredOK, Stored
<1> QED
  BY <1>1, <1>4, <1>5, <1>6 DEF Collector, Writing

LEMMA DownKeeps ==
    ASSUME NEW p, NEW bs, NEW n, NEW cov, NEW rec, NEW sto, NEW over, Typed(p, bs, n, cov, rec, sto),
           Collector(p, bs, n, cov, rec, sto, over), Running(p),
           NEW q, q = [NewProcess EXCEPT !.status = "down", !.started = p.started],
           NEW cov2, cov2 = cov \/ cov2 = p.coveredTo
    PROVE  Collector(q, NoBuckets, n, cov2, rec, sto, over)
<1>1. q.status = "down" /\ q.started = p.started /\ q.pc = "idle" /\ q.captured = {}
  BY DEF NewProcess
<1>2. StoredOK(q, cov2, rec, sto)
  BY <1>1 DEF Collector, StoredOK, Running
<1> QED
  BY <1>1, <1>2 DEF Collector, ProcessOK, Running, Writing

\* Time passes.
LEMMA LaterKeeps ==
    ASSUME NEW p, NEW bs, NEW n, NEW cov, NEW rec, NEW sto, NEW over, Typed(p, bs, n, cov, rec, sto),
           Collector(p, bs, n, cov, rec, sto, over)
    PROVE  Collector(p, bs, n + 1, cov, rec, sto, over)
<1>1. n \in Nat /\ p.heartbeatAt \in Nat /\ \A m \in Minute : m \in Nat
  BY TypedFacts
<1>2. ProcessOK(p, bs, n + 1, cov, rec, sto)
  BY <1>1 DEF Collector, ProcessOK
<1>3. Running(p) => MemoryOK(bs, p, n + 1, rec, sto, over)
  BY <1>1 DEF Collector, MemoryOK, HeldOK
<1> QED
  BY <1>2, <1>3 DEF Collector

LEMMA BeginKeeps ==
    ASSUME NEW p, NEW bs, NEW n, NEW cov, NEW rec, NEW sto, NEW over, Typed(p, bs, n, cov, rec, sto),
           Collector(p, bs, n, cov, rec, sto, over), p.status = "up", p.pc = "idle",
           NEW q \in Process, q.status \in {"up", "closing"}, q.pc = "heartbeat", q.at = n, q.heartbeatAt = n,
           q.started = p.started, q.coveredTo = p.coveredTo, q.captured = p.captured
    PROVE  Collector(q, Evict(FillGaps(bs, p.heartbeatAt, n), n), n, cov, rec, sto, over)
<1> DEFINE f == FillGaps(bs, p.heartbeatAt, n)
<1>1. /\ n \in Nat /\ cov \in Nat /\ p.started \in Nat /\ p.heartbeatAt \in Nat /\ p.coveredTo \in Nat
      /\ p.started <= p.heartbeatAt /\ p.heartbeatAt <= n /\ p.coveredTo <= p.heartbeatAt /\ cov <= p.heartbeatAt
      /\ p.captured = {} /\ MemoryOK(bs, p, n, rec, sto, over)
  BY TypedFacts DEF Collector, ProcessOK, Running, Writing
<1>2. MemoryOK(f, q, n, rec, sto, over)
  BY <1>1, FillKeeps
<1>3. Typed(q, f, n, cov, rec, sto)
  BY MemoryTypes DEF Typed
<1>4. MemoryOK(Evict(f, n), q, n, rec, sto, over)
  <2> HIDE DEF f
  <2> QED
    BY <1>1, <1>2, <1>3, EvictKeeps
<1>5. ProcessOK(q, Evict(f, n), n, cov, rec, sto)
  <2> HIDE DEF f
  <2> QED
    BY <1>1 DEF ProcessOK, Running, Writing
<1>6. StoredOK(q, cov, rec, sto)
  BY DEF Collector, StoredOK, Running
<1> QED
  BY <1>1, <1>4, <1>5, <1>6 DEF Collector, Writing

LEMMA MarkKeeps ==
    ASSUME NEW p, NEW bs, NEW n, NEW cov, NEW rec, NEW sto, NEW over, Typed(p, bs, n, cov, rec, sto),
           Collector(p, bs, n, cov, rec, sto, over), p.pc = "heartbeat",
           NEW q, q = [p EXCEPT !.pc = "mark", !.marked = TRUE]
    PROVE  Collector(q, Materialize(bs), n, cov, rec, sto, over)
<1>1. p \in Process
  BY DEF Typed
<1>2. /\ q.pc = "mark" /\ q.status = p.status /\ q.started = p.started /\ q.heartbeatAt = p.heartbeatAt
      /\ q.coveredTo = p.coveredTo /\ q.at = p.at /\ q.captured = p.captured
  BY <1>1 DEF Process
<1>3. Running(p) /\ Running(q) /\ p.captured = {}
  BY <1>2 DEF Collector, ProcessOK, Running, Writing
<1>4. MemoryOK(Materialize(bs), p, n, rec, sto, over) /\ SampledOK(Materialize(bs), rec, over)
  BY <1>3, MaterializeKeeps DEF Collector
<1>5. MemoryOK(Materialize(bs), q, n, rec, sto, over)
  BY <1>2, <1>4, MemorySame
<1>6. ProcessOK(q, Materialize(bs), n, cov, rec, sto)
  BY <1>2, <1>3 DEF Collector, ProcessOK, Running, Writing
<1>7. StoredOK(q, cov, rec, sto)
  BY <1>2 DEF Collector, StoredOK, Running
<1> QED
  BY <1>2, <1>3, <1>4, <1>5, <1>6, <1>7 DEF Collector, Writing

\* An event of this minute. It cannot be one of a minute that is covered, or that a flush found over.
LEMMA RecordKeeps ==
    ASSUME NEW p, NEW bs, NEW n, NEW cov, NEW rec, NEW sto, NEW over, Typed(p, bs, n, cov, rec, sto),
           Collector(p, bs, n, cov, rec, sto, over), Running(p),
           NEW b \in Bucket, b = IF bs[n] = NoBucket THEN EmptyBucket ELSE bs[n],
           NEW b2 \in Bucket, b2.dirty, b2.generation = b.generation + 1, b2.count = b.count + 1, b2.live = b.live + 1,
           NEW over2, over2 = IF p.pc = "mark" THEN over \cup {n} ELSE over
    PROVE  Collector(p, [bs EXCEPT ![n] = b2], n, cov, [rec EXCEPT ![n] = @ + 1], sto, over2)
<1> DEFINE bs2 == [bs EXCEPT ![n] = b2]
           rec2 == [rec EXCEPT ![n] = @ + 1]
<1>1. /\ n \in Nat /\ n \in Minute /\ cov \in Nat /\ p.started \in Nat /\ p.heartbeatAt \in Nat /\ p.coveredTo \in Nat
      /\ p.at \in Nat /\ \A m \in Minute : m \in Nat /\ rec[m] \in Nat /\ Stored(sto, m) \in Nat
  BY TypedFacts DEF Typed
<1>2. /\ p.started <= p.heartbeatAt /\ p.heartbeatAt <= n /\ p.coveredTo <= p.heartbeatAt /\ cov <= p.heartbeatAt
      /\ MemoryOK(bs, p, n, rec, sto, over)
      /\ p.pc \notin {"idle", "exit"} => p.at = p.heartbeatAt
      /\ ~Writing(p) => p.captured = {}
  BY DEF Collector, ProcessOK
<1>3. /\ bs2[n] = b2 /\ b2 # NoBucket /\ \A m \in Minute : m # n => bs2[m] = bs[m]
  BY <1>1, BucketAssumption DEF Typed, BucketMap
<1>4. /\ rec2[n] = rec[n] + 1 /\ \A m \in Minute : m # n => rec2[m] = rec[m]
  BY <1>1 DEF Typed
<1>5. b.count = rec[n] /\ b.live = rec[n]
  <2>1. CASE bs[n] = NoBucket
    <3>1. rec[n] = 0
      BY <1>1, <1>2, <2>1 DEF MemoryOK, AbsentOK
    <3> QED
      BY <2>1, <3>1 DEF EmptyBucket
  <2>2. CASE bs[n] # NoBucket
    <3>1. HeldOK(n, bs[n], p, n, rec, sto, over)
      BY <1>1, <1>2, <2>2 DEF MemoryOK
    <3> QED
      BY <1>1, <2>2, <3>1 DEF HeldOK
  <2> QED
    BY <2>1, <2>2
<1>6. \A m \in Minute : m # n => (m \in over2 <=> m \in over)
  OBVIOUS
<1>7. n \notin over2 => n \notin over
  OBVIOUS
<1> HIDE DEF bs2, rec2
<1>8. ProcessOK(p, bs2, n, cov, rec2, sto)
  <2>1. p.status # "new"
    BY DEF Running
  <2> QED
    BY <1>2, <2>1 DEF ProcessOK, Running
<1>9. MemoryOK(bs2, p, n, rec2, sto, over2)
  <2> SUFFICES ASSUME NEW m \in Minute
               PROVE  /\ bs2[m] = NoBucket => AbsentOK(m, p, rec2, sto)
                      /\ bs2[m] # NoBucket => HeldOK(m, bs2[m], p, n, rec2, sto, over2)
    BY DEF MemoryOK
  <2>1. CASE m = n
    <3>1. HeldOK(n, b2, p, n, rec2, sto, over2)
      BY <1>1, <1>2, <1>4, <1>5 DEF HeldOK
    <3> QED
      BY <1>3, <2>1, <3>1
  <2>2. CASE m # n
    <3>1. rec2[m] = rec[m] /\ bs2[m] = bs[m] /\ (m \in over2 <=> m \in over)
      BY <1>3, <1>4, <1>6, <2>2
    <3> QED
      BY <1>2, <3>1 DEF MemoryOK, AbsentOK, HeldOK, Full
  <2> QED
    BY <2>1, <2>2
<1>10. p.pc = "mark" => SampledOK(bs2, rec2, over2)
  <2> SUFFICES ASSUME p.pc = "mark", NEW m \in Minute, bs2[m] # NoBucket, bs2[m].dirty, m \notin over2
               PROVE  bs2[m].samples = rec2[m]
    BY DEF SampledOK
  <2>1. m # n
    OBVIOUS
  <2> QED
    BY <1>3, <1>4, <1>6, <2>1 DEF Collector, SampledOK
<1>11. Writing(p) => AllCaptured(p, bs2)
  <2> SUFFICES ASSUME Writing(p), NEW m \in Minute, bs2[m] # NoBucket, bs2[m].dirty, m < p.at
               PROVE  \E c \in p.captured : c.minute = m
    BY DEF AllCaptured
  <2>1. p.at <= n
    BY <1>2 DEF Writing
  <2>2. m # n
    BY <1>1, <2>1
  <2> QED
    BY <1>3, <2>2 DEF Collector, AllCaptured
<1>12. ASSUME NEW c \in p.captured
       PROVE  CapturedOK(c, p, bs2, rec2, sto, over2)
  <2>1. CapturedOK(c, p, bs, rec, sto, over)
    BY DEF Collector
  <2>2. c.minute \in Minute /\ c.minute \in Nat /\ c.generation \in Nat /\ c.row.count \in Nat
    BY TypedFacts
  <2>3. CASE c.minute # n
    <3>1. rec2[c.minute] = rec[c.minute] /\ bs2[c.minute] = bs[c.minute] /\ (c.minute \in over2 <=> c.minute \in over)
      BY <1>3, <1>4, <1>6, <2>2, <2>3
    <3> QED
      BY <2>1, <3>1 DEF CapturedOK
  <2>4. CASE c.minute = n
    <3>1. bs[n] # NoBucket /\ b = bs[n]
      BY <2>1, <2>4 DEF CapturedOK
    <3>2. b.generation \in Nat
      BY DEF Bucket
    <3>3. c.generation <= b.generation /\ c.generation # b2.generation /\ c.generation <= b2.generation
      BY <2>1, <2>2, <2>4, <3>1, <3>2 DEF CapturedOK
    <3>4. ~(c.minute < p.at)
      <4>1. Writing(p)
        BY <1>2
      <4> QED
        BY <1>1, <1>2, <2>4, <4>1 DEF Writing
    <3>5. c.row.count <= rec2[n]
      BY <1>1, <1>4, <2>1, <2>2, <2>4 DEF CapturedOK
    <3> QED
      BY <1>3, <2>1, <2>4, <3>3, <3>4, <3>5 DEF CapturedOK
  <2> QED
    BY <2>3, <2>4
<1>13. StoredOK(p, cov, rec2, sto)
  <2>1. StoredOK(p, cov, rec, sto)
    BY DEF Collector
  <2>2. \A m \in Minute : Stored(sto, m) <= rec2[m]
    BY <1>1, <1>4, <2>1 DEF StoredOK
  <2>3. \A m : (m \in p.started..(p.coveredTo - 1) \/ m \in p.started..(cov - 1)) => m \in Minute /\ m # n
    BY <1>1, <1>2, Numbers DEF Minute
  <2> QED
    BY <1>4, <2>1, <2>2, <2>3 DEF StoredOK, Full
<1> QED
  BY <1>8, <1>9, <1>10, <1>11, <1>12, <1>13 DEF Collector, bs2, rec2

\* A capture has everything that the buckets have.
LEMMA TakesKeeps ==
    ASSUME NEW p, NEW bs, NEW n, NEW cov, NEW rec, NEW sto, NEW over, Typed(p, bs, n, cov, rec, sto),
           ProcessOK(p, bs, n, cov, rec, sto), Running(p), p.pc \in {"heartbeat", "mark"}, StoredOK(p, cov, rec, sto),
           MemoryOK(bs, p, n, rec, sto, over), SampledOK(bs, rec, over),
           NEW q \in Process, Takes(p, bs, q)
    PROVE  Collector(q, bs, n, cov, rec, sto, over)
<1> DEFINE dirty == {m \in Minute : bs[m] # NoBucket /\ bs[m].dirty}
           take(m) == [minute |-> m, generation |-> bs[m].generation, row |-> [count |-> bs[m].count, samples |-> bs[m].samples]]
<1>1. /\ q.pc = "save" /\ q.captured = {take(m) : m \in dirty}
      /\ q.status = p.status /\ q.started = p.started /\ q.heartbeatAt = p.heartbeatAt /\ q.coveredTo = p.coveredTo /\ q.at = p.at
  BY DEF Takes, Typed, Process
<1>2. Running(q) /\ Writing(q)
  BY <1>1 DEF Running, Writing
<1>3. ProcessOK(q, bs, n, cov, rec, sto)
  BY <1>1, <1>2 DEF ProcessOK, Running
<1>4. MemoryOK(bs, q, n, rec, sto, over)
  BY <1>1, MemorySame
<1>5. StoredOK(q, cov, rec, sto)
  BY <1>1 DEF StoredOK, Running
<1>6. AllCaptured(q, bs)
  <2> SUFFICES ASSUME NEW m \in Minute, bs[m] # NoBucket, bs[m].dirty
               PROVE  \E c \in q.captured : c.minute = m
    BY DEF AllCaptured
  <2>1. take(m) \in q.captured /\ take(m).minute = m
    BY <1>1
  <2> QED
    BY <2>1
<1>7. ASSUME NEW c \in q.captured
      PROVE  CapturedOK(c, q, bs, rec, sto, over)
  <2>1. PICK m \in dirty : c = take(m)
    BY <1>1
  <2>2. \A d \in q.captured : d.minute = m => d = c
    BY <1>1, <2>1
  <2>3. bs[m] \in Bucket /\ bs[m].generation \in Nat /\ rec[m] \in Nat
    BY TypedFacts
  <2>4. bs[m].count = rec[m] /\ (m \notin over => bs[m].samples = rec[m])
    BY DEF MemoryOK, HeldOK, SampledOK
  <2>5. Stored(sto, m) <= rec[m]
    BY DEF StoredOK
  <2>6. c.minute = m /\ c.generation = bs[m].generation /\ c.row.count = rec[m] /\ c.row.samples = bs[m].samples
    BY <2>1, <2>4
  <2> QED
    BY <1>1, <2>2, <2>3, <2>4, <2>5, <2>6 DEF CapturedOK
<1> QED
  BY <1>1, <1>2, <1>3, <1>4, <1>5, <1>6, <1>7 DEF Collector

\* A flush ends. What it leaves in memory may be evicted.
LEMMA EndKeeps ==
    ASSUME NEW p, NEW bs, NEW n, NEW cov, NEW rec, NEW sto, NEW over, Typed(p, bs, n, cov, rec, sto),
           ProcessOK(p, bs, n, cov, rec, sto), Running(p), p.pc \notin {"idle", "exit"},
           StoredOK(p, cov, rec, sto), MemoryOK(bs, p, n, rec, sto, over),
           NEW cov2 \in Minute, cov2 = cov \/ cov2 = p.coveredTo
    PROVE  Collector(End(p), Evict(bs, p.at), n, cov2, rec, sto, over)
<1>1. /\ n \in Nat /\ cov \in Nat /\ p.heartbeatAt \in Nat /\ p.at \in Nat /\ p.coveredTo \in Nat
  BY TypedFacts
<1>2. PICK q : q = End(p)
  OBVIOUS
<1>3. /\ q.pc \in {"exit", "idle"} /\ q.captured = {}
      /\ q.status = p.status /\ q.started = p.started /\ q.heartbeatAt = p.heartbeatAt /\ q.coveredTo = p.coveredTo
  BY <1>2, EndType DEF Typed
<1>4. p.at = p.heartbeatAt /\ p.heartbeatAt <= n
  BY DEF ProcessOK
<1>5. MemoryOK(Evict(bs, p.at), p, n, rec, sto, over)
  BY <1>1, <1>4, EvictKeeps
<1>6. MemoryOK(Evict(bs, p.at), q, n, rec, sto, over)
  BY <1>3, <1>5, MemorySame
<1>7. ProcessOK(q, Evict(bs, p.at), n, cov2, rec, sto)
  BY <1>3 DEF ProcessOK, Running, Writing
<1>8. StoredOK(q, cov2, rec, sto)
  BY <1>3 DEF StoredOK, Running
<1> QED
  BY <1>2, <1>3, <1>6, <1>7, <1>8 DEF Collector, Writing

\* The minutes that a save covers are stored, or are about to be as they are.
LEMMA CoveredFull ==
    ASSUME NEW p, NEW bs, NEW n, NEW cov, NEW rec, NEW sto, NEW over, Typed(p, bs, n, cov, rec, sto),
           Collector(p, bs, n, cov, rec, sto, over), Writing(p),
           NEW m \in p.started..(NextCovered(p) - 1)
    PROVE  /\ m \in Minute
           /\ \/ /\ Full(m, rec, sto)
                 /\ \A c \in p.captured : c.minute = m => c.row.count = rec[m]
              \/ \E c \in p.captured : c.minute = m /\ c.row.count = rec[m]
<1>1. /\ n \in Nat /\ n \in Minute /\ p.started \in Nat /\ p.heartbeatAt \in Nat /\ p.coveredTo \in Nat /\ p.at \in Nat
  BY TypedFacts DEF Typed
<1>2. /\ Running(p) /\ p.at = p.heartbeatAt /\ p.heartbeatAt <= n /\ p.coveredTo <= p.heartbeatAt
      /\ MemoryOK(bs, p, n, rec, sto, over) /\ AllCaptured(p, bs)
  BY DEF Collector, ProcessOK, Running, Writing
<1>3. NextCovered(p) \in Nat /\ NextCovered(p) <= p.at
  BY <1>1, <1>2, CoveredBounds, Numbers DEF Typed
<1>4. m \in Nat /\ p.started <= m /\ m < p.at
  BY <1>1, <1>3
<1>5. m \in Minute
  BY <1>1, <1>2, <1>4, Numbers DEF Minute
<1>6. \A c \in p.captured : c.minute = m => c.row.count = rec[m]
  BY <1>4 DEF Collector, CapturedOK
<1>7. CASE bs[m] = NoBucket
  <2>1. Full(m, rec, sto)
    BY <1>2, <1>4, <1>5, <1>7 DEF MemoryOK, AbsentOK
  <2> QED
    BY <1>5, <1>6, <2>1
<1>8. CASE bs[m] # NoBucket /\ ~bs[m].dirty
  <2>1. Full(m, rec, sto)
    BY <1>2, <1>5, <1>8 DEF MemoryOK, HeldOK
  <2> QED
    BY <1>5, <1>6, <2>1
<1>9. CASE bs[m] # NoBucket /\ bs[m].dirty
  <2>1. PICK c \in p.captured : c.minute = m
    BY <1>2, <1>4, <1>5, <1>9 DEF AllCaptured
  <2> QED
    BY <1>5, <1>6, <2>1
<1> QED
  BY <1>7, <1>8, <1>9

\* The transaction.
LEMMA CommitKeeps ==
    ASSUME NEW p, NEW bs, NEW n, NEW cov, NEW rec, NEW sto, NEW over, Typed(p, bs, n, cov, rec, sto),
           Collector(p, bs, n, cov, rec, sto, over), p.pc = "save",
           NEW sto2 \in [Minute -> Row \cup {NoRow}],
           \A c \in p.captured : sto2[c.minute] = c.row,
           \A m \in Minute : (\A c \in p.captured : c.minute # m) => sto2[m] = sto[m],
           NEW q, q = [p EXCEPT !.pc = "saved"]
    PROVE  Collector(q, bs, n, NextCovered(p), rec, sto2, over)
<1>1. /\ n \in Nat /\ p.started \in Nat /\ p.heartbeatAt \in Nat /\ p.coveredTo \in Nat /\ p.at \in Nat
  BY TypedFacts
<1>2. /\ Running(p) /\ Writing(p) /\ p.at = p.heartbeatAt /\ p.heartbeatAt <= n /\ p.coveredTo <= p.heartbeatAt
      /\ p.started <= p.heartbeatAt /\ MemoryOK(bs, p, n, rec, sto, over) /\ AllCaptured(p, bs)
  BY DEF Collector, ProcessOK, Running, Writing
<1>3. /\ q.pc = "saved" /\ q.captured = p.captured
      /\ q.status = p.status /\ q.started = p.started /\ q.heartbeatAt = p.heartbeatAt /\ q.coveredTo = p.coveredTo /\ q.at = p.at
  BY DEF Typed, Process
<1>4. Running(q) /\ Writing(q)
  BY <1>2, <1>3 DEF Running, Writing
<1>5. NextCovered(p) \in Nat /\ NextCovered(p) <= p.at
  BY <1>1, <1>2, CoveredBounds, Numbers DEF Typed
<1>6. ASSUME NEW c \in p.captured
      PROVE  /\ c.minute \in Minute /\ bs[c.minute] # NoBucket /\ bs[c.minute].dirty
             /\ sto2[c.minute] = c.row /\ c.row # NoRow /\ Stored(sto2, c.minute) = c.row.count
             /\ c.row.count <= rec[c.minute]
  <2>1. c.minute \in Minute /\ c.row \in Row /\ c.row # NoRow
    BY TypedFacts, RowAssumption
  <2> QED
    BY <2>1 DEF Collector, CapturedOK, Stored
<1>7. \A m \in Minute : sto2[m] = sto[m] \/ \E c \in p.captured : c.minute = m
  OBVIOUS
<1>8. ASSUME NEW m \in Minute, bs[m] = NoBucket \/ ~bs[m].dirty
      PROVE  sto2[m] = sto[m]
  BY <1>6, <1>7, <1>8
<1>9. MemoryOK(bs, q, n, rec, sto2, over)
  <2>1. \A m \in Minute : bs[m] = NoBucket => AbsentOK(m, q, rec, sto2)
    BY <1>2, <1>3, <1>8 DEF MemoryOK, AbsentOK, Full
  <2>2. \A m \in Minute : bs[m] # NoBucket => HeldOK(m, bs[m], q, n, rec, sto2, over)
    BY <1>2, <1>3, <1>8 DEF MemoryOK, HeldOK, Full
  <2> QED
    BY <2>1, <2>2 DEF MemoryOK
<1>10. ProcessOK(q, bs, n, NextCovered(p), rec, sto2)
  BY <1>2, <1>3, <1>4, <1>5 DEF ProcessOK, Running
<1>11. ASSUME NEW c \in q.captured
       PROVE  CapturedOK(c, q, bs, rec, sto2, over)
  <2>1. CapturedOK(c, p, bs, rec, sto, over) /\ c \in p.captured
    BY <1>3 DEF Collector
  <2>2. c.row.count \in Nat /\ c.row.count <= c.row.count
    BY <2>1, TypedFacts
  <2> QED
    BY <1>3, <1>6, <2>1, <2>2 DEF CapturedOK
<1>12. ASSUME NEW m \in Minute, Full(m, rec, sto), \A c \in p.captured : c.minute = m => c.row.count = rec[m]
       PROVE  Full(m, rec, sto2)
  BY <1>6, <1>7, <1>12 DEF Full
<1>13. \A m \in p.started..(NextCovered(p) - 1) : Full(m, rec, sto2)
  <2> SUFFICES ASSUME NEW m \in p.started..(NextCovered(p) - 1)
               PROVE  Full(m, rec, sto2)
    OBVIOUS
  <2>1. m \in Minute
    BY <1>2, CoveredFull
  <2>2. CASE Full(m, rec, sto) /\ \A c \in p.captured : c.minute = m => c.row.count = rec[m]
    BY <1>12, <2>1, <2>2
  <2>3. CASE \E c \in p.captured : c.minute = m /\ c.row.count = rec[m]
    BY <1>6, <2>3 DEF Full
  <2> QED
    BY <1>2, <2>2, <2>3, CoveredFull
<1>14. p.coveredTo <= NextCovered(p)
  BY CoveredBounds DEF Typed
<1>15. StoredOK(q, NextCovered(p), rec, sto2)
  <2>1. \A m \in Minute : Stored(sto2, m) <= rec[m]
    BY <1>6, <1>7 DEF Collector, StoredOK, Stored
  <2>2. \A m \in p.started..(p.coveredTo - 1) : m \in p.started..(NextCovered(p) - 1)
    BY <1>1, <1>5, <1>14
  <2> QED
    BY <1>3, <1>13, <2>1, <2>2 DEF StoredOK
<1> QED
  BY <1>3, <1>4, <1>9, <1>10, <1>11, <1>15, <1>2 DEF Collector, AllCaptured

\* The flush knows that it has saved: what has not changed since it was captured is clean.
LEMMA SettledKeeps ==
    ASSUME NEW p, NEW bs, NEW n, NEW cov, NEW rec, NEW sto, NEW over, Typed(p, bs, n, cov, rec, sto),
           Collector(p, bs, n, cov, rec, sto, over), p.pc = "saved"
    PROVE  MemoryOK(Settled(p, bs), p, n, rec, sto, over) /\ Settled(p, bs) \in BucketMap
<1>1. Running(p) /\ MemoryOK(bs, p, n, rec, sto, over)
  BY DEF Collector, ProcessOK, Running
<1>2. Settled(p, bs) \in BucketMap
  <2>1. \A c \in p.captured : c.minute \in Minute /\ bs[c.minute] # NoBucket
    BY TypedFacts DEF Collector, CapturedOK
  <2> QED
    BY <2>1, MemoryTypes DEF Typed
<1>3. ASSUME NEW m \in Minute
      PROVE  /\ Settled(p, bs)[m] = NoBucket => AbsentOK(m, p, rec, sto)
             /\ Settled(p, bs)[m] # NoBucket => HeldOK(m, Settled(p, bs)[m], p, n, rec, sto, over)
  <2>1. /\ bs[m] = NoBucket => AbsentOK(m, p, rec, sto)
        /\ bs[m] # NoBucket => HeldOK(m, bs[m], p, n, rec, sto, over)
    BY <1>1 DEF MemoryOK
  <2>2. CASE \E c \in p.captured : c.minute = m /\ c.generation = bs[m].generation
    <3>1. PICK c \in p.captured : c.minute = m /\ c.generation = bs[m].generation
      BY <2>2
    <3>2. CapturedOK(c, p, bs, rec, sto, over)
      BY DEF Collector
    <3>3. bs[m] # NoBucket /\ bs[m].dirty /\ bs[m] \in Bucket
      BY <3>1, <3>2, TypedFacts DEF CapturedOK
    <3>4. /\ sto[m] = c.row /\ c.row.count = rec[m] /\ (m \notin over => c.row.samples = rec[m])
      BY <3>1, <3>2 DEF CapturedOK
    <3>5. c.row # NoRow
      BY TypedFacts, RowAssumption
    <3>6. PICK b : b = [bs[m] EXCEPT !.dirty = FALSE]
      OBVIOUS
    <3>7. Settled(p, bs)[m] = b
      BY <2>2, <3>6 DEF Settled
    <3>8. b \in Bucket /\ b.count = bs[m].count /\ b.live = bs[m].live /\ ~b.dirty
      BY <3>3, <3>6 DEF Bucket
    <3>9. HeldOK(m, b, p, n, rec, sto, over)
      BY <2>1, <3>3, <3>4, <3>5, <3>8 DEF HeldOK, Full
    <3> QED
      BY <3>7, <3>8, <3>9, BucketAssumption
  <2>3. CASE ~\E c \in p.captured : c.minute = m /\ c.generation = bs[m].generation
    <3>1. Settled(p, bs)[m] = bs[m]
      BY <2>3 DEF Settled
    <3> QED
      BY <2>1, <3>1
  <2> QED
    BY <2>2, <2>3
<1> QED
  BY <1>2, <1>3 DEF MemoryOK

LEMMA ReturnsKeeps ==
    ASSUME NEW p, NEW bs, NEW n, NEW cov, NEW rec, NEW sto, NEW over, Typed(p, bs, n, cov, rec, sto),
           Collector(p, bs, n, cov, rec, sto, over), p.pc = "saved",
           NEW q, q = [p EXCEPT !.coveredTo = NextCovered(p), !.saved = TRUE]
    PROVE  Collector(End(q), Evict(Settled(p, bs), p.at), n, cov, rec, sto, over)
<1>1. Running(p) /\ Writing(p) /\ p.at = p.heartbeatAt
  BY DEF Collector, ProcessOK, Running, Writing
<1>2. NextCovered(p) \in Minute /\ NextCovered(p) <= p.at
  <2>1. p.coveredTo <= p.heartbeatAt
    BY <1>1 DEF Collector, ProcessOK
  <2> QED
    BY <1>1, <2>1, CoveredBounds DEF Typed
<1>3. /\ q \in Process /\ q.pc = "saved" /\ q.captured = p.captured /\ q.coveredTo = NextCovered(p)
      /\ q.status = p.status /\ q.started = p.started /\ q.heartbeatAt = p.heartbeatAt /\ q.at = p.at
  BY <1>2 DEF Typed, Process
<1>4. MemoryOK(Settled(p, bs), q, n, rec, sto, over) /\ Settled(p, bs) \in BucketMap
  BY <1>3, SettledKeeps, MemorySame
<1>5. ProcessOK(q, Settled(p, bs), n, cov, rec, sto)
  BY <1>1, <1>2, <1>3 DEF Collector, ProcessOK, Running, Writing
<1>6. StoredOK(q, cov, rec, sto)
  <2>1. ASSUME NEW m \in p.started..(NextCovered(p) - 1)
        PROVE  Full(m, rec, sto)
    <3>1. \A c \in p.captured : sto[c.minute] = c.row /\ c.row # NoRow
      BY TypedFacts, RowAssumption DEF Collector, CapturedOK
    <3> QED
      BY <1>1, <3>1, CoveredFull DEF Full
  <2> QED
    BY <1>3, <2>1 DEF Collector, StoredOK
<1>7. Typed(q, Settled(p, bs), n, cov, rec, sto)
  BY <1>3, <1>4 DEF Typed
<1>8. Running(q) /\ q.pc \notin {"idle", "exit"} /\ cov \in Minute
  BY <1>1, <1>3 DEF Running, Typed
<1> QED
  BY <1>3, <1>4, <1>5, <1>6, <1>7, <1>8, EndKeeps

Acts(i) == \/ Start(i) \/ Record(i) \/ Flush(i) \/ Close(i)
           \/ Heartbeat(i) \/ Marked(i) \/ SaveCommits(i) \/ SaveReturns(i) \/ SaveFails(i) \/ Exit(i) \/ Crash(i)

LEMMA TypedNow ==
    ASSUME TypeOK, NEW i \in Instance
    PROVE  Typed(process[i], buckets[i], now, covered[i], recorded[i], stored[i])
BY DEF TypeOK, Typed, BucketMap

\* What a process does leaves the others alone.
LEMMA OthersKeep ==
    ASSUME TypeOK, CollectorOK, NEW i \in Instance, Acts(i), NEW j \in Instance, j # i
    PROVE  CollectorOf(j)'
<1> DEFINE Alone == /\ process'[j] = process[j] /\ buckets'[j] = buckets[j] /\ covered'[j] = covered[j]
                    /\ recorded'[j] = recorded[j] /\ stored'[j] = stored[j] /\ Overtaken(j)' = Overtaken(j) /\ now' = now
<1> SUFFICES Alone
  BY DEF CollectorOK, CollectorOf
<1>1. process[i] \in Process /\ buckets[i] \in BucketMap /\ Materialize(buckets[i]) \in BucketMap
  BY MemoryTypes DEF TypeOK, BucketMap
<1>2. ASSUME UNCHANGED overtaken
      PROVE  Overtaken(j)' = Overtaken(j)
  BY <1>2 DEF Overtaken
<1>3. CASE Start(i) \/ Flush(i) \/ Close(i)
  BY <1>2, <1>3 DEF TypeOK, Start, Flush, Close, Begin, database, history
<1>4. CASE Record(i)
  <2>1. overtaken' = overtaken \/ overtaken' = overtaken \cup {<<i, now>>}
    BY <1>4 DEF Record
  <2>2. Overtaken(j)' = Overtaken(j)
    BY <2>1 DEF Overtaken
  <2> QED
    BY <1>4, <2>2 DEF TypeOK, Record, database
<1>5. CASE SaveCommits(i)
  BY <1>2, <1>5 DEF TypeOK, SaveCommits, history
<1>6. CASE SaveReturns(i) \/ SaveFails(i)
  BY <1>2, <1>6 DEF TypeOK, SaveReturns, SaveFails, database, history
<1>7. CASE Exit(i) \/ Crash(i)
  BY <1>2, <1>7 DEF TypeOK, Exit, Crash, Down, database, history
<1>8. CASE Heartbeat(i) \/ Marked(i)
  <2>1. UNCHANGED <<now, stored, recorded, overtaken>>
    BY <1>8 DEF Heartbeat, Marked
  <2>2. process'[j] = process[j] /\ buckets'[j] = buckets[j] /\ covered'[j] = covered[j]
    <3>1. \A p, bs : p \in Process /\ bs \in BucketMap /\ Capture(i, p, bs)
                       => process'[j] = process[j] /\ buckets'[j] = buckets[j] /\ covered'[j] = covered[j]
      BY CaptureCases DEF TypeOK
    <3>2. Capture(i, process[i], buckets[i]) \/ Capture(i, process[i], Materialize(buckets[i]))
             => process'[j] = process[j] /\ buckets'[j] = buckets[j] /\ covered'[j] = covered[j]
      BY <1>1, <3>1
    <3> QED
      BY <1>8, <3>2 DEF TypeOK, Heartbeat, Marked
  <2> QED
    BY <1>2, <2>1, <2>2
<1> QED
  BY <1>3, <1>4, <1>5, <1>6, <1>7, <1>8 DEF Acts

\* A capture ends the flush or takes what is dirty.
LEMMA CaptureKeeps ==
    ASSUME TypeOK, CollectorOK, NEW i \in Instance, process[i].pc \in {"heartbeat", "mark"},
           NEW bs \in BucketMap, Capture(i, process[i], bs),
           MemoryOK(bs, process[i], now, recorded[i], stored[i], Overtaken(i)), SampledOK(bs, recorded[i], Overtaken(i)),
           UNCHANGED <<now, stored, recorded, overtaken>>
    PROVE  CollectorOf(i)'
<1> DEFINE p == process[i]
<1>1. /\ Typed(p, buckets[i], now, covered[i], recorded[i], stored[i])
      /\ Collector(p, buckets[i], now, covered[i], recorded[i], stored[i], Overtaken(i))
  BY TypedNow DEF CollectorOK, CollectorOf
<1>2. Running(p)
  BY <1>1 DEF Collector, ProcessOK
<1>3. ProcessOK(p, bs, now, covered[i], recorded[i], stored[i]) /\ StoredOK(p, covered[i], recorded[i], stored[i])
  BY <1>1, <1>2 DEF Collector, ProcessOK
<1>4. Typed(p, bs, now, covered[i], recorded[i], stored[i])
  BY <1>1 DEF Typed
<1>5. /\ process \in [Instance -> Process] /\ buckets \in [Instance -> BucketMap] /\ covered \in [Instance -> Minute]
      /\ p \in Process /\ p.coveredTo \in Minute
  BY DEF TypeOK, BucketMap, Process
<1>6. Overtaken(i)' = Overtaken(i)
  BY DEF Overtaken
<1>7. CASE \E q \in Process : /\ Takes(p, bs, q)
                              /\ process' = [process EXCEPT ![i] = q]
                              /\ buckets' = [buckets EXCEPT ![i] = bs]
                              /\ UNCHANGED <<covered, faults>>
  <2>1. PICK q \in Process : /\ Takes(p, bs, q)
                             /\ process' = [process EXCEPT ![i] = q]
                             /\ buckets' = [buckets EXCEPT ![i] = bs]
                             /\ UNCHANGED <<covered, faults>>
    BY <1>7
  <2>2. Collector(q, bs, now, covered[i], recorded[i], stored[i], Overtaken(i))
    BY <1>2, <1>3, <1>4, <2>1, TakesKeeps
  <2>3. process'[i] = q /\ buckets'[i] = bs
    BY <1>5, <2>1
  <2> QED
    BY <1>6, <2>1, <2>2, <2>3 DEF CollectorOf
<1>8. CASE /\ process' = [process EXCEPT ![i] = End(p)]
           /\ buckets' = [buckets EXCEPT ![i] = Evict(bs, p.at)]
           /\ covered' = covered \/ covered' = [covered EXCEPT ![i] = p.coveredTo]
  <2>1. PICK cov2 \in Minute : cov2 = covered'[i] /\ (cov2 = covered[i] \/ cov2 = p.coveredTo)
    BY <1>5, <1>8
  <2>2. Collector(End(p), Evict(bs, p.at), now, cov2, recorded[i], stored[i], Overtaken(i))
    BY <1>2, <1>3, <1>4, <2>1, EndKeeps
  <2>3. process'[i] = End(p) /\ buckets'[i] = Evict(bs, p.at)
    BY <1>5, <1>8
  <2> QED
    BY <1>6, <2>1, <2>2, <2>3 DEF CollectorOf
<1> QED
  BY <1>5, <1>7, <1>8, CaptureCases

LEMMA OwnKeep ==
    ASSUME TypeOK, CollectorOK, NEW i \in Instance, Acts(i)
    PROVE  CollectorOf(i)'
<1> DEFINE p == process[i]
           bs == buckets[i]
           over == Overtaken(i)
<1>1. Typed(p, bs, now, covered[i], recorded[i], stored[i])
  BY TypedNow
<1>2. Collector(p, bs, now, covered[i], recorded[i], stored[i], over)
  BY DEF CollectorOK, CollectorOf
<1>3. /\ process \in [Instance -> Process] /\ buckets \in [Instance -> BucketMap] /\ covered \in [Instance -> Minute]
      /\ p \in Process /\ bs \in BucketMap /\ p.coveredTo \in Minute /\ now \in Minute
      /\ recorded \in [Instance -> [Minute -> Nat]] /\ stored \in [Instance -> [Minute -> Row \cup {NoRow}]]
  BY DEF TypeOK, BucketMap, Process
<1>4. ASSUME UNCHANGED overtaken
      PROVE  Overtaken(i)' = over
  BY <1>4 DEF Overtaken
<1>5. p.pc # "idle" => Running(p)
  BY <1>2 DEF Collector, ProcessOK
<1> HIDE DEF p, bs, over
<1>6. CASE Start(i)
  <2>1. PICK q : q = [NewProcess EXCEPT !.status = "up", !.started = now, !.heartbeatAt = now, !.coveredTo = now]
    OBVIOUS
  <2>2. p.status = "new" /\ process' = [process EXCEPT ![i] = q]
    BY <1>6, <2>1 DEF Start, p
  <2>3. Collector(q, bs, now, covered[i], recorded[i], stored[i], over)
    BY <1>1, <1>2, <2>1, <2>2, StartKeeps
  <2>4. process'[i] = q /\ buckets'[i] = bs /\ Overtaken(i)' = over /\ UNCHANGED <<now, covered, recorded, stored>>
    BY <1>3, <1>4, <1>6, <2>2 DEF Start, database, history, bs
  <2> QED
    BY <2>3, <2>4 DEF CollectorOf
<1>7. CASE Record(i)
  <2>1. PICK b \in Bucket : b = IF bs[now] = NoBucket THEN EmptyBucket ELSE bs[now]
    BY CountedType DEF bs
  <2>2. PICK b2 \in Bucket : b2 = Counted(i)
    BY CountedType
  <2>3. b2.dirty /\ b2.generation = b.generation + 1 /\ b2.count = b.count + 1 /\ b2.live = b.live + 1
    BY <2>1, <2>2, CountedType DEF bs
  <2>4. Running(p)
    BY <1>7 DEF Record, Running, p
  <2>5. PICK over2 : over2 = IF p.pc = "mark" THEN over \cup {now} ELSE over
    OBVIOUS
  <2>6. Collector(p, [bs EXCEPT ![now] = b2], now, covered[i], [recorded[i] EXCEPT ![now] = @ + 1], stored[i], over2)
    BY <1>1, <1>2, <2>1, <2>3, <2>4, <2>5, RecordKeeps
  <2>7. buckets' = [buckets EXCEPT ![i] = [buckets[i] EXCEPT ![now] = Counted(i)]]
    BY <1>7 DEF Record, Counted
  <2>8. buckets'[i] = [bs EXCEPT ![now] = b2]
    BY <1>3, <2>2, <2>7 DEF bs
  <2>9. recorded'[i] = [recorded[i] EXCEPT ![now] = @ + 1]
    BY <1>3, <1>7 DEF Record
  <2>10. Overtaken(i)' = over2
    BY <1>3, <1>7, <2>5 DEF Record, Overtaken, over, p
  <2>11. process'[i] = p /\ UNCHANGED <<now, covered, stored>>
    BY <1>7 DEF Record, database, p
  <2> QED
    BY <2>6, <2>8, <2>9, <2>10, <2>11 DEF CollectorOf
<1>8. ASSUME NEW r \in Process, r.status \in {"up", "closing"}, r.started = p.started, r.heartbeatAt = p.heartbeatAt,
             r.coveredTo = p.coveredTo, r.captured = p.captured, p.status = "up", p.pc = "idle", Begin(i, now, r),
             UNCHANGED <<now, covered, recorded, stored, overtaken>>
      PROVE  CollectorOf(i)'
  <2>1. p.heartbeatAt <= now
    BY <1>2, <1>8 DEF Collector, ProcessOK, Running
  <2>2. PICK q \in Process : /\ process' = [process EXCEPT ![i] = q]
                             /\ q.pc = "heartbeat" /\ q.at = now /\ q.heartbeatAt = now
                             /\ q.status = r.status /\ q.started = r.started /\ q.coveredTo = r.coveredTo
                             /\ q.captured = r.captured
    BY <1>8, <2>1, BeginCases
  <2>3. q.status \in {"up", "closing"} /\ q.started = p.started /\ q.coveredTo = p.coveredTo /\ q.captured = p.captured
    BY <1>8, <2>2
  <2>4. Collector(q, Evict(FillGaps(bs, p.heartbeatAt, now), now), now, covered[i], recorded[i], stored[i], over)
    BY <1>1, <1>2, <1>8, <2>2, <2>3, BeginKeeps
  <2>5. buckets'[i] = Evict(FillGaps(bs, p.heartbeatAt, now), now)
    BY <1>3, <1>8 DEF Begin, bs
  <2>6. process'[i] = q /\ Overtaken(i)' = over
    BY <1>3, <1>4, <1>8, <2>2
  <2> QED
    BY <1>8, <2>4, <2>5, <2>6 DEF CollectorOf
<1>9. CASE Flush(i)
  BY <1>3, <1>8, <1>9 DEF Flush, database, history, p
<1>10. CASE Close(i)
  <2>1. PICK r : r = [p EXCEPT !.status = "closing"]
    OBVIOUS
  <2>2. /\ r \in Process /\ r.status = "closing" /\ r.started = p.started /\ r.heartbeatAt = p.heartbeatAt
        /\ r.coveredTo = p.coveredTo /\ r.captured = p.captured
    BY <1>3, <2>1 DEF Process
  <2>3. p.status = "up" /\ p.pc = "idle" /\ Begin(i, now, r) /\ UNCHANGED <<now, covered, recorded, stored, overtaken>>
    BY <1>10, <2>1 DEF Close, database, history, p
  <2> QED
    BY <1>8, <2>2, <2>3
<1>11. CASE Heartbeat(i)
  <2>1. p.pc = "heartbeat" /\ UNCHANGED <<now, stored, recorded, overtaken>>
    BY <1>11 DEF Heartbeat, p
  <2>2. Materialize(bs) \in BucketMap /\ MemoryOK(Materialize(bs), p, now, recorded[i], stored[i], over)
        /\ SampledOK(Materialize(bs), recorded[i], over)
    BY <1>1, <1>2, <1>3, <1>5, <2>1, MaterializeKeeps, MemoryTypes DEF Collector
  <2>3. CASE Capture(i, p, Materialize(bs))
    BY <2>1, <2>2, <2>3, CaptureKeeps DEF p, bs, over
  <2>4. CASE /\ process' = [process EXCEPT ![i] = [p EXCEPT !.pc = "mark", !.marked = TRUE]]
             /\ buckets' = [buckets EXCEPT ![i] = Materialize(bs)] /\ UNCHANGED covered
    <3>1. PICK q : q = [p EXCEPT !.pc = "mark", !.marked = TRUE]
      OBVIOUS
    <3>2. Collector(q, Materialize(bs), now, covered[i], recorded[i], stored[i], over)
      BY <1>1, <1>2, <2>1, <3>1, MarkKeeps
    <3>3. process'[i] = q /\ buckets'[i] = Materialize(bs) /\ Overtaken(i)' = over
      BY <1>3, <1>4, <2>1, <2>4, <3>1
    <3> QED
      BY <2>1, <2>4, <3>2, <3>3 DEF CollectorOf
  <2> QED
    BY <1>11, <2>3, <2>4 DEF Heartbeat, p, bs
<1>12. CASE Marked(i)
  <2>1. p.pc = "mark" /\ Capture(i, p, bs) /\ UNCHANGED <<now, stored, recorded, overtaken>>
    BY <1>12 DEF Marked, p, bs
  <2>2. MemoryOK(bs, p, now, recorded[i], stored[i], over) /\ SampledOK(bs, recorded[i], over)
    BY <1>2, <1>5, <2>1 DEF Collector
  <2> QED
    BY <1>3, <2>1, <2>2, CaptureKeeps DEF p, bs, over
<1>13. CASE SaveCommits(i)
  <2> DEFINE minutes == {c.minute : c \in p.captured}
             at(m) == CHOOSE c \in p.captured : c.minute = m
             row(m) == IF m \in minutes THEN at(m).row ELSE stored[i][m]
  <2>1. /\ p.pc = "save" /\ UNCHANGED <<now, buckets, recorded, overtaken>>
        /\ stored' = [stored EXCEPT ![i] = [m \in Minute |-> row(m)]]
        /\ covered' = [covered EXCEPT ![i] = NextCovered(p)]
        /\ process' = [process EXCEPT ![i] = [p EXCEPT !.pc = "saved"]]
    BY <1>13 DEF SaveCommits, history, p
  <2>2. PICK sto : sto = stored'[i]
    OBVIOUS
  <2>3. sto \in [Minute -> Row \cup {NoRow}]
    BY <1>13, <2>2, DatabaseTypes
  <2>4. \A m \in Minute : sto[m] = row(m)
    BY <1>3, <2>1, <2>2
  <2>5. ASSUME NEW c \in p.captured
        PROVE  sto[c.minute] = c.row
    <3>1. c.minute \in Minute /\ c.minute \in minutes
      BY <1>1, TypedFacts
    <3>2. at(c.minute) \in p.captured /\ at(c.minute).minute = c.minute
      OBVIOUS
    <3>3. at(c.minute) = c
      BY <1>2, <3>2 DEF Collector, CapturedOK
    <3> HIDE DEF at
    <3> QED
      BY <2>4, <3>1, <3>3
  <2>6. \A m \in Minute : (\A c \in p.captured : c.minute # m) => sto[m] = stored[i][m]
    BY <2>4
  <2>7. PICK q : q = [p EXCEPT !.pc = "saved"]
    OBVIOUS
  <2> HIDE DEF row
  <2>8. Collector(q, bs, now, NextCovered(p), recorded[i], sto, over)
    BY <1>1, <1>2, <2>1, <2>3, <2>5, <2>6, <2>7, CommitKeeps
  <2>9. process'[i] = q /\ covered'[i] = NextCovered(p) /\ buckets'[i] = bs /\ Overtaken(i)' = over
    BY <1>3, <1>4, <2>1, <2>7 DEF bs
  <2> QED
    BY <2>1, <2>2, <2>8, <2>9 DEF CollectorOf
<1>14. CASE SaveReturns(i)
  <2>1. PICK q : q = [p EXCEPT !.coveredTo = NextCovered(p), !.saved = TRUE]
    OBVIOUS
  <2>2. /\ p.pc = "saved" /\ UNCHANGED <<now, stored, covered, recorded, overtaken>>
        /\ process' = [process EXCEPT ![i] = End(q)]
        /\ buckets' = [buckets EXCEPT ![i] = Evict(Settled(p, bs), p.at)]
    BY <1>14, <2>1 DEF SaveReturns, database, history, p, bs
  <2>3. Collector(End(q), Evict(Settled(p, bs), p.at), now, covered[i], recorded[i], stored[i], over)
    BY <1>1, <1>2, <2>1, <2>2, ReturnsKeeps
  <2>4. process'[i] = End(q) /\ buckets'[i] = Evict(Settled(p, bs), p.at) /\ Overtaken(i)' = over
    BY <1>3, <1>4, <2>2
  <2> QED
    BY <2>2, <2>3, <2>4 DEF CollectorOf
<1>15. CASE SaveFails(i)
  <2>1. /\ p.pc \in {"save", "saved"} /\ UNCHANGED <<now, stored, recorded, overtaken>>
        /\ process' = [process EXCEPT ![i] = End(p)]
        /\ buckets' = [buckets EXCEPT ![i] = Evict(bs, p.at)]
        /\ covered' = covered \/ covered' = [covered EXCEPT ![i] = p.coveredTo]
    BY <1>15 DEF SaveFails, p, bs
  <2>2. PICK cov2 \in Minute : cov2 = covered'[i] /\ (cov2 = covered[i] \/ cov2 = p.coveredTo)
    BY <1>3, <2>1
  <2>3. /\ ProcessOK(p, bs, now, covered[i], recorded[i], stored[i]) /\ Running(p)
        /\ StoredOK(p, covered[i], recorded[i], stored[i]) /\ MemoryOK(bs, p, now, recorded[i], stored[i], over)
    BY <1>2, <1>5, <2>1 DEF Collector
  <2>4. Collector(End(p), Evict(bs, p.at), now, cov2, recorded[i], stored[i], over)
    BY <1>1, <2>1, <2>2, <2>3, EndKeeps
  <2>5. process'[i] = End(p) /\ buckets'[i] = Evict(bs, p.at) /\ Overtaken(i)' = over
    BY <1>3, <1>4, <2>1
  <2> QED
    BY <2>1, <2>2, <2>4, <2>5 DEF CollectorOf
<1>16. CASE Exit(i) \/ Crash(i)
  <2>1. PICK q : q = [NewProcess EXCEPT !.status = "down", !.started = p.started]
    OBVIOUS
  <2>2. /\ Running(p) /\ UNCHANGED <<now, stored, recorded, overtaken>>
        /\ process' = [process EXCEPT ![i] = q] /\ buckets' = [buckets EXCEPT ![i] = NoBuckets]
        /\ covered' = covered \/ covered' = [covered EXCEPT ![i] = p.coveredTo]
    BY <1>5, <1>16, <2>1 DEF Exit, Crash, Down, Running, database, history, p
  <2>3. PICK cov2 : cov2 = covered'[i] /\ (cov2 = covered[i] \/ cov2 = p.coveredTo)
    BY <1>3, <2>2
  <2>4. Collector(q, NoBuckets, now, cov2, recorded[i], stored[i], over)
    BY <1>1, <1>2, <2>1, <2>2, <2>3, DownKeeps
  <2>5. process'[i] = q /\ buckets'[i] = NoBuckets /\ Overtaken(i)' = over
    BY <1>3, <1>4, <2>2
  <2> QED
    BY <2>2, <2>3, <2>4, <2>5 DEF CollectorOf
<1> QED
  BY <1>6, <1>7, <1>9, <1>10, <1>11, <1>12, <1>13, <1>14, <1>15, <1>16 DEF Acts

LEMMA CollectorKept ==
    ASSUME TypeOK, CollectorOK, [Next]_vars
    PROVE  CollectorOK'
<1>1. ASSUME NEW i \in Instance, Acts(i)
      PROVE  CollectorOK'
  <2>1. \A j \in Instance : CollectorOf(j)'
    BY <1>1, OthersKeep, OwnKeep
  <2> QED
    BY <2>1 DEF CollectorOK
<1>2. ASSUME UNCHANGED <<process, buckets, covered, recorded, stored, overtaken>>, now' = now \/ now' = now + 1
      PROVE  CollectorOK'
  <2> SUFFICES ASSUME NEW i \in Instance
               PROVE  CollectorOf(i)'
    BY DEF CollectorOK
  <2>1. Collector(process[i], buckets[i], now, covered[i], recorded[i], stored[i], Overtaken(i))
    BY DEF CollectorOK, CollectorOf
  <2>2. Collector(process[i], buckets[i], now', covered[i], recorded[i], stored[i], Overtaken(i))
    BY <1>2, <2>1, TypedNow, LaterKeeps
  <2>3. Overtaken(i)' = Overtaken(i)
    BY <1>2 DEF Overtaken
  <2> QED
    BY <1>2, <2>2, <2>3 DEF CollectorOf
<1>3. CASE \/ RollupBegin \/ RollupRead \/ RollupSave \/ RollupFails
           \/ (\E from \in Minute : ReportBegin(from)) \/ ReportHours \/ ReportMinutes \/ Tick \/ UNCHANGED vars
  <2>1. UNCHANGED <<process, buckets, covered, recorded, stored, overtaken>> /\ (now' = now \/ now' = now + 1)
    BY <1>3 DEF RollupBegin, RollupRead, RollupSave, RollupFails, ReportBegin, ReportHours, ReportMinutes, Tick, vars,
                memory, database, history
  <2> QED
    BY <1>2, <2>1
<1> QED
  BY <1>1, <1>3 DEF Next, Acts

-----------------------------------------------------------------------------
(* The rows, and the rollup. *)

LEMMA NextCases ==
    ASSUME [Next]_vars
    PROVE  \/ \E i \in Instance : SaveCommits(i)
           \/ RollupBegin \/ RollupRead \/ RollupSave \/ RollupFails
           \/ (\E from \in Minute : ReportBegin(from)) \/ ReportHours \/ ReportMinutes
           \/ UNCHANGED <<stored, pending, hours, rollup, report>>
<1>1. ASSUME NEW i \in Instance, Start(i) \/ Record(i) \/ Flush(i) \/ Close(i) \/ SaveReturns(i) \/ Crash(i)
      PROVE  UNCHANGED <<stored, pending, hours, rollup, report>>
  BY <1>1 DEF Start, Record, Flush, Close, SaveReturns, Crash, database
<1>2. ASSUME NEW i \in Instance, Heartbeat(i) \/ Marked(i) \/ SaveFails(i) \/ Exit(i)
      PROVE  UNCHANGED <<stored, pending, hours, rollup, report>>
  BY <1>2 DEF Heartbeat, Marked, SaveFails, Exit
<1>3. Tick \/ UNCHANGED vars => UNCHANGED <<stored, pending, hours, rollup, report>>
  BY DEF Tick, vars, database
<1> QED
  BY <1>1, <1>2, <1>3 DEF Next

\* A save only adds to the rows, and marks the hours whose rows it changes.
LEMMA CommitFacts ==
    ASSUME TypeOK, CollectorOK, NEW i \in Instance, SaveCommits(i)
    PROVE  /\ \A j \in Instance, m \in Minute : Count(j, m) <= Count(j, m)'
           /\ \A j \in Instance, h \in Hour : \/ pending'[j][h] = pending[j][h] /\ StoredOf(j, h)' = StoredOf(j, h)
                                              \/ pending'[j][h] = pending[j][h] + 1
           /\ UNCHANGED <<hours, rollup, report>>
<1> DEFINE p == process[i]
           minutes == {c.minute : c \in p.captured}
           at(m) == CHOOSE c \in p.captured : c.minute = m
<1>1. /\ UNCHANGED <<hours, rollup, report>>
      /\ stored' = [stored EXCEPT ![i] = [m \in Minute |-> IF m \in minutes THEN at(m).row ELSE stored[i][m]]]
      /\ pending' = [pending EXCEPT ![i] = [h \in Hour |-> IF \E m \in minutes : HourOf(m) = h THEN pending[i][h] + 1
                                                                                             ELSE pending[i][h]]]
      /\ stored \in [Instance -> [Minute -> Row \cup {NoRow}]]
      /\ pending \in [Instance -> [Hour -> Nat]]
  BY DEF SaveCommits, TypeOK
<1>2. ASSUME NEW m \in minutes
      PROVE  at(m).row # NoRow /\ Count(i, m) <= at(m).row.count
  <2>1. at(m) \in p.captured /\ at(m).minute = m
    OBVIOUS
  <2>2. at(m).row \in Row
    BY <2>1, TypedNow, TypedFacts
  <2>3. Stored(stored[i], m) <= at(m).row.count
    <3> HIDE DEF at
    <3> QED
      BY <2>1 DEF CollectorOK, CollectorOf, Collector, CapturedOK
  <2> QED
    BY <2>2, <2>3, RowAssumption DEF Stored, Count
<1> HIDE DEF at, minutes
<1>3. ASSUME NEW j \in Instance, NEW m \in Minute
      PROVE  /\ j # i \/ m \notin minutes => stored'[j][m] = stored[j][m]
             /\ j = i /\ m \in minutes => stored'[j][m] = at(m).row
  BY <1>1
<1>4. ASSUME NEW j \in Instance, NEW m \in Minute
      PROVE  Count(j, m) <= Count(j, m)'
  <2>1. Count(j, m) \in Nat
    BY RowFacts
  <2>2. CASE j # i \/ m \notin minutes
    BY <1>3, <2>1, <2>2 DEF Count
  <2>3. CASE j = i /\ m \in minutes
    BY <1>2, <1>3, <2>3 DEF Count
  <2> QED
    BY <2>2, <2>3
<1>5. ASSUME NEW j \in Instance, NEW h \in Hour
      PROVE  \/ pending'[j][h] = pending[j][h] /\ StoredOf(j, h)' = StoredOf(j, h)
             \/ pending'[j][h] = pending[j][h] + 1
  <2>1. CASE j = i /\ \E m \in minutes : HourOf(m) = h
    BY <1>1, <2>1
  <2>2. CASE j # i \/ \A m \in minutes : HourOf(m) # h
    <3>1. pending'[j][h] = pending[j][h]
      BY <1>1, <2>2
    <3>2. \A m \in Minute : HourOf(m) = h => stored'[j][m] = stored[j][m]
      BY <1>3, <2>2
    <3>3. StoredOf(j, h)' = StoredOf(j, h)
      BY <3>2 DEF StoredOf
    <3> QED
      BY <3>1, <3>3
  <2> QED
    BY <2>1, <2>2
<1> QED
  BY <1>1, <1>4, <1>5

RollupInv == RollupOK /\ RolledIsExact

LEMMA RollupFacts ==
    ASSUME TypeOK, RollupOK
    PROVE  /\ \A e \in rollup.todo : e \in Entry /\ e.source \in Instance /\ e.hour \in Hour /\ e.generation \in Nat /\ e # NoEntry
           /\ rollup.entry # NoEntry => LET e == rollup.entry IN
                 /\ e \in Entry /\ e.source \in Instance /\ e.hour \in Hour /\ e.generation \in Nat
                 /\ 0 < e.generation /\ e.generation <= pending[e.source][e.hour]
           /\ rollup.row \in Row
           /\ \A i \in Instance, h \in Hour : pending[i][h] \in Nat
<1>1. rollup.todo \subseteq Entry /\ (rollup.entry # NoEntry => rollup.entry \in Entry) /\ rollup.row \in Row
  BY DEF TypeOK, Rollup
<1>2. \A e \in Entry : e.source \in Instance /\ e.hour \in Hour /\ e.generation \in Nat /\ e # NoEntry
  BY EntryAssumption DEF Entry
<1>3. rollup.entry # NoEntry => /\ 0 < rollup.entry.generation
                                /\ rollup.entry.generation <= pending[rollup.entry.source][rollup.entry.hour]
  BY DEF RollupOK, InHand
<1> QED
  BY <1>1, <1>2, <1>3 DEF TypeOK

LEMMA RollupKept ==
    ASSUME TypeOK, CollectorOK, RollupInv, [Next]_vars
    PROVE  RollupInv'
<1> USE DEF RollupInv
<1>1. ASSUME NEW i \in Instance, SaveCommits(i)
      PROVE  RollupInv'
  <2>1. \A j \in Instance, h \in Hour : \/ pending'[j][h] = pending[j][h] /\ StoredOf(j, h)' = StoredOf(j, h)
                                        \/ pending'[j][h] = pending[j][h] + 1
    BY <1>1, CommitFacts
  <2>2. UNCHANGED <<hours, rollup>>
    BY <1>1, CommitFacts
  <2>3. InHand' = InHand
    BY <2>2 DEF InHand
  <2>4. ASSUME NEW e \in InHand
        PROVE  e.source \in Instance /\ e.hour \in Hour /\ e.generation \in Nat /\ pending[e.source][e.hour] \in Nat
    BY RollupFacts DEF InHand
  <2>5. RolledIsExact'
    <3> SUFFICES ASSUME NEW j \in Instance, NEW h \in Hour, pending'[j][h] = 0, StoredOf(j, h)' # {}
                 PROVE  hours'[j][h] = Sum(StoredOf(j, h)')
      BY DEF RolledIsExact
    <3>1. pending[j][h] \in Nat
      BY RollupFacts
    <3>2. pending[j][h] = 0 /\ StoredOf(j, h)' = StoredOf(j, h)
      BY <2>1, <3>1
    <3> QED
      BY <2>2, <3>2 DEF RolledIsExact
  <2>6. \A e \in InHand : 0 < e.generation /\ e.generation <= pending'[e.source][e.hour]
    BY <2>1, <2>4 DEF RollupOK
  <2>7. ASSUME NEW e, e = rollup.entry, e # NoEntry, pending'[e.source][e.hour] = e.generation
        PROVE  rollup.row = Sum(StoredOf(e.source, e.hour)')
    <3>1. /\ e.source \in Instance /\ e.hour \in Hour /\ e.generation \in Nat /\ pending[e.source][e.hour] \in Nat
          /\ e.generation <= pending[e.source][e.hour]
      BY <2>7, RollupFacts
    <3>2. pending[e.source][e.hour] = e.generation /\ StoredOf(e.source, e.hour)' = StoredOf(e.source, e.hour)
      BY <2>1, <2>7, <3>1
    <3> QED
      BY <2>7, <3>2 DEF RollupOK
  <2>8. RollupOK'
    <3>1. PICK e : e = rollup.entry
      OBVIOUS
    <3>2. rollup'.entry = e /\ rollup' = rollup
      BY <2>2, <3>1
    <3>3. e # NoEntry /\ pending'[e.source][e.hour] = e.generation => rollup.row = Sum(StoredOf(e.source, e.hour)')
      BY <2>7, <3>1
    <3> QED
      BY <2>3, <2>6, <3>1, <3>2, <3>3 DEF RollupOK, StoredOf
  <2> QED
    BY <2>5, <2>8
<1>2. CASE RollupBegin
  <2>1. PICK todo \in SUBSET Pending : rollup' = [NoRollup EXCEPT !.on = TRUE, !.todo = todo]
    BY <1>2 DEF RollupBegin, kSubset
  <2>2. rollup'.todo = todo /\ rollup'.entry = NoEntry /\ UNCHANGED <<stored, pending, hours>>
    BY <1>2, <2>1 DEF NoRollup, RollupBegin, database
  <2>3. InHand' = todo
    BY <2>2 DEF InHand
  <2>4. NoEntry \notin todo
    BY PendingType, EntryAssumption
  <2>5. \A e, f \in todo : e.source = f.source /\ e.hour = f.hour => e = f
    <3> SUFFICES ASSUME NEW e \in todo, NEW f \in todo, e.source = f.source, e.hour = f.hour
                 PROVE  e = f
      OBVIOUS
    <3>1. e.generation = f.generation /\ e \in Entry /\ f \in Entry
      BY PendingType
    <3> QED
      BY <3>1 DEF Entry
  <2>6. \A e \in todo : 0 < e.generation /\ e.generation <= pending[e.source][e.hour]
    <3> SUFFICES ASSUME NEW e \in todo
                 PROVE  0 < e.generation /\ e.generation <= pending[e.source][e.hour]
      OBVIOUS
    <3>1. 0 < e.generation /\ e.generation \in Nat /\ e.generation = pending[e.source][e.hour]
      BY PendingType DEF Entry
    <3> QED
      BY <3>1
  <2>7. rollup'.on
    BY <2>1 DEF NoRollup
  <2>8. RollupOK'
    BY <2>2, <2>3, <2>4, <2>5, <2>6, <2>7 DEF RollupOK
  <2>9. RolledIsExact'
    BY <2>2 DEF RolledIsExact, StoredOf
  <2> QED
    BY <2>8, <2>9
<1>3. CASE RollupRead
  <2>1. PICK e \in rollup.todo : rollup' = [rollup EXCEPT !.todo = @ \ {e}, !.entry = e, !.row = Sum(StoredOf(e.source, e.hour))]
    BY <1>3 DEF RollupRead
  <2>2. rollup.entry = NoEntry /\ UNCHANGED <<stored, pending, hours>>
    BY <1>3 DEF RollupRead, database
  <2>3. rollup \in Rollup
    BY DEF TypeOK
  <2>4. /\ rollup'.todo = rollup.todo \ {e} /\ rollup'.entry = e /\ rollup'.row = Sum(StoredOf(e.source, e.hour))
        /\ rollup'.on = rollup.on
    BY <2>1, <2>3 DEF Rollup
  <2>5. e # NoEntry /\ InHand = rollup.todo /\ NoEntry \notin rollup.todo
    BY <2>2, RollupFacts DEF InHand
  <2>6. InHand' = InHand
    BY <2>4, <2>5 DEF InHand
  <2>7. StoredOf(e.source, e.hour)' = StoredOf(e.source, e.hour)
    BY <2>2 DEF StoredOf
  <2>8. RollupOK'
    BY <2>2, <2>4, <2>5, <2>6, <2>7 DEF RollupOK
  <2>9. RolledIsExact'
    BY <2>2 DEF RolledIsExact, StoredOf
  <2> QED
    BY <2>8, <2>9
<1>4. CASE RollupSave
  <2>1. PICK e : e = rollup.entry
    OBVIOUS
  <2>2. /\ e # NoEntry
        /\ hours' = [hours EXCEPT ![e.source][e.hour] = rollup.row]
        /\ pending' = [pending EXCEPT ![e.source][e.hour] = IF @ = e.generation THEN 0 ELSE @]
        /\ rollup' = IF rollup.todo = {} THEN NoRollup ELSE [rollup EXCEPT !.entry = NoEntry, !.row = NoRollup.row]
        /\ stored' = stored
    BY <1>4, <2>1 DEF RollupSave, Without
  <2>3. /\ e \in Entry /\ e.source \in Instance /\ e.hour \in Hour /\ e.generation \in Nat
        /\ 0 < e.generation /\ e.generation <= pending[e.source][e.hour] /\ pending[e.source][e.hour] \in Nat
    BY <2>1, <2>2, RollupFacts
  <2>4. pending \in [Instance -> [Hour -> Nat]] /\ hours \in [Instance -> [Hour -> Row \cup {NoRow}]] /\ rollup \in Rollup
    BY DEF TypeOK
  <2>5. \A j \in Instance, h \in Hour : (j # e.source \/ h # e.hour) => pending'[j][h] = pending[j][h] /\ hours'[j][h] = hours[j][h]
    BY <2>2, <2>3, <2>4
  <2>6. /\ hours'[e.source][e.hour] = rollup.row
        /\ pending'[e.source][e.hour] = IF pending[e.source][e.hour] = e.generation THEN 0 ELSE pending[e.source][e.hour]
    BY <2>2, <2>3, <2>4
  <2>7. RolledIsExact'
    <3> SUFFICES ASSUME NEW j \in Instance, NEW h \in Hour, pending'[j][h] = 0, StoredOf(j, h)' # {}
                 PROVE  hours'[j][h] = Sum(StoredOf(j, h)')
      BY DEF RolledIsExact
    <3>1. StoredOf(j, h)' = StoredOf(j, h)
      BY <2>2 DEF StoredOf
    <3>2. CASE j # e.source \/ h # e.hour
      BY <2>5, <3>1, <3>2 DEF RolledIsExact
    <3>3. CASE j = e.source /\ h = e.hour
      <4>1. pending[e.source][e.hour] = e.generation
        BY <2>3, <2>6, <3>3
      <4>2. rollup.row = Sum(StoredOf(e.source, e.hour))
        BY <2>1, <2>2, <4>1 DEF RollupOK
      <4> QED
        BY <2>6, <3>1, <3>3, <4>2
    <3> QED
      BY <3>2, <3>3
  <2>8. rollup'.entry = NoEntry /\ rollup'.todo = rollup.todo
    BY <2>2, <2>4 DEF NoRollup, Rollup
  <2>9. rollup.todo # {} => rollup'.on = rollup.on
    BY <2>2, <2>4 DEF Rollup
  <2>10. InHand' = rollup.todo /\ rollup.todo \subseteq InHand /\ e \in InHand /\ e \notin rollup.todo /\ NoEntry \notin rollup.todo
    BY <2>1, <2>2, <2>8, RollupFacts DEF InHand, RollupOK
  <2>11. \A f \in rollup.todo : /\ f.source \in Instance /\ f.hour \in Hour
                                /\ f.source # e.source \/ f.hour # e.hour
    BY <2>10, RollupFacts DEF RollupOK
  <2>12. \A f \in rollup.todo : 0 < f.generation /\ f.generation <= pending'[f.source][f.hour]
    BY <2>5, <2>10, <2>11 DEF RollupOK
  <2>13. RollupOK'
    BY <2>8, <2>9, <2>10, <2>12 DEF RollupOK
  <2> QED
    BY <2>7, <2>13
<1>5. CASE RollupFails
  <2>1. rollup' = NoRollup /\ UNCHANGED <<stored, pending, hours>>
    BY <1>5 DEF RollupFails, database
  <2>2. rollup'.todo = {} /\ rollup'.entry = NoEntry
    BY <2>1 DEF NoRollup
  <2>3. InHand' = {}
    BY <2>2 DEF InHand
  <2>4. RollupOK'
    BY <2>2, <2>3 DEF RollupOK
  <2>5. RolledIsExact'
    BY <2>1 DEF RolledIsExact, StoredOf
  <2> QED
    BY <2>4, <2>5
<1>6. CASE UNCHANGED <<stored, pending, hours, rollup>>
  BY <1>6 DEF RollupOK, RolledIsExact, StoredOf, InHand
<1>7. CASE (\E from \in Minute : ReportBegin(from)) \/ ReportHours \/ ReportMinutes
  BY <1>6, <1>7 DEF ReportBegin, ReportHours, ReportMinutes, database
<1> QED
  BY <1>1, <1>2, <1>3, <1>4, <1>5, <1>6, <1>7, NextCases

-----------------------------------------------------------------------------
(* The sums never exceed what is stored, and a report's is what was stored at its begin or more. *)

LEMMA SumsGrow ==
    ASSUME TypeOK, TypeOK', \A j \in Instance, m \in Minute : Count(j, m) <= Count(j, m)', NEW T \in SUBSET Pairs
    PROVE  /\ SumOver(Counts, T) \in Nat /\ SumOver(Counts', T) \in Nat
           /\ SumOver(Counts, T) <= SumOver(Counts', T)
           /\ Counts' \in [Pairs -> Nat] /\ \A x \in Pairs : Counts[x] <= Counts'[x]
<1>1. IsFiniteSet(Pairs) /\ Counts \in [Pairs -> Nat]
  BY Finite, RowFacts
<1>2. \A x \in Pairs : x[1] \in Instance /\ x[2] \in Minute
  BY DEF Pairs
<1>3. \A j \in Instance, m \in Minute : Count(j, m)' \in Nat
  BY DEF TypeOK, Count, Row
<1>4. PICK w : w = Counts'
  OBVIOUS
<1>5. w \in [Pairs -> Nat] /\ \A x \in Pairs : Counts[x] <= w[x]
  BY <1>2, <1>3, <1>4 DEF Counts
<1>6. T \subseteq Pairs /\ \A x \in T : Counts[x] <= w[x]
  BY <1>5
<1>7. SumOver(Counts, T) <= SumOver(w, T)
  BY <1>1, <1>5, <1>6, SumAtMost
<1>8. SumOver(Counts, T) \in Nat /\ SumOver(w, T) \in Nat
  BY <1>1, <1>5, SumType
<1> QED
  BY <1>4, <1>5, <1>7, <1>8

LEMMA MinutesInPairs == \A i, h : MinutesOf(i, h) \in SUBSET Pairs
BY DEF MinutesOf

LEMMA HoursKept ==
    ASSUME TypeOK, CollectorOK, RollupInv, HoursOK, [Next]_vars, TypeOK'
    PROVE  HoursOK'
<1>1. ASSUME NEW i \in Instance, SaveCommits(i)
      PROVE  HoursOK'
  <2>1. UNCHANGED <<hours, rollup>> /\ \A j \in Instance, m \in Minute : Count(j, m) <= Count(j, m)'
    BY <1>1, CommitFacts
  <2>2. \A j, h : /\ SumOver(Counts, MinutesOf(j, h)) <= SumOver(Counts', MinutesOf(j, h))
                  /\ SumOver(Counts, MinutesOf(j, h)) \in Nat /\ SumOver(Counts', MinutesOf(j, h)) \in Nat
    BY <2>1, SumsGrow, MinutesInPairs
  <2>3. ASSUME NEW j \in Instance, NEW h \in Hour
        PROVE  HourCount(j, h)' <= SumOver(Counts', MinutesOf(j, h))
    <3>1. HourCount(j, h)' = HourCount(j, h) /\ HourCount(j, h) \in Nat
      BY <2>1, RowFacts DEF HourCount
    <3> QED
      BY <2>2, <3>1 DEF HoursOK
  <2>4. ASSUME NEW e, e = rollup.entry, e # NoEntry
        PROVE  rollup.row.count <= SumOver(Counts', MinutesOf(e.source, e.hour))
    <3>1. rollup.row.count \in Nat
      BY RollupFacts DEF RollupInv, Row
    <3>2. rollup.row.count <= SumOver(Counts, MinutesOf(e.source, e.hour))
      BY <2>4 DEF HoursOK
    <3> QED
      BY <2>2, <3>1, <3>2
  <2> QED
    BY <2>1, <2>3, <2>4 DEF HoursOK
<1>2. ASSUME UNCHANGED <<stored, hours>>, rollup'.entry = NoEntry \/ UNCHANGED rollup
      PROVE  HoursOK'
  <2>1. Counts' = Counts
    BY <1>2 DEF Counts, Count
  <2>2. \A j \in Instance, h \in Hour : HourCount(j, h)' = HourCount(j, h)
    BY <1>2 DEF HourCount
  <2> QED
    BY <1>2, <2>1, <2>2 DEF HoursOK
<1>3. CASE RollupBegin
  <2>1. rollup'.entry = NoEntry
    BY <1>3 DEF RollupBegin, NoRollup
  <2> QED
    BY <1>2, <1>3, <2>1 DEF RollupBegin, database
<1>4. CASE RollupFails
  <2>1. rollup'.entry = NoEntry
    BY <1>4 DEF RollupFails, NoRollup
  <2> QED
    BY <1>2, <1>4, <2>1 DEF RollupFails, database
<1>5. CASE RollupRead
  <2>1. PICK e \in rollup.todo : rollup' = [rollup EXCEPT !.todo = @ \ {e}, !.entry = e, !.row = Sum(StoredOf(e.source, e.hour))]
    BY <1>5 DEF RollupRead
  <2>2. rollup \in Rollup /\ UNCHANGED <<stored, hours>>
    BY <1>5 DEF TypeOK, RollupRead, database
  <2>3. rollup'.entry = e /\ rollup'.row = Sum(StoredOf(e.source, e.hour)) /\ e.source \in Instance /\ e.hour \in Hour
    BY <2>1, <2>2, RollupFacts DEF Rollup, RollupInv
  <2>4. rollup'.row.count = SumOver(Counts, MinutesOf(e.source, e.hour)) /\ rollup'.row.count \in Nat
    BY <2>3, SumOfHour DEF Row
  <2>5. Counts' = Counts
    BY <2>2 DEF Counts, Count
  <2>6. \A j \in Instance, h \in Hour : HourCount(j, h)' = HourCount(j, h)
    BY <2>2 DEF HourCount
  <2> QED
    BY <2>3, <2>4, <2>5, <2>6 DEF HoursOK
<1>6. CASE RollupSave
  <2>1. PICK e : e = rollup.entry
    OBVIOUS
  <2>2. /\ e # NoEntry /\ hours' = [hours EXCEPT ![e.source][e.hour] = rollup.row] /\ stored' = stored
        /\ rollup' = IF rollup.todo = {} THEN NoRollup ELSE [rollup EXCEPT !.entry = NoEntry, !.row = NoRollup.row]
    BY <1>6, <2>1 DEF RollupSave
  <2>3. e.source \in Instance /\ e.hour \in Hour /\ rollup.row \in Row /\ rollup.row # NoRow
    BY <2>1, <2>2, RollupFacts, RowAssumption DEF RollupInv
  <2>4. hours \in [Instance -> [Hour -> Row \cup {NoRow}]] /\ rollup \in Rollup
    BY DEF TypeOK
  <2>5. rollup'.entry = NoEntry
    BY <2>2, <2>4 DEF NoRollup, Rollup
  <2>6. Counts' = Counts
    BY <2>2 DEF Counts, Count
  <2>7. ASSUME NEW j \in Instance, NEW h \in Hour
        PROVE  HourCount(j, h)' <= SumOver(Counts, MinutesOf(j, h))
    <3>1. CASE j = e.source /\ h = e.hour
      <4>1. hours'[j][h] = rollup.row
        BY <2>2, <2>3, <2>4, <3>1
      <4> QED
        BY <2>1, <2>2, <2>3, <3>1, <4>1 DEF HourCount, HoursOK
    <3>2. CASE j # e.source \/ h # e.hour
      <4>1. hours'[j][h] = hours[j][h]
        BY <2>2, <2>3, <2>4, <3>2
      <4> QED
        BY <4>1 DEF HourCount, HoursOK
    <3> QED
      BY <3>1, <3>2
  <2> QED
    BY <2>5, <2>6, <2>7 DEF HoursOK
<1>7. CASE (\E from \in Minute : ReportBegin(from)) \/ ReportHours \/ ReportMinutes
  BY <1>2, <1>7 DEF ReportBegin, ReportHours, ReportMinutes, database
<1>8. CASE UNCHANGED <<stored, pending, hours, rollup, report>>
  BY <1>2, <1>8
<1> QED
  BY <1>1, <1>3, <1>4, <1>5, <1>6, <1>7, <1>8, NextCases

\* Whole hours lie within the report.
LEMMA WholeMinutes ==
    ASSUME NEW from \in Nat, NEW to \in Nat, NEW m \in Minute, HourOf(m) \in WholeHours(from, to)
    PROVE  m \in from..(to - 1)
<1>1. PICK h \in Nat : h = HourOf(m)
  BY HourBounds, Numbers
<1>2. PICK n \in Nat : n = HourLength
  BY Numbers
<1>3. m \in Nat /\ h * n <= m /\ m < (h + 1) * n
  BY <1>1, <1>2, HourBounds, Numbers
<1>4. from <= h * n /\ (h + 1) * n <= to
  BY <1>1, <1>2 DEF WholeHours
<1>5. PICK a \in Nat, b \in Nat : a = h * n /\ b = (h + 1) * n
  OBVIOUS
<1> QED
  BY <1>3, <1>4, <1>5

\* The minutes of a report, those of the hours that stand for them, and the rest.
Span(from, to) == Instance \X (from..(to - 1))

Inside(from, to, clean) == Instance \X {m \in from..(to - 1) : HourOf(m) \in clean}

Outside(from, to, clean) == Instance \X {m \in from..(to - 1) : HourOf(m) \notin clean}

LEMMA CleanSplit ==
    ASSUME NEW from \in Minute, NEW to \in Minute, NEW clean, NEW w \in [Pairs -> Nat]
    PROVE  /\ Span(from, to) \in SUBSET Pairs
           /\ Inside(from, to, clean) \in SUBSET Pairs /\ Outside(from, to, clean) \in SUBSET Pairs
           /\ SumOver(w, Span(from, to)) = SumOver(w, Inside(from, to, clean)) + SumOver(w, Outside(from, to, clean))
           /\ SumOver(w, Inside(from, to, clean)) \in Nat /\ SumOver(w, Outside(from, to, clean)) \in Nat
<1> DEFINE all == Span(from, to)
           inside == Inside(from, to, clean)
           rest == Outside(from, to, clean)
<1> USE DEF Span, Inside, Outside
<1>1. from..(to - 1) \subseteq Minute
  BY Numbers
<1>2. all \in SUBSET Pairs /\ inside \in SUBSET Pairs /\ rest \in SUBSET Pairs
  BY <1>1 DEF Pairs
<1>3. inside \cap rest = {}
  OBVIOUS
<1>4. inside \cup rest = all
  OBVIOUS
<1> HIDE DEF all, inside, rest, Span, Inside, Outside
<1>5. SumOver(w, inside \cup rest) = SumOver(w, inside) + SumOver(w, rest)
  BY <1>2, <1>3, Finite, SumUnion
<1>6. SumOver(w, inside) \in Nat /\ SumOver(w, rest) \in Nat
  BY <1>2, Finite, SumType
<1> QED
  BY <1>2, <1>4, <1>5, <1>6 DEF all, inside, rest, Span, Inside, Outside

HourSums(w) == [x \in Instance \X Hour |-> SumOver(w, MinutesOf(x[1], x[2]))]

LEMMA CleanSum ==
    ASSUME NEW from \in Minute, NEW to \in Minute, NEW clean \in SUBSET Hour, clean \subseteq WholeHours(from, to),
           NEW w \in [Pairs -> Nat]
    PROVE  /\ HourSums(w) \in [Instance \X Hour -> Nat]
           /\ SumOver(w, Inside(from, to, clean)) = SumOver(HourSums(w), Instance \X clean)
<1> DEFINE C == Instance \X Hour
           D == Instance \X clean
           part == [x \in C |-> MinutesOf(x[1], x[2])]
           inside == Instance \X {m \in from..(to - 1) : HourOf(m) \in clean}
<1>1. HourSums(w) \in [C -> Nat]
  <2>1. \A x \in C : SumOver(w, MinutesOf(x[1], x[2])) \in Nat
    BY Finite, MinutesInPairs, SumType
  <2> QED
    BY <2>1 DEF HourSums
<1>2. part \in [C -> SUBSET Pairs]
  BY MinutesInPairs
<1>3. \A c, d \in C : c # d => part[c] \cap part[d] = {}
  <2> SUFFICES ASSUME NEW c \in C, NEW d \in C, NEW x \in part[c], x \in part[d]
               PROVE  c = d
    OBVIOUS
  <2>1. c[1] = d[1] /\ c[2] = d[2]
    BY DEF MinutesOf
  <2> QED
    BY <2>1
<1>4. \A c \in C : HourSums(w)[c] = SumOver(w, part[c])
  BY DEF HourSums
<1>5. D \in SUBSET C
  OBVIOUS
<1>6. UNION {part[c] : c \in D} = inside
  <2>1. ASSUME NEW x \in inside
        PROVE  x \in UNION {part[c] : c \in D}
    <3>1. x[1] \in Instance /\ x[2] \in from..(to - 1) /\ HourOf(x[2]) \in clean /\ x = <<x[1], x[2]>>
      OBVIOUS
    <3>2. x \in Pairs
      BY <3>1, Numbers DEF Pairs
    <3>3. PICK c \in D : c = <<x[1], HourOf(x[2])>>
      BY <3>1
    <3>4. x \in part[c]
      BY <3>2, <3>3 DEF MinutesOf
    <3> QED
      BY <3>4
  <2>2. ASSUME NEW x \in UNION {part[c] : c \in D}
        PROVE  x \in inside
    <3>1. PICK c \in D : x \in part[c]
      OBVIOUS
    <3>2. x \in Pairs /\ x[1] = c[1] /\ HourOf(x[2]) = c[2] /\ c[1] \in Instance /\ c[2] \in clean
      BY <3>1 DEF MinutesOf
    <3>3. x = <<x[1], x[2]>> /\ x[2] \in Minute
      BY <3>2 DEF Pairs
    <3>4. HourOf(x[2]) \in WholeHours(from, to) /\ from \in Nat /\ to \in Nat
      BY <3>2, Numbers
    <3>5. x[2] \in from..(to - 1)
      BY <3>3, <3>4, WholeMinutes
    <3> QED
      BY <3>2, <3>3, <3>5
  <2> QED
    BY <2>1, <2>2
<1>7. SumOver(HourSums(w), D) = SumOver(w, UNION {part[c] : c \in D})
  <2>1. IsFiniteSet(C) /\ IsFiniteSet(Pairs)
    BY Finite
  <2> HIDE DEF C, D, part
  <2> QED
    BY <1>1, <1>2, <1>3, <1>4, <1>5, <2>1, SumParts
<1> QED
  BY <1>1, <1>6, <1>7 DEF Inside

\* The hours that a report takes have in them what was there at its begin, and nothing that is not stored now.
LEMMA HoursTaken ==
    ASSUME TypeOK, HoursOK, NEW base \in [Pairs -> Nat], BaseOK(base), NEW clean \in SUBSET Hour,
           clean \subseteq WholeHours(report.from, report.to) \ report.unrolled
    PROVE  /\ report.floor <= SumOver(HourCounts, Instance \X clean)
                                 + SumOver(Counts, Outside(report.from, report.to, clean))
           /\ SumOver(HourCounts, Instance \X clean) <= SumOver(Counts, Inside(report.from, report.to, clean))
<1>0. PICK from \in Minute, to \in Minute : from = report.from /\ to = report.to
  BY DEF TypeOK, Report
<1> DEFINE inside == Inside(from, to, clean)
           rest == Outside(from, to, clean)
           C == Instance \X Hour
           D == Instance \X clean
<1>1. clean \subseteq WholeHours(from, to)
  BY <1>0
<1>2. IsFiniteSet(C) /\ IsFiniteSet(Pairs) /\ D \in SUBSET C /\ D \subseteq C
  BY Finite
<1>3. HourCounts \in [C -> Nat] /\ SumOver(HourCounts, D) \in Nat /\ Counts \in [Pairs -> Nat]
  BY ReportSum, RowFacts
<1>4. ASSUME NEW w \in [Pairs -> Nat]
      PROVE  /\ HourSums(w) \in [C -> Nat] /\ SumOver(w, inside) = SumOver(HourSums(w), D)
             /\ inside \in SUBSET Pairs /\ rest \in SUBSET Pairs
             /\ SumOver(w, Span(from, to)) = SumOver(w, inside) + SumOver(w, rest)
             /\ SumOver(w, inside) \in Nat /\ SumOver(w, rest) \in Nat
  <2>1. HourSums(w) \in [C -> Nat] /\ SumOver(w, inside) = SumOver(HourSums(w), D)
    <3> HIDE DEF C, D, inside
    <3>1. HourSums(w) \in [C -> Nat]
      BY <1>1, CleanSum DEF C
    <3>2. SumOver(w, inside) = SumOver(HourSums(w), D)
      BY <1>1, CleanSum DEF D, inside
    <3> QED
      BY <3>1, <3>2
  <2>2. /\ inside \in SUBSET Pairs /\ rest \in SUBSET Pairs
        /\ SumOver(w, Span(from, to)) = SumOver(w, inside) + SumOver(w, rest)
        /\ SumOver(w, inside) \in Nat /\ SumOver(w, rest) \in Nat
    BY CleanSplit
  <2> QED
    BY <2>1, <2>2
<1>5. rest \in SUBSET Pairs /\ rest \subseteq Pairs /\ HourSums(base) \in [C -> Nat] /\ HourSums(Counts) \in [C -> Nat]
  BY <1>3, <1>4
<1>6. report.floor = SumOver(base, Span(from, to))
  BY <1>0 DEF BaseOK, Span
<1>7. \A x \in D : x[1] \in Instance /\ x[2] \in Hour \ report.unrolled
  OBVIOUS
<1>8. \A x \in D : HourSums(base)[x] <= HourCounts[x]
  BY <1>7 DEF BaseOK, HourSums, HourCounts
<1>9. \A x \in D : HourCounts[x] <= HourSums(Counts)[x]
  BY <1>7 DEF HoursOK, HourSums, HourCounts
<1>10. \A x \in rest : base[x] <= Counts[x]
  BY <1>5 DEF BaseOK
<1>11. SumOver(HourSums(base), D) <= SumOver(HourCounts, D) /\ SumOver(HourCounts, D) <= SumOver(HourSums(Counts), D)
  <2> HIDE DEF C, D
  <2> QED
    BY <1>2, <1>3, <1>5, <1>8, <1>9, SumAtMost
<1>12. SumOver(base, rest) <= SumOver(Counts, rest)
  <2> HIDE DEF rest
  <2> QED
    BY <1>2, <1>3, <1>5, <1>10, SumAtMost
<1> HIDE DEF inside, rest, C, D
<1>13. report.floor = SumOver(HourSums(base), D) + SumOver(base, rest) /\ SumOver(HourSums(base), D) \in Nat
       /\ SumOver(base, rest) \in Nat /\ SumOver(Counts, rest) \in Nat
  BY <1>3, <1>4, <1>6
<1>14. report.floor <= SumOver(HourCounts, D) + SumOver(Counts, rest)
  BY <1>3, <1>11, <1>12, <1>13
<1>15. SumOver(HourCounts, D) <= SumOver(Counts, inside)
  BY <1>3, <1>4, <1>11
<1> QED
  BY <1>0, <1>14, <1>15 DEF inside, rest, D

\* What is stored when a report begins is in the hours that have nothing pending.
LEMMA BaseFound ==
    ASSUME TypeOK, RollupInv, NEW from \in Minute, ReportBegin(from)
    PROVE  BaseOK(Counts)'
<1>1. /\ UNCHANGED <<stored, pending, hours, rollup>> /\ report'.from = from /\ report'.to = now
      /\ report'.floor = StoredIn(from..(now - 1)) /\ report'.unrolled = {h \in Hour : \E i \in Instance : pending[i][h] # 0}
  BY DEF ReportBegin, NoReport, database
<1>2. now \in Minute /\ from..(now - 1) \in SUBSET Minute
  BY Numbers DEF TypeOK
<1>3. Counts' = Counts
  BY <1>1 DEF Counts, Count
<1>4. \A x \in Pairs : Counts[x] <= Counts[x]
  BY RowFacts
<1>5. report'.floor = SumOver(Counts, Instance \X (from..(now - 1)))
  BY <1>1, <1>2, StoredInIs
<1>6. ASSUME NEW i \in Instance, NEW h \in Hour \ report'.unrolled
      PROVE  SumOver(Counts, MinutesOf(i, h)) <= HourCount(i, h)'
  <2>1. pending[i][h] = 0
    BY <1>1
  <2>2. HourCount(i, h)' = HourCount(i, h) /\ HourCount(i, h) \in Nat
    BY <1>1, RowFacts DEF HourCount
  <2>3. CASE StoredOf(i, h) = {}
    BY <2>2, <2>3, SumOfHour
  <2>4. CASE StoredOf(i, h) # {}
    <3>1. hours[i][h] = Sum(StoredOf(i, h)) /\ Sum(StoredOf(i, h)) \in Row
          /\ Sum(StoredOf(i, h)).count = SumOver(Counts, MinutesOf(i, h))
      BY <2>1, <2>4, SumOfHour DEF RollupInv, RolledIsExact
    <3>2. HourCount(i, h) = SumOver(Counts, MinutesOf(i, h))
      BY <3>1, RowAssumption DEF HourCount
    <3> QED
      BY <2>2, <3>2
  <2> QED
    BY <2>3, <2>4
<1>7. ASSUME NEW e, e = rollup'.entry, e # NoEntry, e.hour \notin report'.unrolled
      PROVE  FALSE
  <2>1. e.source \in Instance /\ e.hour \in Hour /\ 0 < e.generation /\ e.generation <= pending[e.source][e.hour]
        /\ e.generation \in Nat
    BY <1>1, <1>7, RollupFacts DEF RollupInv
  <2>2. pending[e.source][e.hour] # 0
    BY <2>1
  <2> QED
    BY <1>1, <1>7, <2>1, <2>2
<1> QED
  BY <1>1, <1>3, <1>4, <1>5, <1>6, <1>7 DEF BaseOK

LEMMA SpansOf ==
    ASSUME NEW r, r \in Report
    PROVE  /\ Instance \X Rest(r) = Outside(r.from, r.to, r.clean) /\ Instance \X CleanMinutes(r) = Inside(r.from, r.to, r.clean)
           /\ Instance \X Rest(r) \in SUBSET Pairs /\ Instance \X CleanMinutes(r) \in SUBSET Pairs
           /\ Rest(r) \in SUBSET Minute
<1>1. r.from \in Minute /\ r.to \in Minute
  BY DEF Report
<1>2. PICK a \in Minute, b \in Minute : a = r.from /\ b = r.to
  BY <1>1
<1>3. a \in Nat /\ b \in Nat /\ b <= MaxTime
  BY Numbers
<1>4. \A m \in a..(b - 1) : m \in Nat /\ m <= MaxTime
  BY <1>3, Numbers
<1>5. r.from..(r.to - 1) \subseteq Minute
  BY <1>2, <1>4, Numbers
<1> QED
  BY <1>5 DEF Rest, CleanMinutes, Outside, Inside, Pairs

LEMMA ReportKept ==
    ASSUME TypeOK, CollectorOK, RollupInv, HoursOK, ReportOK, [Next]_vars, TypeOK'
    PROVE  ReportOK'
<1>0. report \in Report /\ report.sum \in Nat /\ report.floor \in Nat
  BY DEF TypeOK, Report
<1>1. ASSUME NEW i \in Instance, SaveCommits(i)
      PROVE  ReportOK'
  <2>1. UNCHANGED <<hours, rollup, report>> /\ \A j \in Instance, m \in Minute : Count(j, m) <= Count(j, m)'
    BY <1>1, CommitFacts
  <2>2. \A T \in SUBSET Pairs : /\ SumOver(Counts, T) \in Nat /\ SumOver(Counts', T) \in Nat
                                /\ SumOver(Counts, T) <= SumOver(Counts', T)
    BY <2>1, SumsGrow
  <2>3. Counts' \in [Pairs -> Nat] /\ Counts \in [Pairs -> Nat] /\ \A x \in Pairs : Counts[x] <= Counts'[x]
    BY <2>1, SumsGrow, MinutesInPairs, RowFacts
  <2>4. ASSUME report.pc = "hours"
        PROVE  \E base \in [Pairs -> Nat] : BaseOK(base)'
    <3>1. PICK base \in [Pairs -> Nat] : BaseOK(base)
      BY <2>4 DEF ReportOK
    <3>2. \A x \in Pairs : base[x] <= Counts'[x]
      <4>1. \A x \in Pairs : base[x] \in Nat /\ Counts[x] \in Nat /\ Counts'[x] \in Nat /\ base[x] <= Counts[x]
        BY <2>3, <3>1 DEF BaseOK
      <4> QED
        BY <2>3, <4>1
    <3>3. \A j \in Instance, h \in Hour : HourCount(j, h)' = HourCount(j, h)
      BY <2>1 DEF HourCount
    <3>4. BaseOK(base)'
      BY <2>1, <3>1, <3>2, <3>3 DEF BaseOK
    <3> QED
      BY <3>4
  <2>5. ASSUME report.pc = "minutes"
        PROVE  /\ report.floor <= report.sum + SumOver(Counts', Instance \X Rest(report))
               /\ report.sum <= SumOver(Counts', Instance \X CleanMinutes(report))
    <3>1. PICK R \in SUBSET Pairs, M \in SUBSET Pairs : R = Instance \X Rest(report) /\ M = Instance \X CleanMinutes(report)
      BY <1>0, SpansOf
    <3>2. report.floor <= report.sum + SumOver(Counts, R) /\ report.sum <= SumOver(Counts, M)
      BY <2>5, <3>1 DEF ReportOK
    <3>3. /\ SumOver(Counts, R) \in Nat /\ SumOver(Counts', R) \in Nat /\ SumOver(Counts, R) <= SumOver(Counts', R)
          /\ SumOver(Counts, M) \in Nat /\ SumOver(Counts', M) \in Nat /\ SumOver(Counts, M) <= SumOver(Counts', M)
      BY <2>2
    <3>4. report.floor <= report.sum + SumOver(Counts', R) /\ report.sum <= SumOver(Counts', M)
      BY <1>0, <3>2, <3>3
    <3> QED
      BY <3>1, <3>4
  <2> QED
    BY <2>1, <2>4, <2>5 DEF ReportOK, BaseOK, HourCount, Rest, CleanMinutes
<1>2. ASSUME UNCHANGED <<stored, hours, report>>, rollup'.entry = NoEntry \/ UNCHANGED rollup
      PROVE  ReportOK'
  <2>1. Counts' = Counts
    BY <1>2 DEF Counts, Count
  <2>2. \A j \in Instance, h \in Hour : HourCount(j, h)' = HourCount(j, h)
    BY <1>2 DEF HourCount
  <2>3. \A base : BaseOK(base) => BaseOK(base)'
    BY <1>2, <2>1, <2>2 DEF BaseOK
  <2> QED
    BY <1>2, <2>1, <2>3 DEF ReportOK, Rest, CleanMinutes
<1>3. CASE RollupBegin
  <2>1. rollup'.entry = NoEntry
    BY <1>3 DEF RollupBegin, NoRollup
  <2> QED
    BY <1>2, <1>3, <2>1 DEF RollupBegin, database
<1>4. CASE RollupFails
  <2>1. rollup'.entry = NoEntry
    BY <1>4 DEF RollupFails, NoRollup
  <2> QED
    BY <1>2, <1>4, <2>1 DEF RollupFails, database
<1>5. CASE RollupRead
  <2>1. PICK e \in rollup.todo : rollup' = [rollup EXCEPT !.todo = @ \ {e}, !.entry = e, !.row = Sum(StoredOf(e.source, e.hour))]
    BY <1>5 DEF RollupRead
  <2>2. rollup \in Rollup /\ UNCHANGED <<stored, hours, report>>
    BY <1>5 DEF TypeOK, RollupRead, database
  <2>3. rollup'.entry = e /\ rollup'.row = Sum(StoredOf(e.source, e.hour)) /\ e.source \in Instance /\ e.hour \in Hour
    BY <2>1, <2>2, RollupFacts DEF Rollup, RollupInv
  <2>4. rollup'.row.count = SumOver(Counts, MinutesOf(e.source, e.hour))
    BY <2>3, SumOfHour
  <2>5. Counts' = Counts /\ Counts \in [Pairs -> Nat]
    BY <2>2, RowFacts DEF Counts, Count
  <2>6. \A j \in Instance, h \in Hour : HourCount(j, h)' = HourCount(j, h)
    BY <2>2 DEF HourCount
  <2>7. ASSUME NEW base \in [Pairs -> Nat], BaseOK(base)
        PROVE  BaseOK(base)'
    <3>1. \A x \in MinutesOf(e.source, e.hour) : base[x] <= Counts[x]
      BY <2>7 DEF BaseOK, MinutesOf
    <3>2. PICK T \in SUBSET Pairs : T = MinutesOf(e.source, e.hour)
      BY MinutesInPairs
    <3>3. SumOver(base, T) <= SumOver(Counts, T)
      <4>1. IsFiniteSet(Pairs) /\ T \subseteq Pairs
        BY Finite
      <4> QED
        BY <2>5, <3>1, <3>2, <4>1, SumAtMost
    <3> QED
      BY <2>2, <2>3, <2>4, <2>5, <2>6, <2>7, <3>2, <3>3 DEF BaseOK
  <2> QED
    BY <2>2, <2>5, <2>7 DEF ReportOK, Rest, CleanMinutes
<1>6. CASE RollupSave
  <2>1. PICK e : e = rollup.entry
    OBVIOUS
  <2>2. /\ e # NoEntry /\ hours' = [hours EXCEPT ![e.source][e.hour] = rollup.row] /\ stored' = stored /\ report' = report
        /\ rollup' = IF rollup.todo = {} THEN NoRollup ELSE [rollup EXCEPT !.entry = NoEntry, !.row = NoRollup.row]
    BY <1>6, <2>1 DEF RollupSave
  <2>3. e.source \in Instance /\ e.hour \in Hour /\ rollup.row \in Row /\ rollup.row # NoRow
    BY <2>1, <2>2, RollupFacts, RowAssumption DEF RollupInv
  <2>4. hours \in [Instance -> [Hour -> Row \cup {NoRow}]] /\ rollup \in Rollup
    BY DEF TypeOK
  <2>5. rollup'.entry = NoEntry
    BY <2>2, <2>4 DEF NoRollup, Rollup
  <2>6. Counts' = Counts
    BY <2>2 DEF Counts, Count
  <2>7. ASSUME NEW base \in [Pairs -> Nat], BaseOK(base), NEW j \in Instance, NEW h \in Hour \ report.unrolled
        PROVE  SumOver(base, MinutesOf(j, h)) <= HourCount(j, h)'
    <3>1. CASE j = e.source /\ h = e.hour
      <4>1. hours'[j][h] = rollup.row
        BY <2>2, <2>3, <2>4, <3>1
      <4> QED
        BY <2>1, <2>2, <2>3, <2>7, <3>1, <4>1 DEF HourCount, BaseOK
    <3>2. CASE j # e.source \/ h # e.hour
      <4>1. hours'[j][h] = hours[j][h]
        BY <2>2, <2>3, <2>4, <3>2
      <4> QED
        BY <2>7, <4>1 DEF HourCount, BaseOK
    <3> QED
      BY <3>1, <3>2
  <2>8. \A base \in [Pairs -> Nat] : BaseOK(base) => BaseOK(base)'
    BY <2>2, <2>5, <2>6, <2>7 DEF BaseOK
  <2> QED
    BY <2>2, <2>6, <2>8 DEF ReportOK, Rest, CleanMinutes
<1>7. ASSUME NEW from \in Minute, ReportBegin(from)
      PROVE  ReportOK'
  <2>1. BaseOK(Counts)'
    BY <1>7, BaseFound
  <2>2. UNCHANGED stored /\ report'.pc = "hours"
    BY <1>7 DEF ReportBegin, NoReport, database
  <2>3. Counts' = Counts /\ Counts \in [Pairs -> Nat]
    BY <2>2, RowFacts DEF Counts, Count
  <2>4. \E base \in [Pairs -> Nat] : BaseOK(base)'
    <3>1. PICK w \in [Pairs -> Nat] : w = Counts
      BY <2>3
    <3>2. BaseOK(w)'
      BY <2>1, <2>3, <3>1 DEF BaseOK
    <3> QED
      BY <3>2
  <2> QED
    BY <2>2, <2>4 DEF ReportOK
<1>8. CASE ReportHours
  <2>1. PICK clean \in SUBSET Hour : clean = CleanHours(report)
    BY DEF CleanHours, WholeHours
  <2>2. clean \subseteq WholeHours(report.from, report.to) \ report.unrolled
    BY <2>1 DEF CleanHours
  <2>3. PICK base \in [Pairs -> Nat] : BaseOK(base)
    BY <1>8 DEF ReportOK, ReportHours
  <2>4. PICK n : n = SumOver(HourCounts, Instance \X clean)
    OBVIOUS
  <2>5. /\ report.floor <= n + SumOver(Counts, Outside(report.from, report.to, clean))
        /\ n <= SumOver(Counts, Inside(report.from, report.to, clean))
    BY <2>2, <2>3, <2>4, HoursTaken
  <2>6. n = SumOf([x \in {x \in Instance \X clean : x[1] \in RolledRows(x[2])} |-> hours[x[1]][x[2]].count])
    BY <2>4, ReportSum
  <2>7. report' = [report EXCEPT !.pc = "minutes", !.unrolled = {}, !.clean = clean, !.sum = n] /\ UNCHANGED stored
    BY <1>8, <2>1, <2>6 DEF ReportHours, database
  <2>8. /\ report'.pc = "minutes" /\ report'.sum = n /\ report'.floor = report.floor /\ report'.from = report.from
        /\ report'.to = report.to /\ report'.clean = clean
    BY <1>0, <2>7 DEF Report
  <2>9. Counts' = Counts
    BY <2>7 DEF Counts, Count
  <2>10. report' \in Report
    BY DEF TypeOK
  <2>11. PICK r : r = report'
    OBVIOUS
  <2>12. /\ Instance \X Rest(r) = Outside(report.from, report.to, clean)
         /\ Instance \X CleanMinutes(r) = Inside(report.from, report.to, clean)
    BY <2>8, <2>10, <2>11, SpansOf
  <2>13. /\ report'.floor <= report'.sum + SumOver(Counts', Instance \X Rest(r))
         /\ report'.sum <= SumOver(Counts', Instance \X CleanMinutes(r))
    BY <2>5, <2>8, <2>9, <2>12
  <2> QED
    BY <2>8, <2>11, <2>13 DEF ReportOK
<1>9. CASE ReportMinutes
  <2>1. report'.pc = "idle"
    BY <1>9 DEF ReportMinutes, NoReport
  <2> QED
    BY <2>1 DEF ReportOK
<1> QED
  BY <1>1, <1>2, <1>3, <1>4, <1>5, <1>6, <1>7, <1>8, <1>9, NextCases

-----------------------------------------------------------------------------
(* The invariant, and the properties. *)

LEMMA StatsInit == Init => StatsInv
<1> SUFFICES ASSUME Init
             PROVE  StatsInv
  OBVIOUS
<1>1. TypeOK
  <2>1. NewProcess \in Process /\ NoBuckets \in BucketMap /\ NoRollup \in Rollup
    BY NewTypes
  <2>2. 0 \in Minute /\ 0 \in 0..MaxFaults /\ NoReport \in Report
    BY Numbers DEF NoReport, Report
  <2> QED
    BY <2>1, <2>2 DEF Init, TypeOK, BucketMap
<1>2. ASSUME NEW i \in Instance
      PROVE  CollectorOf(i)
  <2>1. /\ process[i] = NewProcess /\ buckets[i] = NoBuckets /\ covered[i] = 0 /\ now = 0
        /\ \A m \in Minute : stored[i][m] = NoRow /\ recorded[i][m] = 0
    BY DEF Init
  <2>2. /\ NewProcess.status = "new" /\ NewProcess.pc = "idle" /\ NewProcess.captured = {} /\ NewProcess.started = 0
    BY DEF NewProcess
  <2>3. 0..(0 - 1) = {}
    OBVIOUS
  <2>4. \A m \in Minute : Stored(stored[i], m) <= recorded[i][m]
    BY <2>1 DEF Stored
  <2>5. StoredOK(process[i], covered[i], recorded[i], stored[i])
    BY <2>1, <2>2, <2>3, <2>4 DEF StoredOK, Running
  <2>6. ProcessOK(process[i], buckets[i], now, covered[i], recorded[i], stored[i])
    BY <2>1, <2>2 DEF ProcessOK, Running, Writing
  <2> QED
    BY <2>1, <2>2, <2>5, <2>6 DEF CollectorOf, Collector, Running, Writing
<1>3. rollup.entry = NoEntry /\ rollup.todo = {} /\ report.pc = "idle"
  BY DEF Init, NoRollup, NoReport
<1>4. RollupOK
  BY <1>3 DEF RollupOK, InHand
<1>5. \A i \in Instance, h \in Hour : StoredOf(i, h) = {} /\ HourCount(i, h) = 0
  BY DEF Init, StoredOf, HourCount
<1>6. RolledIsExact
  BY <1>5 DEF RolledIsExact
<1>7. HoursOK
  <2>1. \A i \in Instance, h \in Hour : SumOver(Counts, MinutesOf(i, h)) = 0
    BY <1>1, <1>5, SumOfHour
  <2> QED
    BY <1>3, <1>5, <2>1 DEF HoursOK
<1>8. ReportOK
  BY <1>3 DEF ReportOK
<1> QED
  BY <1>1, <1>2, <1>4, <1>6, <1>7, <1>8 DEF StatsInv, CollectorOK

LEMMA StatsStep == StatsInv /\ [Next]_vars => StatsInv'
<1> SUFFICES ASSUME StatsInv, [Next]_vars
             PROVE  StatsInv'
  OBVIOUS
<1>1. TypeOK /\ CollectorOK /\ RollupInv /\ HoursOK /\ ReportOK
  BY DEF StatsInv, RollupInv
<1>2. TypeOK'
  BY <1>1, TypesKept
<1>3. CollectorOK'
  BY <1>1, CollectorKept
<1>4. RollupInv'
  BY <1>1, RollupKept
<1>5. HoursOK'
  BY <1>1, <1>2, HoursKept
<1>6. ReportOK'
  BY <1>1, <1>2, ReportKept
<1> QED
  BY <1>2, <1>3, <1>4, <1>5, <1>6 DEF StatsInv, RollupInv

\* Every state the program reaches satisfies the invariant.
THEOREM StatsInvAlways == Spec => []StatsInv
<1> QED
  BY StatsInit, StatsStep, PTL DEF Spec

\* The types: no flush, rollup or report computes a minute, an hour or a row outside its range, however the
\* processes interleave, fail or die (collector.ts, repository.ts, rollup.ts).
THEOREM TypeCorrect == Spec => []TypeOK
<1>1. StatsInv => TypeOK
  BY DEF StatsInv
<1> QED
  BY <1>1, StatsInvAlways, PTL

LEMMA CleanHolds == StatsInv => CleanIsStored
<1> SUFFICES ASSUME StatsInv, NEW i \in Instance, NEW m \in Minute, Running(process[i]),
                    ~(buckets[i][m] # NoBucket /\ buckets[i][m].dirty)
             PROVE  /\ Count(i, m) = recorded[i][m]
                    /\ buckets[i][m] # NoBucket /\ <<i, m>> \notin overtaken
                          => stored[i][m] # NoRow /\ stored[i][m].samples = recorded[i][m]
  BY DEF CleanIsStored, Running
<1>1. TypeOK /\ MemoryOK(buckets[i], process[i], now, recorded[i], stored[i], Overtaken(i))
  BY DEF StatsInv, CollectorOK, CollectorOf, Collector
<1>2. process[i].started \in Nat /\ process[i].heartbeatAt \in Nat /\ m \in Nat
  BY <1>1, TypedNow, TypedFacts
<1>3. CASE buckets[i][m] = NoBucket
  <2>1. AbsentOK(m, process[i], recorded[i], stored[i])
    BY <1>1, <1>3 DEF MemoryOK
  <2>2. \/ m < process[i].started \/ m >= process[i].heartbeatAt
        \/ process[i].started <= m /\ m < process[i].heartbeatAt
    BY <1>2
  <2> QED
    BY <1>3, <2>1, <2>2 DEF AbsentOK, Full, Count
<1>4. CASE buckets[i][m] # NoBucket
  <2>1. HeldOK(m, buckets[i][m], process[i], now, recorded[i], stored[i], Overtaken(i))
    BY <1>1, <1>4 DEF MemoryOK
  <2>2. /\ Full(m, recorded[i], stored[i])
        /\ m \notin Overtaken(i) => stored[i][m].samples = recorded[i][m]
    BY <1>4, <2>1 DEF HeldOK
  <2>3. <<i, m>> \notin overtaken => m \notin Overtaken(i)
    BY DEF Overtaken
  <2> QED
    BY <2>2, <2>3 DEF Full, Count
<1> QED
  BY <1>3, <1>4

\* An event is never lost between the memory and the table: a minute a running process does not hold as changed has
\* all of its events stored, whatever came while the row was written, the write failed or its bucket was evicted
\* (collector.ts, capture, settle and evict).
THEOREM CleanIsStoredAlways == Spec => []CleanIsStored
<1> QED
  BY CleanHolds, StatsInvAlways, PTL

LEMMA CoveredHolds == StatsInv => CoveredIsStored
<1> SUFFICES ASSUME StatsInv, NEW i \in Instance, NEW m \in Minute, m \in process[i].started..(covered[i] - 1)
             PROVE  stored[i][m] # NoRow /\ stored[i][m].count = recorded[i][m]
  BY DEF CoveredIsStored
<1>1. StoredOK(process[i], covered[i], recorded[i], stored[i])
  BY DEF StatsInv, CollectorOK, CollectorOf, Collector
<1> QED
  BY <1>1 DEF StoredOK, Full

\* What the instance row says is covered stays true: those minutes have their rows, final and complete, also after
\* the process has failed, closed or died (collector.ts, the coverage a flush writes).
THEOREM CoveredIsStoredAlways == Spec => []CoveredIsStored
<1> QED
  BY CoveredHolds, StatsInvAlways, PTL

\* An hour without a pending entry is the sum of its minutes as they are now: minutes stored between the rollup's
\* read and its save keep the entry (repository.ts, saveHour).
THEOREM RolledIsExactAlways == Spec => []RolledIsExact
<1>1. StatsInv => RolledIsExact
  BY DEF StatsInv
<1> QED
  BY <1>1, StatsInvAlways, PTL

LEMMA ReportHolds == StatsInv => ReportExact
<1> SUFFICES ASSUME StatsInv, report.pc = "minutes"
             PROVE  Total(report) \in report.floor..StoredIn(report.from..(report.to - 1))
  BY DEF ReportExact
<1>1. TypeOK /\ Counts \in [Pairs -> Nat]
  BY RowFacts DEF StatsInv
<1>2. report \in Report
  BY <1>1 DEF TypeOK
<1>3. report.from \in Minute /\ report.to \in Minute /\ report.floor \in Nat /\ report.sum \in Nat
  BY <1>2 DEF Report
<1>4. PICK rest \in SUBSET Pairs, clean \in SUBSET Pairs :
         /\ rest = Instance \X Rest(report) /\ clean = Instance \X CleanMinutes(report)
         /\ rest = Outside(report.from, report.to, report.clean) /\ clean = Inside(report.from, report.to, report.clean)
  BY <1>2, SpansOf
<1>5. report.floor <= report.sum + SumOver(Counts, rest) /\ report.sum <= SumOver(Counts, clean)
  BY <1>4 DEF StatsInv, ReportOK
<1>6. PICK span \in SUBSET Pairs : span = Span(report.from, report.to)
  BY <1>1, <1>3, CleanSplit
<1>7. /\ SumOver(Counts, span) = SumOver(Counts, clean) + SumOver(Counts, rest)
      /\ SumOver(Counts, clean) \in Nat /\ SumOver(Counts, rest) \in Nat
  <2>1. PICK w \in [Pairs -> Nat] : w = Counts
    BY <1>1
  <2>2. PICK a \in Minute, b \in Minute : a = report.from /\ b = report.to
    BY <1>3
  <2>3. PICK c : c = report.clean
    OBVIOUS
  <2>5. SumOver(w, Span(a, b)) = SumOver(w, Inside(a, b, c)) + SumOver(w, Outside(a, b, c))
    BY CleanSplit
  <2>4. SumOver(w, Inside(a, b, c)) \in Nat /\ SumOver(w, Outside(a, b, c)) \in Nat
    BY CleanSplit
  <2> QED
    BY <1>4, <1>6, <2>1, <2>2, <2>3, <2>4, <2>5
<1>8. StoredIn(Rest(report)) = SumOver(Counts, rest)
  BY <1>1, <1>2, <1>4, SpansOf, StoredInIs
<1>9. StoredIn(report.from..(report.to - 1)) = SumOver(Counts, span)
  <2>1. ASSUME NEW a \in Minute, NEW b \in Minute
        PROVE  a..(b - 1) \in SUBSET Minute
    <3>1. a \in Nat /\ b \in Nat /\ b <= MaxTime
      BY Numbers
    <3>2. \A x \in a..(b - 1) : x \in Nat /\ x <= MaxTime
      BY <3>1, Numbers
    <3> QED
      BY <3>2, Numbers
  <2> QED
    BY <1>1, <1>3, <1>6, <2>1, StoredInIs DEF Span
<1>10. Total(report) = report.sum + SumOver(Counts, rest)
  BY <1>8 DEF Total
<1> QED
  BY <1>3, <1>5, <1>7, <1>9, <1>10

\* A report counts every event once: whole hours that the rollup, or a late flush, changes between the selects are
\* neither left out nor added to their own minutes (repository.ts, the selects of a summary).
THEOREM ReportExactAlways == Spec => []ReportExact
<1> QED
  BY ReportHolds, StatsInvAlways, PTL
====
