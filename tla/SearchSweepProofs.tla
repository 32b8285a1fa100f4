---- MODULE SearchSweepProofs ----
(***************************************************************************)
(* What holds of the search sweeps for any videos, sweeps, requests, sizes *)
(* of a page and of a window: the types, and that what a marked window was *)
(* to contain has been found.                                              *)
(***************************************************************************)
EXTENDS SearchSweep, FiniteSetTheorems, TLAPS

Busy(w) == w.pc \in {"query", "offer", "mark"}

\* The results of a sweep, and what its batch is to find in them: with the publications pub and the listed videos lst.
ResultsOf(w, pub, lst) ==
    {v \in lst : pub[v] \in w.from..w.to /\ w.ask.category \in {CategoryOf[v], AnyCategory}}

Hits(w, pub, lst) == {v \in ResultsOf(w, pub, lst) : pub[v] < w.asOf}

\* The videos come one after the other.
PublishedOK(n, pub, lst) ==
    /\ IsFiniteSet(lst) /\ \A v \in lst : pub[v] # Never
    /\ \A v \in Video : pub[v] # Never =>
          /\ pub[v] <= n
          /\ \A u \in Video : u < v => pub[u] # Never /\ pub[u] <= pub[v]

\* Where a batch has come to: the oldest time it has reached is that of a video it has found.
BatchOK(w, n, pub, fnd) ==
    /\ w.asOf # Never => w.asOf <= n
    /\ w.pc # "offer" => w.inHand = {}
    /\ w.pc = "look" => w.asOf # Never
    /\ Busy(w) => /\ w.asOf # Never /\ w.page > 0
                  /\ w.from < w.to /\ w.to \in Time
                  /\ w.from <= w.oldest /\ w.oldest <= w.to
                  /\ w.oldest < w.to => \E x \in fnd : pub[x] = w.oldest
                  /\ \A x \in w.inHand : pub[x] # Never /\ w.from <= pub[x] /\ pub[x] <= w.to

\* The pages read have nothing that is not known.
PagesOK(w, pub, lst, known) ==
    w.pc \in {"query", "offer"} =>
        \A v \in Hits(w, pub, lst) :
            Place(ResultsOf(w, pub, lst), v) <= PagesRead(w) * PageSize => v \in known \cup w.inHand

\* Nor has the time after the oldest video read.
OldestOK(w, pub, lst, known) ==
    Busy(w) => \A v \in Hits(w, pub, lst) :
        pub[v] > w.oldest \/ (\E x \in w.inHand : pub[v] > pub[x]) => v \in known \cup w.inHand

\* Nor, once the end is reached, the whole.
EndOK(w, pub, lst, known) ==
    (w.pc = "offer" /\ w.isLast) \/ (w.pc = "mark" /\ w.end) => Hits(w, pub, lst) \subseteq known \cup w.inHand

SweepOK(w, n, pub, lst, known, fnd) ==
    BatchOK(w, n, pub, fnd) /\ PagesOK(w, pub, lst, known) /\ OldestOK(w, pub, lst, known) /\ EndOK(w, pub, lst, known)

Known == found \cup displaced

SweepInv ==
    /\ TypeOK
    /\ PublishedOK(now, published, listed)
    /\ \A s \in Sweep : SweepOK(sweeps[s], now, published, listed, Known, found)
    /\ \A v \in covered : published[v] # Never
    /\ CoveredIsFound

-----------------------------------------------------------------------------
(* Numbers. *)

LEMMA Greatest ==
    ASSUME NEW S, IsFiniteSet(S), S # {}, NEW f \in [S -> Nat]
    PROVE  \E x \in S : \A y \in S : f[y] <= f[x]
<1> DEFINE Has(U) == \E x \in U : \A y \in U : f[y] <= f[x]
           T == {U \in SUBSET S : U # {} /\ ~Has(U)}
<1>1. IsWellFoundedOn(StrictSubsetOrdering(S), SUBSET S)
  BY FS_StrictSubsetOrderingWellFounded, FS_FiniteSubsetsOfFinite
<1>2. ASSUME T # {}
      PROVE  FALSE
  <2>1. \E U \in T : \A V \in T : <<V, U>> \notin StrictSubsetOrdering(S)
    <3> HIDE DEF Has
    <3>1. T \subseteq SUBSET S
      OBVIOUS
    <3> HIDE DEF T
    <3> QED
      BY <1>1, <1>2, <3>1, WFMin
  <2>2. PICK U \in T : \A V \in T : <<V, U>> \notin StrictSubsetOrdering(S)
    BY <2>1
  <2>3. PICK x \in U : TRUE
    OBVIOUS
  <2>4. U \ {x} \notin T
    BY <2>2, <2>3 DEF StrictSubsetOrdering
  <2>5. CASE U \ {x} = {}
    <3>1. \A y \in U : y = x
      BY <2>5
    <3> QED
      BY <2>3, <3>1
  <2>6. CASE Has(U \ {x})
    <3>1. PICK z \in U \ {x} : \A y \in U \ {x} : f[y] <= f[z]
      BY <2>6
    <3>2. f[x] \in Nat /\ f[z] \in Nat /\ \A y \in U : f[y] \in Nat
      BY <2>3
    <3>3. \A y \in U : y = x \/ f[y] <= f[z]
      BY <3>1
    <3> QED
      BY <2>3, <3>1, <3>2, <3>3
  <2> QED
    BY <2>4, <2>5, <2>6
<1> QED
  BY <1>2

LEMMA LeastNumber ==
    ASSUME NEW S \in SUBSET Nat, S # {}
    PROVE  \E i \in S : \A j \in S : i <= j
<1>1. PICK n \in S : TRUE
  OBVIOUS
<1> DEFINE U == {i \in S : i <= n}
           f == [i \in U |-> n - i]
<1>2. IsFiniteSet(U)
  <2>1. n \in Nat /\ U \in SUBSET Nat /\ \A i \in U : i <= n
    BY <1>1
  <2> HIDE DEF U
  <2> QED
    BY <2>1, FS_BoundedSetOfNaturals
<1>3. U # {} /\ f \in [U -> Nat]
  <2>1. n \in U
    BY <1>1
  <2>2. \A i \in U : n - i \in Nat
    BY <1>1
  <2> HIDE DEF U
  <2> QED
    BY <2>1, <2>2
<1>4. PICK i \in U : \A j \in U : f[j] <= f[i]
  <2> HIDE DEF U, f
  <2> QED
    BY <1>2, <1>3, Greatest
<1>5. \A j \in U : i <= j
  BY <1>4
<1> QED
  BY <1>1, <1>5

LEMMA Numbers ==
    /\ Window \in Nat \ {0} /\ Lookback \in Nat \ {0} /\ PageSize \in Nat \ {0} /\ MaxAttempts \in Nat \ {0} /\ MaxTime \in Nat
    /\ Time \subseteq Nat /\ \A t \in Nat : t \in Time <=> t <= MaxTime
    /\ Never \notin Int /\ Video \subseteq Nat
BY SizeAssumption, NoneAssumption, VideoAssumption DEF Time

LEMMA SlotBounds ==
    ASSUME NEW t \in Nat
    PROVE  /\ FloorSlot(t) \in Nat /\ FloorSlot(t) <= t /\ t < FloorSlot(t) + Window
           /\ CeilSlot(t) \in Nat /\ t <= CeilSlot(t)
<1>1. PICK w \in Nat \ {0} : w = Window
  BY Numbers
<1>2. /\ t \div w \in Nat /\ (t \div w) * w <= t /\ t < (t \div w) * w + w
  OBVIOUS
<1>3. PICK u \in Nat : u = t + w - 1
  OBVIOUS
<1>4. u \div w \in Nat /\ u < (u \div w) * w + w
  OBVIOUS
<1>5. PICK a \in Nat : a = (t \div w) * w
  BY <1>2
<1>6. PICK b \in Nat : b = (u \div w) * w
  BY <1>4
<1>7. a <= t /\ t < a + w /\ u < b + w
  BY <1>2, <1>4, <1>5, <1>6
<1> QED
  BY <1>1, <1>3, <1>5, <1>6, <1>7 DEF FloorSlot, CeilSlot

\* A marked window lies within the range.
LEMMA MarkedWithin ==
    ASSUME NEW from \in Nat, NEW to \in Nat, NEW t \in Nat, FloorSlot(t) \in WholeSlots(from, to)
    PROVE  from <= t /\ t < to
<1>1. FloorSlot(t) \in CeilSlot(from)..(FloorSlot(to) - Window)
  BY DEF WholeSlots, Slots
<1> QED
  BY <1>1, SlotBounds, Numbers

LEMMA MinOf ==
    ASSUME NEW S \in SUBSET Nat, S # {}
    PROVE  Min(S) \in S /\ \A x \in S : Min(S) <= x
BY LeastNumber DEF Min

-----------------------------------------------------------------------------
(* The places of results. *)

LEMMA PlaceType ==
    ASSUME NEW R \in SUBSET Nat, IsFiniteSet(R), NEW v \in R
    PROVE  Place(R, v) \in Nat /\ Place(R, v) > 0 /\ Place(R, v) <= Cardinality(R) /\ Cardinality(R) \in Nat
<1>1. PICK T \in SUBSET R : T = {u \in R : u >= v}
  OBVIOUS
<1>2. v \in T
  BY <1>1
<1>3. IsFiniteSet(T) /\ Cardinality(T) <= Cardinality(R)
  BY FS_Subset
<1>4. Cardinality(T) \in Nat /\ Cardinality(R) \in Nat
  BY <1>3, FS_CardinalityType
<1>5. Cardinality(T) # 0
  BY <1>2, <1>3, FS_EmptySet
<1> QED
  BY <1>1, <1>3, <1>4, <1>5 DEF Place

LEMMA PlaceOrder ==
    ASSUME NEW R \in SUBSET Nat, IsFiniteSet(R), NEW u \in R, NEW v \in R, u >= v
    PROVE  Place(R, u) <= Place(R, v)
<1>1. PICK T \in SUBSET R : T = {x \in R : x >= v}
  OBVIOUS
<1>2. PICK U \in SUBSET T : U = {x \in R : x >= u}
  <2>1. \A x \in R : x >= u => x >= v
    OBVIOUS
  <2> QED
    BY <1>1, <2>1
<1>3. IsFiniteSet(T)
  BY FS_Subset
<1>4. Cardinality(U) <= Cardinality(T)
  BY <1>3, FS_Subset
<1> QED
  BY <1>1, <1>2, <1>4 DEF Place

LEMMA PlaceMore ==
    ASSUME NEW S \in SUBSET Nat, IsFiniteSet(S), NEW R \in SUBSET S, NEW v \in R
    PROVE  Place(R, v) <= Place(S, v)
<1>1. PICK T \in SUBSET S : T = {x \in S : x >= v}
  OBVIOUS
<1>2. PICK U \in SUBSET T : U = {x \in R : x >= v}
  BY <1>1
<1>3. IsFiniteSet(T)
  BY FS_Subset
<1>4. Cardinality(U) <= Cardinality(T)
  BY <1>3, FS_Subset
<1> QED
  BY <1>1, <1>2, <1>4 DEF Place

\* Whoever is behind a video moves up when it goes.
LEMMA PlaceWithout ==
    ASSUME NEW R \in SUBSET Nat, IsFiniteSet(R), NEW v \in R, NEW u \in R, u # v
    PROVE  Place(R \ {v}, u) = IF u < v THEN Place(R, u) - 1 ELSE Place(R, u)
<1>1. PICK T \in SUBSET R : T = {x \in R : x >= u}
  OBVIOUS
<1>2. IsFiniteSet(T)
  BY FS_Subset
<1>3. {x \in R \ {v} : x >= u} = T \ {v}
  BY <1>1
<1>4. Cardinality(T \ {v}) = IF v \in T THEN Cardinality(T) - 1 ELSE Cardinality(T)
  BY <1>2, FS_RemoveElement
<1>5. v \in T <=> u < v
  <2>1. u \in Nat /\ v \in Nat
    OBVIOUS
  <2> QED
    BY <1>1, <2>1
<1> QED
  BY <1>1, <1>3, <1>4, <1>5 DEF Place

\* Every place before one that is taken is taken.
LEMMA PlaceTaken ==
    ASSUME NEW R \in SUBSET Nat, IsFiniteSet(R), NEW v \in R, NEW k \in Nat, k < Place(R, v)
    PROVE  \E u \in R : Place(R, u) = k + 1
<1> DEFINE T == {x \in R : Place(R, x) > k}
<1>1. T \in SUBSET R /\ v \in T
  OBVIOUS
<1>2. PICK u \in T : \A x \in T : x <= u
  <2> HIDE DEF T
  <2>1. IsFiniteSet(T)
    BY <1>1, FS_Subset
  <2>2. PICK f \in [T -> Nat] : \A x \in T : f[x] = x
    <3>1. [x \in T |-> x] \in [T -> Nat]
      BY <1>1
    <3> QED
      BY <3>1
  <2>3. PICK x \in T : \A y \in T : f[y] <= f[x]
    BY <1>1, <2>1, <2>2, Greatest
  <2> QED
    BY <2>2, <2>3
<1>3. u \in R /\ u \in Nat /\ Place(R, u) \in Nat /\ Place(R, u) > k
  BY PlaceType
<1>4. ASSUME Place(R, u) # k + 1
      PROVE  FALSE
  <2> HIDE DEF T
  <2>1. PICK S \in SUBSET R : S = {x \in R : x > u}
    OBVIOUS
  <2>2. IsFiniteSet(S) /\ S \in SUBSET Nat
    <3>1. IsFiniteSet(S)
      BY FS_Subset
    <3> QED
      BY <3>1
  <2>3. {x \in R : x >= u} = S \cup {u} /\ u \notin S
    <3>1. \A x \in R : x \in Nat /\ (x >= u <=> x > u \/ x = u)
      BY <1>3
    <3>2. ~(u > u)
      BY <1>3
    <3>3. \A x : x \in {y \in R : y >= u} <=> x \in S \cup {u}
      BY <1>3, <2>1, <3>1
    <3> QED
      BY <2>1, <3>2, <3>3
  <2>4. Cardinality(S) \in Nat /\ Place(R, u) = Cardinality(S) + 1
    BY <2>2, <2>3, FS_AddElement, FS_CardinalityType DEF Place
  <2>5. S # {}
    BY <1>3, <1>4, <2>4, FS_EmptySet
  <2>6. PICK x \in S : \A y \in S : x <= y
    BY <2>2, <2>5, LeastNumber
  <2>7. x \in R /\ x \in Nat /\ x > u
    BY <2>1
  <2>8. {y \in R : y >= x} = S
    <3>1. \A y \in R : y \in Nat
      OBVIOUS
    <3>2. \A y \in R : y >= x => y > u
      BY <1>3, <2>7, <3>1
    <3> QED
      BY <2>1, <2>6, <3>1, <3>2
  <2>9. Place(R, x) = Cardinality(S)
    BY <2>8 DEF Place
  <2>10. x \in T
    BY <1>3, <1>4, <2>4, <2>7, <2>9 DEF T
  <2> QED
    BY <1>2, <1>3, <2>7, <2>10
<1> QED
  BY <1>3, <1>4

\* An empty page is beyond the results, and so is what comes after the last.
LEMMA EmptyPage ==
    ASSUME NEW R \in SUBSET Nat, IsFiniteSet(R), NEW p \in Nat, p > 0, Page(R, p) = {}, NEW v \in R
    PROVE  Place(R, v) <= (p - 1) * PageSize
<1>1. PICK n \in Nat \ {0} : n = PageSize
  BY Numbers
<1>2. PICK k \in Nat : k = (p - 1) * n
  <2>1. p - 1 \in Nat
    OBVIOUS
  <2> QED
    BY <2>1
<1>3. p * n = k + n
  BY <1>2
<1>4. Place(R, v) \in Nat
  BY PlaceType
<1>5. ASSUME Place(R, v) > k
      PROVE  FALSE
  <2>1. PICK u \in R : Place(R, u) = k + 1
    BY <1>5, PlaceTaken
  <2>2. k + 1 \in (k + 1)..(k + n)
    OBVIOUS
  <2> QED
    BY <1>1, <1>2, <1>3, <2>1, <2>2 DEF Page
<1> QED
  BY <1>1, <1>2, <1>4, <1>5

LEMMA LastPage ==
    ASSUME NEW R \in SUBSET Nat, IsFiniteSet(R), NEW p \in Nat, p >= NumPages(R), NEW v \in R
    PROVE  Place(R, v) <= p * PageSize
<1>1. PICK n \in Nat \ {0} : n = PageSize
  BY Numbers
<1>2. Place(R, v) \in Nat /\ Place(R, v) <= Cardinality(R) /\ Cardinality(R) \in Nat
  BY PlaceType
<1>3. PICK c \in Nat : c = Cardinality(R)
  BY <1>2
<1>4. PICK d \in Nat : d = c + n - 1
  OBVIOUS
<1>5. d \div n \in Nat /\ d < (d \div n) * n + n
  OBVIOUS
<1>6. PICK q \in Nat : q = d \div n
  BY <1>5
<1>7. q <= p
  BY <1>1, <1>3, <1>4, <1>6 DEF NumPages
<1>8. q * n <= p * n
  BY <1>7
<1>9. PICK a \in Nat, b \in Nat : a = q * n /\ b = p * n
  OBVIOUS
<1>10. c <= b
  BY <1>4, <1>5, <1>6, <1>8, <1>9
<1> QED
  BY <1>1, <1>2, <1>3, <1>9, <1>10

-----------------------------------------------------------------------------
(* What happens around a sweep. *)

LEMMA ResultFacts ==
    ASSUME NEW w \in SweepRecord, NEW n \in Time, NEW pub \in [Video -> Time \cup {Never}], NEW lst \in SUBSET Video,
           PublishedOK(n, pub, lst)
    PROVE  /\ ResultsOf(w, pub, lst) \in SUBSET Nat /\ IsFiniteSet(ResultsOf(w, pub, lst))
           /\ ResultsOf(w, pub, lst) \in SUBSET lst
           /\ \A v \in ResultsOf(w, pub, lst) : v \in Video /\ v \in Nat /\ pub[v] \in Nat
           /\ PagesRead(w) \in Nat \/ PagesRead(w) = w.page - 1
<1>1. ResultsOf(w, pub, lst) \in SUBSET lst
  BY DEF ResultsOf
<1>2. IsFiniteSet(ResultsOf(w, pub, lst))
  BY <1>1, FS_Subset DEF PublishedOK
<1>3. \A v \in lst : v \in Video /\ v \in Nat /\ pub[v] \in Nat
  BY Numbers DEF PublishedOK
<1>4. w.page \in Nat
  BY DEF SweepRecord
<1> QED
  BY <1>1, <1>2, <1>3, <1>4 DEF PagesRead

LEMMA RestKeeps ==
    ASSUME NEW q, NEW n \in Time, NEW pub, NEW lst, NEW known, NEW fnd,
           ~Busy(q), q.inHand = {}, q.asOf # Never => q.asOf <= n, q.pc = "look" => q.asOf # Never
    PROVE  SweepOK(q, n, pub, lst, known, fnd)
BY DEF SweepOK, BatchOK, PagesOK, OldestOK, EndOK, Busy

LEMMA GrowKeeps ==
    ASSUME NEW w \in SweepRecord, NEW n \in Time, NEW pub \in [Video -> Time \cup {Never}], NEW lst \in SUBSET Video,
           NEW known, NEW fnd, SweepOK(w, n, pub, lst, known, fnd),
           NEW n2 \in Time, n <= n2, NEW known2, known \subseteq known2, NEW fnd2, fnd \subseteq fnd2
    PROVE  SweepOK(w, n2, pub, lst, known2, fnd2)
<1>1. BatchOK(w, n2, pub, fnd2)
  <2>1. ASSUME w.asOf # Never
        PROVE  w.asOf <= n2
    <3>1. w.asOf \in Time \cup {Never}
      BY DEF SweepRecord
    <3>2. PICK a \in Nat : a = w.asOf
      BY <2>1, <3>1, Numbers
    <3>3. a <= n
      BY <2>1, <3>2 DEF SweepOK, BatchOK
    <3>4. n \in Nat /\ n2 \in Nat
      BY Numbers
    <3> QED
      BY <3>2, <3>3, <3>4
  <2> QED
    BY <2>1 DEF SweepOK, BatchOK
<1>2. PagesOK(w, pub, lst, known2)
  BY DEF SweepOK, PagesOK
<1>3. OldestOK(w, pub, lst, known2)
  BY DEF SweepOK, OldestOK
<1>4. EndOK(w, pub, lst, known2)
  BY DEF SweepOK, EndOK
<1> QED
  BY <1>1, <1>2, <1>3, <1>4 DEF SweepOK

\* A new video is published when a sweep has been taken up, so that it is none of its hits.
LEMMA PublishKeeps ==
    ASSUME NEW w \in SweepRecord, NEW n \in Time, NEW pub \in [Video -> Time \cup {Never}], NEW lst \in SUBSET Video,
           PublishedOK(n, pub, lst), NEW known, NEW fnd \in SUBSET Video, SweepOK(w, n, pub, lst, known, fnd),
           NEW x \in Video, pub[x] = Never
    PROVE  SweepOK(w, n, [pub EXCEPT ![x] = n], lst \cup {x}, known, fnd)
<1>1. PICK pub2 \in [Video -> Time \cup {Never}] : pub2 = [pub EXCEPT ![x] = n]
  OBVIOUS
<1>2. pub2[x] = n /\ \A v \in Video : v # x => pub2[v] = pub[v]
  BY <1>1
<1>3. PICK lst2 \in SUBSET Video : lst2 = lst \cup {x}
  OBVIOUS
<1>4. n \in Nat /\ w.oldest \in Int /\ w.from \in Nat /\ w.inHand \in SUBSET Video /\ w.asOf \in Time \cup {Never}
  BY Numbers DEF SweepRecord
<1>5. \A v \in Video : pub[v] # Never => pub2[v] = pub[v] /\ v # x
  BY <1>2
<1>6. \A v \in lst : v \in Video /\ pub[v] # Never /\ pub2[v] = pub[v]
  BY <1>5 DEF PublishedOK
<1>7. BatchOK(w, n, pub2, fnd)
  <2>1. ASSUME Busy(w), w.oldest < w.to
        PROVE  \E y \in fnd : pub2[y] = w.oldest
    <3>1. PICK y \in fnd : pub[y] = w.oldest
      BY <2>1 DEF SweepOK, BatchOK
    <3>2. pub[y] # Never
      BY <1>4, <3>1, Numbers
    <3> QED
      BY <1>5, <3>1, <3>2
  <2>2. Busy(w) => \A y \in w.inHand : pub2[y] = pub[y]
    BY <1>4, <1>5 DEF SweepOK, BatchOK
  <2> QED
    BY <2>1, <2>2 DEF SweepOK, BatchOK
<1>8. ASSUME NEW v \in Hits(w, pub2, lst2), w.asOf # Never
      PROVE  v \in Hits(w, pub, lst) /\ v \in lst /\ pub2[v] = pub[v]
  <2>1. v \in lst2 /\ pub2[v] \in w.from..w.to /\ w.ask.category \in {CategoryOf[v], AnyCategory} /\ pub2[v] < w.asOf
    BY DEF Hits, ResultsOf
  <2>2. w.asOf \in Nat /\ w.asOf <= n
    BY <1>4, <1>8, Numbers DEF SweepOK, BatchOK
  <2>3. v # x
    BY <1>2, <1>4, <2>1, <2>2
  <2>4. v \in lst
    BY <1>3, <2>1, <2>3
  <2> QED
    BY <1>6, <2>1, <2>4 DEF Hits, ResultsOf
<1>9. ASSUME NEW v \in ResultsOf(w, pub, lst)
      PROVE  v \in ResultsOf(w, pub2, lst2)
  BY <1>3, <1>6 DEF ResultsOf
<1>11. ResultsOf(w, pub2, lst2) \in SUBSET Nat /\ IsFiniteSet(ResultsOf(w, pub2, lst2))
  <2>1. IsFiniteSet(lst2)
    <3>1. IsFiniteSet(lst)
      BY DEF PublishedOK
    <3> QED
      BY <1>3, <3>1, FS_AddElement
  <2>2. ResultsOf(w, pub2, lst2) \in SUBSET lst2
    BY DEF ResultsOf
  <2>3. IsFiniteSet(ResultsOf(w, pub2, lst2))
    BY <2>1, <2>2, FS_Subset
  <2> QED
    BY <2>2, <2>3, Numbers
<1>12. PagesOK(w, pub2, lst2, known)
  <2> SUFFICES ASSUME w.pc \in {"query", "offer"}, NEW v \in Hits(w, pub2, lst2),
                      Place(ResultsOf(w, pub2, lst2), v) <= PagesRead(w) * PageSize
               PROVE  v \in known \cup w.inHand
    BY DEF PagesOK
  <2>1. w.asOf # Never
    BY DEF SweepOK, BatchOK, Busy
  <2>2. v \in Hits(w, pub, lst) /\ v \in ResultsOf(w, pub, lst)
    BY <1>8, <2>1 DEF Hits
  <2>3. PICK R, S : R = ResultsOf(w, pub, lst) /\ S = ResultsOf(w, pub2, lst2)
    OBVIOUS
  <2>4. /\ S \in SUBSET Nat /\ IsFiniteSet(S) /\ R \in SUBSET S /\ v \in R /\ v \in S
        /\ R \in SUBSET Nat /\ IsFiniteSet(R)
    <3>1. R \in SUBSET S /\ v \in R /\ v \in S
      BY <1>9, <2>2, <2>3
    <3>2. S \in SUBSET Nat /\ IsFiniteSet(S)
      BY <1>11, <2>3
    <3>3. R \in SUBSET Nat /\ IsFiniteSet(R)
      BY <3>1, <3>2, FS_Subset
    <3> QED
      BY <3>1, <3>2, <3>3
  <2>5. Place(R, v) <= Place(S, v)
    BY <2>4, PlaceMore
  <2>6. Place(R, v) \in Nat /\ Place(S, v) \in Nat
    BY <2>4, PlaceType
  <2>7. PICK m \in Int : m = PagesRead(w) * PageSize
    <3>1. w.page \in Nat /\ PageSize \in Nat
      BY Numbers DEF SweepRecord
    <3>2. PagesRead(w) \in Int
      BY <3>1 DEF PagesRead
    <3> QED
      BY <3>1, <3>2
  <2>8. Place(R, v) <= PagesRead(w) * PageSize
    BY <2>3, <2>5, <2>6, <2>7
  <2> QED
    BY <2>2, <2>3, <2>8 DEF SweepOK, PagesOK
<1>13. OldestOK(w, pub2, lst2, known)
  <2> SUFFICES ASSUME Busy(w), NEW v \in Hits(w, pub2, lst2),
                      pub2[v] > w.oldest \/ (\E y \in w.inHand : pub2[v] > pub2[y])
               PROVE  v \in known \cup w.inHand
    BY DEF OldestOK
  <2>1. w.asOf # Never /\ \A y \in w.inHand : pub2[y] = pub[y]
    BY <1>4, <1>5 DEF SweepOK, BatchOK
  <2>2. v \in Hits(w, pub, lst) /\ pub2[v] = pub[v]
    BY <1>8, <2>1
  <2> QED
    BY <2>1, <2>2 DEF SweepOK, OldestOK
<1>14. EndOK(w, pub2, lst2, known)
  <2>1. Busy(w) => w.asOf # Never
    BY DEF SweepOK, BatchOK
  <2> QED
    BY <1>8, <2>1 DEF SweepOK, EndOK, Busy
<1> QED
  BY <1>1, <1>3, <1>7, <1>12, <1>13, <1>14 DEF SweepOK

\* Whoever moves to a page that was read is displaced.
LEMMA WithdrawKeeps ==
    ASSUME NEW w \in SweepRecord, NEW n \in Time, NEW pub \in [Video -> Time \cup {Never}], NEW lst \in SUBSET Video,
           PublishedOK(n, pub, lst), NEW known, NEW fnd \in SUBSET Video, SweepOK(w, n, pub, lst, known, fnd),
           NEW x \in lst, NEW known2, known \subseteq known2,
           PagesRead(w) > 0 => \A u \in ResultsOf(w, pub, lst) :
               /\ x \in ResultsOf(w, pub, lst) /\ u < x
               /\ Place(ResultsOf(w, pub, lst), u) = PagesRead(w) * PageSize + 1
               => u \in known2
    PROVE  SweepOK(w, n, pub, lst \ {x}, known2, fnd)
<1> DEFINE R == ResultsOf(w, pub, lst)
           S == ResultsOf(w, pub, lst \ {x})
<1>1. S = R \ {x} /\ Hits(w, pub, lst \ {x}) \subseteq Hits(w, pub, lst)
  BY DEF ResultsOf, Hits
<1>2. R \in SUBSET Nat /\ IsFiniteSet(R)
  BY ResultFacts
<1>3. PagesOK(w, pub, lst \ {x}, known2)
  <2> SUFFICES ASSUME w.pc \in {"query", "offer"}, NEW v \in Hits(w, pub, lst \ {x}),
                      Place(S, v) <= PagesRead(w) * PageSize
               PROVE  v \in known2 \cup w.inHand
    BY DEF PagesOK
  <2>1. v \in S /\ v \in R /\ v # x /\ v \in Hits(w, pub, lst)
    BY <1>1 DEF Hits
  <2> HIDE DEF R, S
  <2>2. S \in SUBSET Nat /\ IsFiniteSet(S)
    <3>1. S \in SUBSET R
      BY <1>1
    <3> QED
      BY <1>2, <3>1, FS_Subset
  <2>3. Place(R, v) \in Nat /\ Place(S, v) \in Nat /\ Place(S, v) > 0
    BY <1>2, <2>1, <2>2, PlaceType
  <2>4. PICK k \in Nat : k = PagesRead(w)
    <3>1. w.page \in Nat /\ w.page > 0
      BY DEF SweepRecord, SweepOK, BatchOK, Busy
    <3> QED
      BY <3>1 DEF PagesRead
  <2>5. PICK p \in Nat \ {0} : p = PageSize
    BY Numbers
  <2>6. PICK m \in Nat : m = k * p
    OBVIOUS
  <2>7. Place(S, v) <= m
    BY <2>4, <2>5, <2>6
  <2>8. k # 0
    BY <2>3, <2>6, <2>7
  <2>9. CASE Place(R, v) <= m
    <3>1. v \in known \cup w.inHand
      BY <2>1, <2>4, <2>5, <2>6, <2>9 DEF SweepOK, PagesOK, R
    <3> QED
      BY <3>1
  <2>10. CASE Place(R, v) > m
    <3>1. x \in R
      <4>1. x \notin R => S = R
        BY <1>1
      <4> QED
        BY <2>3, <2>7, <2>10, <4>1
    <3>2. Place(S, v) = IF v < x THEN Place(R, v) - 1 ELSE Place(R, v)
      BY <1>1, <1>2, <2>1, <3>1, PlaceWithout
    <3>3. v < x /\ Place(R, v) = m + 1
      BY <2>3, <2>7, <2>10, <3>2
    <3> QED
      BY <2>1, <2>4, <2>5, <2>6, <2>8, <3>1, <3>3 DEF R
  <2> QED
    BY <2>3, <2>9, <2>10
<1>4. BatchOK(w, n, pub, fnd)
  BY DEF SweepOK
<1>5. OldestOK(w, pub, lst \ {x}, known2)
  <2>1. OldestOK(w, pub, lst, known)
    BY DEF SweepOK
  <2> HIDE DEF R, S
  <2> QED
    BY <1>1, <2>1 DEF OldestOK
<1>6. EndOK(w, pub, lst \ {x}, known2)
  <2>1. EndOK(w, pub, lst, known)
    BY DEF SweepOK
  <2> HIDE DEF R, S
  <2> QED
    BY <1>1, <2>1 DEF EndOK
<1> QED
  BY <1>3, <1>4, <1>5, <1>6 DEF SweepOK

-----------------------------------------------------------------------------
(* What a sweep does. *)

LEMMA BatchBegins ==
    ASSUME NEW q, NEW n \in Time, NEW pub \in [Video -> Time \cup {Never}], NEW lst \in SUBSET Video,
           PublishedOK(n, pub, lst), NEW known, NEW fnd,
           q.pc = "query", q.page = 1, q.oldest = q.to, q.inHand = {}, q.asOf # Never, q.asOf <= n,
           q.from \in Time, q.to \in Time, q.from < q.to
    PROVE  SweepOK(q, n, pub, lst, known, fnd)
<1>0. q.from \in Nat /\ q.to \in Nat
  BY Numbers
<1>1. BatchOK(q, n, pub, fnd)
  BY <1>0 DEF BatchOK
<1>2. ASSUME NEW v \in ResultsOf(q, pub, lst)
      PROVE  /\ pub[v] \in Nat /\ pub[v] <= q.to
             /\ Place(ResultsOf(q, pub, lst), v) \in Nat /\ Place(ResultsOf(q, pub, lst), v) > 0
  <2>1. v \in lst /\ pub[v] \in q.from..q.to
    BY DEF ResultsOf
  <2>2. PICK R : R = ResultsOf(q, pub, lst)
    OBVIOUS
  <2>3. R \in SUBSET lst
    BY <2>2 DEF ResultsOf
  <2>4. IsFiniteSet(R)
    BY <2>3, FS_Subset DEF PublishedOK
  <2>5. R \in SUBSET Nat
    BY <2>3, Numbers
  <2>6. Place(R, v) \in Nat /\ Place(R, v) > 0
    BY <2>2, <2>4, <2>5, PlaceType
  <2> QED
    BY <1>0, <2>1, <2>2, <2>6
<1>3. PagesRead(q) = 0
  BY DEF PagesRead
<1>4. PagesOK(q, pub, lst, known)
  <2>1. PagesRead(q) * PageSize = 0
    BY <1>3, Numbers
  <2> QED
    BY <1>2, <2>1 DEF PagesOK, Hits
<1>5. OldestOK(q, pub, lst, known)
  BY <1>0, <1>2 DEF OldestOK, Hits
<1>6. EndOK(q, pub, lst, known)
  BY DEF EndOK
<1> QED
  BY <1>1, <1>4, <1>5, <1>6 DEF SweepOK

\* A page is read: what is newer than one of its videos is on it or was read before.
LEMMA QueryKeeps ==
    ASSUME NEW w \in SweepRecord, NEW n \in Time, NEW pub \in [Video -> Time \cup {Never}], NEW lst \in SUBSET Video,
           PublishedOK(n, pub, lst), NEW known, NEW fnd, SweepOK(w, n, pub, lst, known, fnd), w.pc = "query",
           NEW inHand, inHand = Page(ResultsOf(w, pub, lst), w.page), NEW isTold \in BOOLEAN, NEW q,
           q = IF inHand = {} THEN [w EXCEPT !.pc = "mark", !.end = TRUE]
               ELSE [w EXCEPT !.pc = "offer", !.inHand = inHand,
                              !.isLast = isTold /\ w.page >= NumPages(ResultsOf(w, pub, lst))]
    PROVE  SweepOK(q, n, pub, lst, known, fnd)
<1> DEFINE R == ResultsOf(w, pub, lst)
<1>1. R \in SUBSET Nat /\ IsFiniteSet(R) /\ R \in SUBSET lst /\ \A v \in R : v \in Video /\ v \in Nat /\ pub[v] \in Nat
  BY ResultFacts
<1>2. /\ w.asOf # Never /\ w.asOf <= n /\ w.page \in Nat /\ w.page > 0 /\ w.from \in Nat /\ w.to \in Time /\ w.to \in Nat
      /\ w.from < w.to /\ w.from <= w.oldest /\ w.oldest <= w.to /\ w.oldest \in Int /\ w.inHand = {}
      /\ w.oldest < w.to => \E x \in fnd : pub[x] = w.oldest
  BY Numbers DEF SweepOK, BatchOK, Busy, SweepRecord
<1>3. /\ q.from = w.from /\ q.to = w.to /\ q.ask = w.ask /\ q.asOf = w.asOf /\ q.page = w.page /\ q.oldest = w.oldest
      /\ inHand = {} => q.pc = "mark" /\ q.inHand = {} /\ q.end = TRUE
      /\ inHand # {} => q.pc = "offer" /\ q.inHand = inHand /\ q.isLast = (isTold /\ w.page >= NumPages(R))
  BY <1>2 DEF SweepRecord
<1>4. ResultsOf(q, pub, lst) = R /\ Hits(q, pub, lst) = Hits(w, pub, lst) /\ Hits(w, pub, lst) \subseteq R
  BY <1>3 DEF ResultsOf, Hits
<1>5. PICK a \in Int, b \in Nat : a = (w.page - 1) * PageSize /\ b = w.page * PageSize
  <2>1. PICK p \in Nat, g \in Nat : p = PageSize /\ g = w.page
    BY <1>2, Numbers
  <2>2. (g - 1) * p \in Int /\ g * p \in Nat
    OBVIOUS
  <2> QED
    BY <2>1, <2>2
<1>6. \A v \in R : Place(R, v) \in Nat /\ (v \in inHand <=> Place(R, v) \in (a + 1)..b)
  <2> HIDE DEF R
  <2>1. \A v \in R : Place(R, v) \in Nat
    BY <1>1, PlaceType
  <2> QED
    BY <1>5, <2>1 DEF Page, R
<1>7. inHand \subseteq R
  BY DEF Page
<1>8. \A v \in Hits(w, pub, lst) : Place(R, v) <= a => v \in known
  <2>1. PagesRead(w) = w.page - 1
    BY DEF PagesRead
  <2> QED
    BY <1>2, <1>5, <2>1 DEF SweepOK, PagesOK
<1> HIDE DEF R
<1>9. BatchOK(q, n, pub, fnd)
  <2>1. \A x \in inHand : pub[x] # Never /\ w.from <= pub[x] /\ pub[x] <= w.to
    <3>1. \A x \in R : pub[x] \in w.from..w.to
      BY DEF R, ResultsOf
    <3> QED
      BY <1>1, <1>2, <1>7, <3>1, Numbers
  <2> QED
    BY <1>2, <1>3, <2>1 DEF BatchOK, Busy
<1>10. \A v \in Hits(w, pub, lst) : Place(R, v) <= b => v \in known \cup inHand
  <2>1. \A v \in Hits(w, pub, lst) : Place(R, v) <= b => Place(R, v) <= a \/ Place(R, v) \in (a + 1)..b
    BY <1>4, <1>6
  <2> QED
    BY <1>4, <1>6, <1>8, <2>1
<1>11. PagesOK(q, pub, lst, known)
  <2>1. q.pc \in {"query", "offer"} => inHand # {} /\ PagesRead(q) = w.page
    BY <1>3 DEF PagesRead
  <2> QED
    BY <1>3, <1>4, <1>5, <1>10, <2>1 DEF PagesOK
<1>12. OldestOK(q, pub, lst, known)
  <2>1. ASSUME NEW v \in Hits(w, pub, lst), pub[v] > w.oldest
        PROVE  v \in known
    BY <1>2, <2>1 DEF SweepOK, OldestOK, Busy
  <2>2. ASSUME NEW v \in Hits(w, pub, lst), NEW x \in inHand, pub[v] > pub[x]
        PROVE  v \in known \cup inHand
    <3>1. v \in R /\ x \in R
      BY <1>4, <1>7
    <3>2. v \in Nat /\ x \in Nat /\ v \in Video /\ x \in Video /\ pub[v] \in Nat /\ pub[x] \in Nat
      BY <1>1, <3>1
    <3>3. v < x => pub[v] <= pub[x]
      BY <3>2, Numbers DEF PublishedOK
    <3>4. v >= x
      BY <2>2, <3>2, <3>3
    <3>5. Place(R, v) <= Place(R, x) /\ Place(R, x) <= b /\ Place(R, v) \in Nat /\ Place(R, x) \in Nat
      <4>1. Place(R, v) <= Place(R, x)
        BY <1>1, <3>1, <3>4, PlaceOrder
      <4> QED
        BY <1>6, <3>1, <4>1
    <3> QED
      BY <1>10, <3>5
  <2>3. q.inHand \in {{}, inHand}
    BY <1>3
  <2>4. q.inHand = inHand
    BY <1>3
  <2> QED
    BY <1>3, <1>4, <2>1, <2>2, <2>4 DEF OldestOK
<1>13. EndOK(q, pub, lst, known)
  <2>1. ASSUME inHand = {}
        PROVE  Hits(w, pub, lst) \subseteq known
    <3>1. \A v \in R : Place(R, v) <= a
      BY <1>1, <1>2, <1>5, <2>1, EmptyPage DEF R
    <3> QED
      BY <1>4, <1>8, <3>1
  <2>2. ASSUME inHand # {}, w.page >= NumPages(R)
        PROVE  Hits(w, pub, lst) \subseteq known \cup inHand
    <3>1. \A v \in R : Place(R, v) <= b
      BY <1>1, <1>2, <1>5, <2>2, LastPage
    <3> QED
      BY <1>4, <1>10, <3>1
  <2> QED
    BY <1>3, <1>4, <2>1, <2>2 DEF EndOK
<1> QED
  BY <1>9, <1>11, <1>12, <1>13 DEF SweepOK

LEMMA BusyFacts ==
    ASSUME NEW w \in SweepRecord, NEW n \in Time, NEW pub, NEW fnd, BatchOK(w, n, pub, fnd), Busy(w)
    PROVE  /\ w.from \in Nat /\ w.to \in Nat /\ w.to \in Time /\ w.from < w.to /\ w.asOf \in Time /\ w.asOf \in Nat /\ w.asOf <= n
           /\ w.oldest \in Nat /\ w.from <= w.oldest /\ w.oldest <= w.to
<1>1. w.from \in Time /\ w.to \in Time /\ w.asOf \in Time /\ w.oldest \in Int
  BY DEF BatchOK, SweepRecord
<1>2. w.from \in Nat /\ w.to \in Nat /\ w.asOf \in Nat
  BY <1>1, Numbers
<1> QED
  BY <1>1, <1>2 DEF BatchOK

LEMMA OldestOf ==
    ASSUME NEW w \in SweepRecord, NEW n \in Time, NEW pub \in [Video -> Time \cup {Never}], NEW fnd,
           BatchOK(w, n, pub, fnd), Busy(w), NEW times,
           \A t : t \in times <=> t = w.oldest \/ \E x \in w.inHand : t = pub[x]
    PROVE  /\ Min(times) \in Nat /\ (Min(times) = w.oldest \/ \E x \in w.inHand : Min(times) = pub[x])
           /\ Min(times) <= w.oldest /\ \A x \in w.inHand : Min(times) <= pub[x]
<1>1. w.oldest \in Nat
  BY BusyFacts
<1>2. \A x \in w.inHand : pub[x] \in Nat
  <2>1. \A x \in w.inHand : pub[x] # Never /\ pub[x] \in Time \cup {Never}
    BY DEF BatchOK, SweepRecord
  <2> QED
    BY <2>1, Numbers
<1>3. times \in SUBSET Nat /\ times # {}
  BY <1>1, <1>2
<1>4. Min(times) \in times /\ \A t \in times : Min(times) <= t
  BY <1>3, MinOf
<1> QED
  BY <1>3, <1>4

\* The page is offered: the oldest of it is where the batch has come to.
LEMMA OfferKeeps ==
    ASSUME NEW w \in SweepRecord, NEW n \in Time, NEW pub \in [Video -> Time \cup {Never}], NEW lst \in SUBSET Video,
           PublishedOK(n, pub, lst), NEW known, NEW fnd, SweepOK(w, n, pub, lst, known, fnd), w.pc = "offer",
           NEW oldest, oldest \in Nat,
           oldest = w.oldest \/ \E x \in w.inHand : oldest = pub[x], oldest <= w.oldest, \A x \in w.inHand : oldest <= pub[x], NEW q,
           q.from = w.from, q.to = w.to, q.ask = w.ask, q.asOf = w.asOf, q.oldest = oldest, q.inHand = {},
           \/ q.pc = "mark" /\ q.page = w.page /\ q.end = w.isLast
           \/ q.pc = "query" /\ q.page = w.page + 1
    PROVE  SweepOK(q, n, pub, lst, known \cup w.inHand, fnd \cup w.inHand)
<1>0. BatchOK(w, n, pub, fnd) /\ Busy(w)
  BY DEF SweepOK, Busy
<1>1. /\ w.asOf # Never /\ w.asOf <= n /\ w.page \in Nat /\ w.page > 0 /\ w.from \in Nat /\ w.to \in Time /\ w.to \in Nat
      /\ w.from < w.to /\ w.from <= w.oldest /\ w.oldest <= w.to /\ w.oldest \in Nat
      /\ w.oldest < w.to => \E x \in fnd : pub[x] = w.oldest
  <2>1. w.page \in Nat
    BY DEF SweepRecord
  <2> QED
    BY <1>0, <2>1, BusyFacts DEF BatchOK
<1>2. \A x \in w.inHand : pub[x] \in Nat /\ w.from <= pub[x] /\ pub[x] <= w.to
  <2>1. \A x \in w.inHand : pub[x] # Never /\ w.from <= pub[x] /\ pub[x] <= w.to /\ pub[x] \in Time \cup {Never}
    BY DEF SweepOK, BatchOK, Busy, SweepRecord
  <2> QED
    BY <2>1, Numbers
<1>3. /\ oldest \in Nat /\ (oldest = w.oldest \/ \E x \in w.inHand : oldest = pub[x])
      /\ oldest <= w.oldest /\ \A x \in w.inHand : oldest <= pub[x]
  OBVIOUS
<1>4. \/ q.pc = "mark" /\ q.page = w.page /\ q.end = w.isLast
      \/ q.pc = "query" /\ q.page = w.page + 1
  OBVIOUS
<1>5. ResultsOf(q, pub, lst) = ResultsOf(w, pub, lst) /\ Hits(q, pub, lst) = Hits(w, pub, lst)
  BY <1>4 DEF ResultsOf, Hits
<1>6. PICK known2, fnd2 : known2 = known \cup w.inHand /\ fnd2 = fnd \cup w.inHand
  OBVIOUS
<1>7. BatchOK(q, n, pub, fnd2)
  <2>1. w.from <= oldest /\ oldest <= w.to
    BY <1>1, <1>2, <1>3
  <2>2. oldest < w.to => \E x \in fnd2 : pub[x] = oldest
    BY <1>1, <1>3, <1>6
  <2>3. q.page \in Nat /\ q.page > 0 /\ q.pc \in {"mark", "query"}
    BY <1>1, <1>4
  <2> QED
    BY <1>1, <1>4, <2>1, <2>2, <2>3 DEF BatchOK
<1>8. PagesOK(q, pub, lst, known2)
  <2>1. q.pc \in {"query", "offer"} => PagesRead(q) = w.page
    BY <1>1, <1>4 DEF PagesRead
  <2>2. PagesRead(w) = w.page
    BY DEF PagesRead
  <2>3. \A v \in Hits(w, pub, lst) : Place(ResultsOf(w, pub, lst), v) <= w.page * PageSize => v \in known2
    BY <1>6, <2>2 DEF SweepOK, PagesOK
  <2> QED
    BY <1>5, <2>1, <2>3 DEF PagesOK
<1>9. OldestOK(q, pub, lst, known2)
  <2>1. \A v \in Hits(w, pub, lst) : (pub[v] > w.oldest \/ \E x \in w.inHand : pub[v] > pub[x]) => v \in known2
    BY <1>6 DEF SweepOK, OldestOK, Busy
  <2>2. \A v \in Hits(w, pub, lst) : pub[v] > oldest => pub[v] > w.oldest \/ \E x \in w.inHand : pub[v] > pub[x]
    BY <1>3
  <2>3. q.inHand = {} /\ q.oldest = oldest
    BY <1>4
  <2> QED
    BY <1>5, <2>1, <2>2, <2>3 DEF OldestOK
<1>10. EndOK(q, pub, lst, known2)
  <2>1. w.isLast => Hits(w, pub, lst) \subseteq known2
    BY <1>6 DEF SweepOK, EndOK
  <2> QED
    BY <1>4, <1>5, <2>1 DEF EndOK
<1> QED
  BY <1>3, <1>6, <1>7, <1>8, <1>9, <1>10 DEF SweepOK

\* What is marked has been found, or was published with a video that was.
LEMMA MarkedIsFound ==
    ASSUME NEW w \in SweepRecord, NEW n \in Time, NEW pub \in [Video -> Time \cup {Never}], NEW lst \in SUBSET Video,
           PublishedOK(n, pub, lst), NEW known, NEW fnd, SweepOK(w, n, pub, lst, known, fnd), w.pc = "mark",
           NEW from, from = IF w.end \/ w.oldest <= w.from THEN w.from ELSE w.oldest,
           NEW v \in lst, FloorSlot(pub[v]) \in WholeSlots(from, w.to), w.ask.category \in {CategoryOf[v], AnyCategory},
           pub[v] < w.asOf
    PROVE  v \in known \/ \E x \in fnd : pub[x] = pub[v]
<1>1. /\ w.from \in Nat /\ w.to \in Nat /\ w.from <= w.oldest /\ w.oldest \in Nat /\ w.inHand = {}
      /\ w.oldest < w.to => \E x \in fnd : pub[x] = w.oldest
  <2>1. BatchOK(w, n, pub, fnd) /\ Busy(w)
    BY DEF SweepOK, Busy
  <2>2. w.from \in Nat /\ w.to \in Nat /\ w.from <= w.oldest /\ w.oldest \in Nat
    BY <2>1, BusyFacts
  <2> QED
    BY <2>1, <2>2 DEF BatchOK
<1>2. pub[v] \in Nat /\ from \in Nat /\ w.from <= from /\ (~w.end => from = w.oldest)
  <2>1. pub[v] \in Nat
    <3>1. pub[v] \in Time \cup {Never} /\ pub[v] # Never
      BY DEF PublishedOK
    <3> QED
      BY <3>1, Numbers
  <2>2. CASE w.end
    BY <1>1, <2>1, <2>2
  <2>3. CASE ~w.end /\ w.oldest <= w.from
    BY <1>1, <2>1, <2>3
  <2>4. CASE ~w.end /\ ~(w.oldest <= w.from)
    BY <1>1, <2>1, <2>4
  <2> QED
    BY <2>2, <2>3, <2>4
<1>3. from <= pub[v] /\ pub[v] < w.to
  BY <1>1, <1>2, MarkedWithin
<1>4. v \in Hits(w, pub, lst)
  BY <1>1, <1>2, <1>3 DEF Hits, ResultsOf
<1>5. CASE w.end
  BY <1>1, <1>4, <1>5 DEF SweepOK, EndOK
<1>6. CASE ~w.end
  <2>1. CASE pub[v] > w.oldest
    BY <1>1, <1>4, <2>1 DEF SweepOK, OldestOK, Busy
  <2>2. CASE pub[v] = w.oldest
    BY <1>1, <1>3, <2>2
  <2> QED
    BY <1>1, <1>2, <1>3, <1>6, <2>1, <2>2
<1> QED
  BY <1>5, <1>6

-----------------------------------------------------------------------------
(* The actions. *)

LEMMA RestTypes ==
    /\ IdleSweep \in SweepRecord /\ NoRequest \in RequestRecord
    /\ \A ask \in RequestRecord : [IdleSweep EXCEPT !.pc = "waiting", !.ask = ask] \in SweepRecord
    /\ \A w \in SweepRecord, f \in 0..MaxAttempts : Requeued(w, f) \in SweepRecord
<1>1. NoRequest \in RequestRecord
  BY DEF NoRequest, RequestRecord
<1>2. 0 \in Time /\ 0 \in 0..MaxAttempts
  BY Numbers
<1>3. IdleSweep \in SweepRecord
  BY <1>1, <1>2 DEF IdleSweep, SweepRecord
<1>4. ASSUME NEW ask \in RequestRecord
      PROVE  [IdleSweep EXCEPT !.pc = "waiting", !.ask = ask] \in SweepRecord
  BY <1>3 DEF SweepRecord
<1>5. ASSUME NEW w \in SweepRecord, NEW f \in 0..MaxAttempts
      PROVE  Requeued(w, f) \in SweepRecord
  <2>1. w.ask \in RequestRecord /\ w.asOf \in Time \cup {Never}
    BY DEF SweepRecord
  <2> QED
    BY <1>3, <2>1 DEF Requeued, SweepRecord
<1> QED
  BY <1>1, <1>3, <1>4, <1>5

LEMMA MarkedTypes ==
    ASSUME NEW from \in Nat, NEW to \in Time
    PROVE  WholeSlots(from, to) \subseteq Slots(0, MaxTime)
<1>1. to \in Nat /\ to <= MaxTime
  BY Numbers
<1>2. CeilSlot(from) \in Nat /\ FloorSlot(to) \in Nat /\ FloorSlot(to) <= to
  BY <1>1, SlotBounds
<1> QED
  BY <1>1, <1>2, Numbers DEF WholeSlots, Slots

\* A step of one sweep.
LEMMA OneSweep ==
    ASSUME SweepInv, NEW s \in Sweep, NEW q \in SweepRecord, sweeps' = [sweeps EXCEPT ![s] = q],
           UNCHANGED <<now, published, listed, displaced>>, found \subseteq found', found' \subseteq Video,
           covered' \subseteq Video, explored' \subseteq Slots(0, MaxTime),
           SweepOK(q, now, published, listed, found' \cup displaced, found'),
           \A v \in covered' : \/ v \in covered
                               \/ /\ published[v] # Never
                                  /\ v \in found' \cup displaced \/ \E x \in found' : published[x] = published[v]
    PROVE  SweepInv'
<1>1. TypeOK
  BY DEF SweepInv
<1>2. TypeOK'
  BY <1>1 DEF TypeOK
<1>3. ASSUME NEW t \in Sweep
      PROVE  SweepOK(sweeps[t], now, published, listed, Known, found)'
  <2>1. PICK fnd2, known2 : fnd2 = found' /\ known2 = found' \cup displaced
    OBVIOUS
  <2>2. CASE t = s
    <3>1. sweeps'[t] = q
      BY <1>1, <2>2 DEF TypeOK
    <3> QED
      BY <3>1 DEF Known
  <2>3. CASE t # s
    <3>1. sweeps'[t] = sweeps[t] /\ sweeps[t] \in SweepRecord
      BY <1>1, <2>3 DEF TypeOK
    <3>2. SweepOK(sweeps[t], now, published, listed, Known, found)
      BY DEF SweepInv
    <3>3. now \in Time /\ now <= now /\ published \in [Video -> Time \cup {Never}] /\ listed \in SUBSET Video
      BY <1>1, Numbers DEF TypeOK
    <3>4. SweepOK(sweeps[t], now, published, listed, known2, fnd2)
      BY <2>1, <3>1, <3>2, <3>3, GrowKeeps DEF Known
    <3> QED
      BY <2>1, <3>1, <3>4 DEF Known
  <2> QED
    BY <2>2, <2>3
<1>4. PublishedOK(now, published, listed)'
  BY DEF SweepInv
<1>5. \A v \in covered : published[v] # Never /\ (v \in found \cup displaced \/ \E x \in found : published[x] = published[v])
  BY DEF SweepInv, CoveredIsFound
<1>6. \A v \in covered' : published[v] # Never /\ (v \in found' \cup displaced \/ \E x \in found' : published[x] = published[v])
  BY <1>5
<1> QED
  BY <1>2, <1>3, <1>4, <1>6 DEF SweepInv, CoveredIsFound

\* One that finds and marks nothing.
LEMMA QuietSweep ==
    ASSUME SweepInv, NEW s \in Sweep, NEW q \in SweepRecord, sweeps' = [sweeps EXCEPT ![s] = q],
           UNCHANGED <<now, published, listed, found, explored, covered, displaced>>,
           SweepOK(q, now, published, listed, Known, found)
    PROVE  SweepInv'
<1>1. found' \subseteq Video /\ covered' \subseteq Video /\ explored' \subseteq Slots(0, MaxTime)
  BY DEF SweepInv, TypeOK
<1>2. SweepOK(q, now, published, listed, found' \cup displaced, found')
  BY DEF Known
<1> QED
  BY <1>1, <1>2, OneSweep

LEMMA StateFacts ==
    ASSUME SweepInv, NEW s \in Sweep
    PROVE  /\ sweeps[s] \in SweepRecord /\ now \in Time /\ now \in Nat
           /\ published \in [Video -> Time \cup {Never}] /\ listed \in SUBSET Video /\ found \in SUBSET Video
           /\ PublishedOK(now, published, listed)
           /\ SweepOK(sweeps[s], now, published, listed, Known, found)
           /\ BatchOK(sweeps[s], now, published, found)
BY Numbers DEF SweepInv, TypeOK, SweepOK

LEMMA TriggerStep ==
    ASSUME SweepInv, NEW s \in Sweep, NEW ask \in Request, Trigger(s, ask)
    PROVE  SweepInv'
<1>1. PICK q \in SweepRecord : q = [IdleSweep EXCEPT !.pc = "waiting", !.ask = ask]
  BY RestTypes, RequestAssumption
<1>2. q.pc = "waiting" /\ q.inHand = {} /\ q.asOf = Never
  BY <1>1 DEF IdleSweep
<1>3. SweepOK(q, now, published, listed, Known, found)
  BY <1>2, StateFacts, RestKeeps DEF Busy
<1> QED
  BY <1>1, <1>3, QuietSweep DEF Trigger

LEMMA StartStep ==
    ASSUME SweepInv, NEW s \in Sweep, Start(s)
    PROVE  SweepInv'
<1>1. PICK w \in SweepRecord, n \in Time : w = sweeps[s] /\ n = now /\ w.pc = "waiting" /\ BatchOK(w, n, published, found)
  BY StateFacts DEF Start
<1>2. PICK asOf \in Time : asOf = IF w.asOf = Never THEN n ELSE w.asOf
  <2>1. w.asOf \in Time \cup {Never}
    BY DEF SweepRecord
  <2> QED
    BY <2>1
<1>3. asOf # Never /\ asOf <= n
  <2>1. n \in Nat
    BY Numbers
  <2>2. asOf \in Nat
    BY Numbers
  <2>3. asOf # Never
    BY <2>2, Numbers
  <2>4. w.asOf = Never => asOf = n
    BY <1>2
  <2>5. w.asOf # Never => asOf = w.asOf /\ w.asOf <= n
    BY <1>1, <1>2 DEF BatchOK
  <2> QED
    BY <2>1, <2>3, <2>4, <2>5
<1>4. PICK q \in SweepRecord : q = [w EXCEPT !.pc = "look", !.asOf = asOf]
  BY DEF SweepRecord
<1>5. q.pc = "look" /\ q.asOf = asOf /\ q.inHand = {}
  BY <1>1, <1>4 DEF SweepRecord, BatchOK
<1>6. SweepOK(q, now, published, listed, Known, found)
  BY <1>1, <1>3, <1>5, RestKeeps DEF Busy
<1>7. sweeps' = [sweeps EXCEPT ![s] = q] /\ UNCHANGED <<now, published, listed, found, explored, covered, displaced>>
  BY <1>1, <1>2, <1>4 DEF Start, SweepInv, TypeOK
<1> QED
  BY <1>6, <1>7, QuietSweep

LEMMA LookStep ==
    ASSUME SweepInv, NEW s \in Sweep, Look(s)
    PROVE  SweepInv'
<1>1. PICK w \in SweepRecord, n \in Time : w = sweeps[s] /\ n = now /\ w.pc = "look" /\ BatchOK(w, n, published, found)
  BY StateFacts DEF Look
<1>2. w.ask \in RequestRecord /\ w.asOf \in Time /\ w.asOf # Never /\ w.asOf <= n /\ w.inHand = {}
  BY <1>1 DEF SweepRecord, BatchOK
<1>3. w.ask.from \in Time \cup {Never} /\ w.ask.to \in Time \cup {Never}
  BY <1>2 DEF RequestRecord
<1>4. PICK from \in Nat : from = IF w.ask.from # Never THEN w.ask.from
                                 ELSE IF w.asOf > Lookback THEN w.asOf - Lookback ELSE 0
  <2>1. w.asOf \in Nat /\ Lookback \in Nat
    BY <1>2, Numbers
  <2>2. w.asOf > Lookback => w.asOf - Lookback \in Nat
    BY <2>1
  <2>3. w.ask.from # Never => w.ask.from \in Nat
    BY <1>3, Numbers
  <2> QED
    BY <2>2, <2>3
<1>5. PICK to \in Time : to = IF w.ask.to # Never THEN w.ask.to ELSE w.asOf
  BY <1>2, <1>3
<1>6. PICK gaps : gaps = Slots(FloorSlot(from), FloorSlot(to)) \ explored
  OBVIOUS
<1>7. to \in Nat /\ to <= MaxTime
  BY Numbers
<1>8. gaps \in SUBSET Nat /\ \A g \in gaps : g <= to
  <2>1. FloorSlot(from) \in Nat /\ FloorSlot(to) \in Nat /\ FloorSlot(to) <= to
    BY <1>7, SlotBounds
  <2> QED
    BY <1>6, <1>7, <2>1 DEF Slots
<1>9. CASE gaps = {} \/ to <= Min(gaps)
  <2>1. sweeps' = [sweeps EXCEPT ![s] = IdleSweep] /\ UNCHANGED <<now, published, listed, found, explored, covered, displaced>>
    BY <1>1, <1>4, <1>5, <1>6, <1>9 DEF Look
  <2>2. IdleSweep.pc = "idle" /\ IdleSweep.inHand = {} /\ IdleSweep.asOf = Never
    BY DEF IdleSweep
  <2>3. SweepOK(IdleSweep, now, published, listed, Known, found)
    BY <1>1, <2>2, RestKeeps DEF Busy
  <2> QED
    BY <2>1, <2>3, RestTypes, QuietSweep
<1>10. CASE gaps # {} /\ ~(to <= Min(gaps))
  <2>1. PICK g \in Nat : g = Min(gaps) /\ g \in gaps
    BY <1>8, <1>10, MinOf
  <2>2. g < to /\ g \in Time
    BY <1>7, <1>8, <1>10, <2>1, Numbers
  <2>3. PICK q : q = Batch([w EXCEPT !.from = g], to)
    OBVIOUS
  <2>4. q \in SweepRecord
    <3>1. PICK u \in SweepRecord : u = [w EXCEPT !.from = g]
      BY <2>2 DEF SweepRecord
    <3>2. to \in Int /\ 1 \in Nat
      BY <1>7
    <3>3. q = [u EXCEPT !.pc = "query", !.to = to, !.page = 1, !.oldest = to, !.end = FALSE]
      BY <2>3, <3>1 DEF Batch
    <3> QED
      BY <3>2, <3>3 DEF SweepRecord
  <2>5. /\ q.pc = "query" /\ q.page = 1 /\ q.oldest = q.to /\ q.to = to /\ q.from = g /\ q.inHand = {}
        /\ q.asOf = w.asOf
    BY <1>2, <2>3 DEF Batch, SweepRecord
  <2>6. SweepOK(q, now, published, listed, Known, found)
    BY <1>1, <1>2, <2>2, <2>5, StateFacts, BatchBegins
  <2>7. sweeps' = [sweeps EXCEPT ![s] = q] /\ UNCHANGED <<now, published, listed, found, explored, covered, displaced>>
    BY <1>1, <1>4, <1>5, <1>6, <1>10, <2>1, <2>3 DEF Look
  <2> QED
    BY <2>4, <2>6, <2>7, QuietSweep
<1> QED
  BY <1>9, <1>10

LEMMA QueryStep ==
    ASSUME SweepInv, NEW s \in Sweep, NEW isTold \in BOOLEAN, Query(s, isTold)
    PROVE  SweepInv'
<1>1. PICK w \in SweepRecord : w = sweeps[s] /\ w.pc = "query" /\ SweepOK(w, now, published, listed, Known, found)
  BY StateFacts DEF Query
<1>2. PICK R : R = ResultsOf(w, published, listed) /\ R = Results(w.from, w.to, w.ask.category)
  BY DEF Results, ResultsOf
<1>3. PICK inHand \in SUBSET Video : inHand = Page(R, w.page)
  BY <1>2, StateFacts DEF Page, ResultsOf
<1>4. PICK q : q = IF inHand = {} THEN [w EXCEPT !.pc = "mark", !.end = TRUE]
                   ELSE [w EXCEPT !.pc = "offer", !.inHand = inHand, !.isLast = isTold /\ w.page >= NumPages(R)]
  OBVIOUS
<1>5. q \in SweepRecord
  BY <1>4 DEF SweepRecord
<1>6. SweepOK(q, now, published, listed, Known, found)
  <2>1. now \in Time /\ published \in [Video -> Time \cup {Never}] /\ listed \in SUBSET Video /\ PublishedOK(now, published, listed)
    BY StateFacts
  <2> QED
    BY <1>1, <1>2, <1>3, <1>4, <2>1, QueryKeeps
<1>7. sweeps' = [sweeps EXCEPT ![s] = q] /\ UNCHANGED <<now, published, listed, found, explored, covered, displaced>>
  BY <1>1, <1>2, <1>3, <1>4 DEF Query
<1> QED
  BY <1>5, <1>6, <1>7, QuietSweep

LEMMA OfferStep ==
    ASSUME SweepInv, NEW s \in Sweep, Offer(s)
    PROVE  SweepInv'
<1>1. PICK w \in SweepRecord : w = sweeps[s] /\ w.pc = "offer" /\ SweepOK(w, now, published, listed, Known, found)
  BY StateFacts DEF Offer
<1>2. PICK oldest : oldest = Min({w.oldest} \cup {published[v] : v \in w.inHand})
  OBVIOUS
<1>3. PICK seen : seen = [w EXCEPT !.inHand = {}, !.isLast = FALSE, !.oldest = oldest]
  OBVIOUS
<1>4. PICK q : q = IF w.isLast \/ w.page >= w.ask.pages THEN [seen EXCEPT !.pc = "mark", !.end = w.isLast]
                   ELSE [seen EXCEPT !.pc = "query", !.page = @ + 1]
  OBVIOUS
<1>5. PICK known2, fnd2 : known2 = Known \cup w.inHand /\ fnd2 = found \cup w.inHand
  OBVIOUS
<1>6. SweepOK(q, now, published, listed, known2, fnd2) /\ oldest \in Nat
  <2>1. now \in Time /\ published \in [Video -> Time \cup {Never}] /\ listed \in SUBSET Video /\ PublishedOK(now, published, listed)
    BY StateFacts
  <2>2. PICK n \in Time, pub \in [Video -> Time \cup {Never}], lst \in SUBSET Video :
            /\ n = now /\ pub = published /\ lst = listed
            /\ PublishedOK(n, pub, lst) /\ SweepOK(w, n, pub, lst, Known, found)
    BY <1>1, <2>1
  <2>3. /\ oldest \in Nat /\ (oldest = w.oldest \/ \E x \in w.inHand : oldest = pub[x])
        /\ oldest <= w.oldest /\ \A x \in w.inHand : oldest <= pub[x]
    <3>1. BatchOK(w, n, pub, found) /\ Busy(w)
      BY <1>1, <2>2 DEF SweepOK, Busy
    <3>2. PICK times : times = {w.oldest} \cup {published[v] : v \in w.inHand}
      OBVIOUS
    <3>3. \A t : t \in times <=> t = w.oldest \/ \E x \in w.inHand : t = pub[x]
      BY <2>2, <3>2
    <3>4. /\ Min(times) \in Nat /\ (Min(times) = w.oldest \/ \E x \in w.inHand : Min(times) = pub[x])
          /\ Min(times) <= w.oldest /\ \A x \in w.inHand : Min(times) <= pub[x]
      BY <3>1, <3>3, OldestOf
    <3> QED
      BY <1>2, <3>2, <3>4
  <2>4. /\ q.from = w.from /\ q.to = w.to /\ q.ask = w.ask /\ q.asOf = w.asOf /\ q.oldest = oldest /\ q.inHand = {}
        /\ \/ q.pc = "mark" /\ q.page = w.page /\ q.end = w.isLast
           \/ q.pc = "query" /\ q.page = w.page + 1
    BY <1>3, <1>4 DEF SweepRecord
  <2>5. PICK known, fnd : known = Known /\ fnd = found
    OBVIOUS
  <2>6. SweepOK(w, n, pub, lst, known, fnd)
    BY <2>2, <2>5
  <2>7. SweepOK(q, n, pub, lst, known \cup w.inHand, fnd \cup w.inHand)
    BY <1>1, <2>2, <2>3, <2>4, <2>6, OfferKeeps
  <2> QED
    BY <1>5, <2>2, <2>3, <2>5, <2>7
<1>7. q \in SweepRecord
  <2>1. PICK o \in Int : o = oldest
    BY <1>6
  <2>2. PICK r \in SweepRecord : r = [w EXCEPT !.inHand = {}, !.isLast = FALSE, !.oldest = o]
    BY DEF SweepRecord
  <2>3. r = seen
    BY <1>3, <2>1, <2>2
  <2>4. PICK page \in Nat, last \in BOOLEAN : page = r.page + 1 /\ last = w.isLast
    BY DEF SweepRecord
  <2>5. [r EXCEPT !.pc = "mark", !.end = last] \in SweepRecord
    BY DEF SweepRecord
  <2>6. [r EXCEPT !.pc = "query", !.page = page] \in SweepRecord
    BY DEF SweepRecord
  <2> QED
    BY <1>4, <2>3, <2>4, <2>5, <2>6
<1>8. sweeps' = [sweeps EXCEPT ![s] = q] /\ found' = fnd2 /\ UNCHANGED <<now, published, listed, explored, covered, displaced>>
  BY <1>1, <1>2, <1>3, <1>4, <1>5 DEF Offer
<1>9. /\ found \subseteq found' /\ found' \subseteq Video /\ covered' \subseteq Video /\ explored' \subseteq Slots(0, MaxTime)
      /\ w.inHand \subseteq Video
  BY <1>5, <1>8, StateFacts DEF SweepRecord, SweepInv, TypeOK
<1>10. known2 = found' \cup displaced
  BY <1>5, <1>8 DEF Known
<1>11. \A v \in covered' : v \in covered
  BY <1>8
<1> QED
  BY <1>6, <1>7, <1>8, <1>9, <1>10, <1>11, OneSweep

LEMMA MarkStep ==
    ASSUME SweepInv, NEW s \in Sweep, MarkExplored(s)
    PROVE  SweepInv'
<1>1. PICK w \in SweepRecord, n \in Time : /\ w = sweeps[s] /\ n = now /\ w.pc = "mark"
                                           /\ SweepOK(w, n, published, listed, Known, found)
  BY StateFacts DEF MarkExplored
<1>2. BatchOK(w, n, published, found) /\ Busy(w)
  BY <1>1 DEF SweepOK, Busy
<1>3. /\ w.from \in Nat /\ w.to \in Nat /\ w.to \in Time /\ w.from < w.to /\ w.asOf \in Time /\ w.asOf \in Nat /\ w.asOf <= n
      /\ w.oldest \in Nat /\ w.from <= w.oldest /\ w.oldest <= w.to
  BY <1>2, BusyFacts
<1>4. PICK from \in Nat : from = IF w.end \/ w.oldest <= w.from THEN w.from ELSE w.oldest
  BY <1>3
<1>5. /\ explored' = explored \cup WholeSlots(from, w.to)
      /\ covered' = covered \cup {v \in listed : /\ FloorSlot(published[v]) \in WholeSlots(from, w.to)
                                                 /\ w.ask.category \in {CategoryOf[v], AnyCategory}
                                                 /\ published[v] < w.asOf}
      /\ UNCHANGED <<now, published, listed, found, displaced>>
  BY <1>1, <1>4 DEF MarkExplored, Mark
<1>6. explored' \subseteq Slots(0, MaxTime) /\ covered' \subseteq Video /\ found' \subseteq Video
  <2>1. WholeSlots(from, w.to) \subseteq Slots(0, MaxTime)
    BY <1>3, MarkedTypes
  <2> QED
    BY <1>5, <2>1 DEF SweepInv, TypeOK
<1>7. ASSUME NEW v \in covered', v \notin covered
      PROVE  published[v] # Never /\ (v \in found' \cup displaced \/ \E x \in found' : published[x] = published[v])
  <2>1. /\ v \in listed /\ FloorSlot(published[v]) \in WholeSlots(from, w.to)
        /\ w.ask.category \in {CategoryOf[v], AnyCategory} /\ published[v] < w.asOf
    BY <1>5, <1>7
  <2>2. /\ published \in [Video -> Time \cup {Never}] /\ listed \in SUBSET Video /\ PublishedOK(n, published, listed)
    BY <1>1, StateFacts
  <2>3. v \in Known \/ \E x \in found : published[x] = published[v]
    BY <1>1, <1>4, <2>1, <2>2, MarkedIsFound
  <2> QED
    BY <1>5, <2>1, <2>2, <2>3 DEF Known, PublishedOK
<1>8. PICK t \in Int : t = Slide(w)
  BY <1>3, Numbers DEF Slide
<1>9. t < w.to /\ t <= MaxTime
  BY <1>3, <1>8, Numbers DEF Slide
<1>10. PICK q : q = IF w.end \/ w.oldest <= w.from \/ t <= w.from THEN IdleSweep ELSE Batch(w, t)
  OBVIOUS
<1>11. sweeps' = [sweeps EXCEPT ![s] = q]
  BY <1>1, <1>8, <1>10 DEF MarkExplored
<1>12. q \in SweepRecord /\ SweepOK(q, n, published, listed, Known, found)
  <2>1. CASE q = IdleSweep
    <3>1. IdleSweep.pc = "idle" /\ IdleSweep.inHand = {} /\ IdleSweep.asOf = Never
      BY DEF IdleSweep
    <3>2. SweepOK(IdleSweep, n, published, listed, Known, found)
      BY <3>1, RestKeeps DEF Busy
    <3> QED
      BY <2>1, <3>2, RestTypes
  <2>2. CASE ~(t <= w.from) /\ q = Batch(w, t)
    <3>1. t \in Time /\ w.from < t
      BY <1>3, <1>9, <2>2, Numbers
    <3>2. q = [w EXCEPT !.pc = "query", !.to = t, !.page = 1, !.oldest = t, !.end = FALSE]
      BY <2>2 DEF Batch
    <3>3. q \in SweepRecord
      BY <3>2 DEF SweepRecord
    <3>4. /\ q.pc = "query" /\ q.page = 1 /\ q.oldest = q.to /\ q.to = t /\ q.from = w.from /\ q.inHand = {}
          /\ q.asOf = w.asOf
      BY <1>1, <1>2, <3>2 DEF BatchOK, SweepRecord
    <3>5. q.asOf # Never /\ q.asOf <= n /\ q.from \in Time
      BY <1>3, <3>4, Numbers DEF SweepRecord
    <3>6. SweepOK(q, n, published, listed, Known, found)
      BY <1>1, <3>1, <3>4, <3>5, StateFacts, BatchBegins
    <3> QED
      BY <3>3, <3>6
  <2> QED
    BY <1>10, <2>1, <2>2
<1>13. SweepOK(q, now, published, listed, found' \cup displaced, found')
  BY <1>1, <1>5, <1>12 DEF Known
<1>14. found \subseteq found' /\ UNCHANGED <<now, published, listed, displaced>>
  BY <1>5
<1> QED
  BY <1>6, <1>7, <1>11, <1>12, <1>13, <1>14, OneSweep

LEMMA InterruptStep ==
    ASSUME SweepInv, NEW s \in Sweep, NEW part, Fail(s, part) \/ Defer(s, part) \/ Expire(s, part)
    PROVE  SweepInv'
<1>1. PICK w \in SweepRecord, n \in Time : w = sweeps[s] /\ n = now /\ BatchOK(w, n, published, found)
  BY StateFacts
<1>2. /\ part \subseteq w.inHand /\ w.inHand \subseteq Video /\ found' = found \cup part
      /\ UNCHANGED <<now, published, listed, explored, covered, displaced>>
  BY <1>1 DEF Fail, Defer, Expire, Interrupted, SweepRecord
<1>3. w.failures \in 0..MaxAttempts /\ MaxAttempts \in Nat
  BY Numbers DEF SweepRecord
<1>4. PICK q \in SweepRecord : /\ sweeps' = [sweeps EXCEPT ![s] = q]
                               /\ \/ q = IdleSweep
                                  \/ \E f : q = Requeued(w, f)
  <2>1. CASE Fail(s, part)
    <3>1. CASE w.failures + 1 >= MaxAttempts
      BY <1>1, <2>1, <3>1, RestTypes DEF Fail, Retry, SweepInv, TypeOK
    <3>2. CASE ~(w.failures + 1 >= MaxAttempts)
      <4>1. PICK f \in 0..MaxAttempts : f = w.failures + 1
        BY <1>3, <3>2
      <4> QED
        BY <1>1, <2>1, <3>2, <4>1, RestTypes DEF Fail, Retry, SweepInv, TypeOK
    <3> QED
      BY <3>1, <3>2
  <2>2. CASE Defer(s, part)
    BY <1>1, <1>3, <2>2, RestTypes DEF Defer, SweepInv, TypeOK
  <2>3. CASE Expire(s, part)
    BY <1>1, <2>3, RestTypes DEF Expire
  <2> QED
    BY <2>1, <2>2, <2>3
<1>5. q.pc \in {"idle", "waiting"} /\ q.inHand = {} /\ (q.asOf = Never \/ q.asOf = w.asOf)
  <2>1. CASE q = IdleSweep
    BY <2>1 DEF IdleSweep
  <2>2. ASSUME NEW f, q = Requeued(w, f)
        PROVE  q.pc = "waiting" /\ q.inHand = {} /\ q.asOf = w.asOf
    BY <2>2 DEF Requeued, IdleSweep
  <2> QED
    BY <1>4, <2>1, <2>2
<1>6. q.asOf # Never => q.asOf <= n
  BY <1>1, <1>5 DEF BatchOK
<1>7. SweepOK(q, now, published, listed, found' \cup displaced, found')
  <2>1. PICK fnd2, known2 : fnd2 = found' /\ known2 = found' \cup displaced
    OBVIOUS
  <2>2. SweepOK(q, n, published, listed, known2, fnd2)
    BY <1>5, <1>6, RestKeeps DEF Busy
  <2> QED
    BY <1>1, <2>1, <2>2
<1>8. /\ found \subseteq found' /\ found' \subseteq Video /\ covered' \subseteq Video /\ explored' \subseteq Slots(0, MaxTime)
      /\ \A v \in covered' : v \in covered
  BY <1>2 DEF SweepInv, TypeOK
<1> QED
  BY <1>2, <1>4, <1>7, <1>8, OneSweep

LEMMA PublishStep ==
    ASSUME SweepInv, NEW x \in Video, Publish(x)
    PROVE  SweepInv'
<1>1. PICK n \in Time, pub \in [Video -> Time \cup {Never}], lst \in SUBSET Video :
          n = now /\ pub = published /\ lst = listed /\ PublishedOK(n, pub, lst)
  BY DEF SweepInv, TypeOK
<1>2. PICK pub2 \in [Video -> Time \cup {Never}] : pub2 = [pub EXCEPT ![x] = n]
  OBVIOUS
<1>3. PICK lst2 \in SUBSET Video : lst2 = lst \cup {x}
  OBVIOUS
<1>4. /\ pub[x] = Never /\ \A u \in Video : u < x => pub[u] # Never
      /\ published' = pub2 /\ listed' = lst2 /\ UNCHANGED <<now, found, explored, sweeps, covered, displaced>>
  BY <1>1, <1>2, <1>3 DEF Publish
<1>5. pub2[x] = n /\ \A u \in Video : u # x => pub2[u] = pub[u]
  BY <1>2
<1>6. TypeOK'
  BY <1>4 DEF SweepInv, TypeOK
<1>7. n \in Nat /\ n # Never
  BY Numbers
<1>8. PublishedOK(n, pub2, lst2)
  <2>1. IsFiniteSet(lst2)
    <3>1. IsFiniteSet(lst)
      BY <1>1 DEF PublishedOK
    <3> QED
      BY <1>3, <3>1, FS_AddElement
  <2>2. \A v \in lst2 : pub2[v] # Never
    BY <1>1, <1>3, <1>5, <1>7 DEF PublishedOK
  <2>3. ASSUME NEW v \in Video, pub2[v] # Never
        PROVE  pub2[v] <= n /\ \A u \in Video : u < v => pub2[u] # Never /\ pub2[u] <= pub2[v]
    <3>1. CASE v = x
      <4>1. \A u \in Video : u < x => u # x /\ pub[u] <= n
        BY <1>1, <1>4, Numbers DEF PublishedOK
      <4> QED
        BY <1>4, <1>5, <1>7, <3>1, <4>1
    <3>2. CASE v # x
      <4>1. pub[v] # Never /\ pub2[v] = pub[v]
        BY <1>5, <2>3, <3>2
      <4>2. \A u \in Video : u < v => pub[u] # Never /\ pub[u] <= pub[v] /\ u # x
        BY <1>1, <1>4, <4>1 DEF PublishedOK
      <4> QED
        BY <1>1, <1>5, <4>1, <4>2 DEF PublishedOK
    <3> QED
      BY <3>1, <3>2
  <2> QED
    BY <2>1, <2>2, <2>3 DEF PublishedOK
<1>9. ASSUME NEW s \in Sweep
      PROVE  SweepOK(sweeps[s], now, published, listed, Known, found)'
  <2>1. PICK w \in SweepRecord : w = sweeps[s]
    BY StateFacts
  <2>2. PICK known \in SUBSET Video, fnd \in SUBSET Video : known = Known /\ fnd = found /\ SweepOK(w, n, pub, lst, known, fnd)
    <3>1. Known \in SUBSET Video /\ found \in SUBSET Video
      BY DEF Known, SweepInv, TypeOK
    <3>2. SweepOK(w, n, pub, lst, Known, found)
      BY <1>1, <2>1, StateFacts
    <3> QED
      BY <3>1, <3>2
  <2>3. SweepOK(w, n, pub2, lst2, known, fnd)
    BY <1>1, <1>2, <1>3, <1>4, <2>2, PublishKeeps
  <2>4. Known' = known /\ found' = fnd /\ sweeps[s]' = w /\ now' = n
    BY <1>1, <1>4, <2>1, <2>2 DEF Known
  <2> QED
    BY <1>4, <2>3, <2>4
<1>10. \A v \in Video : pub[v] # Never => pub2[v] = pub[v]
  BY <1>4, <1>5
<1>11. covered \subseteq Video /\ found \subseteq Video /\ \A v \in covered : pub[v] # Never
  BY <1>1 DEF SweepInv, TypeOK
<1>12. \A v \in covered' : published'[v] # Never
  BY <1>4, <1>10, <1>11
<1>13. CoveredIsFound'
  <2>1. ASSUME NEW v \in covered, v \notin found \cup displaced
        PROVE  \E y \in found : pub2[y] = pub2[v]
    <3>1. PICK y \in found : pub[y] = pub[v]
      BY <1>1, <2>1 DEF SweepInv, CoveredIsFound
    <3> QED
      BY <1>10, <1>11, <3>1
  <2> QED
    BY <1>4, <2>1 DEF CoveredIsFound
<1>14. PublishedOK(now, published, listed)'
  BY <1>1, <1>4, <1>8
<1> QED
  BY <1>6, <1>9, <1>12, <1>13, <1>14 DEF SweepInv

LEMMA WithdrawStep ==
    ASSUME SweepInv, NEW x \in Video, Withdraw(x)
    PROVE  SweepInv'
<1>1. PICK n \in Time, pub \in [Video -> Time \cup {Never}], lst \in SUBSET Video :
          n = now /\ pub = published /\ lst = listed /\ PublishedOK(n, pub, lst)
  BY DEF SweepInv, TypeOK
<1>2. PICK moved : moved = UNION {Behind(sweeps[s], x) : s \in {t \in Sweep : PagesRead(sweeps[t]) > 0}}
  OBVIOUS
<1>3. /\ x \in lst /\ listed' = lst \ {x} /\ displaced' = displaced \cup moved
      /\ UNCHANGED <<now, published, found, explored, sweeps, covered>>
  BY <1>1, <1>2 DEF Withdraw
<1>4. moved \subseteq Video
  <2>1. \A s \in Sweep : Behind(sweeps[s], x) \subseteq lst
    BY <1>1 DEF Behind, Results
  <2> QED
    BY <1>2, <2>1
<1>5. TypeOK'
  BY <1>3, <1>4 DEF SweepInv, TypeOK
<1>6. PublishedOK(n, pub, lst \ {x})
  <2>1. IsFiniteSet(lst)
    BY <1>1 DEF PublishedOK
  <2>2. IsFiniteSet(lst \ {x})
    BY <2>1, FS_Subset
  <2> QED
    BY <1>1, <2>2 DEF PublishedOK
<1>7. ASSUME NEW s \in Sweep
      PROVE  SweepOK(sweeps[s], now, published, listed, Known, found)'
  <2>1. PICK w \in SweepRecord : w = sweeps[s]
    BY StateFacts
  <2>2. PICK fnd \in SUBSET Video : fnd = found
    BY StateFacts
  <2>3. PICK known, known2 : known = Known /\ known2 = Known'
    OBVIOUS
  <2>4. SweepOK(w, n, pub, lst, known, fnd)
    BY <1>1, <2>1, <2>2, <2>3, StateFacts
  <2>5. known \subseteq known2
    BY <1>3, <2>3 DEF Known
  <2>6. PICK R : R = ResultsOf(w, pub, lst) /\ R = Results(w.from, w.to, w.ask.category)
    BY <1>1 DEF Results, ResultsOf
  <2>7. ASSUME PagesRead(w) > 0, NEW u \in R, x \in R, u < x, Place(R, u) = PagesRead(w) * PageSize + 1
        PROVE  u \in known2
    <3>1. u \in Behind(w, x)
      BY <2>6, <2>7 DEF Behind
    <3>2. u \in moved
      BY <1>2, <2>1, <2>7, <3>1
    <3> QED
      BY <1>3, <2>3, <3>2 DEF Known
  <2>8. SweepOK(w, n, pub, lst \ {x}, known2, fnd)
    BY <1>1, <1>3, <2>4, <2>5, <2>6, <2>7, WithdrawKeeps
  <2>9. found' = fnd /\ sweeps[s]' = w /\ now' = n /\ published' = pub
    BY <1>1, <1>3, <2>1, <2>2
  <2> QED
    BY <1>3, <2>3, <2>8, <2>9
<1>8. \A v \in covered' : published'[v] # Never
  BY <1>3 DEF SweepInv
<1>9. CoveredIsFound'
  BY <1>3 DEF SweepInv, CoveredIsFound
<1>10. PublishedOK(now, published, listed)'
  BY <1>1, <1>3, <1>6
<1> QED
  BY <1>5, <1>7, <1>8, <1>9, <1>10 DEF SweepInv

LEMMA TickStep ==
    ASSUME SweepInv, Tick
    PROVE  SweepInv'
<1>1. PICK n \in Time, n2 \in Time, pub \in [Video -> Time \cup {Never}], lst \in SUBSET Video :
          /\ n = now /\ n2 = now' /\ n2 = n + 1 /\ pub = published /\ lst = listed /\ PublishedOK(n, pub, lst)
  <2>1. now \in Time /\ now \in Nat /\ MaxTime \in Nat
    BY Numbers DEF SweepInv, TypeOK
  <2>2. now' = now + 1 /\ now < MaxTime
    BY DEF Tick
  <2>3. now + 1 \in Time
    BY <2>1, <2>2, Numbers
  <2> QED
    BY <2>1, <2>2, <2>3 DEF SweepInv, TypeOK
<1>2. n \in Nat /\ n2 \in Nat /\ n <= n2
  BY <1>1, Numbers
<1>3. UNCHANGED <<published, listed, found, explored, sweeps, covered, displaced>>
  BY DEF Tick
<1>4. TypeOK'
  BY <1>1, <1>3 DEF SweepInv, TypeOK
<1>5. PublishedOK(n2, pub, lst)
  <2>1. \A v \in Video : pub[v] # Never => pub[v] \in Nat
    BY Numbers
  <2> QED
    BY <1>1, <1>2, <2>1 DEF PublishedOK
<1>6. ASSUME NEW s \in Sweep
      PROVE  SweepOK(sweeps[s], now, published, listed, Known, found)'
  <2>1. PICK w \in SweepRecord : w = sweeps[s]
    BY StateFacts
  <2>2. PICK known, fnd : known = Known /\ fnd = found
    OBVIOUS
  <2>3. SweepOK(w, n, pub, lst, known, fnd)
    BY <1>1, <2>1, <2>2, StateFacts
  <2>4. SweepOK(w, n2, pub, lst, known, fnd)
    BY <1>2, <2>3, GrowKeeps
  <2>5. Known' = known /\ found' = fnd /\ sweeps[s]' = w /\ now' = n2 /\ published' = pub /\ listed' = lst
    BY <1>1, <1>3, <2>1, <2>2 DEF Known
  <2> QED
    BY <2>4, <2>5
<1>7. (\A v \in covered : published[v] # Never)' /\ CoveredIsFound'
  BY <1>3 DEF SweepInv, CoveredIsFound
<1>8. PublishedOK(now, published, listed)'
  BY <1>1, <1>3, <1>5
<1> QED
  BY <1>4, <1>6, <1>7, <1>8 DEF SweepInv

LEMMA StillStep ==
    ASSUME SweepInv, UNCHANGED vars
    PROVE  SweepInv'
BY DEF SweepInv, TypeOK, CoveredIsFound, Known, vars

-----------------------------------------------------------------------------
(* The theorems. *)

LEMMA SweepInit == Init => SweepInv
<1> SUFFICES ASSUME Init PROVE SweepInv
  OBVIOUS
<1>1. 0 \in Time
  BY Numbers
<1>2. TypeOK
  BY <1>1, RestTypes DEF Init, TypeOK
<1>3. PublishedOK(now, published, listed)
  <2>1. IsFiniteSet({})
    BY FS_EmptySet
  <2> QED
    BY <2>1 DEF Init, PublishedOK
<1>4. ASSUME NEW s \in Sweep
      PROVE  SweepOK(sweeps[s], now, published, listed, Known, found)
  <2>1. sweeps[s] = IdleSweep /\ now \in Time
    BY <1>1 DEF Init
  <2>2. IdleSweep.pc = "idle" /\ IdleSweep.inHand = {} /\ IdleSweep.asOf = Never
    BY DEF IdleSweep
  <2> QED
    BY <2>1, <2>2, RestKeeps DEF Busy
<1>5. CoveredIsFound /\ \A v \in covered : published[v] # Never
  BY DEF Init, CoveredIsFound
<1> QED
  BY <1>2, <1>3, <1>4, <1>5 DEF SweepInv

LEMMA SweepStep == SweepInv /\ [Next]_vars => SweepInv'
<1> SUFFICES ASSUME SweepInv, [Next]_vars PROVE SweepInv'
  OBVIOUS
<1>1. ASSUME NEW s \in Sweep, NEW ask \in Request, Trigger(s, ask)
      PROVE  SweepInv'
  BY <1>1, TriggerStep
<1>2. ASSUME NEW s \in Sweep, Attempt(s)
      PROVE  SweepInv'
  <2>1. CASE Start(s)
    BY <2>1, StartStep
  <2>2. CASE Look(s)
    BY <2>2, LookStep
  <2>3. CASE \E isTold \in BOOLEAN : Query(s, isTold)
    BY <2>3, QueryStep
  <2>4. CASE Offer(s)
    BY <2>4, OfferStep
  <2>5. CASE MarkExplored(s)
    BY <2>5, MarkStep
  <2> QED
    BY <1>2, <2>1, <2>2, <2>3, <2>4, <2>5 DEF Attempt
<1>3. ASSUME NEW s \in Sweep, Interrupt(s)
      PROVE  SweepInv'
  BY <1>3, InterruptStep DEF Interrupt
<1>4. ASSUME NEW v \in Video, Publish(v) \/ Withdraw(v)
      PROVE  SweepInv'
  BY <1>4, PublishStep, WithdrawStep
<1>5. CASE Tick
  BY <1>5, TickStep
<1>6. CASE UNCHANGED vars
  BY <1>6, StillStep
<1> QED
  BY <1>1, <1>2, <1>3, <1>4, <1>5, <1>6 DEF Next

\* In every state of every history of sweeps, the pages a batch has read, the time it has reached back to and the end
\* it has seen bound what it may have missed (runSearchSweep and its onPage in searchRover.ts).
THEOREM SweepInvAlways == Spec => []SweepInv
<1>1. SweepInv /\ [Next]_vars => SweepInv'
  BY SweepStep
<1> QED
  BY SweepInit, <1>1, PTL DEF Spec

\* The jobs, the ledger and the times stay what the code declares: no job has more failures than the retry policy
\* allows, and no window is marked that does not start on a multiple of the window's size.
THEOREM TypeCorrect == Spec => []TypeOK
<1>1. SweepInv => TypeOK
  BY DEF SweepInv
<1> QED
  BY SweepInvAlways, <1>1, PTL

\* markSlotsExplored never marks a window before what the sweep was to find in it has been queued, however the
\* attempts of overlapping sweeps are interrupted and started over, and whatever is published or withdrawn meanwhile.
THEOREM CoveredIsFoundAlways == Spec => []CoveredIsFound
<1>1. SweepInv => CoveredIsFound
  BY DEF SweepInv
<1> QED
  BY SweepInvAlways, <1>1, PTL

-----------------------------------------------------------------------------
(* What remains of an attempt. *)

PagesBounded == \A s \in Sweep : Busy(sweeps[s]) => sweeps[s].page <= sweeps[s].ask.pages

SameRange(q, w) == q.from = w.from /\ q.ask = w.ask

\* How a sweep moves: it leaves the attempt, begins or goes on with a batch, or begins the next.
Moves(q, w) ==
    \/ q.pc \in {"idle", "waiting"}
    \/ w.pc = "waiting" /\ q.pc = "look"
    \/ w.pc = "look" /\ q.pc = "query" /\ q.page = 1
    \/ w.pc = "query" /\ q.pc \in {"offer", "mark"} /\ SameRange(q, w) /\ q.to = w.to /\ q.page = w.page
    \/ w.pc = "offer" /\ q.pc = "mark" /\ SameRange(q, w) /\ q.to = w.to /\ q.page = w.page
    \/ w.pc = "offer" /\ q.pc = "query" /\ SameRange(q, w) /\ q.to = w.to /\ q.page = w.page + 1
          /\ ~(w.page >= w.ask.pages)
    \/ w.pc = "mark" /\ q.pc = "query" /\ SameRange(q, w) /\ q.to < w.to /\ q.page = 1

LEMMA AttemptMoves ==
    ASSUME SweepInv, NEW s \in Sweep, Attempt(s)
    PROVE  /\ \A t \in Sweep \ {s} : sweeps'[t] = sweeps[t]
           /\ Moves(sweeps'[s], sweeps[s])
<1>1. PICK w \in SweepRecord : w = sweeps[s] /\ BatchOK(w, now, published, found)
  BY StateFacts
<1>2. sweeps \in [Sweep -> SweepRecord]
  BY DEF SweepInv, TypeOK
<1>3. \A t \in Sweep \ {s} : sweeps'[t] = sweeps[t]
  BY <1>2 DEF Attempt, Start, Look, Query, Offer, MarkExplored
<1> SUFFICES Moves(sweeps'[s], sweeps[s])
  BY <1>3
<1>4. CASE Start(s)
  BY <1>2, <1>4 DEF Start, Moves
<1>5. CASE Look(s)
  <2>1. PICK u : u = sweeps'[s] /\ (u = IdleSweep \/ \E g, to : u = Batch([w EXCEPT !.from = g], to))
    BY <1>1, <1>2, <1>5 DEF Look
  <2>2. u = IdleSweep => u.pc = "idle"
    BY DEF IdleSweep
  <2>3. ASSUME NEW g, NEW to, u = Batch([w EXCEPT !.from = g], to)
        PROVE  u.pc = "query" /\ u.page = 1
    BY <1>1, <2>3 DEF Batch, SweepRecord
  <2> QED
    BY <1>1, <1>2, <1>5, <2>1, <2>2, <2>3 DEF Look, Moves
<1>6. ASSUME NEW isTold \in BOOLEAN, Query(s, isTold)
      PROVE  Moves(sweeps'[s], sweeps[s])
  <2>0. PICK inHand, isLast : /\ inHand = Page(Results(w.from, w.to, w.ask.category), w.page)
                              /\ isLast = (isTold /\ w.page >= NumPages(Results(w.from, w.to, w.ask.category)))
    OBVIOUS
  <2>1. PICK u : /\ u = sweeps'[s]
                 /\ u = IF inHand = {} THEN [w EXCEPT !.pc = "mark", !.end = TRUE]
                        ELSE [w EXCEPT !.pc = "offer", !.inHand = inHand, !.isLast = isLast]
    BY <1>1, <1>2, <1>6, <2>0 DEF Query
  <2>2. u.pc \in {"offer", "mark"} /\ SameRange(u, w) /\ u.to = w.to /\ u.page = w.page
    BY <2>1 DEF SweepRecord, SameRange
  <2> QED
    BY <1>1, <1>6, <2>1, <2>2 DEF Query, Moves
<1>7. CASE Offer(s)
  <2>0. PICK seen : seen = [w EXCEPT !.inHand = {}, !.isLast = FALSE,
                                      !.oldest = Min({w.oldest} \cup {published[v] : v \in w.inHand})]
    OBVIOUS
  <2>1. PICK u :
          /\ u = sweeps'[s]
          /\ u = IF w.isLast \/ w.page >= w.ask.pages THEN [seen EXCEPT !.pc = "mark", !.end = w.isLast]
                 ELSE [seen EXCEPT !.pc = "query", !.page = @ + 1]
    BY <1>1, <1>2, <1>7, <2>0 DEF Offer
  <2>2. CASE w.isLast \/ w.page >= w.ask.pages
    <3>1. u.pc = "mark" /\ SameRange(u, w) /\ u.to = w.to /\ u.page = w.page
      BY <2>0, <2>1, <2>2 DEF SweepRecord, SameRange
    <3> QED
      BY <1>1, <1>7, <2>1, <3>1 DEF Offer, Moves
  <2>3. CASE ~(w.isLast \/ w.page >= w.ask.pages)
    <3>1. u.pc = "query" /\ SameRange(u, w) /\ u.to = w.to /\ u.page = w.page + 1
      BY <2>0, <2>1, <2>3 DEF SweepRecord, SameRange
    <3> QED
      BY <1>1, <1>7, <2>1, <2>3, <3>1 DEF Offer, Moves
  <2> QED
    BY <2>2, <2>3
<1>8. CASE MarkExplored(s)
  <2>1. PICK u, to : /\ u = sweeps'[s] /\ to = Slide(w)
                     /\ u = IdleSweep \/ u = Batch(w, to)
    BY <1>1, <1>2, <1>8 DEF MarkExplored
  <2>2. w.pc = "mark"
    BY <1>1, <1>8 DEF MarkExplored
  <2>3. Slide(w) < w.to
    <3>1. w.to \in Int /\ w.oldest \in Int /\ Window \in Nat \ {0}
      BY SizeAssumption DEF SweepRecord
    <3> QED
      BY <3>1 DEF Slide
  <2>4. u = IdleSweep => u.pc = "idle"
    BY DEF IdleSweep
  <2>5. u = Batch(w, to) => u.pc = "query" /\ SameRange(u, w) /\ u.to = to /\ u.page = 1
    BY DEF Batch, SweepRecord, SameRange
  <2> QED
    <3>1. Moves(u, w)
      BY <2>1, <2>2, <2>3, <2>4, <2>5 DEF Moves
    <3> QED
      BY <1>1, <2>1, <3>1
<1> QED
  BY <1>5, <1>6, <1>7, <1>8, <1>4 DEF Attempt

LEMMA StepMoves ==
    ASSUME SweepInv, [Next]_vars, NEW s \in Sweep
    PROVE  sweeps'[s] = sweeps[s] \/ Moves(sweeps'[s], sweeps[s])
<1>1. sweeps \in [Sweep -> SweepRecord]
  BY DEF SweepInv, TypeOK
<1>2. ASSUME NEW t \in Sweep, NEW ask \in Request, Trigger(t, ask)
      PROVE  sweeps'[s] = sweeps[s] \/ sweeps'[s].pc = "waiting"
  BY <1>1, <1>2 DEF Trigger, IdleSweep
<1>3. ASSUME NEW t \in Sweep, Attempt(t)
      PROVE  sweeps'[s] = sweeps[s] \/ Moves(sweeps'[s], sweeps[s])
  BY <1>3, AttemptMoves
<1>4. ASSUME NEW t \in Sweep, Interrupt(t)
      PROVE  sweeps'[s] = sweeps[s] \/ sweeps'[s].pc \in {"idle", "waiting"}
  <2>1. PICK u : /\ u = IdleSweep \/ \E w, f : u = Requeued(w, f)
                 /\ sweeps' = [sweeps EXCEPT ![t] = u]
    BY <1>4 DEF Interrupt, Fail, Defer, Expire, Retry
  <2>2. IdleSweep.pc = "idle" /\ \A w, f : Requeued(w, f).pc = "waiting"
    BY DEF IdleSweep, Requeued
  <2>3. u.pc \in {"idle", "waiting"}
    BY <2>1, <2>2
  <2> QED
    BY <1>1, <2>1, <2>3
<1>5. CASE Tick \/ UNCHANGED vars \/ \E v \in Video : Publish(v) \/ Withdraw(v)
  BY <1>5 DEF Tick, vars, Publish, Withdraw
<1> QED
  BY <1>2, <1>3, <1>4, <1>5 DEF Next, Moves

\* While a batch is under way its page is one of those that may be read.
LEMMA PagesBoundedStep ==
    ASSUME SweepInv, PagesBounded, [Next]_vars
    PROVE  PagesBounded'
<1> SUFFICES ASSUME NEW s \in Sweep, Busy(sweeps'[s])
             PROVE  sweeps'[s].page <= sweeps'[s].ask.pages
  BY DEF PagesBounded, Busy
<1>1. SweepInv'
  BY SweepStep
<1>2. PICK w, q \in SweepRecord : w = sweeps[s] /\ q = sweeps'[s]
  BY <1>1 DEF SweepInv, TypeOK
<1>3. w.page \in Nat /\ w.ask.pages \in Nat /\ q.ask.pages \in Nat \ {0}
  BY <1>2 DEF SweepRecord, RequestRecord
<1>4. Busy(w) => w.page <= w.ask.pages
  BY <1>2 DEF PagesBounded
<1>5. q = w \/ Moves(q, w)
  BY <1>2, StepMoves
<1> QED
  BY <1>2, <1>3, <1>4, <1>5 DEF Moves, Busy, SameRange

\* The first difference decides.
LEMMA LessAt ==
    ASSUME NEW p, NEW q, NEW i \in 1..4, p[i] < q[i], \A j \in 1..(i - 1) : p[j] = q[j]
    PROVE  Less(p, q)
BY DEF Less

LEMMA BatchRemains ==
    ASSUME NEW w \in SweepRecord, NEW n \in Time, NEW pub, NEW fnd, BatchOK(w, n, pub, fnd), Busy(w),
           w.page <= w.ask.pages
    PROVE  /\ w.to - w.from \in Nat /\ w.ask.pages - w.page \in Nat
           /\ Remains(w) = <<0, w.to - w.from, w.ask.pages - w.page,
                             IF w.pc = "query" THEN 2 ELSE IF w.pc = "offer" THEN 1 ELSE 0>>
           /\ Remains(w) \in Nat \X Nat \X Nat \X Nat
<1>1. w.from \in Nat /\ w.to \in Nat /\ w.from < w.to
  BY BusyFacts
<1>2. w.page \in Nat /\ w.ask.pages \in Nat
  BY DEF SweepRecord, RequestRecord
<1>3. w.to - w.from \in Nat /\ w.ask.pages - w.page \in Nat
  BY <1>1, <1>2
<1>4. Remains(w) = <<0, w.to - w.from, w.ask.pages - w.page,
                    IF w.pc = "query" THEN 2 ELSE IF w.pc = "offer" THEN 1 ELSE 0>>
  BY DEF Remains, Busy
<1> QED
  BY <1>3, <1>4

LEMMA MovesAdvance ==
    ASSUME NEW w \in SweepRecord, NEW q \in SweepRecord, NEW n \in Time, NEW m \in Time, NEW pub, NEW fnd,
           NEW pub2, NEW fnd2, BatchOK(w, n, pub, fnd), BatchOK(q, m, pub2, fnd2),
           Busy(w) => w.page <= w.ask.pages, Busy(q) => q.page <= q.ask.pages,
           Moves(q, w), UnderWay(w), UnderWay(q)
    PROVE  Remains(q) \in Nat \X Nat \X Nat \X Nat /\ Less(Remains(q), Remains(w))
<1>1. Busy(q)
  BY DEF Moves, UnderWay, Busy
<1>2. /\ q.to - q.from \in Nat /\ q.ask.pages - q.page \in Nat
      /\ Remains(q) = <<0, q.to - q.from, q.ask.pages - q.page,
                        IF q.pc = "query" THEN 2 ELSE IF q.pc = "offer" THEN 1 ELSE 0>>
      /\ Remains(q) \in Nat \X Nat \X Nat \X Nat
  BY <1>1, BatchRemains
<1>3. CASE w.pc = "look"
  <2>1. Remains(w) = <<1, 0, 0, 0>>
    BY <1>3 DEF Remains
  <2>2. Remains(q)[1] < Remains(w)[1]
    BY <1>2, <2>1
  <2> QED
    BY <1>2, <2>2, LessAt
<1>4. CASE w.pc # "look"
  <2>1. Busy(w)
    BY <1>4 DEF UnderWay, Busy
  <2>2. /\ w.to - w.from \in Nat /\ w.ask.pages - w.page \in Nat
        /\ Remains(w) = <<0, w.to - w.from, w.ask.pages - w.page,
                          IF w.pc = "query" THEN 2 ELSE IF w.pc = "offer" THEN 1 ELSE 0>>
    BY <2>1, BatchRemains
  <2>3. /\ Remains(q)[1] = 0 /\ Remains(w)[1] = 0
        /\ Remains(q)[2] = q.to - q.from /\ Remains(w)[2] = w.to - w.from
        /\ Remains(q)[3] = q.ask.pages - q.page /\ Remains(w)[3] = w.ask.pages - w.page
        /\ Remains(q)[4] = IF q.pc = "query" THEN 2 ELSE IF q.pc = "offer" THEN 1 ELSE 0
        /\ Remains(w)[4] = IF w.pc = "query" THEN 2 ELSE IF w.pc = "offer" THEN 1 ELSE 0
    BY <1>2, <2>2
  <2>4. q.from \in Nat /\ q.to \in Nat /\ w.from \in Nat /\ w.to \in Nat /\ w.page \in Nat /\ w.ask.pages \in Nat
    BY <1>1, <2>1, BusyFacts DEF SweepRecord, RequestRecord
  <2>5. CASE w.pc = "query" \/ (w.pc = "offer" /\ q.pc = "mark")
    <3>1. SameRange(q, w) /\ q.to = w.to /\ q.page = w.page /\ Remains(q)[4] < Remains(w)[4]
      BY <2>3, <2>5 DEF Moves, UnderWay
    <3>2. \A j \in 1..3 : Remains(q)[j] = Remains(w)[j]
      BY <2>3, <3>1 DEF SameRange
    <3> QED
      BY <1>2, <3>1, <3>2, LessAt
  <2>6. CASE w.pc = "offer" /\ q.pc = "query"
    <3>1. SameRange(q, w) /\ q.to = w.to /\ q.page = w.page + 1
      BY <2>6 DEF Moves
    <3>2. Remains(q)[3] < Remains(w)[3] /\ Remains(q)[2] = Remains(w)[2]
      BY <2>3, <2>4, <3>1 DEF SameRange
    <3>3. \A j \in 1..2 : Remains(q)[j] = Remains(w)[j]
      BY <2>3, <3>2
    <3> QED
      BY <1>2, <3>2, <3>3, LessAt
  <2>7. CASE w.pc = "mark"
    <3>1. SameRange(q, w) /\ q.to < w.to
      BY <2>7 DEF Moves, UnderWay
    <3>2. Remains(q)[2] < Remains(w)[2]
      BY <2>3, <2>4, <3>1 DEF SameRange
    <3>3. \A j \in 1..1 : Remains(q)[j] = Remains(w)[j]
      BY <2>3
    <3> QED
      BY <1>2, <3>2, <3>3, LessAt
  <2> QED
    BY <1>1, <2>1, <2>5, <2>6, <2>7 DEF Busy, Moves
<1> QED
  BY <1>3, <1>4

\* An attempt of runSearchSweep ends after finitely many steps of its own, however many pages the upstream has and
\* whatever is published or withdrawn meanwhile: each step that does not end it lowers what remains of it. With
\* a worker that goes on, this is why sweeps end.
THEOREM SweepAdvancesAlways == Spec => SweepAdvances
<1>1. Init => PagesBounded
  BY DEF Init, PagesBounded, Busy, IdleSweep
<1>2. SweepInv /\ PagesBounded /\ [Next]_vars => PagesBounded'
  BY PagesBoundedStep
<1>3. SweepInv /\ SweepInv' /\ PagesBounded /\ PagesBounded' /\ [Next]_vars =>
        [\A s \in Sweep : UnderWay(sweeps[s]) /\ UnderWay(sweeps'[s]) /\ sweeps'[s] # sweeps[s] =>
            /\ Remains(sweeps'[s]) \in Nat \X Nat \X Nat \X Nat
            /\ Less(Remains(sweeps'[s]), Remains(sweeps[s]))]_vars
  <2> SUFFICES ASSUME SweepInv, SweepInv', PagesBounded, PagesBounded', [Next]_vars,
                      NEW s \in Sweep, UnderWay(sweeps[s]), UnderWay(sweeps'[s]), sweeps'[s] # sweeps[s]
               PROVE  /\ Remains(sweeps'[s]) \in Nat \X Nat \X Nat \X Nat
                      /\ Less(Remains(sweeps'[s]), Remains(sweeps[s]))
    OBVIOUS
  <2>1. PICK w \in SweepRecord, n \in Time : w = sweeps[s] /\ BatchOK(w, n, published, found)
    BY StateFacts
  <2>2. PICK q \in SweepRecord, m \in Time : q = sweeps'[s] /\ BatchOK(q, m, published', found')
    BY DEF SweepInv, SweepOK, TypeOK
  <2>3. Moves(q, w)
    BY <2>1, <2>2, StepMoves
  <2>4. (Busy(w) => w.page <= w.ask.pages) /\ (Busy(q) => q.page <= q.ask.pages)
    BY <2>1, <2>2 DEF PagesBounded
  <2> QED
    BY <2>1, <2>2, <2>3, <2>4, MovesAdvance
<1> QED
  BY <1>1, <1>2, <1>3, SweepInvAlways, PTL DEF Spec, SweepAdvances
====
