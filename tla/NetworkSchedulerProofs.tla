---- MODULE NetworkSchedulerProofs ----
(***************************************************************************)
(* What holds of the network scheduler for any adapters, configurations,   *)
(* budgets and requests: its types, that the buckets keep the budgets,     *)
(* that a request which must not be repeated is sent once, that the delay  *)
(* given with a refusal is enough, and that revisions only go forward.     *)
(***************************************************************************)
EXTENDS NetworkScheduler, SequenceTheorems, FiniteSetTheorems, TLAPS

\* What a replacement is about to apply has been stored.
PutsOK == \A u \in Put : puts[u].pc = "apply" => puts[u].expected < stored

\* A call that asks has a candidate left, and was not sent before if it must not be repeated.
CallsOK == \A q \in Request :
    /\ calls[q].pc = "sending" => calls[q].sends > 0
    /\ calls[q].pc = "asking" => calls[q].left # <<>>
    /\ calls[q].pc = "asking" /\ ~calls[q].safe => calls[q].sends = 0

\* A bucket was last touched by the admission that was counted last, and expires only after it would be full. What it
\* holds is no more than what is left of a full one and of what has flown in since any admission: units of the
\* admissions from the i-th on are missing.
Spent(k, i) == (Len(admitted[k]) - i + 1) * DurationOf[k]

BucketOK(k) ==
    LET times == admitted[k] IN
    /\ times = <<>> => buckets[k] = NoBucket
    /\ times # <<>> => /\ buckets[k].last = times[Len(times)]
                       /\ buckets[k].expires = buckets[k].last + TimeToLive(k)
    /\ buckets[k].last <= now
    /\ \A i \in 1..Len(times) :
           /\ times[i] <= buckets[k].last
           /\ buckets[k].units + Spent(k, i) <= Capacity(k) + MaxOf[k] * (buckets[k].last - times[i])
    /\ Budget!Within(k, times)

BucketsOK == \A k \in Key : BucketOK(k)

\* What the bucket of k will hold at time t if nothing is charged to it.
LevelAt(k, t) ==
    LET filled == buckets[k].units + (t - buckets[k].last) * MaxOf[k]
    IN  IF t >= buckets[k].expires \/ filled > Capacity(k) THEN Capacity(k) ELSE filled

\* At time t an adapter that had no room for call c has room again, or has been used by others.
RoomAt(c, t) ==
    \E a \in c.refused :
        \/ a \in c.overtaken
        \/ \A k \in Config[c.config].budgets[a] : LevelAt(k, t) >= Token(k)

DelayCovers(c) ==
    /\ c.pc = "limited" => RoomAt(c, c.retryAt)
    /\ c.pc = "asking" /\ c.sends = 0 /\ c.refused # {} => RoomAt(c, now + c.delay)

DelayOK == \A q \in Request : DelayCovers(calls[q])

NetworkInv == TypeOK /\ PutsOK /\ CallsOK /\ SentOnce /\ BucketsOK /\ DelayOK /\ SavedIsUsed

-----------------------------------------------------------------------------
(* Arithmetic, and least and greatest elements. *)

LEMMA CeilDivCovers ==
    ASSUME NEW a \in Nat, NEW b \in Nat \ {0}
    PROVE  CeilDiv(a, b) \in Nat /\ CeilDiv(a, b) * b >= a
<1> DEFINE c == a + b - 1
<1>1. c \in Nat /\ c \div b \in Nat
  OBVIOUS
<1>2. c = b * (c \div b) + (c % b) /\ c % b \in 0..b - 1
  BY <1>1
<1>3. (c \div b) * b = b * (c \div b)
  BY <1>1
<1> QED
  BY <1>1, <1>2, <1>3 DEF CeilDiv

LEMMA Times ==
    ASSUME NEW m \in Nat, NEW a \in Int, NEW b \in Int
    PROVE  /\ m * a \in Int /\ a * m = m * a
           /\ m * (a + b) = m * a + m * b
           /\ m * (a - b) = m * a - m * b
           /\ a <= b => m * a <= m * b
OBVIOUS

LEMMA Greatest ==
    ASSUME NEW S, IsFiniteSet(S), S # {}, NEW f \in [S -> Nat]
    PROVE  \E x \in S : \A y \in S : f[y] <= f[x]
<1> DEFINE Has(U) == \E x \in U : \A y \in U : f[y] <= f[x]
           T == {U \in SUBSET S : U # {} /\ ~Has(U)}
<1>1. IsWellFoundedOn(StrictSubsetOrdering(S), SUBSET S)
  BY FS_StrictSubsetOrderingWellFounded, FS_FiniteSubsetsOfFinite
<1>2. ASSUME T # {}
      PROVE  FALSE
  <2>1. \E U \in T : \A V \in T : <<V, U>> \notin StrictSubsetOrdering(S)
    <3> HIDE DEF Has
    <3>1. T \subseteq SUBSET S
      OBVIOUS
    <3> HIDE DEF T
    <3> QED
      BY <1>1, <1>2, <3>1, WFMin
  <2>2. PICK U \in T : \A V \in T : <<V, U>> \notin StrictSubsetOrdering(S)
    BY <2>1
  <2>3. PICK x \in U : TRUE
    OBVIOUS
  <2>4. U \ {x} \notin T
    BY <2>2, <2>3 DEF StrictSubsetOrdering
  <2>5. CASE U \ {x} = {}
    <3>1. \A y \in U : y = x
      BY <2>5
    <3> QED
      BY <2>3, <3>1
  <2>6. CASE Has(U \ {x})
    <3>1. PICK z \in U \ {x} : \A y \in U \ {x} : f[y] <= f[z]
      BY <2>6
    <3>2. f[x] \in Nat /\ f[z] \in Nat /\ \A y \in U : f[y] \in Nat
      BY <2>3
    <3>3. \A y \in U : y = x \/ f[y] <= f[z]
      BY <3>1
    <3> QED
      BY <2>3, <3>1, <3>2, <3>3
  <2> QED
    BY <2>4, <2>5, <2>6
<1> QED
  BY <1>2

LEMMA LeastNumber ==
    ASSUME NEW S \in SUBSET Nat, S # {}
    PROVE  \E i \in S : \A j \in S : i <= j
<1>1. PICK n \in S : TRUE
  OBVIOUS
<1> DEFINE U == {i \in S : i <= n}
           f == [i \in U |-> n - i]
<1>2. IsFiniteSet(U)
  <2>1. n \in Nat /\ U \in SUBSET Nat /\ \A i \in U : i <= n
    BY <1>1
  <2> HIDE DEF U
  <2> QED
    BY <2>1, FS_BoundedSetOfNaturals
<1>3. U # {} /\ f \in [U -> Nat]
  <2>1. n \in U
    BY <1>1
  <2>2. \A i \in U : n - i \in Nat
    BY <1>1
  <2> HIDE DEF U
  <2> QED
    BY <2>1, <2>2
<1>4. PICK i \in U : \A j \in U : f[j] <= f[i]
  <2> HIDE DEF U, f
  <2> QED
    BY <1>2, <1>3, Greatest
<1>5. \A j \in U : i <= j
  BY <1>4
<1> QED
  BY <1>1, <1>5

-----------------------------------------------------------------------------
(* Types. *)

LEMMA RemoveAtType ==
    ASSUME NEW S, NEW s \in Seq(S), NEW i \in 1..Len(s)
    PROVE  RemoveAt(s, i) \in Seq(S)
<1>1. Len(s) \in Nat /\ \A n \in 1..Len(s) : s[n] \in S
  BY LenProperties, ElementOfSeq
<1>2. SubSeq(s, 1, i - 1) \in Seq(S)
  BY <1>1, SubSeqProperties
<1>3. SubSeq(s, i + 1, Len(s)) \in Seq(S)
  BY <1>1, SubSeqProperties
<1> QED
  BY <1>2, <1>3, ConcatProperties DEF RemoveAt

LEMMA ConfigType ==
    ASSUME NEW r \in Revision
    PROVE  /\ Config[r].binding \in Seq(Adapter)
           /\ Config[r].budgets \in [Adapter -> SUBSET Key]
BY ConfigAssumption DEF ConfigRecord, Binding

LEMMA CandidatesType ==
    ASSUME revision \in Revision, NEW pinned \in Adapter \cup {NoAdapter}
    PROVE  Candidates(pinned) \in Seq(Adapter)
<1> DEFINE bound == Config[revision].binding
           places == {n \in DOMAIN bound : bound[n] = pinned}
<1>1. bound \in Seq(Adapter)
  BY ConfigType
<1>2. Cardinality(places) \in Nat
  <2>1. DOMAIN bound = 1..Len(bound) /\ Len(bound) \in Nat
    BY <1>1, LenProperties
  <2>2. IsFiniteSet(1..Len(bound)) /\ places \in SUBSET (1..Len(bound))
    BY <2>1, FS_Interval
  <2> HIDE DEF bound, places
  <2> QED
    BY <2>2, FS_Subset, FS_CardinalityType
<1>3. pinned # NoAdapter => [i \in 1..Cardinality(places) |-> pinned] \in Seq(Adapter)
  <2> HIDE DEF places
  <2> QED
    BY <1>2, IsASeq
<1> QED
  BY <1>1, <1>3 DEF Candidates

LEMMA SelectedIsACandidate ==
    ASSUME NEW c, c.left \in Seq(Adapter), c.left # <<>>, NEW target
    PROVE  Selected(c, target) \in 1..Len(c.left)
<1> DEFINE reached == {i \in 1..Len(c.left) : target <= WeightUpTo(c, i)}
<1>1. Len(c.left) \in Nat \ {0}
  BY LenProperties, EmptySeq
<1>2. ASSUME reached # {}
      PROVE  (CHOOSE i \in reached : \A j \in reached : i <= j) \in reached
  <2>1. reached \in SUBSET Nat
    BY <1>1
  <2> HIDE DEF reached
  <2>2. \E i \in reached : \A j \in reached : i <= j
    BY <1>2, <2>1, LeastNumber
  <2> QED
    BY <2>2
<1> QED
  BY <1>1, <1>2 DEF Selected

LEMMA BudgetType ==
    ASSUME NEW k \in Key
    PROVE  /\ MaxOf[k] \in Nat \ {0} /\ DurationOf[k] \in Nat \ {0}
           /\ Capacity(k) \in Nat \ {0} /\ Token(k) \in Nat \ {0} /\ Token(k) <= Capacity(k)
           /\ TimeToLive(k) \in Nat /\ MaxOf[k] * TimeToLive(k) >= Capacity(k)
<1>1. MaxOf[k] \in Nat \ {0} /\ DurationOf[k] \in Nat \ {0}
  BY BudgetAssumption
<1>2. MaxOf[k] * DurationOf[k] >= DurationOf[k] /\ MaxOf[k] * DurationOf[k] \in Nat
  BY <1>1
<1>3. Capacity(k) \in Nat \ {0} /\ Token(k) \in Nat \ {0} /\ Token(k) <= Capacity(k)
  BY <1>1, <1>2 DEF Capacity, Token
<1>4. TimeToLive(k) \in Nat /\ TimeToLive(k) * MaxOf[k] >= 2 * Capacity(k)
  <2>1. 2 * Capacity(k) \in Nat
    BY <1>3
  <2> QED
    BY <1>1, <2>1, CeilDivCovers DEF TimeToLive
<1>5. TimeToLive(k) * MaxOf[k] = MaxOf[k] * TimeToLive(k)
  BY <1>1, <1>4, Times
<1> QED
  BY <1>1, <1>3, <1>4, <1>5

LEMMA BucketType ==
    ASSUME TypeOK, BucketsOK, NEW k \in Key
    PROVE  /\ buckets[k] \in Bucket
           /\ buckets[k].units \in Nat /\ buckets[k].last \in Nat /\ buckets[k].expires \in Nat
           /\ now \in Nat /\ buckets[k].last <= now
           /\ admitted[k] \in Seq(0..MaxTime) /\ Len(admitted[k]) \in Nat
BY LenProperties DEF TypeOK, Bucket, BucketsOK, BucketOK

LEMMA LevelType ==
    ASSUME TypeOK, BucketsOK, NEW k \in Key, NEW t \in Nat, t >= now
    PROVE  LevelAt(k, t) \in 0..Capacity(k)
<1>1. t - buckets[k].last \in Nat
  BY BucketType
<1>2. (t - buckets[k].last) * MaxOf[k] \in Nat
  BY <1>1, BudgetType
<1> QED
  BY <1>2, BucketType, BudgetType DEF LevelAt

LEMMA LevelNow ==
    \A k \in Key : Level(k) = LevelAt(k, now)
BY DEF Level, LevelAt

LEMMA WaitCovers ==
    ASSUME TypeOK, BucketsOK, NEW ks \in SUBSET Key, Lacking(ks) # {}
    PROVE  /\ Wait(ks) \in Nat
           /\ \A k \in Lacking(ks) : CeilDiv(Token(k) - Level(k), MaxOf[k]) <= Wait(ks)
<1> DEFINE wait(k) == CeilDiv(Token(k) - Level(k), MaxOf[k])
           f == [k \in Lacking(ks) |-> wait(k)]
<1>1. IsFiniteSet(Lacking(ks))
  <2>1. Lacking(ks) \in SUBSET Key
    BY DEF Lacking
  <2> QED
    BY <2>1, ScopeAssumption, FS_Subset
<1>2. \A k \in Lacking(ks) : wait(k) \in Nat
  <2>1. ASSUME NEW k \in Lacking(ks)
        PROVE  wait(k) \in Nat
    <3>1. k \in Key /\ Level(k) < Token(k)
      BY DEF Lacking
    <3>2. now \in Nat
      BY DEF TypeOK
    <3>3. Token(k) - Level(k) \in Nat
      BY <3>1, <3>2, LevelNow, LevelType, BudgetType
    <3> QED
      BY <3>1, <3>3, BudgetType, CeilDivCovers
  <2> QED
    BY <2>1
<1>3. PICK x \in Lacking(ks) : \A y \in Lacking(ks) : f[y] <= f[x]
  <2>1. f \in [Lacking(ks) -> Nat]
    BY <1>2
  <2> HIDE DEF f
  <2> QED
    BY <1>1, <2>1, Greatest
<1>4. \E w \in {wait(k) : k \in Lacking(ks)} : \A k \in Lacking(ks) : wait(k) <= w
  BY <1>3
<1>5. Wait(ks) \in {wait(k) : k \in Lacking(ks)} /\ \A k \in Lacking(ks) : wait(k) <= Wait(ks)
  <2> HIDE DEF wait
  <2>1. Wait(ks) = CHOOSE w \in {wait(k) : k \in Lacking(ks)} : \A k \in Lacking(ks) : wait(k) <= w
    BY DEF Wait, wait
  <2> QED
    BY <1>4, <2>1
<1> QED
  BY <1>2, <1>5

\* What a call asks: an adapter that it has not tried, for the budgets of the configuration that it began with.
Place(q, target) == Selected(calls[q], target)
Chosen(q, target) == calls[q].left[Place(q, target)]
Rest(q, target) == RemoveAt(calls[q].left, Place(q, target))
Asked(q, target) == Config[calls[q].config].budgets[Chosen(q, target)]

Sent(q, target) ==
    [p \in Request |->
        IF p = q THEN [calls[q] EXCEPT !.pc = "sending", !.left = Rest(q, target), !.sends = @ + 1]
        ELSE IF Chosen(q, target) \in calls[p].refused
             THEN [calls[p] EXCEPT !.overtaken = @ \cup {Chosen(q, target)}]
        ELSE calls[p]]

LEMMA AskParts ==
    ASSUME TypeOK, CallsOK, NEW q \in Request, NEW target, Ask(q, target)
    PROVE  /\ calls[q] \in CallRecord /\ calls[q].pc = "asking"
           /\ Chosen(q, target) \in Adapter /\ Rest(q, target) \in Seq(Adapter) /\ Asked(q, target) \in SUBSET Key
           /\ UNCHANGED <<now, stored, revision, polls, puts, restarts>>
           /\ \/ /\ Lacking(Asked(q, target)) # {}
                 /\ calls' = [calls EXCEPT ![q] =
                        Refuse(calls[q], Chosen(q, target), Rest(q, target), Wait(Asked(q, target)))]
                 /\ UNCHANGED <<buckets, admitted>>
              \/ /\ Lacking(Asked(q, target)) = {}
                 /\ calls' = Sent(q, target)
                 /\ Charge(Asked(q, target))
<1>1. calls[q] \in CallRecord /\ calls[q].pc = "asking" /\ calls[q].left # <<>>
  BY DEF TypeOK, CallsOK, Ask
<1>2. calls[q].left \in Seq(Adapter) /\ calls[q].config \in Revision
  BY <1>1 DEF CallRecord, Binding
<1>3. Place(q, target) \in 1..Len(calls[q].left)
  BY <1>1, <1>2, SelectedIsACandidate DEF Place
<1>4. Chosen(q, target) \in Adapter
  BY <1>2, <1>3, ElementOfSeq DEF Chosen
<1>5. Rest(q, target) \in Seq(Adapter)
  BY <1>2, <1>3, RemoveAtType DEF Rest
<1>6. Asked(q, target) \in SUBSET Key
  BY <1>2, <1>4, ConfigType DEF Asked
<1>7. \/ /\ Lacking(Asked(q, target)) # {}
         /\ calls' = [calls EXCEPT ![q] =
                Refuse(calls[q], Chosen(q, target), Rest(q, target), Wait(Asked(q, target)))]
         /\ UNCHANGED <<buckets, admitted>>
      \/ /\ Lacking(Asked(q, target)) = {}
         /\ calls' = Sent(q, target)
         /\ Charge(Asked(q, target))
  BY DEF Ask, Sent, Place, Chosen, Rest, Asked
<1> QED
  BY <1>1, <1>4, <1>5, <1>6, <1>7 DEF Ask

LEMMA IdleTypes ==
    IdleCall \in CallRecord /\ IdlePoll \in PollRecord /\ IdlePut \in PutRecord
<1>1. 0 \in Revision
  BY BoundAssumption DEF Revision
<1>2. <<>> \in Seq(Adapter)
  BY EmptySeq
<1> QED
  BY <1>1, <1>2 DEF IdleCall, CallRecord, Binding, IdlePoll, PollRecord, IdlePut, PutRecord

LEMMA RefuseType ==
    ASSUME NEW c \in CallRecord, NEW a \in Adapter, NEW rest \in Seq(Adapter), NEW wait \in Nat, now \in Nat
    PROVE  Refuse(c, a, rest, wait) \in CallRecord
<1> DEFINE next == [c EXCEPT !.left = rest, !.refused = @ \cup {a},
                             !.delay = IF c.refused = {} \/ wait < @ THEN wait ELSE @]
<1>1. next \in CallRecord /\ next.delay \in Nat
  BY DEF CallRecord, Binding
<1>2. [next EXCEPT !.pc = "limited", !.delay = 0, !.retryAt = now + next.delay] \in CallRecord
  <2> HIDE DEF next
  <2>1. now + next.delay \in Nat
    BY <1>1
  <2> QED
    BY <1>1, <2>1 DEF CallRecord
<1>3. rest # <<>> \/ (rest = <<>> /\ c.sends > 0) \/ ~(rest # <<>> \/ (rest = <<>> /\ c.sends > 0))
  OBVIOUS
<1> HIDE DEF next
<1>4. CASE rest # <<>>
  BY <1>1, <1>4 DEF Refuse, next
<1>5. CASE rest = <<>> /\ c.sends > 0
  BY <1>5, IdleTypes DEF Refuse
<1>6. CASE rest = <<>> /\ ~(c.sends > 0)
  BY <1>2, <1>6 DEF Refuse, next
<1> QED
  BY <1>4, <1>5, <1>6

LEMMA SentType ==
    ASSUME TypeOK, NEW q \in Request, NEW target, Rest(q, target) \in Seq(Adapter), Chosen(q, target) \in Adapter
    PROVE  Sent(q, target) \in [Request -> CallRecord]
<1>1. ASSUME NEW p \in Request
      PROVE  Sent(q, target)[p] \in CallRecord
  <2>1. calls[p] \in CallRecord /\ calls[q] \in CallRecord
    BY DEF TypeOK
  <2>2. [calls[q] EXCEPT !.pc = "sending", !.left = Rest(q, target), !.sends = @ + 1] \in CallRecord
    <3>1. calls[q].sends + 1 \in Nat /\ Rest(q, target) \in Binding
      BY <2>1 DEF CallRecord, Binding
    <3> QED
      BY <2>1, <3>1 DEF CallRecord
  <2>3. [calls[p] EXCEPT !.overtaken = @ \cup {Chosen(q, target)}] \in CallRecord
    BY <2>1 DEF CallRecord
  <2> QED
    BY <2>1, <2>2, <2>3 DEF Sent
<1> QED
  BY <1>1 DEF Sent

LEMMA ChargeType ==
    ASSUME TypeOK, BucketsOK, NEW ks \in SUBSET Key, Lacking(ks) = {}, Charge(ks)
    PROVE  /\ buckets' \in [Key -> Bucket]
           /\ \A k \in Key : admitted'[k] \in Seq(0..MaxTime)
<1>1. ASSUME NEW k \in Key
      PROVE  buckets'[k] \in Bucket /\ admitted'[k] \in Seq(0..MaxTime)
  <2>1. now \in 0..MaxTime /\ now \in Nat /\ admitted[k] \in Seq(0..MaxTime) /\ buckets[k] \in Bucket
    BY BoundAssumption DEF TypeOK
  <2>2. CASE k \in ks
    <3>1. Level(k) \in Nat /\ Level(k) >= Token(k)
      BY <2>1, <2>2, LevelNow, LevelType, BudgetType DEF Lacking
    <3>2. Level(k) - Token(k) \in Nat /\ now + TimeToLive(k) \in Nat
      BY <2>1, <3>1, BudgetType
    <3>3. buckets'[k] = [units |-> Level(k) - Token(k), last |-> now, expires |-> now + TimeToLive(k)]
      BY <2>2 DEF Charge
    <3>4. admitted'[k] = Append(admitted[k], now)
      BY <2>2 DEF Charge
    <3> QED
      BY <2>1, <3>2, <3>3, <3>4, AppendProperties DEF Bucket
  <2>3. CASE k \notin ks
    BY <2>1, <2>3 DEF Charge
  <2> QED
    BY <2>2, <2>3
<1> QED
  BY <1>1 DEF Charge

LEMMA TypeStep ==
    ASSUME TypeOK, PutsOK, CallsOK, BucketsOK, Next
    PROVE  TypeOK'
<1>1. ASSUME NEW p \in Poll, LoadRead(p) \/ LoadApply(p)
      PROVE  TypeOK'
  <2>1. polls[p].read \in Revision /\ [pc |-> "read", read |-> stored] \in PollRecord
    BY DEF TypeOK, PollRecord
  <2>2. polls' \in [Poll -> PollRecord]
    BY <1>1, <2>1, IdleTypes DEF TypeOK, LoadRead, LoadApply
  <2> QED
    BY <1>1, <2>1, <2>2 DEF TypeOK, LoadRead, LoadApply, Apply
<1>2. ASSUME NEW u \in Put, NEW expected \in Revision, PutRead(u, expected)
      PROVE  TypeOK'
  <2>1. puts' \in [Put -> PutRecord]
    BY <1>2, IdleTypes DEF TypeOK, PutRead, PutRecord
  <2> QED
    BY <1>2, <2>1 DEF TypeOK, PutRead
<1>3. ASSUME NEW u \in Put, PutWrite(u)
      PROVE  TypeOK'
  <2>0. puts[u].expected \in Revision /\ [puts[u] EXCEPT !.pc = "apply"] \in PutRecord
    BY DEF TypeOK, PutRecord
  <2>1. puts' \in [Put -> PutRecord]
    BY <1>3, <2>0, IdleTypes DEF TypeOK, PutWrite
  <2>2. stored' \in Revision
    BY <1>3, <2>0, BoundAssumption DEF TypeOK, PutWrite, Revision
  <2> QED
    BY <1>3, <2>1, <2>2 DEF TypeOK, PutWrite
<1>4. ASSUME NEW u \in Put, PutApply(u)
      PROVE  TypeOK'
  <2>1. [puts[u] EXCEPT !.pc = "saved"] \in PutRecord /\ puts[u].expected \in Revision
    BY DEF TypeOK, PutRecord
  <2>2. puts' \in [Put -> PutRecord]
    BY <1>4, <2>1, IdleTypes DEF TypeOK, PutApply
  <2>3. puts[u].expected + 1 \in Revision
    BY <1>4, <2>1, BoundAssumption DEF TypeOK, PutsOK, PutApply, Revision
  <2> QED
    BY <1>4, <2>2, <2>3 DEF TypeOK, PutApply, Apply
<1>5. ASSUME NEW q \in Request, NEW pinned \in Adapter \cup {NoAdapter}, NEW safe \in BOOLEAN, Begin(q, pinned, safe)
      PROVE  TypeOK'
  <2>1. revision # NoRevision => revision \in Revision /\ Candidates(pinned) \in Seq(Adapter)
    BY CandidatesType DEF TypeOK
  <2>2. calls' \in [Request -> CallRecord]
    BY <1>5, <2>1, IdleTypes DEF TypeOK, Begin, CallRecord, Binding
  <2> QED
    BY <1>5, <2>2 DEF TypeOK, Begin
<1>6. ASSUME NEW q \in Request, NEW target, Ask(q, target)
      PROVE  TypeOK'
  <2>1. /\ calls[q] \in CallRecord
        /\ Chosen(q, target) \in Adapter /\ Rest(q, target) \in Seq(Adapter) /\ Asked(q, target) \in SUBSET Key
        /\ UNCHANGED <<now, stored, revision, polls, puts, restarts>>
    BY <1>6, AskParts
  <2>2. CASE /\ Lacking(Asked(q, target)) # {}
             /\ calls' = [calls EXCEPT ![q] =
                    Refuse(calls[q], Chosen(q, target), Rest(q, target), Wait(Asked(q, target)))]
             /\ UNCHANGED <<buckets, admitted>>
    <3>1. Wait(Asked(q, target)) \in Nat /\ now \in Nat
      BY <2>1, <2>2, WaitCovers DEF TypeOK
    <3>2. Refuse(calls[q], Chosen(q, target), Rest(q, target), Wait(Asked(q, target))) \in CallRecord
      BY <2>1, <3>1, RefuseType
    <3>3. calls' \in [Request -> CallRecord]
      BY <2>2, <3>2 DEF TypeOK
    <3> QED
      BY <2>1, <2>2, <3>3 DEF TypeOK
  <2>3. CASE /\ Lacking(Asked(q, target)) = {}
             /\ calls' = Sent(q, target)
             /\ Charge(Asked(q, target))
    <3>1. calls' \in [Request -> CallRecord]
      BY <2>1, <2>3, SentType
    <3>2. buckets' \in [Key -> Bucket] /\ \A k \in Key : admitted'[k] \in Seq(0..MaxTime)
      BY <2>1, <2>3, ChargeType
    <3> QED
      BY <2>1, <3>1, <3>2 DEF TypeOK
  <2> QED
    BY <1>6, <2>2, <2>3, AskParts
<1>7. ASSUME NEW q \in Request, (\E outcome \in {"transport error", "response"} : Receive(q, outcome)) \/ Abort(q)
      PROVE  TypeOK'
  <2>1. [calls[q] EXCEPT !.pc = "asking"] \in CallRecord
    BY DEF TypeOK, CallRecord
  <2>2. calls' \in [Request -> CallRecord]
    BY <1>7, <2>1, IdleTypes DEF TypeOK, Receive, Abort
  <2> QED
    BY <1>7, <2>2 DEF TypeOK, Receive, Abort
<1>8. CASE Tick
  BY <1>8, BoundAssumption DEF TypeOK, Tick
<1>9. CASE Restart
  BY <1>9, IdleTypes, BoundAssumption DEF TypeOK, Restart
<1> QED
  BY <1>1, <1>2, <1>3, <1>4, <1>5, <1>6, <1>7, <1>8, <1>9 DEF Next

-----------------------------------------------------------------------------
(* Revisions. *)

LEMMA ApplyGoesForward ==
    ASSUME TypeOK, NEW r \in Revision, Apply(r) \/ UNCHANGED revision
    PROVE  /\ revision # NoRevision => revision' # NoRevision /\ revision' >= revision
           /\ Apply(r) => revision' # NoRevision /\ revision' >= r
<1>1. r \in Nat /\ r # NoRevision
  BY BoundAssumption, NoneAssumption DEF Revision
<1>2. revision = NoRevision \/ revision \in Nat
  BY BoundAssumption DEF TypeOK, Revision
<1>3. CASE Apply(r) /\ Newer(r)
  BY <1>1, <1>2, <1>3 DEF Apply, Newer
<1>4. CASE Apply(r) /\ ~Newer(r)
  BY <1>1, <1>2, <1>4 DEF Apply, Newer
<1>5. CASE UNCHANGED revision /\ ~Apply(r)
  BY <1>1, <1>2, <1>5
<1> QED
  BY <1>3, <1>4, <1>5

\* Nothing but a restart drops the revision in use or goes back behind it.
LEMMA RevisionStep ==
    ASSUME TypeOK, PutsOK, Next, ~Restart
    PROVE  revision # NoRevision => revision' # NoRevision /\ revision' >= revision
<1>1. ASSUME NEW p \in Poll, LoadApply(p)
      PROVE  revision # NoRevision => revision' # NoRevision /\ revision' >= revision
  <2>1. polls[p].read \in Revision
    BY DEF TypeOK, PollRecord
  <2> QED
    BY <1>1, <2>1, ApplyGoesForward DEF LoadApply
<1>2. ASSUME NEW u \in Put, PutApply(u)
      PROVE  revision # NoRevision => revision' # NoRevision /\ revision' >= revision
  <2>1. puts[u].expected + 1 \in Revision
    BY <1>2, BoundAssumption DEF TypeOK, PutRecord, PutsOK, PutApply, Revision
  <2> QED
    BY <1>2, <2>1, ApplyGoesForward DEF PutApply
<1>3. CASE UNCHANGED revision
  <2>1. revision \in Nat \/ revision = NoRevision
    BY BoundAssumption DEF TypeOK, Revision
  <2> QED
    BY <1>3, <2>1
<1>4. ASSUME NEW q \in Request, NEW target, Ask(q, target)
      PROVE  UNCHANGED revision
  BY <1>4 DEF Ask
<1> QED
  BY <1>1, <1>2, <1>3, <1>4 DEF Next, LoadRead, PutRead, PutWrite, Begin, Receive, Abort, Tick

LEMMA PutsStep ==
    ASSUME TypeOK, PutsOK, SavedIsUsed, Next, TypeOK'
    PROVE  PutsOK' /\ SavedIsUsed'
<1>0. \A u \in Put : puts[u] \in PutRecord /\ puts[u].expected \in Nat
  BY BoundAssumption DEF TypeOK, PutRecord, Revision
<1>1. stored \in Nat /\ stored' \in Nat /\ stored' >= stored
  <2>1. stored \in Nat /\ stored' \in Nat
    BY BoundAssumption DEF TypeOK, Revision
  <2>2. ASSUME NEW u \in Put, PutWrite(u)
        PROVE  stored' >= stored
    BY <1>0, <2>1, <2>2 DEF PutWrite, Accepted
  <2>3. CASE UNCHANGED stored
    BY <2>1, <2>3
  <2>4. ASSUME NEW q \in Request, NEW target, Ask(q, target)
        PROVE  UNCHANGED stored
    BY <2>4 DEF Ask
  <2> QED
    BY <2>1, <2>2, <2>3, <2>4 DEF Next, LoadRead, LoadApply, PutRead, PutApply, Begin, Receive, Abort, Tick, Restart
<1>2. CASE Restart
  BY <1>2 DEF Restart, IdlePut, PutsOK, SavedIsUsed
<1>3. ASSUME ~Restart, NEW v \in Put, puts'[v] = puts[v]
      PROVE  /\ puts'[v].pc = "apply" => puts'[v].expected < stored'
             /\ puts'[v].pc = "saved" => revision' # NoRevision /\ revision' > puts'[v].expected
  <2>1. puts[v].pc = "apply" => puts[v].expected < stored
    BY DEF PutsOK
  <2>2. puts[v].pc = "saved" => revision # NoRevision /\ revision > puts[v].expected
    BY DEF SavedIsUsed
  <2>3. revision # NoRevision => revision' # NoRevision /\ revision' >= revision
    BY <1>3, RevisionStep
  <2>4. /\ revision # NoRevision => revision \in Nat
        /\ revision' # NoRevision => revision' \in Nat
    BY BoundAssumption DEF TypeOK, Revision
  <2> QED
    BY <1>0, <1>1, <1>3, <2>1, <2>2, <2>3, <2>4
<1>4. ASSUME ~Restart, NEW u \in Put, NEW v \in Put, puts'[v] # puts[v],
             PutWrite(u) \/ PutApply(u) \/ \E expected \in Revision : PutRead(u, expected)
      PROVE  /\ puts'[v].pc = "apply" => puts'[v].expected < stored'
             /\ puts'[v].pc = "saved" => revision' # NoRevision /\ revision' > puts'[v].expected
  <2>1. v = u
    <3>1. \E r : puts' = [puts EXCEPT ![u] = r]
      BY <1>4 DEF PutWrite, PutApply, PutRead
    <3> QED
      BY <1>4, <3>1 DEF TypeOK
  <2>2. CASE PutWrite(u)
    BY <1>0, <2>1, <2>2 DEF PutWrite, TypeOK, PutRecord, IdlePut
  <2>3. CASE PutApply(u)
    <3> DEFINE saved == puts[u].expected + 1
    <3>1. saved \in Revision
      BY <2>3, <1>0, BoundAssumption DEF TypeOK, PutsOK, PutApply, Revision
    <3>2. revision' # NoRevision /\ revision' >= saved
      BY <2>3, <3>1, ApplyGoesForward DEF PutApply
    <3>3. \/ puts'[u] = [puts[u] EXCEPT !.pc = "saved"]
          \/ puts'[u] = IdlePut
      BY <2>3 DEF PutApply, TypeOK
    <3>4. revision' \in Nat
      BY <2>3, <3>1, <3>2, BoundAssumption DEF PutApply, Apply, TypeOK, Revision
    <3> QED
      BY <1>0, <2>1, <3>2, <3>3, <3>4 DEF PutRecord, IdlePut
  <2>4. ASSUME NEW expected \in Revision, PutRead(u, expected)
        PROVE  puts'[u].pc \in {"idle", "write"}
    BY <2>4 DEF PutRead, TypeOK, IdlePut
  <2> QED
    BY <1>4, <2>1, <2>2, <2>3, <2>4
<1>5. ASSUME ~Restart, NEW v \in Put, puts'[v] # puts[v]
      PROVE  \E u \in Put : PutWrite(u) \/ PutApply(u) \/ \E expected \in Revision : PutRead(u, expected)
  <2>1. ASSUME NEW q \in Request, NEW target, Ask(q, target)
        PROVE  UNCHANGED puts
    BY <2>1 DEF Ask
  <2> QED
    BY <1>5, <2>1 DEF Next, LoadRead, LoadApply, Begin, Receive, Abort, Tick
<1> QED
  BY <1>2, <1>3, <1>4, <1>5 DEF PutsOK, SavedIsUsed

-----------------------------------------------------------------------------
(* Requests. *)

LEMMA CallsStep ==
    ASSUME TypeOK, CallsOK, SentOnce, Next
    PROVE  CallsOK' /\ SentOnce'
<1> DEFINE OK(c) == /\ c.pc = "sending" => c.sends > 0
                    /\ c.pc = "asking" => c.left # <<>>
                    /\ c.pc = "asking" /\ ~c.safe => c.sends = 0
                    /\ ~c.safe => c.sends <= 1
                    /\ c.pc = "limited" => c.sends = 0
<1> DEFINE Kept == CallsOK' /\ SentOnce'
<1> SUFFICES Kept
  OBVIOUS
<1>1. \A p \in Request : OK(calls[p]) /\ calls[p] \in CallRecord
  BY DEF CallsOK, SentOnce, TypeOK
<1> HIDE DEF Kept
<1>0. (\A p \in Request : OK(calls'[p])) => Kept
  BY DEF CallsOK, SentOnce, Kept
<1>2. OK(IdleCall)
  BY DEF IdleCall
<1>3. ASSUME NEW q \in Request, NEW r, OK(r), calls' = [calls EXCEPT ![q] = r]
      PROVE  Kept
  <2>1. \A p \in Request : OK(calls'[p])
    BY <1>1, <1>3 DEF TypeOK
  <2> QED
    BY <1>0, <2>1
<1>4. ASSUME NEW q \in Request, NEW pinned, NEW safe, Begin(q, pinned, safe)
      PROVE  Kept
  <2> DEFINE r == [IdleCall EXCEPT !.pc = "asking", !.config = revision, !.left = Candidates(pinned), !.safe = safe]
  <2>1. Candidates(pinned) # <<>> => OK(r)
    BY DEF IdleCall
  <2>2. \/ calls' = [calls EXCEPT ![q] = IdleCall]
        \/ Candidates(pinned) # <<>> /\ calls' = [calls EXCEPT ![q] = r]
    BY <1>4 DEF Begin
  <2> HIDE DEF r, OK
  <2> QED
    BY <1>2, <1>3, <2>1, <2>2
<1>5. ASSUME NEW q \in Request, NEW target, Ask(q, target)
      PROVE  Kept
  <2> DEFINE c == calls[q]
             a == Chosen(q, target)
             rest == Rest(q, target)
             wait == Wait(Asked(q, target))
  <2>1. c \in CallRecord /\ c.pc = "asking"
    BY <1>5, AskParts
  <2>2. CASE calls' = [calls EXCEPT ![q] = Refuse(c, a, rest, wait)]
    <3>1. CASE rest # <<>>
      <4>1. /\ Refuse(c, a, rest, wait).pc = c.pc /\ Refuse(c, a, rest, wait).left = rest
            /\ Refuse(c, a, rest, wait).safe = c.safe /\ Refuse(c, a, rest, wait).sends = c.sends
        <5> HIDE DEF a, rest, wait, c
        <5> QED
          BY <2>1, <3>1 DEF Refuse, CallRecord
      <4> QED
        BY <1>1, <1>3, <2>2, <3>1, <4>1
    <3>2. CASE rest = <<>>
      <4>1. \/ Refuse(c, a, rest, wait) = IdleCall
            \/ /\ Refuse(c, a, rest, wait).pc = "limited" /\ c.sends = 0
               /\ Refuse(c, a, rest, wait).sends = c.sends
        <5> HIDE DEF a, rest, wait, c
        <5> QED
          BY <2>1, <3>2 DEF Refuse, CallRecord
      <4>2. OK(Refuse(c, a, rest, wait))
        BY <1>2, <4>1
      <4> HIDE DEF OK, a, rest, wait
      <4> QED
        BY <1>3, <2>2, <4>2
    <3> QED
      BY <3>1, <3>2
  <2>3. CASE calls' = Sent(q, target)
    <3>1. ASSUME NEW p \in Request
          PROVE  OK(calls'[p])
      <4>1. CASE p = q
        <5>1. calls'[p].pc = "sending" /\ calls'[p].safe = c.safe /\ calls'[p].sends = c.sends + 1
          BY <2>1, <2>3, <4>1 DEF Sent, CallRecord
        <5>2. c.sends \in Nat /\ (~c.safe => c.sends = 0)
          BY <1>1, <2>1 DEF CallRecord
        <5> QED
          BY <5>1, <5>2
      <4>2. CASE p # q
        <5>1. /\ calls'[p].pc = calls[p].pc /\ calls'[p].left = calls[p].left
              /\ calls'[p].safe = calls[p].safe /\ calls'[p].sends = calls[p].sends
          BY <1>1, <2>3, <4>2 DEF Sent, CallRecord
        <5> QED
          BY <1>1, <5>1
      <4> QED
        BY <4>1, <4>2
    <3> QED
      BY <1>0, <3>1
  <2> QED
    BY <1>5, <2>2, <2>3, AskParts
<1>6. ASSUME NEW q \in Request, NEW outcome, Receive(q, outcome)
      PROVE  Kept
  <2>1. Repeats(calls[q], outcome) => OK([calls[q] EXCEPT !.pc = "asking"])
    BY <1>1 DEF Repeats, CallRecord
  <2>2. \/ calls' = [calls EXCEPT ![q] = IdleCall]
        \/ Repeats(calls[q], outcome) /\ calls' = [calls EXCEPT ![q] = [calls[q] EXCEPT !.pc = "asking"]]
    BY <1>6 DEF Receive
  <2> HIDE DEF OK
  <2> QED
    BY <1>2, <1>3, <2>1, <2>2
<1>7. ASSUME NEW q \in Request, Abort(q)
      PROVE  Kept
  BY <1>2, <1>3, <1>7 DEF Abort
<1>8. CASE Restart
  BY <1>0, <1>2, <1>8 DEF Restart
<1>9. CASE UNCHANGED calls
  BY <1>0, <1>1, <1>9
<1> QED
  BY <1>4, <1>5, <1>6, <1>7, <1>8, <1>9 DEF Next, LoadRead, LoadApply, PutRead, PutWrite, PutApply, Tick

-----------------------------------------------------------------------------
(* The budgets. *)

\* No bucket and no count of admissions is changed but by a charge.
LEMMA Uncharged ==
    ASSUME TypeOK, CallsOK, Next
    PROVE  \/ UNCHANGED <<buckets, admitted>> /\ now' \in {now, now + 1}
           \/ \E q \in Request, target \in Int : Ask(q, target) /\ Lacking(Asked(q, target)) = {} /\ UNCHANGED now
<1>1. ASSUME NEW q \in Request, NEW target \in 1..WeightUpTo(calls[q], Len(calls[q].left)), Ask(q, target)
      PROVE  \/ UNCHANGED <<buckets, admitted>> /\ now' \in {now, now + 1}
             \/ Lacking(Asked(q, target)) = {} /\ UNCHANGED now
  BY <1>1, AskParts
<1>2. ASSUME NEW q \in Request, NEW target \in 1..WeightUpTo(calls[q], Len(calls[q].left))
      PROVE  target \in Int
  OBVIOUS
<1> QED
  BY <1>1, <1>2 DEF Next, LoadRead, LoadApply, PutRead, PutWrite, PutApply, Begin, Receive, Abort, Tick, Restart

\* What flows in between two admissions is in the bucket, or the bucket is full.
LEMMA FlowsIn ==
    ASSUME NEW m \in Nat, NEW cap \in Nat, NEW units \in Nat, NEW spent \in Int, NEW ttl \in Nat, NEW level \in Int,
           NEW time \in Nat, NEW last \in Nat, NEW at \in Nat, time <= last, last <= at,
           units + spent <= cap + m * (last - time), m * ttl >= cap,
           \/ level = cap /\ (at >= last + ttl \/ units + (at - last) * m > cap)
           \/ level = units + (at - last) * m
    PROVE  level + spent <= cap + m * (at - time)
<1>1. /\ m * (at - time) = m * (at - last) + m * (last - time)
      /\ (at - last) * m = m * (at - last)
      /\ m * (at - last) \in Int /\ m * (last - time) \in Int
  BY Times
<1>2. at >= last + ttl => m * ttl <= m * (at - last)
  <2>1. at >= last + ttl => ttl <= at - last
    OBVIOUS
  <2>2. at - last \in Int
    OBVIOUS
  <2> QED
    BY <2>1, <2>2, Times
<1>3. m * ttl \in Int
  BY Times
<1> QED
  BY <1>1, <1>2, <1>3

LEMMA SpendsOne ==
    ASSUME NEW cap \in Int, NEW d \in Nat, NEW level \in Nat, NEW x \in Int, NEW y \in Int,
           level + x * d <= cap + y
    PROVE  level - d + (x + 1) * d <= cap + y
<1>1. (x + 1) * d = x * d + d /\ x * d \in Int
  OBVIOUS
<1> QED
  BY <1>1

LEMMA SpendsNoMore ==
    ASSUME NEW m \in Nat, NEW d \in Nat, NEW level \in Nat, NEW x \in Int, NEW y \in Int, d <= level,
           level - d + x * d <= m * d + y
    PROVE  (x - m) * d <= y
<1>1. (x - m) * d = x * d - m * d /\ x * d \in Int /\ m * d \in Int
  OBVIOUS
<1> QED
  BY <1>1

LEMMA ProductType ==
    ASSUME NEW a \in Int, NEW b \in Int
    PROVE  a * b \in Int
OBVIOUS

\* The bucket after a charge: what is missing from it since the i-th admission is more by one token.
LEMMA ChargedBucket ==
    ASSUME TypeOK, BucketsOK, NEW ks \in SUBSET Key, Lacking(ks) = {}, Charge(ks), NEW k \in ks, UNCHANGED now
    PROVE  BucketOK(k)'
<1>0. k \in Key
  OBVIOUS
<1>1. PICK M \in Nat, D \in Nat, Cap \in Nat, ttl \in Nat :
        /\ M = MaxOf[k] /\ D = DurationOf[k] /\ Cap = Capacity(k) /\ ttl = TimeToLive(k)
        /\ D = Token(k) /\ Cap = M * D /\ M * ttl >= Cap /\ D <= Cap
  BY BudgetType DEF Capacity, Token
<1>2. PICK t \in Seq(0..MaxTime), n \in Nat, units \in Nat, last \in Nat, expires \in Nat :
        /\ t = admitted[k] /\ n = Len(t) /\ last <= now
        /\ units = buckets[k].units /\ last = buckets[k].last /\ expires = buckets[k].expires
  BY BucketType
<1>3. PICK L \in Nat : L = Level(k) /\ D <= L /\ L <= Cap /\ now \in 0..MaxTime /\ now \in Nat
  <2>1. now \in 0..MaxTime /\ now \in Nat
    BY BoundAssumption DEF TypeOK
  <2>2. Level(k) \in 0..Cap
    <3>1. LevelAt(k, now) \in 0..Capacity(k)
      BY <1>0, <2>1, LevelType
    <3> QED
      BY <1>0, <1>1, <3>1, LevelNow
  <2>3. ~(Level(k) < D)
    BY <1>0, <1>1 DEF Lacking
  <2> QED
    BY <1>1, <2>1, <2>2, <2>3
<1>4. /\ buckets'[k] = [units |-> L - D, last |-> now, expires |-> now + TimeToLive(k)]
      /\ admitted'[k] = Append(t, now)
  BY <1>0, <1>1, <1>2, <1>3 DEF Charge
<1>5. buckets'[k].units = L - D /\ buckets'[k].last = now /\ buckets'[k].expires = now + TimeToLive(k)
  BY <1>4
<1>6. /\ Len(admitted'[k]) = n + 1 /\ admitted'[k] # <<>> /\ admitted'[k][n + 1] = now
      /\ \A i \in 1..n : admitted'[k][i] = t[i]
  <2>1. /\ Len(Append(t, now)) = Len(t) + 1 /\ Append(t, now) # <<>> /\ Append(t, now)[Len(t) + 1] = now
        /\ \A i \in 1..Len(t) : Append(t, now)[i] = t[i]
    BY <1>3, AppendProperties
  <2> QED
    BY <1>2, <1>4, <2>1
<1>7. ASSUME NEW i \in 1..n
      PROVE  t[i] \in Nat /\ t[i] <= last /\ t[i] <= now
  <2>1. t[i] \in Nat
    BY <1>2, ElementOfSeq, BoundAssumption
  <2>2. t[i] <= last
    BY <1>0, <1>2 DEF BucketsOK, BucketOK
  <2> QED
    BY <1>2, <1>3, <2>1, <2>2
<1>8. ASSUME NEW i \in 1..n
      PROVE  L + (n - i + 1) * D <= Cap + M * (now - t[i])
  <2>1. PICK time \in Nat : time = t[i] /\ time <= last
    BY <1>7
  <2>2. PICK at \in Nat : at = now /\ last <= at
    BY <1>2, <1>3
  <2>3. PICK x \in Int : x = n - i + 1
    OBVIOUS
  <2>4. units + x * D <= Cap + M * (last - time)
    BY <1>0, <1>1, <1>2, <2>1, <2>3 DEF BucketsOK, BucketOK, Spent
  <2>5. expires = last + ttl
    <3>1. t # <<>>
      BY <1>2, EmptySeq
    <3> QED
      BY <1>0, <1>1, <1>2, <3>1 DEF BucketsOK, BucketOK
  <2>6. \/ L = Cap /\ (at >= last + ttl \/ units + (at - last) * M > Cap)
        \/ L = units + (at - last) * M
    BY <1>1, <1>2, <1>3, <2>2, <2>5 DEF Level
  <2>7. PICK spent \in Int : spent = x * D
    BY ProductType
  <2>8. units + spent <= Cap + M * (last - time)
    BY <2>4, <2>7
  <2>9. L + spent <= Cap + M * (at - time)
    <3>1. M * ttl >= Cap /\ time <= last /\ last <= at /\ L \in Int
      BY <1>1, <2>1, <2>2
    <3> QED
      BY <2>6, <2>8, <3>1, FlowsIn
  <2> QED
    BY <2>1, <2>2, <2>3, <2>7, <2>9
<1>9. ASSUME NEW i \in 1..n + 1
      PROVE  admitted'[k][i] \in Nat /\ admitted'[k][i] <= now
  <2>1. i \in 1..n \/ i = n + 1
    OBVIOUS
  <2> QED
    BY <1>3, <1>6, <1>7, <2>1
<1>10. ASSUME NEW i \in 1..n + 1
       PROVE  L - D + (n + 1 - i + 1) * D <= Cap + M * (now - admitted'[k][i])
  <2>1. CASE i \in 1..n
    <3>1. PICK x \in Int : x = n - i + 1 /\ x + 1 = n + 1 - i + 1
      OBVIOUS
    <3>2. PICK y \in Int : y = M * (now - t[i])
      <4>1. now - t[i] \in Int
        BY <1>3, <1>7, <2>1
      <4> QED
        BY <4>1, ProductType
    <3>3. L + x * D <= Cap + y
      BY <1>8, <2>1, <3>1, <3>2
    <3>4. L - D + (x + 1) * D <= Cap + y
      BY <3>3, SpendsOne
    <3>5. admitted'[k][i] = t[i]
      BY <1>6, <2>1
    <3> QED
      BY <3>1, <3>2, <3>4, <3>5
  <2>2. CASE i = n + 1
    <3>1. n + 1 - i + 1 = 1 /\ 1 * D = D
      BY <2>2
    <3>2. now - now = 0 /\ M * 0 = 0
      BY <1>3
    <3>3. admitted'[k][i] = now
      BY <1>6, <2>2
    <3>4. L - D + D <= Cap + 0
      BY <1>3
    <3> QED
      BY <1>3, <3>1, <3>2, <3>3, <3>4
  <2>3. i \in 1..n \/ i = n + 1
    OBVIOUS
  <2> QED
    BY <2>1, <2>2, <2>3
<1>11. Budget!Within(k, admitted'[k])
  <2>1. ASSUME NEW i \in 1..n + 1, NEW j \in 1..n + 1, i <= j
        PROVE  (j - i + 1 - M) * D <= M * (admitted'[k][j] - admitted'[k][i])
    <3>1. CASE j = n + 1
      <4>1. PICK x \in Int : x = n + 1 - i + 1 /\ x = j - i + 1
        BY <3>1
      <4>2. PICK y \in Int : y = M * (now - admitted'[k][i])
        <5>1. now - admitted'[k][i] \in Int
          BY <1>3, <1>9
        <5> QED
          BY <5>1, ProductType
      <4>3. L - D + x * D <= M * D + y
        BY <1>1, <1>10, <4>1, <4>2
      <4>4. D <= L
        BY <1>3
      <4>5. (x - M) * D <= y
        BY <4>3, <4>4, SpendsNoMore
      <4> QED
        BY <1>6, <3>1, <4>1, <4>2, <4>5
    <3>2. CASE j # n + 1
      <4>1. i \in 1..n /\ j \in 1..n
        BY <2>1, <3>2
      <4>2. Budget!Within(k, t)
        BY <1>0, <1>2 DEF BucketsOK, BucketOK
      <4>3. (j - i + 1 - MaxOf[k]) * DurationOf[k] <= MaxOf[k] * (t[j] - t[i])
        BY <1>2, <2>1, <4>1, <4>2 DEF Budget!Within
      <4> QED
        BY <1>1, <1>6, <4>1, <4>3
    <3> QED
      BY <3>1, <3>2
  <2> QED
    BY <1>1, <1>6, <2>1 DEF Budget!Within
<1>12. /\ admitted'[k] # <<>>
       /\ buckets'[k].last = admitted'[k][Len(admitted'[k])]
       /\ buckets'[k].expires = buckets'[k].last + TimeToLive(k)
       /\ buckets'[k].last <= now'
  BY <1>3, <1>5, <1>6
<1>13. \A i \in 1..Len(admitted'[k]) :
          /\ admitted'[k][i] <= buckets'[k].last
          /\ buckets'[k].units + (Len(admitted'[k]) - i + 1) * DurationOf[k]
               <= Capacity(k) + MaxOf[k] * (buckets'[k].last - admitted'[k][i])
  <2>1. 1..Len(admitted'[k]) = 1..n + 1
    BY <1>6
  <2>2. ASSUME NEW i \in 1..n + 1
        PROVE  buckets'[k].units + (Len(admitted'[k]) - i + 1) * DurationOf[k]
                    <= Capacity(k) + MaxOf[k] * (buckets'[k].last - admitted'[k][i])
    <3>1. L - D + (n + 1 - i + 1) * D <= Cap + M * (now - admitted'[k][i])
      BY <1>10
    <3>2. Len(admitted'[k]) = n + 1 /\ buckets'[k].units = L - D /\ buckets'[k].last = now
      BY <1>5, <1>6
    <3>3. D = DurationOf[k] /\ Cap = Capacity(k) /\ M = MaxOf[k]
      BY <1>1
    <3>4. (Len(admitted'[k]) - i + 1) * DurationOf[k] = (n + 1 - i + 1) * D
      BY <3>2, <3>3
    <3>5. MaxOf[k] * (buckets'[k].last - admitted'[k][i]) = M * (now - admitted'[k][i])
      BY <3>2, <3>3
    <3> QED
      BY <3>1, <3>2, <3>3, <3>4, <3>5
  <2>3. \A i \in 1..n + 1 : admitted'[k][i] <= buckets'[k].last
    BY <1>5, <1>9
  <2> QED
    BY <2>1, <2>2, <2>3
<1> QED
  BY <1>11, <1>12, <1>13 DEF BucketOK, Spent

LEMMA BucketsStep ==
    ASSUME TypeOK, CallsOK, BucketsOK, Next
    PROVE  BucketsOK'
<1>1. ASSUME NEW k \in Key, buckets'[k] = buckets[k], admitted'[k] = admitted[k], now' \in {now, now + 1}
      PROVE  BucketOK(k)'
  <2>1. buckets[k].last \in Nat /\ now \in Nat /\ BucketOK(k)
    BY BucketType DEF BucketsOK
  <2>2. buckets'[k].last <= now'
    BY <1>1, <2>1 DEF BucketOK
  <2> QED
    BY <1>1, <2>1, <2>2 DEF BucketOK, Spent, Budget!Within
<1>2. CASE UNCHANGED <<buckets, admitted>> /\ now' \in {now, now + 1}
  BY <1>1, <1>2 DEF BucketsOK
<1>3. ASSUME NEW q \in Request, NEW target \in Int, Ask(q, target), Lacking(Asked(q, target)) = {}, UNCHANGED now
      PROVE  BucketsOK'
  <2>1. Charge(Asked(q, target)) /\ Asked(q, target) \in SUBSET Key
    BY <1>3, AskParts
  <2>2. ASSUME NEW k \in Key, k \notin Asked(q, target)
        PROVE  buckets'[k] = buckets[k] /\ admitted'[k] = admitted[k]
    BY <2>1, <2>2 DEF Charge
  <2>3. ASSUME NEW k \in Key
        PROVE  BucketOK(k)'
    BY <1>1, <1>3, <2>1, <2>2, ChargedBucket
  <2> QED
    BY <2>3 DEF BucketsOK
<1> QED
  BY <1>2, <1>3, Uncharged

-----------------------------------------------------------------------------
(* The delay. *)

LEMMA LevelGrows ==
    ASSUME TypeOK, BucketsOK, NEW k \in Key, NEW t \in Nat, NEW u \in Nat, t <= u
    PROVE  LevelAt(k, t) <= LevelAt(k, u) /\ LevelAt(k, t) \in Int /\ LevelAt(k, u) \in Int
<1>1. PICK M \in Nat, Cap \in Nat, units \in Nat, last \in Nat, expires \in Nat :
        /\ M = MaxOf[k] /\ Cap = Capacity(k)
        /\ units = buckets[k].units /\ last = buckets[k].last /\ expires = buckets[k].expires
  BY BucketType, BudgetType
<1>2. PICK x \in Int, y \in Int : x = (t - last) * M /\ y = (u - last) * M /\ x <= y
  <2>1. t - last \in Int /\ u - last \in Int /\ t - last <= u - last
    OBVIOUS
  <2>2. M * (t - last) <= M * (u - last)
    BY <2>1, Times
  <2>3. /\ (t - last) * M = M * (t - last) /\ (u - last) * M = M * (u - last)
        /\ (t - last) * M \in Int /\ (u - last) * M \in Int
    OBVIOUS
  <2> QED
    BY <2>2, <2>3
<1>3. /\ LevelAt(k, t) = IF t >= expires \/ units + x > Cap THEN Cap ELSE units + x
      /\ LevelAt(k, u) = IF u >= expires \/ units + y > Cap THEN Cap ELSE units + y
  BY <1>1, <1>2 DEF LevelAt
<1> QED
  BY <1>1, <1>2, <1>3

LEMMA WaitSuffices ==
    ASSUME TypeOK, BucketsOK, NEW ks \in SUBSET Key, Lacking(ks) # {}, NEW k \in ks
    PROVE  LevelAt(k, now + Wait(ks)) >= Token(k)
<1>1. PICK w \in Nat, at \in Nat : w = Wait(ks) /\ at = now
  BY WaitCovers DEF TypeOK
<1>2. k \in Key /\ Token(k) \in Nat /\ Level(k) = LevelAt(k, at)
  BY <1>1, LevelNow, BudgetType
<1>3. LevelAt(k, at) \in 0..Capacity(k) /\ LevelAt(k, at + w) \in 0..Capacity(k) /\ Token(k) <= Capacity(k)
      /\ Capacity(k) \in Nat
  BY <1>1, <1>2, LevelType, BudgetType
<1>4. CASE Level(k) >= Token(k)
  <2>1. LevelAt(k, at) <= LevelAt(k, at + w)
    BY <1>1, <1>2, LevelGrows
  <2> QED
    BY <1>1, <1>2, <1>3, <1>4, <2>1
<1>5. CASE Level(k) < Token(k)
  <2>1. PICK M \in Nat \ {0}, D \in Nat, Cap \in Nat, units \in Nat, last \in Nat, expires \in Nat :
          /\ M = MaxOf[k] /\ D = Token(k) /\ Cap = Capacity(k) /\ last <= at
          /\ units = buckets[k].units /\ last = buckets[k].last /\ expires = buckets[k].expires
    BY <1>1, <1>2, BucketType, BudgetType
  <2>2. PICK x \in Int, y \in Int : x = (at - last) * M /\ y = (at + w - last) * M /\ y = x + w * M /\ w * M \in Int
    <3>1. /\ (at + w - last) * M = (at - last) * M + w * M
          /\ (at - last) * M \in Int /\ w * M \in Int
      OBVIOUS
    <3> QED
      BY <3>1
  <2>3. /\ LevelAt(k, at) = IF at >= expires \/ units + x > Cap THEN Cap ELSE units + x
        /\ LevelAt(k, at + w) = IF at + w >= expires \/ units + y > Cap THEN Cap ELSE units + y
    BY <2>1, <2>2 DEF LevelAt
  <2>4. LevelAt(k, at) = units + x /\ D - (units + x) \in Nat
    BY <1>2, <1>3, <1>5, <2>1, <2>2, <2>3
  <2>5. w * M >= D - (units + x)
    <3>1. PICK c \in Nat : c = CeilDiv(D - (units + x), M) /\ c * M >= D - (units + x)
      BY <2>4, CeilDivCovers
    <3>2. c <= w
      <4>1. k \in Lacking(ks)
        BY <1>5 DEF Lacking
      <4>2. CeilDiv(Token(k) - Level(k), MaxOf[k]) <= Wait(ks)
        BY <4>1, WaitCovers
      <4> QED
        BY <1>1, <1>2, <2>1, <2>4, <3>1, <4>2
    <3>3. M * c <= M * w /\ M * c = c * M /\ M * w = w * M /\ c * M \in Int /\ w * M \in Int
      <4>1. M \in Nat /\ c \in Int /\ w \in Int
        OBVIOUS
      <4> QED
        BY <3>2, <4>1, Times
    <3>4. units + x \in Int
      OBVIOUS
    <3> QED
      BY <3>1, <3>3, <3>4
  <2>6. units + y >= D
    BY <2>2, <2>5
  <2> QED
    BY <1>1, <1>3, <2>1, <2>2, <2>3, <2>6
<1> QED
  BY <1>2, <1>3, <1>4, <1>5

LEMMA RoomStays ==
    ASSUME TypeOK, BucketsOK, NEW c \in CallRecord, NEW t \in Nat, NEW u \in Nat, RoomAt(c, t), t <= u, now <= t
    PROVE  RoomAt(c, u)
<1>1. PICK a \in c.refused : a \in c.overtaken \/ \A k \in Config[c.config].budgets[a] : LevelAt(k, t) >= Token(k)
  BY DEF RoomAt
<1>2. ASSUME NEW k \in Config[c.config].budgets[a], LevelAt(k, t) >= Token(k)
      PROVE  LevelAt(k, u) >= Token(k)
  <2>1. k \in Key
    BY ConfigType DEF CallRecord
  <2>2. LevelAt(k, t) <= LevelAt(k, u) /\ LevelAt(k, t) \in Int /\ LevelAt(k, u) \in Int /\ Token(k) \in Int
    <3>1. now <= u /\ now \in Nat
      BY DEF TypeOK
    <3> QED
      BY <2>1, <3>1, LevelGrows, LevelType, BudgetType
  <2> QED
    BY <1>2, <2>2
<1> QED
  BY <1>1, <1>2 DEF RoomAt

\* Without a charge, what will be there at a given time is still the same.
LEMMA RoomKept ==
    ASSUME UNCHANGED buckets, NEW c, NEW t
    PROVE  RoomAt(c, t)' <=> RoomAt(c, t)
BY DEF RoomAt, LevelAt

LEMMA DelayStill ==
    ASSUME TypeOK, BucketsOK, UNCHANGED buckets, now' \in {now, now + 1}, NEW c \in CallRecord, DelayCovers(c)
    PROVE  DelayCovers(c)'
<1>1. c.pc = "limited" => RoomAt(c, c.retryAt)'
  BY RoomKept DEF DelayCovers
<1>2. ASSUME c.pc = "asking", c.sends = 0, c.refused # {}
      PROVE  RoomAt(c, now + c.delay)'
  <2>1. PICK t \in Nat, u \in Nat : t = now + c.delay /\ u = now' + c.delay /\ t <= u /\ now <= t
    BY DEF TypeOK, CallRecord
  <2>2. RoomAt(c, u)
    BY <1>2, <2>1, RoomStays DEF DelayCovers
  <2>3. RoomAt(c, u)'
    BY <2>2, RoomKept
  <2> QED
    BY <2>1, <2>3
<1> QED
  BY <1>1, <1>2 DEF DelayCovers

\* A refusal: the adapter that waits for the shortest time has room after it.
LEMMA RefusalCovers ==
    ASSUME TypeOK, BucketsOK, NEW c \in CallRecord, DelayCovers(c), c.pc = "asking",
           NEW a \in Adapter, NEW rest, UNCHANGED <<buckets, now>>,
           Lacking(Config[c.config].budgets[a]) # {},
           NEW r, r = Refuse(c, a, rest, Wait(Config[c.config].budgets[a]))
    PROVE  DelayCovers(r)'
<1>1. PICK ks \in SUBSET Key : ks = Config[c.config].budgets[a]
  BY ConfigType DEF CallRecord
<1>2. PICK wait \in Nat : wait = Wait(ks)
  BY <1>1, WaitCovers
<1> DEFINE next == [c EXCEPT !.left = rest, !.refused = @ \cup {a},
                             !.delay = IF c.refused = {} \/ wait < @ THEN wait ELSE @]
<1>3. /\ next.refused = c.refused \cup {a} /\ next.overtaken = c.overtaken /\ next.config = c.config
      /\ next.delay = (IF c.refused = {} \/ wait < c.delay THEN wait ELSE c.delay)
      /\ next.sends = c.sends /\ next.pc = "asking"
  BY DEF CallRecord
<1>4. ASSUME c.sends = 0
      PROVE  RoomAt(next, now + next.delay)
  <2>1. CASE next.delay = wait
    <3>1. \A k \in Config[next.config].budgets[a] : LevelAt(k, now + next.delay) >= Token(k)
      BY <1>1, <1>2, <1>3, <2>1, WaitSuffices
    <3> QED
      BY <1>3, <3>1 DEF RoomAt
  <2>2. CASE next.delay # wait
    <3>1. c.refused # {} /\ next.delay = c.delay
      BY <1>3, <2>2
    <3>2. RoomAt(c, now + c.delay)
      BY <1>4, <3>1 DEF DelayCovers
    <3> QED
      BY <1>3, <3>1, <3>2 DEF RoomAt
  <2> QED
    BY <2>1, <2>2
<1>5. PICK n, t : n = next /\ t = now + next.delay
  OBVIOUS
<1> HIDE DEF next
<1>6. c.sends = 0 => RoomAt(n, t)'
  BY <1>4, <1>5, RoomKept
<1>7. CASE rest # <<>>
  <2>1. r = n
    BY <1>1, <1>2, <1>5, <1>7 DEF Refuse, next
  <2>2. n.pc = "asking" /\ n.sends = c.sends /\ t = now' + n.delay
    BY <1>3, <1>5
  <2> QED
    BY <1>6, <2>1, <2>2 DEF DelayCovers
<1>8. CASE rest = <<>> /\ c.sends > 0
  <2>1. r = IdleCall
    BY <1>8 DEF Refuse
  <2> QED
    BY <2>1 DEF DelayCovers, IdleCall
<1>9. CASE rest = <<>> /\ ~(c.sends > 0)
  <2>1. r = [n EXCEPT !.pc = "limited", !.delay = 0, !.retryAt = t]
    BY <1>1, <1>2, <1>5, <1>9 DEF Refuse, next
  <2>2. /\ r.pc = "limited" /\ r.retryAt = t
        /\ r.refused = n.refused /\ r.overtaken = n.overtaken /\ r.config = n.config
    BY <1>5, <2>1 DEF next, CallRecord
  <2>3. c.sends = 0
    BY <1>9 DEF CallRecord
  <2>4. RoomAt(r, t)'
    BY <1>6, <2>2, <2>3 DEF RoomAt
  <2> QED
    BY <2>2, <2>4 DEF DelayCovers
<1> QED
  BY <1>7, <1>8, <1>9

\* A charge: the room of the adapters that are not charged stays, since their buckets are others.
LEMMA ChargeCovers ==
    ASSUME TypeOK, BucketsOK, NEW c \in CallRecord, DelayCovers(c),
           NEW r \in Revision, NEW a \in Adapter, Charge(Config[r].budgets[a]), UNCHANGED now, a \notin c.refused
    PROVE  DelayCovers(c)'
<1>1. ASSUME NEW t, RoomAt(c, t)
      PROVE  RoomAt(c, t)'
  <2>1. PICK b \in c.refused : b \in c.overtaken \/ \A k \in Config[c.config].budgets[b] : LevelAt(k, t) >= Token(k)
    BY <1>1 DEF RoomAt
  <2>2. b \in Adapter /\ b # a /\ c.config \in Revision
    BY DEF CallRecord
  <2>3. ASSUME NEW k \in Config[c.config].budgets[b], LevelAt(k, t) >= Token(k)
        PROVE  LevelAt(k, t)' >= Token(k)
    <3>1. k \in Key
      BY <2>2, ConfigType
    <3>2. k \notin Config[r].budgets[a]
      BY <2>2, ScopeAssumption
    <3>3. buckets'[k] = buckets[k]
      BY <3>1, <3>2 DEF Charge
    <3>4. LevelAt(k, t)' = LevelAt(k, t)
      BY <3>3 DEF LevelAt
    <3> QED
      BY <2>3, <3>4
  <2> QED
    BY <2>1, <2>3 DEF RoomAt
<1>2. c.pc = "limited" => RoomAt(c, c.retryAt)'
  <2>1. PICK t : t = c.retryAt
    OBVIOUS
  <2> QED
    BY <1>1, <2>1 DEF DelayCovers
<1>3. c.pc = "asking" /\ c.sends = 0 /\ c.refused # {} => RoomAt(c, now + c.delay)'
  <2>1. PICK t : t = now + c.delay
    OBVIOUS
  <2> QED
    BY <1>1, <2>1 DEF DelayCovers
<1> QED
  BY <1>2, <1>3 DEF DelayCovers

LEMMA DelayStep ==
    ASSUME TypeOK, CallsOK, BucketsOK, DelayOK, Next
    PROVE  DelayOK'
<1> USE DEF DelayOK
<1>0. \A p \in Request : calls[p] \in CallRecord /\ DelayCovers(calls[p])
  BY DEF TypeOK
<1>1. ASSUME NEW q \in Request, NEW r, calls' = [calls EXCEPT ![q] = r], DelayCovers(r)', UNCHANGED <<buckets, now>>
      PROVE  DelayOK'
  <2>1. ASSUME NEW p \in Request
        PROVE  DelayCovers(calls[p])'
    <3>1. CASE p = q
      <4>1. calls'[p] = r
        BY <1>1, <3>1 DEF TypeOK
      <4> QED
        BY <1>1, <4>1
    <3>2. CASE p # q
      <4>1. PICK c \in CallRecord : c = calls[p] /\ c = calls'[p]
        BY <1>0, <1>1, <3>2 DEF TypeOK
      <4>2. DelayCovers(c)'
        BY <1>0, <1>1, <4>1, DelayStill
      <4> QED
        BY <4>1, <4>2
    <3> QED
      BY <3>1, <3>2
  <2> QED
    BY <2>1
<1>2. DelayCovers(IdleCall)'
  BY DEF DelayCovers, IdleCall
<1>3. ASSUME NEW q \in Request, NEW pinned, NEW safe, Begin(q, pinned, safe)
      PROVE  DelayOK'
  <2>1. PICK r : /\ calls' = [calls EXCEPT ![q] = r]
                 /\ r = IdleCall \/ (r.pc = "asking" /\ r.refused = {})
    <3>1. [IdleCall EXCEPT !.pc = "asking", !.config = revision, !.left = Candidates(pinned), !.safe = safe].pc = "asking"
          /\ [IdleCall EXCEPT !.pc = "asking", !.config = revision, !.left = Candidates(pinned), !.safe = safe].refused = {}
      BY DEF IdleCall
    <3> QED
      BY <1>3, <3>1 DEF Begin
  <2>2. DelayCovers(r)'
    BY <1>2, <2>1 DEF DelayCovers
  <2> QED
    BY <1>1, <1>3, <2>1, <2>2 DEF Begin
<1>4. ASSUME NEW q \in Request, NEW target, Ask(q, target)
      PROVE  DelayOK'
  <2>1. /\ calls[q] \in CallRecord /\ calls[q].pc = "asking" /\ calls[q].config \in Revision
        /\ Chosen(q, target) \in Adapter /\ UNCHANGED now
    BY <1>4, AskParts DEF CallRecord
  <2>2. CASE /\ Lacking(Asked(q, target)) # {}
             /\ calls' = [calls EXCEPT ![q] =
                    Refuse(calls[q], Chosen(q, target), Rest(q, target), Wait(Asked(q, target)))]
             /\ UNCHANGED <<buckets, admitted>>
    <3>1. PICK c, a, rest, r :
            /\ c \in CallRecord /\ a \in Adapter
            /\ c = calls[q] /\ a = Chosen(q, target) /\ rest = Rest(q, target)
            /\ r = Refuse(c, a, rest, Wait(Config[c.config].budgets[a]))
            /\ Lacking(Config[c.config].budgets[a]) # {}
            /\ calls' = [calls EXCEPT ![q] = r]
      BY <2>1, <2>2 DEF Asked
    <3>2. DelayCovers(r)'
      BY <1>0, <2>1, <2>2, <3>1, RefusalCovers
    <3> QED
      BY <1>1, <2>1, <2>2, <3>1, <3>2
  <2>3. CASE /\ Lacking(Asked(q, target)) = {}
             /\ calls' = Sent(q, target)
             /\ Charge(Asked(q, target))
    <3>1. PICK a \in Adapter, v \in Revision :
            a = Chosen(q, target) /\ v = calls[q].config /\ Charge(Config[v].budgets[a])
      BY <2>1, <2>3 DEF Asked
    <3>2. ASSUME NEW p \in Request
          PROVE  DelayCovers(calls[p])'
      <4>1. PICK c, r : c \in CallRecord /\ c = calls[p] /\ r = calls'[p] /\ DelayCovers(c)
        BY <1>0
      <4>2. CASE p = q
        <5>1. r.pc = "sending"
          BY <2>1, <2>3, <4>1, <4>2 DEF Sent, CallRecord
        <5> QED
          BY <4>1, <5>1 DEF DelayCovers
      <4>3. CASE p # q /\ a \in c.refused
        <5>1. a \in r.refused /\ a \in r.overtaken
          BY <2>3, <3>1, <4>1, <4>3 DEF Sent, CallRecord
        <5>2. RoomAt(r, r.retryAt)' /\ RoomAt(r, now + r.delay)'
          BY <5>1 DEF RoomAt
        <5> QED
          BY <4>1, <5>2 DEF DelayCovers
      <4>4. CASE p # q /\ a \notin c.refused
        <5>1. r = c
          BY <2>3, <3>1, <4>1, <4>4 DEF Sent
        <5>2. DelayCovers(c)'
          BY <2>1, <3>1, <4>1, <4>4, ChargeCovers
        <5> QED
          BY <4>1, <5>1, <5>2
      <4> QED
        BY <4>2, <4>3, <4>4
    <3> QED
      BY <3>2
  <2> QED
    BY <1>4, <2>2, <2>3, AskParts
<1>5. ASSUME NEW q \in Request, (\E outcome \in {"transport error", "response"} : Receive(q, outcome)) \/ Abort(q)
      PROVE  DelayOK'
  <2>1. PICK r : /\ calls' = [calls EXCEPT ![q] = r]
                 /\ r = IdleCall \/ (r.pc = "asking" /\ r.sends > 0)
    <3>1. calls[q].pc = "sending" => [calls[q] EXCEPT !.pc = "asking"].sends > 0 /\ calls[q].sends \in Nat
      BY <1>0 DEF CallsOK, CallRecord
    <3>2. [calls[q] EXCEPT !.pc = "asking"].pc = "asking" /\ [calls[q] EXCEPT !.pc = "asking"].sends = calls[q].sends
      BY <1>0 DEF CallRecord
    <3> QED
      BY <1>5, <3>1, <3>2 DEF Receive, Abort
  <2>2. r.sends > 0 => r.sends # 0
    OBVIOUS
  <2>3. DelayCovers(r)'
    BY <1>2, <2>1, <2>2 DEF DelayCovers
  <2> QED
    BY <1>1, <1>5, <2>1, <2>3 DEF Receive, Abort
<1>6. CASE Restart
  BY <1>2, <1>6 DEF Restart
<1>7. CASE UNCHANGED <<buckets, calls>> /\ now' \in {now, now + 1}
  <2>1. ASSUME NEW p \in Request
        PROVE  DelayCovers(calls[p])'
    <3>1. PICK c \in CallRecord : c = calls[p] /\ c = calls'[p] /\ DelayCovers(c)
      BY <1>0, <1>7
    <3>2. DelayCovers(c)'
      BY <1>7, <3>1, DelayStill
    <3> QED
      BY <3>1, <3>2
  <2> QED
    BY <2>1
<1> QED
  BY <1>3, <1>4, <1>5, <1>6, <1>7 DEF Next, LoadRead, LoadApply, PutRead, PutWrite, PutApply, Tick

-----------------------------------------------------------------------------
(* The theorems. *)

LEMMA InitInv == Init => NetworkInv
<1> SUFFICES ASSUME Init
             PROVE  NetworkInv
  OBVIOUS
<1>1. TypeOK
  <2>1. NoBucket \in Bucket
    BY DEF NoBucket, Bucket
  <2>2. <<>> \in Seq(0..MaxTime)
    BY EmptySeq
  <2> QED
    BY <2>1, <2>2, IdleTypes, BoundAssumption DEF Init, TypeOK, Revision
<1>2. PutsOK /\ SavedIsUsed
  BY DEF Init, PutsOK, SavedIsUsed, IdlePut
<1>3. CallsOK /\ SentOnce /\ DelayOK
  BY DEF Init, CallsOK, SentOnce, DelayOK, DelayCovers, IdleCall
<1>4. BucketsOK
  <2>1. ASSUME NEW k \in Key
        PROVE  BucketOK(k)
    <3>1. admitted[k] = <<>> /\ buckets[k] = NoBucket /\ now = 0
      BY DEF Init
    <3>2. 1..Len(admitted[k]) = {}
      BY <3>1
    <3> QED
      BY <3>1, <3>2 DEF BucketOK, NoBucket, Budget!Within
  <2> QED
    BY <2>1 DEF BucketsOK
<1> QED
  BY <1>1, <1>2, <1>3, <1>4 DEF NetworkInv

LEMMA InvStep == NetworkInv /\ [Next]_vars => NetworkInv'
<1> SUFFICES ASSUME NetworkInv, [Next]_vars
             PROVE  NetworkInv'
  OBVIOUS
<1> USE DEF NetworkInv
<1>1. CASE Next
  <2>1. TypeOK'
    BY <1>1, TypeStep
  <2>2. PutsOK' /\ SavedIsUsed'
    BY <1>1, <2>1, PutsStep
  <2>3. CallsOK' /\ SentOnce'
    BY <1>1, CallsStep
  <2>4. BucketsOK' /\ DelayOK'
    BY <1>1, BucketsStep, DelayStep
  <2> QED
    BY <2>1, <2>2, <2>3, <2>4
<1>2. CASE UNCHANGED vars
  <2> USE <1>2 DEF vars
  <2>1. TypeOK' /\ PutsOK' /\ SavedIsUsed' /\ CallsOK' /\ SentOnce'
    BY DEF TypeOK, PutsOK, SavedIsUsed, CallsOK, SentOnce
  <2>2. BucketsOK'
    BY DEF BucketsOK, BucketOK, Spent, Budget!Within
  <2>3. DelayOK'
    BY DEF DelayOK, DelayCovers, RoomAt, LevelAt
  <2> QED
    BY <2>1, <2>2, <2>3
<1> QED
  BY <1>1, <1>2

\* The invariant of the scheduler: what is in a bucket accounts for what was admitted.
THEOREM NetworkInvAlways == Spec => []NetworkInv
BY InitInv, InvStep, PTL DEF Spec

\* Revisions, buckets and calls keep their types: no charge takes a bucket below nothing.
THEOREM TypeCorrect == Spec => []TypeOK
<1>1. NetworkInv => TypeOK
  BY DEF NetworkInv
<1> QED
  BY <1>1, NetworkInvAlways, PTL

\* A request that must not be repeated is sent once at most, and one that is said to have found no room was not sent.
THEOREM SentOnceAlways == Spec => []SentOnce
<1>1. NetworkInv => SentOnce
  BY DEF NetworkInv
<1> QED
  BY <1>1, NetworkInvAlways, PTL

\* A replacement that is answered as saved is in use until a newer one, or a restart, comes.
THEOREM SavedIsUsedAlways == Spec => []SavedIsUsed
<1>1. NetworkInv => SavedIsUsed
  BY DEF NetworkInv
<1> QED
  BY <1>1, NetworkInvAlways, PTL

\* After the delay that came with "no local capacity" one of the adapters that were asked has room, or was used.
THEOREM DelaySufficesAlways == Spec => []DelaySuffices
<1>1. NetworkInv => DelaySuffices
  <2> SUFFICES ASSUME NetworkInv, NEW q \in Request, calls[q].pc = "limited", now >= calls[q].retryAt
               PROVE  \E a \in calls[q].refused : \/ a \in calls[q].overtaken
                                                  \/ Lacking(Config[calls[q].config].budgets[a]) = {}
    BY DEF DelaySuffices
  <2>1. TypeOK /\ BucketsOK /\ calls[q] \in CallRecord /\ calls[q].retryAt \in Nat /\ now \in Nat
    BY DEF NetworkInv, TypeOK, CallRecord
  <2>2. RoomAt(calls[q], calls[q].retryAt)
    BY DEF NetworkInv, DelayOK, DelayCovers
  <2>3. PICK a \in calls[q].refused :
          \/ a \in calls[q].overtaken
          \/ \A k \in Config[calls[q].config].budgets[a] : LevelAt(k, calls[q].retryAt) >= Token(k)
    BY <2>2 DEF RoomAt
  <2>4. ASSUME NEW k \in Config[calls[q].config].budgets[a], LevelAt(k, calls[q].retryAt) >= Token(k)
        PROVE  Level(k) >= Token(k)
    <3>1. k \in Key
      <4>1. a \in Adapter /\ calls[q].config \in Revision
        BY <2>1 DEF CallRecord
      <4> QED
        BY <4>1, ConfigType
    <3>2. PICK t \in Nat, u \in Nat : t = calls[q].retryAt /\ u = now /\ t <= u
      BY <2>1
    <3>3. LevelAt(k, t) <= LevelAt(k, u) /\ LevelAt(k, t) \in Int /\ LevelAt(k, u) \in Int
      BY <2>1, <3>1, <3>2, LevelGrows
    <3>4. Level(k) = LevelAt(k, u) /\ LevelAt(k, t) >= Token(k) /\ Token(k) \in Int
      BY <2>4, <3>1, <3>2, LevelNow, BudgetType
    <3> QED
      BY <3>3, <3>4
  <2>5. ASSUME \A k \in Config[calls[q].config].budgets[a] : LevelAt(k, calls[q].retryAt) >= Token(k)
        PROVE  Lacking(Config[calls[q].config].budgets[a]) = {}
    <3>1. ASSUME NEW k \in Lacking(Config[calls[q].config].budgets[a])
          PROVE  FALSE
      <4>1. k \in Config[calls[q].config].budgets[a] /\ Level(k) < Token(k) /\ k \in Key
        <5>1. a \in Adapter /\ calls[q].config \in Revision
          BY <2>1 DEF CallRecord
        <5> QED
          BY <5>1, ConfigType DEF Lacking
      <4>2. Level(k) >= Token(k)
        BY <2>4, <2>5, <4>1
      <4>3. Level(k) \in Int /\ Token(k) \in Int
        BY <2>1, <4>1, LevelNow, LevelType, BudgetType
      <4> QED
        BY <4>1, <4>2, <4>3
    <3> QED
      BY <3>1
  <2> QED
    BY <2>3, <2>5
<1> QED
  BY <1>1, NetworkInvAlways, PTL

\* The revision in use never goes back, though loads overlap each other and replacements.
THEOREM NeverOlderAlways == Spec => NeverOlder
<1>1. NetworkInv /\ [Next]_vars => [revision' # NoRevision /\ revision # NoRevision => revision' >= revision]_vars
  <2> SUFFICES ASSUME NetworkInv, Next, revision' # NoRevision, revision # NoRevision
               PROVE  revision' >= revision
    OBVIOUS
  <2>1. ~Restart
    BY DEF Restart
  <2> QED
    BY <2>1, RevisionStep DEF NetworkInv
<1> QED
  BY <1>1, NetworkInvAlways, PTL DEF Spec, NeverOlder

\* The limiter implements the budgets: a charge admits a request to budgets of which no stretch of time has been
\* exhausted, and nothing else but time goes on. Buckets, expiring keys, reloads and restarts do not show.
THEOREM KeepsBudgetsAlways == Spec => KeepsBudgets
<1>1. Init => Budget!Init
  BY DEF Init, Budget!Init
<1>2. NetworkInv /\ [Next]_vars => [Budget!Next]_<<now, admitted>>
  <2> SUFFICES ASSUME NetworkInv, [Next]_vars
               PROVE  [Budget!Next]_<<now, admitted>>
    OBVIOUS
  <2>1. CASE UNCHANGED vars
    BY <2>1 DEF vars
  <2>2. CASE Tick
    BY <2>2 DEF Tick, Budget!Next, Budget!Advance
  <2>3. ASSUME NEW q \in Request, NEW target, Ask(q, target), Next
        PROVE  [Budget!Next]_<<now, admitted>>
    <3>1. CASE UNCHANGED <<now, admitted>>
      BY <3>1
    <3>2. CASE Charge(Asked(q, target)) /\ Asked(q, target) \in SUBSET Key /\ UNCHANGED now
      <4>1. \A k \in Asked(q, target) : Budget!Within(k, admitted'[k])
        <5>1. BucketsOK'
          BY <2>3, BucketsStep DEF NetworkInv
        <5> QED
          BY <3>2, <5>1 DEF BucketsOK, BucketOK, Budget!Within
      <4>2. Budget!Charge(Asked(q, target))
        BY <3>2, <4>1 DEF Charge, Budget!Charge
      <4> QED
        BY <3>2, <4>2 DEF Budget!Next
    <3> QED
      BY <2>3, <3>1, <3>2, AskParts DEF NetworkInv
  <2>4. CASE Next /\ UNCHANGED <<now, admitted>>
    BY <2>4
  <2> QED
    BY <2>1, <2>2, <2>3, <2>4
    DEF Next, LoadRead, LoadApply, PutRead, PutWrite, PutApply, Begin, Receive, Abort, Restart
<1> QED
  BY <1>1, <1>2, NetworkInvAlways, PTL DEF Spec, KeepsBudgets, Budget!Spec
====
