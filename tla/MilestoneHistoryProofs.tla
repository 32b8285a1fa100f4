---- MODULE MilestoneHistoryProofs ----
(***************************************************************************)
(* What holds of the record of milestones for any videos, workers and      *)
(* recoveries: its types, that the first sample which shows a milestone is *)
(* known, live and in history, and that a row of history brackets the      *)
(* moment.                                                                 *)
(***************************************************************************)
EXTENDS MilestoneHistory, FiniteSetTheorems, TLAPS

\* A video has one sample of a time, and finitely many.
SamplesOK == \A v \in Video :
    /\ IsFiniteSet(samples[v])
    /\ \A s, p \in samples[v] : s.at = p.at => s = p

\* The recovery r knows in history what the sample s of video v shows.
Recovered(v, s) == \A t \in Reached(s.views) : Known(v, t, "history", s.at)

\* What a job with data d has behind it.
Behind(r, d, v, s) ==
    \/ v \notin candidates[r]
    \/ v <= d.afterAid
    \/ d.current = v /\ s.at <= d.afterTime

\* A job has recovered what it has behind it. A video that is under way is the next of the list, and the sample saved
\* with it is the last one behind it.
DataOK(r, d) ==
    /\ \A v \in Video : \A s \in scope[r][v] : Behind(r, d, v, s) => Recovered(v, s)
    /\ d.current = NoVideo => d.afterTime = -1
    /\ d.current # NoVideo => /\ d.current \in candidates[r] /\ d.current > d.afterAid
                              /\ \A v \in candidates[r] : v > d.afterAid => d.current <= v
                              /\ d.previous \in samples[d.current] /\ d.previous.at = d.afterTime
    /\ ~d.prepared => d.afterAid = -1 /\ d.current = NoVideo

JobOK(r) ==
    /\ jobs[r].pc = "idle" => \A v \in Video : scope[r][v] = {}
    /\ \A v \in Video : scope[r][v] \subseteq Until(v, jobs[r].data.through)
    /\ DataOK(r, jobs[r].data)
    /\ jobs[r].pc = "save" => DataOK(r, jobs[r].next) /\ jobs[r].next.through = jobs[r].data.through
    /\ jobs[r].ends => /\ jobs[r].pc = "save"
                       /\ \A v \in Video : \A s \in scope[r][v] : Recovered(v, s)

JobsOK == \A r \in Recovery : JobOK(r)

MilestoneInv == TypeOK /\ SamplesOK /\ FirstObserved /\ JobsOK

-----------------------------------------------------------------------------
(* Least and greatest elements. *)

LEMMA Greatest ==
    ASSUME NEW S, IsFiniteSet(S), S # {}, NEW f \in [S -> Nat]
    PROVE  \E x \in S : \A y \in S : f[y] <= f[x]
<1> DEFINE Has(U) == \E x \in U : \A y \in U : f[y] <= f[x]
           T == {U \in SUBSET S : U # {} /\ ~Has(U)}
<1>1. IsWellFoundedOn(StrictSubsetOrdering(S), SUBSET S)
  BY FS_StrictSubsetOrderingWellFounded, FS_FiniteSubsetsOfFinite
<1>2. ASSUME T # {}
      PROVE  FALSE
  <2>1. \E U \in T : \A V \in T : <<V, U>> \notin StrictSubsetOrdering(S)
    <3> HIDE DEF Has
    <3>1. T \subseteq SUBSET S
      OBVIOUS
    <3> HIDE DEF T
    <3> QED
      BY <1>1, <1>2, <3>1, WFMin
  <2>2. PICK U \in T : \A V \in T : <<V, U>> \notin StrictSubsetOrdering(S)
    BY <2>1
  <2>3. PICK x \in U : TRUE
    OBVIOUS
  <2>4. U \ {x} \notin T
    BY <2>2, <2>3 DEF StrictSubsetOrdering
  <2>5. CASE U \ {x} = {}
    <3>1. \A y \in U : y = x
      BY <2>5
    <3> QED
      BY <2>3, <3>1
  <2>6. CASE Has(U \ {x})
    <3>1. PICK z \in U \ {x} : \A y \in U \ {x} : f[y] <= f[z]
      BY <2>6
    <3>2. f[x] \in Nat /\ f[z] \in Nat /\ \A y \in U : f[y] \in Nat
      BY <2>3
    <3>3. \A y \in U : y = x \/ f[y] <= f[z]
      BY <3>1
    <3> QED
      BY <2>3, <3>1, <3>2, <3>3
  <2> QED
    BY <2>4, <2>5, <2>6
<1> QED
  BY <1>2

LEMMA LeastNumber ==
    ASSUME NEW S \in SUBSET Nat, S # {}
    PROVE  \E i \in S : \A j \in S : i <= j
<1>1. PICK n \in S : TRUE
  OBVIOUS
<1> DEFINE U == {i \in S : i <= n}
           f == [i \in U |-> n - i]
<1>2. IsFiniteSet(U)
  <2>1. n \in Nat /\ U \in SUBSET Nat /\ \A i \in U : i <= n
    BY <1>1
  <2> HIDE DEF U
  <2> QED
    BY <2>1, FS_BoundedSetOfNaturals
<1>3. U # {} /\ f \in [U -> Nat]
  <2>1. n \in U
    BY <1>1
  <2>2. \A i \in U : n - i \in Nat
    BY <1>1
  <2> HIDE DEF U
  <2> QED
    BY <2>1, <2>2
<1>4. PICK i \in U : \A j \in U : f[j] <= f[i]
  <2> HIDE DEF U, f
  <2> QED
    BY <1>2, <1>3, Greatest
<1>5. \A j \in U : i <= j
  BY <1>4
<1> QED
  BY <1>1, <1>5

LEMMA SampleType == \A s \in Sample : s.at \in Time /\ s.at \in Nat /\ s.views \in Nat
<1>1. MaxTime \in Nat /\ \A x \in Views : x \in Nat
  BY NumberAssumption
<1> SUFFICES ASSUME NEW s \in Sample
             PROVE  s.at \in Time /\ s.at \in Nat /\ s.views \in Nat
  OBVIOUS
<1>2. s.at \in Time /\ s.views \in Views
  BY DEF Sample
<1> QED
  BY <1>1, <1>2 DEF Time

LEMMA LastSample ==
    ASSUME NEW S \in SUBSET Sample, IsFiniteSet(S), S # {}
    PROVE  \E s \in S : \A p \in S : p.at <= s.at
<1> DEFINE f == [s \in S |-> s.at]
<1>1. f \in [S -> Nat]
  BY NumberAssumption DEF Sample, Time
<1>2. \E s \in S : \A p \in S : f[p] <= f[s]
  <2> HIDE DEF f
  <2> QED
    BY <1>1, Greatest
<1> QED
  BY <1>2

LEMMA FirstSample ==
    ASSUME NEW S \in SUBSET Sample, IsFiniteSet(S), S # {}
    PROVE  \E s \in S : \A p \in S : s.at <= p.at
<1> DEFINE f == [s \in S |-> MaxTime - s.at]
<1>1. \A s \in S : s.at \in Nat /\ MaxTime - s.at \in Nat
  BY NumberAssumption DEF Sample, Time
<1>2. f \in [S -> Nat]
  BY <1>1
<1>3. \E s \in S : \A p \in S : f[p] <= f[s]
  <2> HIDE DEF f
  <2> QED
    BY <1>2, Greatest
<1> QED
  BY <1>1, <1>3, NumberAssumption

LEMMA LeastVideo ==
    ASSUME NEW S \in SUBSET Video, S # {}
    PROVE  Min(S) \in S /\ \A v \in S : Min(S) <= v
BY LeastNumber, NumberAssumption DEF Min

-----------------------------------------------------------------------------
(* Batches. *)

LEMMA UntilType ==
    ASSUME TypeOK, SamplesOK, NEW v \in Video, NEW through
    PROVE  /\ Until(v, through) \subseteq samples[v] /\ samples[v] \subseteq Sample
           /\ IsFiniteSet(Until(v, through))
           /\ \A s \in samples[v] : s.at \in Nat /\ s.views \in Nat
<1>1. Until(v, through) \subseteq samples[v]
  BY DEF Until
<1>2. samples[v] \subseteq Sample
  BY DEF TypeOK
<1>3. IsFiniteSet(Until(v, through))
  BY <1>1, FS_Subset DEF SamplesOK
<1>4. \A s \in samples[v] : s.at \in Nat /\ s.views \in Nat
  BY <1>2, SampleType
<1> QED
  BY <1>1, <1>2, <1>3, <1>4

LEMMA BatchFacts ==
    ASSUME TypeOK, SamplesOK, NEW v \in Video, NEW after \in Int, NEW through \in Time,
           NEW batch, batch = BatchTo(v, after, through)
    PROVE  /\ batch \subseteq Until(v, through) /\ IsFiniteSet(batch)
           /\ \A s \in batch : s.at > after
           /\ \A s \in Until(v, through), b \in batch : s.at > after /\ s.at <= b.at => s \in batch
           /\ Cardinality(batch) < BatchSize => \A s \in Until(v, through) : s.at > after => s \in batch
           /\ batch = {} => Cardinality(batch) < BatchSize
<1> DEFINE rest == {s \in Until(v, through) : s.at > after}
           upTo(s) == {p \in rest : p.at < s.at}
<1>1. batch = {s \in rest : Cardinality(upTo(s)) < BatchSize}
  BY DEF BatchTo
<1>2. rest \subseteq Until(v, through) /\ IsFiniteSet(rest) /\ rest \subseteq Sample /\ \A s \in rest : s.at \in Nat
  BY UntilType, FS_Subset
<1>3. ASSUME NEW s \in rest
      PROVE  IsFiniteSet(upTo(s)) /\ Cardinality(upTo(s)) \in Nat
  <2>1. upTo(s) \subseteq rest
    OBVIOUS
  <2> HIDE DEF upTo
  <2> QED
    BY <1>2, <2>1, FS_Subset, FS_CardinalityType
<1>4. batch \subseteq Until(v, through) /\ IsFiniteSet(batch) /\ Cardinality(batch) \in Nat /\ \A s \in batch : s.at > after
  <2>1. batch \subseteq rest
    BY <1>1
  <2>2. IsFiniteSet(batch)
    BY <1>2, <2>1, FS_Subset
  <2> QED
    BY <1>2, <2>1, <2>2, FS_CardinalityType
<1>5. ASSUME NEW s \in Until(v, through), NEW b \in batch, s.at > after, s.at <= b.at
      PROVE  s \in batch
  <2>1. s \in rest /\ b \in rest /\ Cardinality(upTo(b)) < BatchSize
    BY <1>1, <1>5
  <2>2. upTo(s) \subseteq upTo(b)
    BY <1>2, <1>5, <2>1
  <2>3. Cardinality(upTo(s)) <= Cardinality(upTo(b))
    <3>1. IsFiniteSet(upTo(b))
      BY <1>3, <2>1
    <3> HIDE DEF upTo
    <3> QED
      BY <2>2, <3>1, FS_Subset
  <2>4. Cardinality(upTo(s)) \in Nat /\ Cardinality(upTo(b)) \in Nat /\ BatchSize \in Nat
    BY <1>3, <2>1, NumberAssumption
  <2> QED
    BY <1>1, <2>1, <2>3, <2>4
<1>6. ASSUME Cardinality(batch) < BatchSize, rest \ batch # {}
      PROVE  FALSE
  <2>1. rest \ batch \in SUBSET Sample /\ IsFiniteSet(rest \ batch)
    BY <1>2, FS_Difference
  <2>2. PICK s \in rest \ batch : \A p \in rest \ batch : s.at <= p.at
    BY <1>6, <2>1, FirstSample
  <2>3. upTo(s) \subseteq batch
    BY <1>2, <2>2
  <2>4. Cardinality(upTo(s)) <= Cardinality(batch)
    BY <1>4, <2>3, FS_Subset
  <2>5. Cardinality(upTo(s)) \in Nat /\ ~(Cardinality(upTo(s)) < BatchSize) /\ BatchSize \in Nat
    BY <1>1, <1>3, <2>2, NumberAssumption
  <2> QED
    BY <1>4, <1>6, <2>4, <2>5
<1>7. batch = {} => Cardinality(batch) < BatchSize
  BY FS_EmptySet, NumberAssumption
<1> QED
  BY <1>4, <1>5, <1>6, <1>7

LEMMA FirstFacts ==
    ASSUME NEW batch \in SUBSET Sample, IsFiniteSet(batch), NEW t \in Threshold, NEW b \in batch, b.views >= t
    PROVE  /\ First(batch, t) \in batch /\ First(batch, t).views >= t
           /\ \A p \in batch : p.views >= t => First(batch, t).at <= p.at
<1> DEFINE S == {s \in batch : s.views >= t}
<1>1. S \in SUBSET Sample /\ IsFiniteSet(S) /\ S # {}
  BY FS_Subset
<1>2. \E s \in S : \A p \in S : s.at <= p.at
  BY <1>1, FirstSample
<1> QED
  BY <1>2 DEF First

LEMMA BeforeFacts ==
    ASSUME NEW batch \in SUBSET Sample, IsFiniteSet(batch), NEW s \in Sample, NEW previous
    PROVE  \/ Before(batch, s, previous) = previous /\ \A q \in batch : ~(q.at < s.at)
           \/ /\ Before(batch, s, previous) \in batch /\ Before(batch, s, previous).at < s.at
              /\ \A q \in batch : q.at < s.at => q.at <= Before(batch, s, previous).at
<1> DEFINE S == {p \in batch : p.at < s.at}
<1>1. S \in SUBSET Sample /\ IsFiniteSet(S)
  BY FS_Subset
<1>2. S # {} => \E p \in S : \A q \in S : q.at <= p.at
  BY <1>1, LastSample
<1> QED
  BY <1>2 DEF Before

-----------------------------------------------------------------------------
(* Rows. *)

LEMMA InsertFacts ==
    ASSUME NEW known, NEW new
    PROVE  /\ known \subseteq Insert(known, new)
           /\ Insert(known, new) \subseteq known \cup new
           /\ \A r \in new : \E k \in Insert(known, new) :
                 /\ k.video = r.video /\ k.threshold = r.threshold /\ k.source = r.source /\ k.at = r.at
<1>1. known \subseteq Insert(known, new) /\ Insert(known, new) \subseteq known \cup new
  BY DEF Insert
<1>2. ASSUME NEW r \in new
      PROVE  \E k \in Insert(known, new) :
                 /\ k.video = r.video /\ k.threshold = r.threshold /\ k.source = r.source /\ k.at = r.at
  <2>1. CASE r \in Insert(known, new)
    BY <2>1
  <2>2. CASE r \notin Insert(known, new)
    <3>1. PICK k \in known : <<k.video, k.threshold, k.source, k.at>> = <<r.video, r.threshold, r.source, r.at>>
      BY <2>2 DEF Insert
    <3> QED
      BY <1>1, <3>1
  <2> QED
    BY <2>1, <2>2
<1> QED
  BY <1>1, <1>2

LEMMA RowType ==
    ASSUME NEW v \in Video, NEW t \in Threshold, NEW source \in {"live", "history"}, NEW s \in Sample,
           NEW previous \in Sample \cup {NoSample}
    PROVE  /\ RowFor(v, t, source, s, previous) \in Row
           /\ RowFor(v, t, source, s, previous).video = v /\ RowFor(v, t, source, s, previous).threshold = t
           /\ RowFor(v, t, source, s, previous).source = source /\ RowFor(v, t, source, s, previous).at = s.at
           /\ RowFor(v, t, source, s, previous).previous = Below(previous, t)
BY SampleType DEF RowFor, Row, Below

LEMMA KnownGrows ==
    ASSUME rows \subseteq rows', NEW v, NEW t, NEW source, NEW at, Known(v, t, source, at)
    PROVE  Known(v, t, source, at)'
BY DEF Known, RowsOf

\* What has been inserted is known from then on.
LEMMA InsertKnows ==
    ASSUME TypeOK, NEW new, rows' = Insert(rows, new), NEW v, NEW t, NEW source, NEW at \in Int, NEW n \in new,
           n.video = v, n.threshold = t, n.source = source, n.at <= at
    PROVE  Known(v, t, source, at)'
<1>1. PICK k \in rows' : k.video = n.video /\ k.threshold = n.threshold /\ k.source = n.source /\ k.at = n.at
  BY InsertFacts
<1> QED
  BY <1>1 DEF Known, RowsOf

LEMMA ReachedType == \A views : Reached(views) \subseteq Threshold
BY DEF Reached

-----------------------------------------------------------------------------
(* The data of a job. *)

LEMMA JobType ==
    ASSUME TypeOK, NEW r \in Recovery
    PROVE  /\ jobs[r] \in Job /\ jobs[r].data \in Data /\ jobs[r].next \in Data
           /\ jobs[r].attempts \in 0..MaxAttempts /\ jobs[r].ends \in BOOLEAN
BY DEF TypeOK, Job

LEMMA IdleType == IdleJob \in Job /\ \A through \in Time : FreshData(through) \in Data
<1>1. 0 \in Time /\ 0 \in 0..MaxAttempts
  <2>1. MaxTime \in Nat /\ MaxAttempts \in Nat
    BY NumberAssumption
  <2> QED
    BY <2>1 DEF Time
<1>2. \A through \in Time : FreshData(through) \in Data
  BY DEF FreshData, Data
<1> QED
  BY <1>1, <1>2 DEF IdleJob, Job

LEMMA FreshFacts ==
    \A through : /\ FreshData(through).current = NoVideo /\ FreshData(through).afterTime = -1
                 /\ FreshData(through).afterAid = -1
BY DEF FreshData

\* The video of a batch is the next of those that are left.
LEMMA CurrentFacts ==
    ASSUME TypeOK, NEW r \in Recovery, DataOK(r, jobs[r].data), jobs[r].data.current # NoVideo \/ Left(r) # {},
           NEW v, v = Current(r)
    PROVE  /\ v \in Video /\ v \in Nat /\ v \in candidates[r] /\ v > jobs[r].data.afterAid
           /\ \A u \in candidates[r] : u > jobs[r].data.afterAid => v <= u
<1>1. candidates[r] \subseteq Video /\ Video \subseteq Nat
  BY NumberAssumption DEF TypeOK
<1>2. CASE jobs[r].data.current # NoVideo
  BY <1>1, <1>2 DEF Current, DataOK
<1>3. CASE jobs[r].data.current = NoVideo
  <2>1. Left(r) # {} /\ Left(r) \in SUBSET Video /\ v = Min(Left(r))
    BY <1>1, <1>3 DEF Current, Left
  <2>2. v \in Left(r) /\ \A u \in Left(r) : v <= u
    BY <2>1, LeastVideo
  <2> QED
    BY <1>1, <2>2 DEF Left
<1> QED
  BY <1>2, <1>3

LEMMA NextVideoFacts ==
    ASSUME NEW d \in Data, NEW v \in Video
    PROVE  /\ NextVideo(d, v) \in Data /\ NextVideo(d, v).through = d.through /\ NextVideo(d, v).prepared
           /\ NextVideo(d, v).afterAid = v /\ NextVideo(d, v).current = NoVideo /\ NextVideo(d, v).afterTime = -1
<1>1. v \in Int /\ d.through \in Time
  <2>1. Video \subseteq Nat
    BY NumberAssumption
  <2> QED
    BY <2>1 DEF Data
<1>2. FreshData(d.through) \in Data
  BY <1>1, IdleType
<1>3. PICK f \in Data : f = FreshData(d.through)
  BY <1>2
<1>4. f.through = d.through /\ f.current = NoVideo /\ f.afterTime = -1
  BY <1>3 DEF FreshData
<1>5. NextVideo(d, v) = [f EXCEPT !.prepared = TRUE, !.afterAid = v]
  BY <1>3 DEF NextVideo
<1> QED
  BY <1>1, <1>4, <1>5 DEF Data

LEMMA SameVideoFacts ==
    ASSUME NEW d \in Data, NEW v \in Video, NEW s \in Sample
    PROVE  /\ SameVideo(d, v, s) \in Data /\ SameVideo(d, v, s).through = d.through
           /\ SameVideo(d, v, s).prepared = d.prepared /\ SameVideo(d, v, s).afterAid = d.afterAid
           /\ SameVideo(d, v, s).current = v /\ SameVideo(d, v, s).afterTime = s.at /\ SameVideo(d, v, s).previous = s
<1>1. s.at \in Int
  BY SampleType
<1> QED
  BY <1>1 DEF SameVideo, Data

-----------------------------------------------------------------------------
(* Types. *)

\* What a batch does: its video, its samples, and what follows.
LEMMA BatchParts ==
    ASSUME MilestoneInv, NEW r \in Recovery, Batch(r)
    PROVE  \E v \in Video, batch \in SUBSET Sample :
              /\ v = Current(r) /\ batch = BatchTo(v, jobs[r].data.afterTime, jobs[r].data.through)
              /\ IsFiniteSet(batch)
              /\ rows' = Insert(rows, {RowFor(v, t, "history", First(batch, t),
                                              Before(batch, First(batch, t), jobs[r].data.previous)) :
                                       t \in {t \in Threshold : /\ \E s \in batch : s.views >= t
                                                                /\ ~RecoveredBefore(v, t, First(batch, t).at)}})
              /\ \/ /\ \A s \in Until(v, jobs[r].data.through) : s.at > jobs[r].data.afterTime => s \in batch
                    /\ Save(r, NextVideo(jobs[r].data, v), FALSE)
                 \/ \E newest \in batch : /\ \A p \in batch : p.at <= newest.at
                                          /\ Save(r, SameVideo(jobs[r].data, v, newest), FALSE)
<1> DEFINE data == jobs[r].data
           v == Current(r)
           batch == BatchTo(v, data.afterTime, data.through)
<1>1. data \in Data /\ data.afterTime \in Int /\ data.through \in Time
  BY JobType DEF MilestoneInv, Data
<1>2. v \in Video
  BY CurrentFacts DEF MilestoneInv, JobsOK, JobOK, Batch
<1>3. /\ batch \subseteq Until(v, data.through) /\ IsFiniteSet(batch)
      /\ Cardinality(batch) < BatchSize => \A s \in Until(v, data.through) : s.at > data.afterTime => s \in batch
      /\ batch = {} => Cardinality(batch) < BatchSize
  <2> HIDE DEF data, v
  <2> QED
    BY <1>1, <1>2, BatchFacts DEF MilestoneInv
<1>4. batch \in SUBSET Sample
  BY <1>2, <1>3, UntilType DEF MilestoneInv
<1>5. CASE Cardinality(batch) < BatchSize
  BY <1>2, <1>3, <1>4, <1>5 DEF Batch
<1>6. CASE ~(Cardinality(batch) < BatchSize)
  <2> DEFINE newest == CHOOSE s \in batch : \A p \in batch : p.at <= s.at
  <2>1. newest \in batch /\ \A p \in batch : p.at <= newest.at
    <3>1. \E s \in batch : \A p \in batch : p.at <= s.at
      BY <1>3, <1>4, <1>6, LastSample
    <3> QED
      BY <3>1
  <2>2. Save(r, SameVideo(data, v, newest), FALSE)
    BY <1>6 DEF Batch
  <2>3. \E n \in batch : /\ \A p \in batch : p.at <= n.at
                         /\ Save(r, SameVideo(data, v, n), FALSE)
    BY <2>1, <2>2
  <2> HIDE DEF newest
  <2> QED
    BY <1>2, <1>3, <1>4, <2>3 DEF Batch
<1> QED
  BY <1>5, <1>6

LEMMA SaveType ==
    ASSUME TypeOK, NEW r \in Recovery, NEW d \in Data, NEW ends \in BOOLEAN, Save(r, d, ends)
    PROVE  jobs' \in [Recovery -> Job]
<1>1. jobs[r] \in Job
  BY JobType
<1>2. [jobs[r] EXCEPT !.pc = "save", !.next = d, !.ends = ends] \in Job
  BY <1>1 DEF Job
<1>3. jobs' = [jobs EXCEPT ![r] = [jobs[r] EXCEPT !.pc = "save", !.next = d, !.ends = ends]]
  BY DEF Save, TypeOK
<1> QED
  BY <1>2, <1>3 DEF TypeOK

LEMMA BatchNext ==
    ASSUME MilestoneInv, NEW r \in Recovery, Batch(r)
    PROVE  \E d \in Data : Save(r, d, FALSE)
<1>1. PICK v \in Video, batch \in SUBSET Sample :
           \/ Save(r, NextVideo(jobs[r].data, v), FALSE)
           \/ \E newest \in batch : Save(r, SameVideo(jobs[r].data, v, newest), FALSE)
  BY BatchParts
<1>2. jobs[r].data \in Data
  BY JobType DEF MilestoneInv
<1> QED
  BY <1>1, <1>2, NextVideoFacts, SameVideoFacts

\* The rows of a batch.
LEMMA BatchRow ==
    ASSUME MilestoneInv, NEW r \in Recovery, NEW v \in Video, NEW batch \in SUBSET Sample, IsFiniteSet(batch),
           NEW t \in Threshold, NEW b \in batch, b.views >= t,
           NEW s, s = First(batch, t), NEW n, n = RowFor(v, t, "history", s, Before(batch, s, jobs[r].data.previous))
    PROVE  /\ s \in batch /\ s.views >= t /\ \A p \in batch : p.views >= t => s.at <= p.at
           /\ n \in Row /\ n.video = v /\ n.threshold = t /\ n.source = "history" /\ n.at = s.at
           /\ n.previous = Below(Before(batch, s, jobs[r].data.previous), t)
<1>1. s \in batch /\ s.views >= t /\ \A p \in batch : p.views >= t => s.at <= p.at
  BY FirstFacts
<1>2. jobs[r].data.previous \in Sample \cup {NoSample}
  BY JobType DEF MilestoneInv, Data
<1>3. Before(batch, s, jobs[r].data.previous) \in Sample \cup {NoSample}
  <2>1. s \in Sample
    BY <1>1
  <2> QED
    BY <1>2, <2>1, BeforeFacts
<1> QED
  BY <1>1, <1>3, RowType

LEMMA RowsType ==
    ASSUME MilestoneInv, Next
    PROVE  rows' \subseteq Row /\ rows \subseteq rows'
<1>1. rows \subseteq Row
  BY DEF MilestoneInv, TypeOK
<1>2. ASSUME NEW w \in Worker, Commit(w)
      PROVE  rows' \subseteq Row /\ rows \subseteq rows'
  <2> DEFINE v == answers[w].video
             s == answers[w].sample
  <2>1. v \in Video /\ s \in Sample
    BY <1>2 DEF Commit, MilestoneInv, TypeOK, Answer
  <2>2. \A t \in Reached(s.views) : RowFor(v, t, "live", s, NoSample) \in Row
    BY <2>1, RowType, ReachedType
  <2>3. PICK new \in SUBSET Row : rows' = Insert(rows, new)
    <3>1. {RowFor(v, t, "live", s, NoSample) : t \in {t \in Reached(s.views) : ~ObservedBefore(v, t, s.at)}} \in SUBSET Row
      BY <2>2
    <3> QED
      BY <1>2, <3>1 DEF Commit
  <2> QED
    BY <1>1, <2>3, InsertFacts
<1>3. ASSUME NEW r \in Recovery, Batch(r)
      PROVE  rows' \subseteq Row /\ rows \subseteq rows'
  <2>1. PICK v \in Video, batch \in SUBSET Sample :
           /\ IsFiniteSet(batch)
           /\ rows' = Insert(rows, {RowFor(v, t, "history", First(batch, t),
                                           Before(batch, First(batch, t), jobs[r].data.previous)) :
                                    t \in {t \in Threshold : /\ \E s \in batch : s.views >= t
                                                             /\ ~RecoveredBefore(v, t, First(batch, t).at)}})
    BY <1>3, BatchParts
  <2>2. ASSUME NEW t \in Threshold, \E s \in batch : s.views >= t
        PROVE  RowFor(v, t, "history", First(batch, t), Before(batch, First(batch, t), jobs[r].data.previous)) \in Row
    BY <2>1, <2>2, BatchRow
  <2>3. PICK new \in SUBSET Row : rows' = Insert(rows, new)
    BY <2>1, <2>2
  <2> QED
    BY <1>1, <2>3, InsertFacts
<1>4. CASE UNCHANGED rows
  BY <1>1, <1>4
<1> QED
  BY <1>2, <1>3, <1>4 DEF Next, Respond, Discard, Enqueue, Recover, Prepare, Finish, SaveData, Fail, Tick

LEMMA FoundType ==
    ASSUME TypeOK, SamplesOK, NEW v \in Video, NEW through
    PROVE  Until(v, through) \in SUBSET Sample
BY UntilType

LEMMA CandidatesType ==
    ASSUME MilestoneInv, Next
    PROVE  candidates' \in [Recovery -> SUBSET Video] /\ scope' \in [Recovery -> [Video -> SUBSET Sample]]
<1>1. candidates \in [Recovery -> SUBSET Video] /\ scope \in [Recovery -> [Video -> SUBSET Sample]]
  BY DEF MilestoneInv, TypeOK
<1>2. ASSUME NEW r \in Recovery, Prepare(r)
      PROVE  candidates' \in [Recovery -> SUBSET Video] /\ scope' \in [Recovery -> [Video -> SUBSET Sample]]
  <2>1. PICK found \in SUBSET Video :
           /\ candidates' = [candidates EXCEPT ![r] = @ \cup found]
           /\ scope' = [scope EXCEPT ![r] = [v \in Video |-> IF v \in found THEN Until(v, jobs[r].data.through) ELSE @[v]]]
    BY <1>2 DEF Prepare
  <2>2. [v \in Video |-> IF v \in found THEN Until(v, jobs[r].data.through) ELSE scope[r][v]] \in [Video -> SUBSET Sample]
    BY <1>1, FoundType DEF MilestoneInv
  <2> QED
    BY <1>1, <2>1, <2>2
<1>3. [v \in Video |-> {}] \in [Video -> SUBSET Sample]
  OBVIOUS
<1>4. ASSUME NEW r \in Recovery, Finish(r) \/ SaveData(r) \/ Fail(r)
      PROVE  candidates' \in [Recovery -> SUBSET Video] /\ scope' \in [Recovery -> [Video -> SUBSET Sample]]
  <2>1. candidates' = candidates \/ candidates' = [candidates EXCEPT ![r] = {}]
    BY <1>4 DEF Finish, SaveData, Fail
  <2>2. scope' = scope \/ scope' = [scope EXCEPT ![r] = [v \in Video |-> {}]]
    BY <1>4 DEF Finish, SaveData, Fail
  <2> QED
    BY <1>1, <1>3, <2>1, <2>2
<1>5. CASE UNCHANGED <<candidates, scope>>
  BY <1>1, <1>5
<1> QED
  BY <1>2, <1>4, <1>5 DEF Next, Respond, Commit, Discard, Enqueue, Recover, Batch, Tick

LEMMA WaitingType ==
    ASSUME NEW d \in Data, NEW n \in 0..MaxAttempts, NEW j, j = [IdleJob EXCEPT !.pc = "waiting", !.data = d, !.attempts = n]
    PROVE  /\ j \in Job /\ j.pc = "waiting" /\ j.data = d /\ ~j.ends
<1>1. PICK i \in Job : i = IdleJob /\ i.ends = FALSE
  BY IdleType DEF IdleJob
<1> QED
  BY <1>1 DEF Job

\* A job is idle, or waits, or has data to save.
LEMMA JobsType ==
    ASSUME MilestoneInv, Next
    PROVE  jobs' \in [Recovery -> Job]
<1>1. jobs \in [Recovery -> Job] /\ now \in Time
  BY DEF MilestoneInv, TypeOK
<1>2. ASSUME NEW r \in Recovery, NEW j \in Job, jobs' = [jobs EXCEPT ![r] = j]
      PROVE  jobs' \in [Recovery -> Job]
  BY <1>1, <1>2
<1>3. ASSUME NEW r \in Recovery, Enqueue(r)
      PROVE  jobs' \in [Recovery -> Job]
  <2>1. PICK i \in Job, d \in Data : i = IdleJob /\ d = FreshData(now)
    BY <1>1, IdleType
  <2>2. [i EXCEPT !.pc = "waiting", !.data = d] \in Job
    BY DEF Job
  <2> QED
    BY <1>2, <1>3, <2>1, <2>2 DEF Enqueue
<1>4. ASSUME NEW r \in Recovery, Prepare(r) \/ Finish(r) \/ Batch(r)
      PROVE  jobs' \in [Recovery -> Job]
  <2>1. jobs[r].data \in Data
    BY <1>1 DEF Job
  <2>2. [jobs[r].data EXCEPT !.prepared = TRUE] \in Data
    BY <2>1 DEF Data
  <2>3. \E d \in Data, ends \in BOOLEAN : Save(r, d, ends)
    BY <1>4, <2>1, <2>2, BatchNext DEF Prepare, Finish
  <2> QED
    BY <2>3, SaveType DEF MilestoneInv
<1>5. ASSUME NEW r \in Recovery, SaveData(r) \/ Fail(r)
      PROVE  jobs' \in [Recovery -> Job]
  <2>1. jobs[r].data \in Data /\ jobs[r].next \in Data /\ jobs[r].attempts \in 0..MaxAttempts /\ MaxAttempts \in Nat
    BY <1>1, NumberAssumption DEF Job
  <2>2. \/ jobs' = [jobs EXCEPT ![r] = IdleJob]
        \/ \E d \in Data, n \in 0..MaxAttempts :
              jobs' = [jobs EXCEPT ![r] = [IdleJob EXCEPT !.pc = "waiting", !.data = d, !.attempts = n]]
    <3>1. CASE SaveData(r)
      BY <2>1, <3>1 DEF SaveData
    <3>2. CASE Fail(r)
      <4>1. ~(jobs[r].attempts + 1 >= MaxAttempts) => jobs[r].attempts + 1 \in 0..MaxAttempts
        BY <2>1
      <4> QED
        BY <2>1, <3>2, <4>1 DEF Fail
    <3> QED
      BY <1>5, <3>1, <3>2
  <2>3. IdleJob \in Job
    BY IdleType
  <2>4. ASSUME NEW d \in Data, NEW n \in 0..MaxAttempts
        PROVE  [IdleJob EXCEPT !.pc = "waiting", !.data = d, !.attempts = n] \in Job
    BY WaitingType
  <2> QED
    BY <1>2, <2>2, <2>3, <2>4
<1>6. CASE UNCHANGED jobs
  BY <1>1, <1>6
<1> QED
  BY <1>3, <1>4, <1>5, <1>6 DEF Next, Respond, Commit, Discard, Recover, Tick

LEMMA RecoverKeeps ==
    ASSUME NEW r \in Recovery, Enqueue(r) \/ Recover(r) \/ Fail(r)
    PROVE  UNCHANGED <<now, samples, answers>>
<1>1. Prepare(r) => UNCHANGED <<now, samples, answers>>
  BY DEF Prepare
<1>2. Batch(r) => UNCHANGED <<now, samples, answers>>
  BY DEF Batch
<1>3. Finish(r) \/ SaveData(r) \/ Fail(r) \/ Enqueue(r) => UNCHANGED <<now, samples, answers>>
  BY DEF Finish, SaveData, Fail, Enqueue
<1> QED
  BY <1>1, <1>2, <1>3 DEF Recover

LEMMA TypeStep ==
    ASSUME MilestoneInv, Next
    PROVE  TypeOK' /\ SamplesOK'
<1>1. TypeOK /\ SamplesOK
  BY DEF MilestoneInv
<1>2. now' \in Time
  <2>1. now \in Time /\ MaxTime \in Nat
    BY <1>1, NumberAssumption DEF TypeOK
  <2>2. now' = now \/ (now' = now + 1 /\ now < MaxTime)
    BY RecoverKeeps DEF Next, Respond, Commit, Discard, Tick
  <2> QED
    BY <2>1, <2>2 DEF Time
<1>3. /\ samples' \in [Video -> SUBSET Sample] /\ SamplesOK'
      /\ answers' \in [Worker -> Answer \cup {NoAnswer}]
  <2>1. ASSUME NEW w \in Worker, NEW v \in Video, NEW views \in Views, Respond(w, v, views)
        PROVE  UNCHANGED samples /\ answers' \in [Worker -> Answer \cup {NoAnswer}]
    <3>1. [video |-> v, sample |-> [at |-> now, views |-> views]] \in Answer
      BY <1>1 DEF TypeOK, Answer, Sample
    <3> QED
      BY <1>1, <2>1, <3>1 DEF Respond, TypeOK
  <2>2. ASSUME NEW w \in Worker, Discard(w)
        PROVE  UNCHANGED samples /\ answers' \in [Worker -> Answer \cup {NoAnswer}]
    BY <1>1, <2>2 DEF Discard, TypeOK
  <2>3. ASSUME NEW w \in Worker, Commit(w)
        PROVE  /\ samples' \in [Video -> SUBSET Sample] /\ SamplesOK'
               /\ answers' \in [Worker -> Answer \cup {NoAnswer}]
    <3>1. PICK v \in Video, s \in Sample : v = answers[w].video /\ s = answers[w].sample
      BY <1>1, <2>3 DEF Commit, TypeOK, Answer
    <3>2. samples' = [samples EXCEPT ![v] = IF \E p \in @ : p.at = s.at THEN @ ELSE @ \cup {s}]
      BY <2>3, <3>1 DEF Commit
    <3>3. samples' \in [Video -> SUBSET Sample]
      BY <1>1, <3>2 DEF TypeOK
    <3>4. ASSUME NEW u \in Video
          PROVE  IsFiniteSet(samples'[u]) /\ \A p, q \in samples'[u] : p.at = q.at => p = q
      <4>1. IsFiniteSet(samples[u]) /\ \A p, q \in samples[u] : p.at = q.at => p = q
        BY <1>1 DEF SamplesOK
      <4>2. CASE samples'[u] = samples[u]
        BY <4>1, <4>2
      <4>3. CASE samples'[u] = samples[u] \cup {s} /\ ~\E p \in samples[u] : p.at = s.at
        BY <4>1, <4>3, FS_AddElement
      <4> QED
        BY <1>1, <3>2, <4>2, <4>3 DEF TypeOK
    <3> QED
      BY <1>1, <2>3, <3>3, <3>4 DEF Commit, TypeOK, SamplesOK
  <2>4. CASE UNCHANGED <<samples, answers>>
    BY <1>1, <2>4 DEF TypeOK, SamplesOK
  <2>5. UNCHANGED samples => SamplesOK' /\ samples' \in [Video -> SUBSET Sample]
    BY <1>1 DEF SamplesOK, TypeOK
  <2> QED
    BY <2>1, <2>2, <2>3, <2>4, <2>5, RecoverKeeps DEF Next, Tick
<1> QED
  BY <1>2, <1>3, RowsType, CandidatesType, JobsType DEF TypeOK

-----------------------------------------------------------------------------
(* Live rows. *)

LEMMA SamplesGrow ==
    ASSUME MilestoneInv, Next, NEW v \in Video
    PROVE  samples[v] \subseteq samples'[v]
<1>1. samples \in [Video -> SUBSET Sample]
  BY DEF MilestoneInv, TypeOK
<1>2. ASSUME NEW w \in Worker, Commit(w)
      PROVE  samples[v] \subseteq samples'[v]
  BY <1>1, <1>2 DEF Commit
<1> QED
  BY <1>2, RecoverKeeps DEF Next, Respond, Discard, Tick

LEMMA ObservedStep ==
    ASSUME MilestoneInv, Next
    PROVE  FirstObserved'
<1>1. TypeOK /\ FirstObserved /\ samples \in [Video -> SUBSET Sample]
  BY DEF MilestoneInv, TypeOK
<1>2. ASSUME NEW v \in Video, NEW s \in samples[v], NEW t \in Reached(s.views)
      PROVE  Known(v, t, "live", s.at)'
  BY <1>1, <1>2, KnownGrows, RowsType DEF FirstObserved
<1>3. ASSUME NEW w \in Worker, Commit(w)
      PROVE  FirstObserved'
  <2>1. PICK u \in Video, c \in Sample : u = answers[w].video /\ c = answers[w].sample
    BY <1>1, <1>3 DEF Commit, TypeOK, Answer
  <2>2. \A v \in Video : samples'[v] \subseteq samples[v] \cup (IF v = u THEN {c} ELSE {})
    BY <1>1, <1>3, <2>1 DEF Commit
  <2>3. ASSUME NEW t \in Reached(c.views)
        PROVE  Known(u, t, "live", c.at)'
    <3>1. CASE ObservedBefore(u, t, c.at)
      BY <3>1, KnownGrows, RowsType DEF ObservedBefore
    <3>2. CASE ~ObservedBefore(u, t, c.at)
      <4>1. PICK n : n = RowFor(u, t, "live", c, NoSample)
        OBVIOUS
      <4>2. n.video = u /\ n.threshold = t /\ n.source = "live" /\ n.at = c.at /\ c.at \in Int
        BY <2>1, <4>1, RowType, ReachedType, SampleType
      <4>3. PICK new : n \in new /\ rows' = Insert(rows, new)
        BY <1>3, <2>1, <3>2, <4>1 DEF Commit
      <4> QED
        BY <1>1, <4>2, <4>3, InsertKnows
    <3> QED
      BY <3>1, <3>2
  <2> QED
    BY <1>2, <2>2, <2>3 DEF FirstObserved
<1>4. ASSUME UNCHANGED samples
      PROVE  FirstObserved'
  BY <1>2, <1>4 DEF FirstObserved
<1> QED
  BY <1>3, <1>4, RecoverKeeps DEF Next, Respond, Discard, Tick

-----------------------------------------------------------------------------
(* Recoveries. *)

LEMMA RecoveredGrows ==
    ASSUME rows \subseteq rows', NEW v, NEW s, Recovered(v, s)
    PROVE  Recovered(v, s)'
<1>1. ASSUME NEW t \in Reached(s.views)
      PROVE  Known(v, t, "history", s.at)'
  BY KnownGrows DEF Recovered
<1> QED
  BY <1>1 DEF Recovered

\* Other rows and samples do not undo what a job has behind it.
LEMMA DataKept ==
    ASSUME MilestoneInv, Next, NEW r \in Recovery, NEW d, DataOK(r, d), d.current \in Video \cup {NoVideo},
           candidates'[r] = candidates[r], scope'[r] = scope[r]
    PROVE  DataOK(r, d)'
<1>1. ASSUME NEW v \in Video, NEW s \in scope'[r][v], Behind(r, d, v, s)'
      PROVE  Recovered(v, s)'
  <2>1. Recovered(v, s)
    BY <1>1 DEF DataOK, Behind
  <2> QED
    BY <2>1, RecoveredGrows, RowsType
<1>2. d.current # NoVideo => d.previous \in samples'[d.current]
  BY SamplesGrow DEF DataOK
<1> QED
  BY <1>1, <1>2 DEF DataOK

LEMMA CurrentType ==
    ASSUME TypeOK, NEW r \in Recovery
    PROVE  /\ jobs[r].data.current \in Video \cup {NoVideo}
           /\ jobs[r].next.current \in Video \cup {NoVideo}
<1>1. \A d \in Data : d.current \in Video \cup {NoVideo}
  BY DEF Data
<1> QED
  BY <1>1, JobType

LEMMA UntilGrows ==
    ASSUME MilestoneInv, Next, NEW v \in Video, NEW through
    PROVE  Until(v, through) \subseteq Until(v, through)'
BY SamplesGrow DEF Until

LEMMA JobKept ==
    ASSUME MilestoneInv, Next, NEW r \in Recovery,
           candidates'[r] = candidates[r], scope'[r] = scope[r], jobs'[r] = jobs[r]
    PROVE  JobOK(r)'
<1> PICK d, n : d = jobs[r].data /\ n = jobs[r].next
  OBVIOUS
<1>1. JobOK(r) /\ d.current \in Video \cup {NoVideo} /\ n.current \in Video \cup {NoVideo}
  BY CurrentType DEF MilestoneInv, JobsOK
<1>2. DataOK(r, d)'
  BY <1>1, DataKept DEF JobOK
<1>3. jobs[r].pc = "save" => DataOK(r, n)'
  BY <1>1, DataKept DEF JobOK
<1>4. \A v \in Video : scope'[r][v] \subseteq Until(v, d.through)'
  BY <1>1, UntilGrows DEF JobOK
<1>5. jobs[r].ends => \A v \in Video : \A s \in scope'[r][v] : Recovered(v, s)'
  BY <1>1, RecoveredGrows, RowsType DEF JobOK
<1> QED
  BY <1>1, <1>2, <1>3, <1>4, <1>5 DEF JobOK

\* A job without a scope has nothing to do.
LEMMA EmptyJob ==
    ASSUME NEW r \in Recovery, \A v \in Video : scope'[r][v] = {}, NEW through,
           jobs'[r].data = FreshData(through), jobs'[r].pc # "save", ~jobs'[r].ends
    PROVE  JobOK(r)'
<1>1. PICK d : d = FreshData(through) /\ d.current = NoVideo /\ d.afterTime = -1 /\ d.afterAid = -1
  BY FreshFacts
<1>2. DataOK(r, d)'
  BY <1>1 DEF DataOK
<1> QED
  BY <1>1, <1>2 DEF JobOK

LEMMA SaveFacts ==
    ASSUME TypeOK, NEW r \in Recovery, NEW d, NEW ends, Save(r, d, ends)
    PROVE  /\ jobs'[r].pc = "save" /\ jobs'[r].next = d /\ jobs'[r].ends = ends
           /\ jobs'[r].data = jobs[r].data
           /\ \A q \in Recovery : q # r => jobs'[q] = jobs[q]
<1>1. jobs[r] \in Job
  BY JobType
<1>2. jobs' = [jobs EXCEPT ![r] = [jobs[r] EXCEPT !.pc = "save", !.next = d, !.ends = ends]]
  BY DEF Save, TypeOK
<1> QED
  BY <1>1, <1>2 DEF TypeOK, Job

LEMMA EnqueueJob ==
    ASSUME MilestoneInv, NEW r \in Recovery, Enqueue(r)
    PROVE  JobOK(r)'
<1>1. JobOK(r) /\ jobs \in [Recovery -> Job]
  BY DEF MilestoneInv, JobsOK, TypeOK
<1>2. \A v \in Video : scope'[r][v] = {}
  BY <1>1 DEF JobOK, Enqueue
<1>3. jobs'[r].data = FreshData(now) /\ jobs'[r].pc = "waiting" /\ ~jobs'[r].ends
  BY <1>1 DEF Enqueue, IdleJob
<1> QED
  BY <1>2, <1>3, EmptyJob

LEMMA PrepareJob ==
    ASSUME MilestoneInv, Next, NEW r \in Recovery, Prepare(r)
    PROVE  JobOK(r)'
<1> PICK d, n : d = jobs[r].data /\ n = [jobs[r].data EXCEPT !.prepared = TRUE]
  OBVIOUS
<1>1. /\ JobOK(r) /\ TypeOK /\ d \in Data
      /\ scope[r] \in [Video -> SUBSET Sample] /\ candidates[r] \in SUBSET Video
  BY JobType DEF MilestoneInv, JobsOK, TypeOK
<1>2. /\ n.current = d.current /\ n.afterAid = d.afterAid /\ n.afterTime = d.afterTime /\ n.previous = d.previous
      /\ n.through = d.through /\ n.prepared
  BY <1>1 DEF Data
<1>3. d.afterAid = -1 /\ d.current = NoVideo /\ d.afterTime = -1 /\ DataOK(r, d)
  BY <1>1 DEF Prepare, JobOK, DataOK
<1>4. jobs'[r].pc = "save" /\ jobs'[r].next = n /\ ~jobs'[r].ends /\ jobs'[r].data = d
  BY <1>1, SaveFacts DEF Prepare
<1>5. PICK found \in SUBSET Video :
        /\ candidates'[r] = candidates[r] \cup found
        /\ \A v \in Video : scope'[r][v] = IF v \in found THEN Until(v, d.through) ELSE scope[r][v]
  <2>1. PICK found \in SUBSET Video :
          /\ candidates' = [candidates EXCEPT ![r] = @ \cup found]
          /\ scope' = [scope EXCEPT ![r] = [v \in Video |-> IF v \in found THEN Until(v, jobs[r].data.through)
                                                                           ELSE @[v]]]
    BY DEF Prepare
  <2> QED
    BY <1>1, <2>1 DEF TypeOK
<1>6. ASSUME NEW v \in Video, NEW s \in scope'[r][v], v \notin candidates'[r]
      PROVE  Recovered(v, s)'
  <2>1. v \notin candidates[r] /\ scope'[r][v] = scope[r][v]
    BY <1>5, <1>6
  <2>2. Recovered(v, s)
    BY <1>3, <1>6, <2>1 DEF DataOK, Behind
  <2> QED
    BY <2>2, RecoveredGrows, RowsType
<1>7. \A v \in Video : ~(v <= -1)
  BY NumberAssumption
<1>8. DataOK(r, d)' /\ DataOK(r, n)'
  <2>1. \A v \in Video : \A s \in scope'[r][v] : Behind(r, d, v, s)' => Recovered(v, s)'
    <3> SUFFICES ASSUME NEW v \in Video, NEW s \in scope'[r][v], Behind(r, d, v, s)'
                 PROVE  Recovered(v, s)'
      OBVIOUS
    <3>1. v \notin candidates'[r]
      <4>1. d.current # v
        BY <1>3, NoneAssumption
      <4> QED
        BY <1>3, <1>7, <4>1 DEF Behind
    <3> QED
      BY <1>6, <3>1
  <2>2. \A v \in Video : \A s \in scope'[r][v] : Behind(r, n, v, s)' => Recovered(v, s)'
    BY <1>2, <2>1 DEF Behind
  <2> QED
    BY <1>2, <1>3, <2>1, <2>2 DEF DataOK
<1>9. \A v \in Video : scope'[r][v] \subseteq Until(v, d.through)'
  <2>1. \A v \in Video : scope'[r][v] \subseteq Until(v, d.through)
    BY <1>1, <1>5 DEF JobOK
  <2> QED
    BY <2>1, UntilGrows
<1> QED
  BY <1>2, <1>4, <1>8, <1>9 DEF JobOK

\* When no video is left, all of the scope is recovered.
LEMMA FinishJob ==
    ASSUME MilestoneInv, Next, NEW r \in Recovery, Finish(r)
    PROVE  JobOK(r)'
<1> PICK d : d = jobs[r].data
  OBVIOUS
<1>1. /\ JobOK(r) /\ TypeOK /\ d \in Data /\ candidates[r] \in SUBSET Video
      /\ UNCHANGED scope
  BY JobType DEF MilestoneInv, JobsOK, TypeOK, Finish
<1>2. d.prepared /\ d.current = NoVideo /\ \A v \in candidates[r] : ~(v > d.afterAid)
  BY DEF Finish, Left
<1>3. jobs'[r].pc = "save" /\ jobs'[r].next = d /\ jobs'[r].ends /\ jobs'[r].data = d
  BY <1>1, SaveFacts DEF Finish
<1>4. ASSUME NEW v \in Video, NEW s \in scope'[r][v]
      PROVE  Recovered(v, s)'
  <2>1. v \notin candidates[r] \/ v <= d.afterAid
    <3>1. v \in Int /\ d.afterAid \in Int
      BY <1>1, NumberAssumption DEF Data
    <3> QED
      BY <1>2, <3>1
  <2>2. Recovered(v, s)
    BY <1>1, <1>4, <2>1 DEF JobOK, DataOK, Behind
  <2> QED
    BY <2>2, RecoveredGrows, RowsType
<1>5. DataOK(r, d)'
  BY <1>1, <1>2, <1>4 DEF DataOK, JobOK
<1>6. \A v \in Video : scope'[r][v] \subseteq Until(v, d.through)'
  BY <1>1, UntilGrows DEF JobOK
<1> QED
  BY <1>3, <1>4, <1>5, <1>6 DEF JobOK

LEMMA SaveDataJob ==
    ASSUME MilestoneInv, Next, NEW r \in Recovery, SaveData(r)
    PROVE  JobOK(r)'
<1>1. JobOK(r) /\ TypeOK /\ jobs \in [Recovery -> Job] /\ scope \in [Recovery -> [Video -> SUBSET Sample]]
  BY DEF MilestoneInv, JobsOK, TypeOK
<1>2. CASE jobs[r].ends
  <2>1. jobs'[r].data = FreshData(0) /\ jobs'[r].pc # "save" /\ ~jobs'[r].ends
    BY <1>1, <1>2 DEF SaveData, IdleJob
  <2>2. \A v \in Video : scope'[r][v] = {}
    BY <1>1, <1>2 DEF SaveData
  <2> QED
    BY <2>1, <2>2, EmptyJob
<1>3. CASE ~jobs[r].ends
  <2> PICK d : d = jobs[r].next
    OBVIOUS
  <2>1. jobs[r].pc = "save" /\ UNCHANGED <<scope, candidates>>
    BY <1>3 DEF SaveData
  <2>2. d \in Data /\ DataOK(r, d) /\ d.through = jobs[r].data.through /\ d.current \in Video \cup {NoVideo}
    BY <1>1, <2>1, JobType, CurrentType DEF JobOK
  <2>3. jobs'[r].pc = "waiting" /\ jobs'[r].data = d /\ ~jobs'[r].ends
    <3>1. jobs[r].attempts \in 0..MaxAttempts
      BY <1>1, JobType
    <3>2. jobs'[r] = [IdleJob EXCEPT !.pc = "waiting", !.data = d, !.attempts = jobs[r].attempts]
      BY <1>1, <1>3 DEF SaveData
    <3>3. PICK i \in Job : i = IdleJob /\ ~i.ends
      BY IdleType DEF IdleJob
    <3> QED
      BY <3>2, <3>3 DEF Job
  <2>4. DataOK(r, d)'
    BY <2>1, <2>2, DataKept
  <2>5. \A v \in Video : scope'[r][v] \subseteq Until(v, d.through)'
    BY <1>1, <2>1, <2>2, UntilGrows DEF JobOK
  <2> QED
    BY <2>3, <2>4, <2>5 DEF JobOK
<1> QED
  BY <1>2, <1>3

LEMMA FailJob ==
    ASSUME MilestoneInv, Next, NEW r \in Recovery, Fail(r)
    PROVE  JobOK(r)'
<1>1. JobOK(r) /\ TypeOK /\ jobs \in [Recovery -> Job] /\ scope \in [Recovery -> [Video -> SUBSET Sample]]
  BY DEF MilestoneInv, JobsOK, TypeOK
<1>2. CASE jobs[r].attempts + 1 >= MaxAttempts
  <2>1. jobs'[r].data = FreshData(0) /\ jobs'[r].pc # "save" /\ ~jobs'[r].ends
    BY <1>1, <1>2 DEF Fail, IdleJob
  <2>2. \A v \in Video : scope'[r][v] = {}
    BY <1>1, <1>2 DEF Fail
  <2> QED
    BY <2>1, <2>2, EmptyJob
<1>3. CASE ~(jobs[r].attempts + 1 >= MaxAttempts)
  <2> PICK d : d = jobs[r].data
    OBVIOUS
  <2>1. UNCHANGED <<scope, candidates>>
    BY <1>3 DEF Fail
  <2>2. d \in Data /\ DataOK(r, d) /\ d.current \in Video \cup {NoVideo}
    BY <1>1, JobType, CurrentType DEF JobOK
  <2>3. jobs'[r].pc = "waiting" /\ jobs'[r].data = d /\ ~jobs'[r].ends
    <3>1. jobs[r].attempts + 1 \in 0..MaxAttempts
      <4>1. jobs[r].attempts \in 0..MaxAttempts /\ MaxAttempts \in Nat
        BY <1>1, JobType, NumberAssumption
      <4> QED
        BY <1>3, <4>1
    <3>2. jobs'[r] = [IdleJob EXCEPT !.pc = "waiting", !.data = d, !.attempts = jobs[r].attempts + 1]
      BY <1>1, <1>3 DEF Fail
    <3>3. PICK i \in Job : i = IdleJob /\ ~i.ends
      BY IdleType DEF IdleJob
    <3> QED
      BY <3>2, <3>3 DEF Job
  <2>4. DataOK(r, d)'
    BY <2>1, <2>2, DataKept
  <2>5. \A v \in Video : scope'[r][v] \subseteq Until(v, d.through)'
    BY <1>1, <2>1, UntilGrows DEF JobOK
  <2> QED
    BY <2>3, <2>4, <2>5 DEF JobOK
<1> QED
  BY <1>2, <1>3

\* What a sample of the batch shows is known afterwards.
LEMMA BatchKnows ==
    ASSUME MilestoneInv, Next, NEW r \in Recovery, NEW v \in Video, NEW batch \in SUBSET Sample, IsFiniteSet(batch),
           rows' = Insert(rows, {RowFor(v, t, "history", First(batch, t),
                                        Before(batch, First(batch, t), jobs[r].data.previous)) :
                                 t \in {t \in Threshold : /\ \E s \in batch : s.views >= t
                                                          /\ ~RecoveredBefore(v, t, First(batch, t).at)}}),
           NEW s \in batch
    PROVE  Recovered(v, s)'
<1>1. ASSUME NEW t \in Reached(s.views)
      PROVE  Known(v, t, "history", s.at)'
  <2>1. t \in Threshold /\ s.views >= t
    <3>1. t \in Threshold /\ t <= s.views
      BY DEF Reached
    <3>2. t \in Int /\ s.views \in Int
      BY <3>1, SampleType, NumberAssumption
    <3> QED
      BY <3>1, <3>2
  <2>2. PICK f, n : /\ f = First(batch, t)
                    /\ n = RowFor(v, t, "history", f, Before(batch, f, jobs[r].data.previous))
    OBVIOUS
  <2>3. /\ f \in batch /\ f.at <= s.at
        /\ n.video = v /\ n.threshold = t /\ n.source = "history" /\ n.at = f.at
    BY <2>1, <2>2, BatchRow
  <2>4. f.at \in Int /\ s.at \in Int
    BY <2>3, SampleType
  <2>5. CASE RecoveredBefore(v, t, f.at)
    <3>1. PICK k \in RowsOf(v, t, "history") : k.at <= f.at
      BY <2>5 DEF RecoveredBefore
    <3>2. k.at \in Int
      <4>1. k \in Row /\ MaxTime \in Nat
        BY NumberAssumption DEF MilestoneInv, TypeOK, RowsOf
      <4> QED
        BY <4>1 DEF Row, Time
    <3>3. Known(v, t, "history", s.at)
      BY <2>3, <2>4, <3>1, <3>2 DEF Known
    <3> QED
      BY <3>3, KnownGrows, RowsType
  <2>6. CASE ~RecoveredBefore(v, t, f.at)
    <3>1. PICK new : n \in new /\ rows' = Insert(rows, new)
      BY <2>1, <2>2, <2>6
    <3> QED
      BY <2>3, <2>4, <3>1, InsertKnows DEF MilestoneInv
  <2> QED
    BY <2>5, <2>6
<1> QED
  BY <1>1 DEF Recovered

LEMMA BatchJob ==
    ASSUME MilestoneInv, Next, NEW r \in Recovery, Batch(r)
    PROVE  JobOK(r)'
<1> PICK d : d = jobs[r].data
  OBVIOUS
<1>1. /\ JobOK(r) /\ TypeOK /\ SamplesOK /\ d \in Data /\ DataOK(r, d) /\ d.prepared
      /\ candidates[r] \in SUBSET Video /\ Video \subseteq Nat
      /\ UNCHANGED <<samples, candidates, scope>>
  BY JobType, NumberAssumption DEF MilestoneInv, JobsOK, JobOK, TypeOK, Batch
<1>2. PICK v \in Video, batch \in SUBSET Sample :
        /\ v = Current(r) /\ batch = BatchTo(v, d.afterTime, d.through) /\ IsFiniteSet(batch)
        /\ rows' = Insert(rows, {RowFor(v, t, "history", First(batch, t),
                                        Before(batch, First(batch, t), jobs[r].data.previous)) :
                                 t \in {t \in Threshold : /\ \E s \in batch : s.views >= t
                                                          /\ ~RecoveredBefore(v, t, First(batch, t).at)}})
        /\ \/ /\ \A s \in Until(v, d.through) : s.at > d.afterTime => s \in batch
              /\ Save(r, NextVideo(d, v), FALSE)
           \/ \E newest \in batch : /\ \A p \in batch : p.at <= newest.at
                                    /\ Save(r, SameVideo(d, v, newest), FALSE)
  BY BatchParts
<1>3. /\ v \in Nat /\ v \in candidates[r] /\ v > d.afterAid
      /\ \A u \in candidates[r] : u > d.afterAid => v <= u
  BY <1>1, <1>2, CurrentFacts DEF Batch
<1>4. d.current \in {v, NoVideo} /\ (d.current = NoVideo => d.afterTime = -1)
  BY <1>1, <1>2 DEF Current, DataOK
<1>5. d.afterAid \in Int /\ d.afterTime \in Int /\ d.through \in Time
  BY <1>1 DEF Data
<1>6. ASSUME NEW s \in scope[r][v], s.at > d.afterTime => s \in batch
      PROVE  Recovered(v, s)'
  <2>1. s.at \in Nat
    <3>1. s \in Until(v, d.through)
      BY <1>1 DEF JobOK
    <3> QED
      BY <1>1, <3>1, UntilType
  <2>2. CASE s.at > d.afterTime
    BY <1>2, <1>6, <2>2, BatchKnows
  <2>3. CASE ~(s.at > d.afterTime)
    <3>1. d.current = v /\ s.at <= d.afterTime
      BY <1>4, <1>5, <2>1, <2>3
    <3>2. Recovered(v, s)
      BY <1>1, <3>1 DEF DataOK, Behind
    <3> QED
      BY <3>2, RecoveredGrows, RowsType
  <2> QED
    BY <2>2, <2>3
<1>7. ASSUME NEW u \in Video, NEW s \in scope[r][u], u \notin candidates[r] \/ u <= d.afterAid
      PROVE  Recovered(u, s)'
  <2>1. Recovered(u, s)
    BY <1>1, <1>7 DEF DataOK, Behind
  <2> QED
    BY <2>1, RecoveredGrows, RowsType
<1>8. DataOK(r, d)' /\ \A u \in Video : scope'[r][u] \subseteq Until(u, d.through)'
  <2>1. d.current \in Video \cup {NoVideo}
    BY <1>1 DEF Data
  <2> QED
    BY <1>1, <2>1, DataKept, UntilGrows DEF JobOK
<1>9. CASE /\ \A s \in Until(v, d.through) : s.at > d.afterTime => s \in batch
           /\ Save(r, NextVideo(d, v), FALSE)
  <2>1. PICK n \in Data : /\ n = NextVideo(d, v) /\ n.through = d.through /\ n.prepared
                          /\ n.afterAid = v /\ n.current = NoVideo /\ n.afterTime = -1
    BY <1>1, NextVideoFacts
  <2>2. jobs'[r].pc = "save" /\ jobs'[r].next = n /\ ~jobs'[r].ends /\ jobs'[r].data = d
    BY <1>1, <1>9, <2>1, SaveFacts
  <2>3. ASSUME NEW u \in Video, NEW s \in scope'[r][u], Behind(r, n, u, s)'
        PROVE  Recovered(u, s)'
    <3>1. u \notin candidates[r] \/ u <= v
      BY <1>1, <2>1, <2>3, NoneAssumption DEF Behind
    <3>2. u \notin candidates[r] \/ u <= d.afterAid \/ u = v
      BY <1>1, <1>3, <1>5, <3>1
    <3>3. ASSUME u = v
          PROVE  Recovered(u, s)'
      <4>1. s \in scope[r][v] /\ s \in Until(v, d.through)
        BY <1>1, <3>3 DEF JobOK
      <4> QED
        BY <1>6, <1>9, <3>3, <4>1
    <3> QED
      BY <1>1, <1>7, <3>2, <3>3
  <2>4. DataOK(r, n)'
    BY <2>1, <2>3 DEF DataOK
  <2> QED
    BY <1>8, <2>1, <2>2, <2>4 DEF JobOK
<1>10. ASSUME NEW newest \in batch, \A p \in batch : p.at <= newest.at, Save(r, SameVideo(d, v, newest), FALSE)
       PROVE  JobOK(r)'
  <2>1. PICK n \in Data : /\ n = SameVideo(d, v, newest) /\ n.through = d.through /\ n.prepared
                          /\ n.afterAid = d.afterAid /\ n.current = v /\ n.afterTime = newest.at /\ n.previous = newest
    BY <1>1, SameVideoFacts
  <2>2. jobs'[r].pc = "save" /\ jobs'[r].next = n /\ ~jobs'[r].ends /\ jobs'[r].data = d
    BY <1>1, <1>10, <2>1, SaveFacts
  <2>3. /\ newest \in samples[v]
        /\ \A s \in Until(v, d.through) : s.at > d.afterTime /\ s.at <= newest.at => s \in batch
    BY <1>1, <1>2, <1>5, BatchFacts, UntilType
  <2>4. ASSUME NEW u \in Video, NEW s \in scope'[r][u], Behind(r, n, u, s)'
        PROVE  Recovered(u, s)'
    <3>1. u \notin candidates[r] \/ u <= d.afterAid \/ (u = v /\ s.at <= newest.at)
      BY <1>1, <2>1, <2>4 DEF Behind
    <3>2. ASSUME u = v, s.at <= newest.at
          PROVE  Recovered(u, s)'
      <4>1. s \in scope[r][v] /\ s \in Until(v, d.through)
        BY <1>1, <3>2 DEF JobOK
      <4> QED
        BY <1>6, <2>3, <3>2, <4>1
    <3> QED
      BY <1>1, <1>7, <3>1, <3>2
  <2>5. DataOK(r, n)'
    <3>1. v # NoVideo
      BY NoneAssumption
    <3> QED
      BY <1>1, <1>3, <2>1, <2>3, <2>4, <3>1 DEF DataOK
  <2> QED
    BY <1>8, <2>1, <2>2, <2>5 DEF JobOK
<1> QED
  BY <1>2, <1>9, <1>10

\* A step of one recovery leaves the others alone.
LEMMA OtherJobs ==
    ASSUME MilestoneInv, NEW r \in Recovery, Enqueue(r) \/ Recover(r) \/ Fail(r), NEW q \in Recovery, q # r
    PROVE  jobs'[q] = jobs[q] /\ candidates'[q] = candidates[q] /\ scope'[q] = scope[q]
<1> USE DEF MilestoneInv
<1>1. Batch(r) => jobs'[q] = jobs[q] /\ UNCHANGED <<candidates, scope>>
  BY BatchNext, SaveFacts DEF Batch
<1>2. Prepare(r) => jobs'[q] = jobs[q] /\ candidates'[q] = candidates[q] /\ scope'[q] = scope[q]
  BY SaveFacts DEF Prepare, TypeOK
<1>3. Finish(r) => jobs'[q] = jobs[q] /\ candidates'[q] = candidates[q] /\ scope'[q] = scope[q]
  BY SaveFacts DEF Finish, TypeOK
<1>4. SaveData(r) \/ Fail(r) \/ Enqueue(r)
         => jobs'[q] = jobs[q] /\ candidates'[q] = candidates[q] /\ scope'[q] = scope[q]
  BY DEF SaveData, Fail, Enqueue, TypeOK
<1> QED
  BY <1>1, <1>2, <1>3, <1>4 DEF Recover

LEMMA JobsStep ==
    ASSUME MilestoneInv, Next
    PROVE  JobsOK'
<1> USE DEF MilestoneInv
<1>1. ASSUME NEW r \in Recovery, Enqueue(r) \/ Recover(r) \/ Fail(r)
      PROVE  JobsOK'
  <2>1. JobOK(r)'
    BY <1>1, EnqueueJob, PrepareJob, BatchJob, FinishJob, SaveDataJob, FailJob DEF Recover
  <2>2. \A q \in Recovery : q # r =>
            jobs'[q] = jobs[q] /\ candidates'[q] = candidates[q] /\ scope'[q] = scope[q]
    BY <1>1, OtherJobs
  <2>3. \A q \in Recovery : q # r => JobOK(q)'
    BY <2>2, JobKept
  <2> QED
    BY <2>1, <2>3 DEF JobsOK
<1>2. CASE UNCHANGED <<jobs, candidates, scope>>
  BY <1>2, JobKept DEF JobsOK
<1> QED
  BY <1>1, <1>2 DEF Next, Respond, Commit, Discard, Tick

LEMMA RowsKept ==
    ASSUME NEW r \in Recovery, Enqueue(r) \/ Prepare(r) \/ Finish(r) \/ SaveData(r) \/ Fail(r)
    PROVE  UNCHANGED rows
BY DEF Enqueue, Prepare, Finish, SaveData, Fail

\* The sample before the first of a batch is in it, or is the one that the batch before has saved.
LEMMA BracketStep ==
    ASSUME MilestoneInv, Next, NEW r \in Recovery, jobs'[r] # jobs[r], NEW m \in rows' \ rows, m.source = "history"
    PROVE  BracketedIn(r, m)
<1> PICK d : d = jobs[r].data
  OBVIOUS
<1>1. Batch(r)
  <2>1. ASSUME NEW q \in Recovery, Batch(q)
        PROVE  q = r
    BY <2>1, BatchNext, SaveFacts DEF MilestoneInv
  <2>2. \E q \in Recovery : Batch(q)
    BY RowsKept DEF Next, Recover, Respond, Commit, Discard, Tick
  <2> QED
    BY <2>1, <2>2
<1>2. /\ TypeOK /\ SamplesOK /\ d \in Data /\ DataOK(r, d)
      /\ \A v \in Video : scope[r][v] \subseteq Until(v, d.through)
  BY JobType DEF MilestoneInv, JobsOK, JobOK
<1>3. PICK v \in Video, batch \in SUBSET Sample :
        /\ v = Current(r) /\ batch = BatchTo(v, d.afterTime, d.through) /\ IsFiniteSet(batch)
        /\ rows' = Insert(rows, {RowFor(v, t, "history", First(batch, t),
                                        Before(batch, First(batch, t), jobs[r].data.previous)) :
                                 t \in {t \in Threshold : /\ \E s \in batch : s.views >= t
                                                          /\ ~RecoveredBefore(v, t, First(batch, t).at)}})
  BY <1>1, BatchParts
<1>4. PICK t \in Threshold : /\ \E s \in batch : s.views >= t
                             /\ m = RowFor(v, t, "history", First(batch, t),
                                           Before(batch, First(batch, t), jobs[r].data.previous))
  BY <1>3, InsertFacts
<1>5. PICK f, p : f = First(batch, t) /\ p = Before(batch, f, d.previous)
  OBVIOUS
<1>6. /\ f \in batch /\ m.video = v /\ m.threshold = t /\ m.at = f.at /\ m.previous = Below(p, t)
      /\ \A q \in batch : q.views >= t => f.at <= q.at
  <2>1. PICK b \in batch : b.views >= t
    BY <1>4
  <2>2. m = RowFor(v, t, "history", f, Before(batch, f, jobs[r].data.previous)) /\ p = Before(batch, f, jobs[r].data.previous)
    BY <1>4, <1>5
  <2>3. IsFiniteSet(batch) /\ f = First(batch, t)
    BY <1>3, <1>5
  <2>4. PICK n : n = m
    OBVIOUS
  <2>5. n = RowFor(v, t, "history", f, Before(batch, f, jobs[r].data.previous))
    BY <2>2, <2>4
  <2>6. /\ f \in batch /\ n.video = v /\ n.threshold = t /\ n.at = f.at
        /\ n.previous = Below(Before(batch, f, jobs[r].data.previous), t)
        /\ \A q \in batch : q.views >= t => f.at <= q.at
    BY <2>1, <2>3, <2>5, BatchRow
  <2> QED
    BY <2>2, <2>4, <2>6
<1> DEFINE before == {s \in scope[r][v] : s.at < f.at}
           last == CHOOSE s \in before : \A q \in before : q.at <= s.at
<1>7. SUFFICES ASSUME before # {}, \A q \in samples[v] : last.at <= q.at /\ q.at < f.at => ~(q.views >= t)
               PROVE  Below(p, t) # NoSample /\ Below(p, t).at >= last.at
  BY <1>6 DEF BracketedIn
<1>8. /\ scope[r][v] \subseteq samples[v] /\ scope[r][v] \in SUBSET Sample /\ IsFiniteSet(scope[r][v])
      /\ \A s \in samples[v] : s.at \in Nat /\ s.views \in Nat
  <2>1. scope[r][v] \subseteq Until(v, d.through) /\ IsFiniteSet(samples[v])
    BY <1>2 DEF SamplesOK
  <2>2. scope[r][v] \subseteq samples[v] /\ samples[v] \subseteq Sample
    BY <1>2, <2>1, UntilType
  <2> QED
    BY <1>2, <2>1, <2>2, UntilType, FS_Subset
<1>9. last \in before /\ \A q \in before : q.at <= last.at
  <2>1. before \in SUBSET Sample /\ IsFiniteSet(before)
    BY <1>8, FS_Subset
  <2>2. \E s \in before : \A q \in before : q.at <= s.at
    BY <1>7, <2>1, LastSample
  <2> QED
    BY <2>2
<1>10. PICK l \in samples[v] : l = last /\ l \in scope[r][v] /\ l.at < f.at
  BY <1>8, <1>9
<1> HIDE DEF before, last
<1>11. /\ batch \subseteq samples[v] /\ \A s \in batch : s.at > d.afterTime
       /\ l.at > d.afterTime => l \in batch
  <2>1. d.afterTime \in Int /\ d.through \in Time
    BY <1>2 DEF Data
  <2>2. /\ batch \subseteq Until(v, d.through) /\ \A s \in batch : s.at > d.afterTime
        /\ \A s \in Until(v, d.through), b \in batch : s.at > d.afterTime /\ s.at <= b.at => s \in batch
    BY <1>2, <1>3, <2>1, BatchFacts
  <2>3. batch \subseteq samples[v] /\ l \in Until(v, d.through) /\ l.at <= f.at
    BY <1>2, <1>6, <1>8, <1>10, <2>2, UntilType
  <2> QED
    BY <1>6, <2>2, <2>3
<1>12. t \in Nat /\ d.afterTime \in Int /\ l.at \in Nat /\ f.at \in Nat /\ f \in Sample
  BY <1>2, <1>3, <1>6, <1>8, <1>11, NumberAssumption DEF Data
<1>13. p \in samples[v] /\ p.at >= l.at /\ p.at < f.at
  <2>1. CASE p = d.previous /\ \A q \in batch : ~(q.at < f.at)
    <3>1. ~(l.at > d.afterTime)
      BY <1>10, <1>11, <2>1
    <3>2. d.current # NoVideo
      BY <1>2, <1>12, <3>1 DEF DataOK
    <3>3. d.current = v
      BY <3>2, <1>3 DEF Current
    <3>4. p \in samples[v] /\ p.at = d.afterTime
      BY <1>2, <2>1, <3>2, <3>3 DEF DataOK
    <3>5. f.at > d.afterTime
      BY <1>6, <1>11
    <3> QED
      BY <1>12, <3>1, <3>4, <3>5
  <2>2. CASE p \in batch /\ p.at < f.at /\ \A q \in batch : q.at < f.at => q.at <= p.at
    <3>1. p \in samples[v] /\ p.at \in Nat /\ p.at > d.afterTime
      BY <1>8, <1>11, <2>2
    <3>2. p.at >= l.at
      <4>1. CASE l \in batch
        BY <1>10, <1>12, <2>2, <3>1, <4>1
      <4>2. CASE ~(l.at > d.afterTime)
        BY <1>12, <3>1, <4>2
      <4> QED
        BY <1>11, <4>1, <4>2
    <3> QED
      BY <2>2, <3>1, <3>2
  <2> QED
    BY <1>3, <1>5, <1>12, <2>1, <2>2, BeforeFacts
<1>14. p.views < t /\ p # NoSample
  <2>1. p \in Sample /\ p.views \in Nat /\ p.at \in Nat
    BY <1>2, <1>8, <1>13 DEF TypeOK
  <2>2. ~(p.views >= t)
    BY <1>7, <1>10, <1>12, <1>13, <2>1
  <2> QED
    BY <1>12, <2>1, <2>2, NoneAssumption
<1> QED
  BY <1>10, <1>13, <1>14 DEF Below

-----------------------------------------------------------------------------
(* The theorems. *)

LEMMA InitInv == Init => MilestoneInv
<1> SUFFICES ASSUME Init
             PROVE  MilestoneInv
  OBVIOUS
<1>1. TypeOK
  <2>1. 0 \in Time
    <3>1. MaxTime \in Nat
      BY NumberAssumption
    <3> QED
      BY <3>1 DEF Time
  <2>2. samples \in [Video -> SUBSET Sample] /\ scope \in [Recovery -> [Video -> SUBSET Sample]]
    BY DEF Init
  <2> QED
    BY <2>1, <2>2, IdleType DEF Init, TypeOK
<1>2. SamplesOK /\ FirstObserved
  BY FS_EmptySet DEF Init, SamplesOK, FirstObserved
<1>3. ASSUME NEW r \in Recovery
      PROVE  JobOK(r)
  <2>1. PICK d : d = FreshData(0) /\ d.current = NoVideo /\ d.afterTime = -1 /\ d.afterAid = -1
    BY FreshFacts
  <2>2. \A v \in Video : scope[r][v] = {}
    BY DEF Init
  <2>3. DataOK(r, d)
    BY <2>1, <2>2 DEF DataOK
  <2>4. jobs[r].pc = "idle" /\ jobs[r].data = d /\ ~jobs[r].ends
    BY <2>1 DEF Init, IdleJob
  <2> QED
    BY <2>2, <2>3, <2>4 DEF JobOK
<1> QED
  BY <1>1, <1>2, <1>3 DEF MilestoneInv, JobsOK

LEMMA InvStep == MilestoneInv /\ [Next]_vars => MilestoneInv'
<1> SUFFICES ASSUME MilestoneInv, [Next]_vars
             PROVE  MilestoneInv'
  OBVIOUS
<1>1. CASE Next
  BY <1>1, TypeStep, ObservedStep, JobsStep DEF MilestoneInv
<1>2. CASE UNCHANGED vars
  <2> USE <1>2 DEF vars, MilestoneInv
  <2>1. TypeOK' /\ SamplesOK'
    BY DEF TypeOK, SamplesOK
  <2>2. \A v, t, source, at : Known(v, t, source, at)' <=> Known(v, t, source, at)
    BY DEF Known, RowsOf
  <2>3. FirstObserved'
    BY <2>2 DEF FirstObserved
  <2>4. ASSUME NEW r \in Recovery
        PROVE  JobOK(r)'
    BY <2>2 DEF JobsOK, JobOK, DataOK, Behind, Recovered, Until
  <2> QED
    BY <2>1, <2>3, <2>4 DEF JobsOK
<1> QED
  BY <1>1, <1>2

\* The invariant of the record: what a recovery has behind it is known, and its cursor tells what that is.
THEOREM MilestoneInvAlways == Spec => []MilestoneInv
BY InitInv, InvStep, PTL DEF Spec

\* Samples, rows and jobs keep their types; a recovery has no more than its attempts.
THEOREM TypeCorrect == Spec => []TypeOK
<1>1. MilestoneInv => TypeOK
  BY DEF MilestoneInv
<1> QED
  BY <1>1, MilestoneInvAlways, PTL

\* A milestone is known by the first sample that shows it, in whatever order the workers commit.
THEOREM FirstObservedAlways == Spec => []FirstObserved
<1>1. MilestoneInv => FirstObserved
  BY DEF MilestoneInv
<1> QED
  BY <1>1, MilestoneInvAlways, PTL

\* A recovery that is about to end has found the first sample of its scope that shows each milestone.
THEOREM RecoveryCompleteAlways == Spec => []RecoveryComplete
<1>1. MilestoneInv => RecoveryComplete
  BY DEF MilestoneInv, JobsOK, JobOK, RecoveryComplete, Recovered
<1> QED
  BY <1>1, MilestoneInvAlways, PTL

\* A row of a recovery gives the sample that came right before, across batches and attempts.
THEOREM BracketedAlways == Spec => Bracketed
<1>1. MilestoneInv /\ [Next]_vars =>
        [\A r \in Recovery : jobs'[r] # jobs[r] =>
            \A m \in rows' \ rows : m.source = "history" => BracketedIn(r, m)]_vars
  <2> SUFFICES ASSUME MilestoneInv, Next, NEW r \in Recovery, jobs'[r] # jobs[r],
                      NEW m \in rows' \ rows, m.source = "history"
               PROVE  BracketedIn(r, m)
    OBVIOUS
  <2> QED
    BY BracketStep
<1> QED
  BY <1>1, MilestoneInvAlways, PTL DEF Spec, Bracketed

-----------------------------------------------------------------------------
(* What remains of a recovery. *)

\* Finitely many videos have samples or are listed, and what is to be saved is ahead of what was.
Sampled == {v \in Video : samples[v] # {}}

Ahead(list, n, d) ==
    /\ n.prepared
    /\ \/ ~d.prepared
       \/ n.afterAid \in list /\ n.afterAid > d.afterAid
       \/ n.afterAid = d.afterAid /\ n.afterTime > d.afterTime

RemainsInv ==
    /\ IsFiniteSet(Sampled)
    /\ \A r \in Recovery :
          /\ IsFiniteSet(candidates[r])
          /\ jobs[r].pc = "save" /\ ~jobs[r].ends => Ahead(candidates[r], jobs[r].next, jobs[r].data)

\* How a job moves.
Moves(r) ==
    \/ jobs[r].pc = "idle" /\ jobs'[r].pc # "save"
    \/ jobs'[r].pc = "idle"
    \/ /\ jobs[r].pc = "waiting" /\ jobs'[r].pc = "save" /\ jobs'[r].data = jobs[r].data
       /\ jobs'[r].attempts = jobs[r].attempts
       /\ jobs[r].data.prepared => candidates'[r] \subseteq candidates[r]
       /\ ~jobs'[r].ends => Ahead(candidates'[r], jobs'[r].next, jobs[r].data)
    \/ /\ jobs[r].pc = "save" /\ ~jobs[r].ends /\ jobs'[r].pc = "waiting" /\ jobs'[r].data = jobs[r].next
       /\ jobs'[r].attempts = jobs[r].attempts /\ candidates'[r] = candidates[r]
    \/ /\ jobs'[r].pc = "waiting" /\ jobs'[r].data = jobs[r].data
       /\ jobs'[r].attempts = jobs[r].attempts + 1 /\ candidates'[r] = candidates[r]

LEMMA PrepareMoves ==
    ASSUME MilestoneInv, NEW r \in Recovery, Prepare(r)
    PROVE  Moves(r)
<1>1. TypeOK /\ jobs[r] \in Job /\ jobs[r].data \in Data /\ jobs[r].pc = "waiting" /\ ~jobs[r].data.prepared
  BY JobType DEF MilestoneInv, Prepare
<1>2. PICK n : n = [jobs[r].data EXCEPT !.prepared = TRUE]
  OBVIOUS
<1>3. n.prepared
  BY <1>1, <1>2 DEF Data
<1>4. Save(r, n, FALSE)
  BY <1>2 DEF Prepare
<1>5. jobs'[r].pc = "save" /\ jobs'[r].next = n /\ jobs'[r].data = jobs[r].data
  BY <1>1, <1>4, SaveFacts
<1>6. jobs'[r].attempts = jobs[r].attempts
  BY <1>1, <1>4 DEF Save, TypeOK, Job
<1>7. PICK d : d = jobs[r].data /\ ~d.prepared
  BY <1>1
<1>8. Ahead(candidates'[r], n, d)
  BY <1>3, <1>7 DEF Ahead
<1> QED
  BY <1>1, <1>5, <1>6, <1>7, <1>8 DEF Moves

LEMMA BatchMoves ==
    ASSUME MilestoneInv, NEW r \in Recovery, Batch(r)
    PROVE  Moves(r)
<1>1. PICK d \in Data : d = jobs[r].data
  BY JobType DEF MilestoneInv
<1>2. /\ TypeOK /\ SamplesOK /\ jobs[r].pc = "waiting" /\ d.prepared /\ DataOK(r, d) /\ candidates' = candidates
  BY <1>1 DEF MilestoneInv, JobsOK, JobOK, Batch
<1>3. PICK v \in Video, batch \in SUBSET Sample :
        /\ v = Current(r) /\ batch = BatchTo(v, d.afterTime, d.through)
        /\ \/ Save(r, NextVideo(d, v), FALSE)
           \/ \E newest \in batch : Save(r, SameVideo(d, v, newest), FALSE)
  BY <1>1, BatchParts
<1>4. v \in candidates[r] /\ v > d.afterAid
  BY <1>1, <1>2, <1>3, CurrentFacts DEF Batch
<1>5. \A s \in batch : s.at > d.afterTime
  <2>1. d.afterTime \in Int /\ d.through \in Time
    BY DEF Data
  <2> QED
    BY <1>2, <1>3, <2>1, BatchFacts
<1>6. PICK n : Save(r, n, FALSE) /\ (n = NextVideo(d, v) \/ \E newest \in batch : n = SameVideo(d, v, newest))
  BY <1>3
<1>7. Ahead(candidates'[r], n, d)
  <2>1. CASE n = NextVideo(d, v)
    BY <1>2, <1>4, <2>1, NextVideoFacts DEF Ahead
  <2>2. ASSUME NEW newest \in batch, n = SameVideo(d, v, newest)
        PROVE  Ahead(candidates'[r], n, d)
    <3>1. n.prepared = d.prepared /\ n.afterAid = d.afterAid /\ n.afterTime = newest.at
      BY <2>2, SameVideoFacts
    <3> QED
      BY <1>2, <1>5, <3>1 DEF Ahead
  <2> QED
    BY <1>6, <2>1, <2>2
<1>8. jobs'[r].pc = "save" /\ jobs'[r].next = n /\ jobs'[r].data = jobs[r].data
  BY <1>2, <1>6, SaveFacts
<1>9. jobs'[r].attempts = jobs[r].attempts
  BY <1>2, <1>6, JobType DEF Save, TypeOK, Job
<1> QED
  BY <1>1, <1>2, <1>7, <1>8, <1>9 DEF Moves

LEMMA FinishMoves ==
    ASSUME MilestoneInv, NEW r \in Recovery, Finish(r)
    PROVE  Moves(r)
<1>1. TypeOK /\ jobs[r] \in Job /\ jobs[r].pc = "waiting" /\ Save(r, jobs[r].data, TRUE)
  BY JobType DEF MilestoneInv, Finish
<1>2. jobs'[r].pc = "save" /\ jobs'[r].ends /\ jobs'[r].data = jobs[r].data
  BY <1>1, SaveFacts
<1>3. jobs'[r].attempts = jobs[r].attempts
  BY <1>1 DEF Save, TypeOK, Job
<1>4. candidates'[r] = {}
  BY <1>1 DEF Finish, TypeOK
<1> QED
  BY <1>1, <1>2, <1>3, <1>4 DEF Moves

LEMMA SaveDataMoves ==
    ASSUME MilestoneInv, NEW r \in Recovery, SaveData(r)
    PROVE  Moves(r)
<1>1. /\ jobs \in [Recovery -> Job] /\ jobs[r].pc = "save" /\ candidates' = candidates
      /\ jobs[r].attempts \in 0..MaxAttempts /\ jobs[r].next \in Data
  BY JobType DEF MilestoneInv, TypeOK, SaveData, Job
<1>2. CASE jobs[r].ends
  <2>1. jobs'[r].pc = "idle"
    BY <1>1, <1>2 DEF SaveData, IdleJob
  <2> QED
    BY <2>1 DEF Moves
<1>3. CASE ~jobs[r].ends
  <2>1. jobs'[r] = [IdleJob EXCEPT !.pc = "waiting", !.data = jobs[r].next, !.attempts = jobs[r].attempts]
    BY <1>1, <1>3 DEF SaveData
  <2>2. jobs'[r].pc = "waiting" /\ jobs'[r].data = jobs[r].next /\ jobs'[r].attempts = jobs[r].attempts
    <3>1. PICK d \in Data, a \in 0..MaxAttempts : d = jobs[r].next /\ a = jobs[r].attempts
      BY <1>1
    <3>2. PICK j : j = jobs'[r]
      OBVIOUS
    <3>3. j = [IdleJob EXCEPT !.pc = "waiting", !.data = d, !.attempts = a]
      BY <2>1, <3>1, <3>2
    <3>4. j.pc = "waiting" /\ j.data = d /\ j.attempts = a
      BY <3>3, IdleType DEF Job
    <3> QED
      BY <3>1, <3>2, <3>4
  <2> QED
    BY <1>1, <1>3, <2>2 DEF Moves
<1> QED
  BY <1>2, <1>3

LEMMA FailMoves ==
    ASSUME MilestoneInv, NEW r \in Recovery, Fail(r)
    PROVE  Moves(r)
<1>1. /\ jobs \in [Recovery -> Job] /\ jobs[r].attempts \in 0..MaxAttempts /\ jobs[r].data \in Data
      /\ MaxAttempts \in Nat
  BY JobType, NumberAssumption DEF MilestoneInv, TypeOK, Job
<1>2. CASE jobs[r].attempts + 1 >= MaxAttempts
  <2>1. jobs'[r].pc = "idle"
    BY <1>1, <1>2 DEF Fail, IdleJob
  <2> QED
    BY <2>1 DEF Moves
<1>3. CASE ~(jobs[r].attempts + 1 >= MaxAttempts)
  <2>1. jobs'[r] = [IdleJob EXCEPT !.pc = "waiting", !.data = jobs[r].data, !.attempts = jobs[r].attempts + 1]
    BY <1>1, <1>3 DEF Fail
  <2>2. jobs[r].attempts + 1 \in 0..MaxAttempts
    BY <1>1, <1>3
  <2>3. jobs'[r].pc = "waiting" /\ jobs'[r].data = jobs[r].data /\ jobs'[r].attempts = jobs[r].attempts + 1
    <3>1. PICK d \in Data, a \in 0..MaxAttempts : d = jobs[r].data /\ a = jobs[r].attempts + 1
      BY <1>1, <2>2
    <3>2. PICK j : j = jobs'[r]
      OBVIOUS
    <3>3. j = [IdleJob EXCEPT !.pc = "waiting", !.data = d, !.attempts = a]
      BY <2>1, <3>1, <3>2
    <3>4. j.pc = "waiting" /\ j.data = d /\ j.attempts = a
      BY <3>3, IdleType DEF Job
    <3> QED
      BY <3>1, <3>2, <3>4
  <2>4. candidates' = candidates
    BY <1>3 DEF Fail
  <2> QED
    BY <2>3, <2>4 DEF Moves
<1> QED
  BY <1>2, <1>3

LEMMA StepMoves ==
    ASSUME MilestoneInv, [Next]_vars, NEW r \in Recovery
    PROVE  (jobs'[r] = jobs[r] /\ candidates'[r] = candidates[r]) \/ Moves(r)
<1>1. ASSUME NEW q \in Recovery, Enqueue(q) \/ Recover(q) \/ Fail(q), q # r
      PROVE  jobs'[r] = jobs[r] /\ candidates'[r] = candidates[r]
  BY <1>1, OtherJobs
<1>2. CASE Enqueue(r)
  BY <1>2 DEF Enqueue, Moves
<1>3. CASE Recover(r) \/ Fail(r)
  BY <1>3, PrepareMoves, BatchMoves, FinishMoves, SaveDataMoves, FailMoves DEF Recover
<1>4. CASE UNCHANGED <<jobs, candidates>>
  BY <1>4
<1> QED
  BY <1>1, <1>2, <1>3, <1>4 DEF Next, vars, Respond, Commit, Discard, Tick

LEMMA ListsFinite ==
    ASSUME MilestoneInv, RemainsInv, [Next]_vars
    PROVE  IsFiniteSet(Sampled') /\ \A r \in Recovery : IsFiniteSet(candidates'[r])
<1>1. samples \in [Video -> SUBSET Sample] /\ candidates \in [Recovery -> SUBSET Video]
  BY DEF MilestoneInv, TypeOK
<1>2. \E v : Sampled' \subseteq Sampled \cup {v}
  <2>1. ASSUME NEW w \in Worker, Commit(w)
        PROVE  Sampled' \subseteq Sampled \cup {answers[w].video}
    BY <1>1, <2>1 DEF Commit, Sampled
  <2>2. ASSUME UNCHANGED samples
        PROVE  Sampled' \subseteq Sampled \cup {NoVideo}
    BY <2>2 DEF Sampled
  <2> QED
    BY <2>1, <2>2 DEF Next, vars, Respond, Discard, Tick, Enqueue, Recover, Prepare, Batch, Finish, SaveData, Fail
<1>3. IsFiniteSet(Sampled')
  <2>1. PICK v : Sampled' \subseteq Sampled \cup {v}
    BY <1>2
  <2>2. IsFiniteSet(Sampled \cup {v})
    BY FS_AddElement DEF RemainsInv
  <2> QED
    BY <2>1, <2>2, FS_Subset
<1>4. ASSUME NEW r \in Recovery
      PROVE  IsFiniteSet(candidates'[r])
  <2>1. candidates'[r] \subseteq candidates[r] \cup Sampled
    <3>1. ASSUME NEW q \in Recovery, Prepare(q)
          PROVE  candidates'[r] \subseteq candidates[r] \cup Sampled
      <4>1. PICK found : /\ found \subseteq Sampled
                         /\ candidates' = [candidates EXCEPT ![q] = @ \cup found]
        BY <3>1 DEF Prepare, Sampled
      <4> QED
        BY <1>1, <4>1
    <3>2. ASSUME NEW q \in Recovery, Finish(q) \/ Fail(q)
          PROVE  candidates'[r] \subseteq candidates[r] \cup Sampled
      BY <1>1, <3>2 DEF Finish, Fail
    <3>3. CASE UNCHANGED candidates
      BY <3>3
    <3> QED
      BY <3>1, <3>2, <3>3 DEF Next, vars, Respond, Commit, Discard, Tick, Enqueue, Recover, Batch, SaveData
  <2>2. IsFiniteSet(candidates[r] \cup Sampled)
    BY FS_Union DEF RemainsInv
  <2> QED
    BY <2>1, <2>2, FS_Subset
<1> QED
  BY <1>3, <1>4

LEMMA RemainsInvStep ==
    ASSUME MilestoneInv, RemainsInv, [Next]_vars
    PROVE  RemainsInv'
<1>1. ASSUME NEW r \in Recovery, jobs'[r].pc = "save", ~jobs'[r].ends
      PROVE  Ahead(candidates'[r], jobs'[r].next, jobs'[r].data)
  <2>1. CASE jobs'[r] = jobs[r] /\ candidates'[r] = candidates[r]
    BY <1>1, <2>1 DEF RemainsInv, Ahead
  <2>2. CASE Moves(r)
    BY <1>1, <2>2 DEF Moves, Ahead
  <2> QED
    BY <2>1, <2>2, StepMoves
<1> QED
  BY <1>1, ListsFinite DEF RemainsInv

\* The first difference decides.
LEMMA LessAt ==
    ASSUME NEW p, NEW q, NEW i \in 1..5, p[i] < q[i], \A j \in 1..(i - 1) : p[j] = q[j]
    PROVE  Less(p, q)
BY DEF Less

LEMMA FiveParts ==
    ASSUME NEW a, NEW b, NEW c, NEW d, NEW e, NEW t, t = <<a, b, c, d, e>>
    PROVE  t[1] = a /\ t[2] = b /\ t[3] = c /\ t[4] = d /\ t[5] = e
OBVIOUS

RemainsOK == \A r \in Recovery :
    /\ MaxAttempts - jobs[r].attempts \in Nat /\ MaxTime - jobs[r].data.afterTime \in Nat
    /\ IsFiniteSet(Left(r)) /\ Cardinality(Left(r)) \in Nat
    /\ Remains(r) \in Nat \X Nat \X Nat \X Nat \X Nat

LEMMA RemainsType == MilestoneInv /\ RemainsInv => RemainsOK
<1> SUFFICES ASSUME MilestoneInv, RemainsInv, NEW r \in Recovery
             PROVE  /\ MaxAttempts - jobs[r].attempts \in Nat /\ MaxTime - jobs[r].data.afterTime \in Nat
                    /\ IsFiniteSet(Left(r)) /\ Cardinality(Left(r)) \in Nat
                    /\ Remains(r) \in Nat \X Nat \X Nat \X Nat \X Nat
  BY DEF RemainsOK
<1>1. PICK d \in Data : d = jobs[r].data /\ DataOK(r, d)
  BY JobType DEF MilestoneInv, JobsOK, JobOK
<1>2. jobs[r].attempts \in 0..MaxAttempts /\ MaxAttempts \in Nat /\ MaxTime \in Nat
  BY JobType, NumberAssumption DEF MilestoneInv, Job
<1>3. MaxAttempts - jobs[r].attempts \in Nat
  BY <1>2
<1>4. MaxTime - d.afterTime \in Nat
  <2>1. CASE d.current = NoVideo
    BY <1>1, <1>2, <2>1 DEF DataOK
  <2>2. CASE d.current # NoVideo
    <3>1. d.current \in Video /\ d.previous \in samples[d.current] /\ d.previous.at = d.afterTime
      BY <1>1, <2>2 DEF Data, DataOK
    <3>2. d.previous \in Sample
      BY <3>1 DEF MilestoneInv, TypeOK
    <3>3. d.afterTime \in Nat /\ d.afterTime <= MaxTime
      BY <1>2, <3>1, <3>2 DEF Sample, Time
    <3> QED
      BY <1>2, <3>3
  <2> QED
    BY <2>1, <2>2
<1>5. Left(r) \subseteq candidates[r]
  BY DEF Left
<1>6. IsFiniteSet(Left(r)) /\ Cardinality(Left(r)) \in Nat
  BY <1>5, FS_Subset, FS_CardinalityType DEF RemainsInv
<1> QED
  BY <1>1, <1>3, <1>4, <1>5, <1>6 DEF Remains

LEMMA MovesAdvance ==
    ASSUME MilestoneInv, MilestoneInv', RemainsInv, RemainsOK, RemainsOK', NEW r \in Recovery, Moves(r),
           jobs[r].pc # "idle", jobs'[r].pc # "idle"
    PROVE  Remains(r)' \in Nat \X Nat \X Nat \X Nat \X Nat /\ Less(Remains(r)', Remains(r))
<1> DEFINE p == Remains(r)'
           q == Remains(r)
<1>1. PICK d \in Data, n \in Data : d = jobs[r].data /\ n = jobs'[r].data
  BY JobType DEF MilestoneInv, TypeOK, Job
<1>2. PICK a \in 0..MaxAttempts, b \in 0..MaxAttempts : a = jobs[r].attempts /\ b = jobs'[r].attempts
  BY JobType DEF MilestoneInv, TypeOK, Job
<1>3. PICK k \in Nat, l \in Nat : k = Cardinality(Left(r)) /\ l = Cardinality(Left(r)')
  BY DEF RemainsOK
<1>4. p \in Nat \X Nat \X Nat \X Nat \X Nat
  BY DEF RemainsOK
<1>5. /\ q[1] = MaxAttempts - a /\ q[2] = (IF d.prepared THEN 0 ELSE 1) /\ q[3] = (IF d.prepared THEN k ELSE 0)
      /\ q[4] = MaxTime - d.afterTime /\ q[5] = IF jobs[r].pc = "waiting" THEN 1 ELSE 0
  BY <1>1, <1>2, <1>3, FiveParts DEF Remains
<1>6. /\ p[1] = MaxAttempts - b /\ p[2] = (IF n.prepared THEN 0 ELSE 1) /\ p[3] = (IF n.prepared THEN l ELSE 0)
      /\ p[4] = MaxTime - n.afterTime /\ p[5] = IF jobs'[r].pc = "waiting" THEN 1 ELSE 0
  BY <1>1, <1>2, <1>3, FiveParts DEF Remains
<1>7. MaxAttempts \in Nat /\ MaxTime \in Nat /\ n.afterTime \in Int /\ d.afterTime \in Int
      /\ n.afterAid \in Int /\ d.afterAid \in Int
  BY NumberAssumption DEF Data
<1>8. IsFiniteSet(Left(r)) /\ \A v \in candidates[r] : v \in Int
  BY NumberAssumption DEF RemainsOK, MilestoneInv, TypeOK
<1> HIDE DEF p, q
\* To save.
<1>9. CASE jobs[r].pc = "waiting" /\ jobs'[r].pc = "save"
  <2>1. n = d /\ b = a /\ (d.prepared => candidates'[r] \subseteq candidates[r])
    BY <1>1, <1>2, <1>9 DEF Moves
  <2>2. d.prepared => Left(r)' \subseteq Left(r)
    BY <1>1, <2>1 DEF Left
  <2>3. d.prepared => l <= k
    BY <1>3, <1>8, <2>2, FS_Subset
  <2>4. p[1] = q[1] /\ p[2] = q[2] /\ p[3] <= q[3] /\ p[4] = q[4] /\ p[5] < q[5]
    BY <1>3, <1>5, <1>6, <1>9, <2>1, <2>3
  <2>5. p[3] \in Int /\ q[3] \in Int
    BY <1>3, <1>5, <1>6
  <2>6. p[3] < q[3] \/ p[3] = q[3]
    BY <2>4, <2>5
  <2>7. (\A j \in 1..2 : p[j] = q[j]) /\ (p[3] = q[3] => \A j \in 1..4 : p[j] = q[j])
    BY <2>4
  <2> QED
    BY <1>4, <2>4, <2>6, <2>7, LessAt DEF p, q
\* Saved.
<1>10. CASE jobs[r].pc = "save" /\ ~jobs[r].ends /\ jobs'[r].data = jobs[r].next /\ jobs'[r].attempts = jobs[r].attempts
            /\ candidates'[r] = candidates[r]
  <2>1. Ahead(candidates[r], n, d) /\ b = a
    BY <1>1, <1>2, <1>10 DEF RemainsInv
  <2>2. CASE ~d.prepared
    <3>1. p[1] = q[1] /\ p[2] < q[2]
      BY <1>5, <1>6, <2>1, <2>2 DEF Ahead
    <3>2. \A j \in 1..1 : p[j] = q[j]
      BY <3>1
    <3> QED
      BY <1>4, <3>1, <3>2, LessAt DEF p, q
  <2>3. CASE d.prepared /\ n.afterAid \in candidates[r] /\ n.afterAid > d.afterAid
    <3>1. Left(r)' \subseteq Left(r) /\ n.afterAid \in Left(r) /\ n.afterAid \notin Left(r)'
      BY <1>1, <1>7, <1>8, <1>10, <2>3 DEF Left
    <3>2. l < k
      BY <1>3, <1>8, <3>1, FS_Subset
    <3>3. p[1] = q[1] /\ p[2] = q[2] /\ p[3] < q[3]
      BY <1>5, <1>6, <2>1, <2>3, <3>2 DEF Ahead
    <3>4. \A j \in 1..2 : p[j] = q[j]
      BY <3>3
    <3> QED
      BY <1>4, <3>3, <3>4, LessAt DEF p, q
  <2>4. CASE d.prepared /\ n.afterAid = d.afterAid /\ n.afterTime > d.afterTime
    <3>1. Left(r)' = Left(r)
      BY <1>1, <1>10, <2>4 DEF Left
    <3>2. p[1] = q[1] /\ p[2] = q[2] /\ p[3] = q[3]
      BY <1>3, <1>5, <1>6, <2>1, <2>4, <3>1 DEF Ahead
    <3>3. p[4] < q[4]
      BY <1>5, <1>6, <1>7, <2>4
    <3>4. \A j \in 1..3 : p[j] = q[j]
      BY <3>2
    <3> QED
      BY <1>4, <3>3, <3>4, LessAt DEF p, q
  <2> QED
    BY <2>1, <2>2, <2>3, <2>4 DEF Ahead
\* Failed.
<1>11. CASE jobs'[r].attempts = jobs[r].attempts + 1
  <2>1. p[1] < q[1]
    BY <1>2, <1>5, <1>6, <1>7, <1>11
  <2>2. \A j \in 1..0 : p[j] = q[j]
    OBVIOUS
  <2> QED
    BY <1>4, <2>1, <2>2, LessAt DEF p, q
<1> QED
  BY <1>9, <1>10, <1>11 DEF Moves

\* A recovery ends after finitely many steps of its own, failed attempts included: each lowers what remains of it,
\* whatever samples are committed meanwhile (recover and the maintenance worker's loop). With a worker that goes on,
\* this is why recoveries end.
THEOREM RecoveryAdvancesAlways == Spec => RecoveryAdvances
<1>1. Init => RemainsInv
  <2>1. Init => Sampled = {} /\ \A r \in Recovery : candidates[r] = {} /\ jobs[r].pc = "idle"
    BY DEF Init, Sampled, IdleJob
  <2> QED
    BY <2>1, FS_EmptySet DEF RemainsInv
<1>2. MilestoneInv /\ RemainsInv /\ [Next]_vars => RemainsInv'
  BY RemainsInvStep
<1>3. MilestoneInv /\ MilestoneInv' /\ RemainsInv /\ RemainsOK /\ RemainsOK' /\ [Next]_vars =>
        [\A r \in Recovery : jobs[r].pc # "idle" /\ jobs'[r].pc # "idle" /\ jobs'[r] # jobs[r] =>
            /\ Remains(r)' \in Nat \X Nat \X Nat \X Nat \X Nat
            /\ Less(Remains(r)', Remains(r))]_vars
  <2> SUFFICES ASSUME MilestoneInv, MilestoneInv', RemainsInv, RemainsOK, RemainsOK', [Next]_vars,
                      NEW r \in Recovery, jobs[r].pc # "idle", jobs'[r].pc # "idle", jobs'[r] # jobs[r]
               PROVE  /\ Remains(r)' \in Nat \X Nat \X Nat \X Nat \X Nat
                      /\ Less(Remains(r)', Remains(r))
    OBVIOUS
  <2> QED
    BY StepMoves, MovesAdvance
<1> QED
  BY <1>1, <1>2, <1>3, RemainsType, MilestoneInvAlways, PTL DEF Spec, RecoveryAdvances
====
