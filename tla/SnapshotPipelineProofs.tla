---- MODULE SnapshotPipelineProofs ----
(***************************************************************************)
(* Theorems about the snapshot pipeline, for any number of videos, jobs,   *)
(* workers and leases and for any bounds: its types, that no two queued    *)
(* jobs ever carry one video, that an answer whose row was taken away      *)
(* never settles it, that the dispatcher never overfills the queue, and    *)
(* that nobody abandons a lease while nothing fails, except by evicting a  *)
(* job under an outdated lease or by an operator's removal of a job.       *)
(***************************************************************************)
EXTENDS SnapshotPipeline, FiniteSetTheorems, TLAPS

-----------------------------------------------------------------------------
(* The statements of the repository keep the table a table *)

LEMMA ReleaseLeasesType ==
    ASSUME NEW rows \in [Video -> Row], NEW vs
    PROVE  ReleaseLeases(rows, vs) \in [Video -> Row]
BY DEF ReleaseLeases, Row

LEMMA LeaseVideosType ==
    ASSUME NEW rows \in [Video -> Row], NEW vs, NEW lease \in Lease
    PROVE  LeaseVideos(rows, vs, lease) \in [Video -> Row]
BY DEF LeaseVideos, Row

LEMMA SettleType ==
    ASSUME NEW rows \in [Video -> Row], NEW vs, NEW lease, NEW p \in Priority
    PROVE  Settle(rows, vs, lease, p) \in [Video -> Row]
BY DEF Settle, Row

LEMMA RenewType ==
    ASSUME NEW rows \in [Video -> Row], NEW vs, NEW lease, NEW new \in Lease, NEW why
    PROVE  Renew(rows, vs, lease, new, why) \in [Video -> Row]
BY DEF Renew, Row

LEMMA UpsertDueType ==
    ASSUME NEW row \in Row, NEW p \in Priority
    PROVE  UpsertDue(row, p) \in Row
BY DEF UpsertDue, NewRow, Row

LEMMA ForceDueType ==
    ASSUME NEW row \in Row
    PROVE  ForceDue(row) \in Row
BY DEF ForceDue, Row

LEMMA UntrackedType == Untracked \in Row
BY PriorityAssumption DEF Untracked, Row

-----------------------------------------------------------------------------
(* Helpers of the pipeline *)

\* A new lease is a lease nobody mentions.
LEMMA FreshFacts == FreshExists => FreshLease \in Lease /\ FreshLease \notin LeasesInUse
BY DEF FreshExists, FreshLease, IsFresh

LEMMA DepthNat == Depth \in Nat
<1>1. IsFiniteSet({j \in Job : Queued(j)})
  BY NoJobAssumption, FS_Subset
<1> QED BY <1>1, FS_CardinalityType DEF Depth

LEMMA IdleDispType == IdleDisp \in DispRecord
BY PriorityAssumption DEF IdleDisp, DispRecord

LEMMA IdleWorkType == IdleWork \in WorkRecord
BY DEF IdleWork, WorkRecord

LEMMA IdleManualType == IdleManual \in ManualRecord
BY DEF IdleManual, ManualRecord

LEMMA FreeJobType == FreeJob \in JobRecord
BY PriorityAssumption DEF FreeJob, JobRecord

LEMMA NewJobType ==
    ASSUME NEW aids \in SUBSET Video, NEW lease \in Lease \cup {NoLease}, NEW p \in Priority
    PROVE  NewJob(aids, lease, p) \in JobRecord
BY DEF NewJob, JobRecord

\* What the actors hold, without the history and the counters.
StateOK ==
    /\ tracking \in [Video -> Row]
    /\ jobs \in [Job -> JobRecord]
    /\ work \in [Worker -> WorkRecord]
    /\ disp \in DispRecord
    /\ manual \in ManualRecord

-----------------------------------------------------------------------------
(* Types: one case per action of each actor *)

LEMMA DispatcherTypes == ASSUME StateOK, Dispatcher PROVE StateOK'
<1>1. CASE DispCount
  <2>1. disp' \in DispRecord
    <3>1. CASE Depth < QueueCap
      <4>1. QueueCap - Depth \in Nat BY <3>1, DepthNat, BoundAssumption
      <4> QED BY <1>1, <3>1, <4>1, IdleDispType DEF DispCount, DispRecord
    <3>2. CASE ~(Depth < QueueCap)
      BY <1>1, <3>2, IdleDispType DEF DispCount, DispRecord
    <3> QED BY <3>1, <3>2
  <2> QED BY <1>1, <2>1 DEF StateOK, DispCount
<1>2. CASE DispScan
  <2>1. disp' \in DispRecord
    <3>1. \A seen \in SUBSET Job :
            {[job |-> j, aids |-> jobs[j].aids, lease |-> jobs[j].lease] : j \in seen}
              \in SUBSET ScannedJob
      BY DEF StateOK, JobRecord, ScannedJob
    <3>2. ASSUME NEW v, NEW seen, seen = {j \in Job :
                          /\ jobs[j].status \in {"waiting", "delayed"}
                          /\ jobs[j].priority > tracking[v].priority},
                 disp' = IF seen = {} THEN IdleDisp
                         ELSE [disp EXCEPT
                                 !.pc = "evict",
                                 !.scan = {[job |-> j, aids |-> jobs[j].aids,
                                            lease |-> jobs[j].lease] : j \in seen}]
          PROVE  disp' \in DispRecord
      BY <3>1, <3>2, IdleDispType DEF StateOK, DispRecord
    <3> QED BY <1>2, <3>2, IdleDispType DEF DispScan
  <2> QED BY <1>2, <2>1 DEF StateOK, DispScan
<1>3. CASE DispEvict
  <2>1. PICK s \in disp.scan :
         IF Removable(s.job)
         THEN /\ jobs' = [jobs EXCEPT ![s.job] = FreeJob]
              /\ disp' = [IdleDisp EXCEPT !.pc = "unlease", !.victim = {s}]
         ELSE /\ disp' = IF disp.scan = {s} THEN IdleDisp
                         ELSE [disp EXCEPT !.scan = @ \ {s}]
              /\ UNCHANGED jobs
    BY <1>3 DEF DispEvict
  <2>2. s \in ScannedJob /\ s.job \in Job BY <2>1 DEF StateOK, DispRecord, ScannedJob
  <2>3. jobs' \in [Job -> JobRecord] BY <2>1, <2>2, FreeJobType DEF StateOK
  <2>4. [IdleDisp EXCEPT !.pc = "unlease", !.victim = {s}] \in DispRecord
    <3>1. {s} \in SUBSET ScannedJob BY <2>2
    <3> QED BY <3>1, IdleDispType DEF DispRecord
  <2>5. [disp EXCEPT !.scan = @ \ {s}] \in DispRecord BY DEF StateOK, DispRecord
  <2>6. disp' \in DispRecord BY <2>1, <2>4, <2>5, IdleDispType
  <2> QED BY <1>3, <2>3, <2>6 DEF StateOK, DispEvict
<1>4. CASE DispEvictFails
  <2>1. jobs' \in [Job -> JobRecord] 
    BY <1>4, FreeJobType DEF StateOK, DispEvictFails
  <2> QED BY <1>4, <2>1, IdleDispType DEF StateOK, DispEvictFails
<1>5. CASE DispUnlease
  <2>1. tracking' \in [Video -> Row]
    BY <1>5, ReleaseLeasesType DEF StateOK, DispUnlease, ReleaseOwned
  <2>2. disp' \in DispRecord BY <1>5, IdleDispType DEF DispUnlease, DispRecord
  <2> QED BY <1>5, <2>1, <2>2 DEF StateOK, DispUnlease
<1>6. CASE DispFind
  <2>1. \A limit : \A found \in FindDueVideos(tracking, limit) : found \in SUBSET Video
    BY DEF FindDueVideos, ClaimableVideos
  <2>2. PICK found \in SUBSET Video :
          disp' = IF found = {} THEN IdleDisp ELSE [disp EXCEPT !.pc = "lease", !.left = found]
    BY <1>6, <2>1, Zenon DEF DispFind
  <2>3. disp' \in DispRecord BY <2>2, IdleDispType DEF StateOK, DispRecord
  <2> QED BY <1>6, <2>3 DEF StateOK, DispFind
<1>7. CASE DispLease
  <2>1. tracking' \in [Video -> Row]
    BY <1>7, FreshFacts, LeaseVideosType DEF StateOK, DispLease
  <2>2. disp' \in DispRecord
    <3>1. Claimed(tracking, disp.left) \in SUBSET Video
      BY DEF StateOK, DispRecord, Claimed
    <3>2. [v \in Video |-> IF v \in Claimed(tracking, disp.left) THEN tracking[v].priority ELSE 2]
             \in [Video -> Priority]
      BY PriorityAssumption DEF StateOK, Row
    <3> DEFINE rank == [v \in Video |-> IF v \in Claimed(tracking, disp.left)
                                       THEN tracking[v].priority ELSE 2]
    <3>3. rank \in [Video -> Priority] BY <3>2
    <3>4. disp' = IF Claimed(tracking, disp.left) = {} THEN IdleDisp
                  ELSE [disp EXCEPT !.pc = "add", !.left = Claimed(tracking, disp.left),
                                    !.lease = FreshLease, !.rank = rank]
      BY <1>7 DEF DispLease
    <3>5. FreshLease \in Lease BY <1>7, FreshFacts DEF DispLease
    <3> HIDE DEF rank
    <3> QED BY <3>1, <3>3, <3>4, <3>5, IdleDispType DEF StateOK, DispRecord
  <2> QED BY <1>7, <2>1, <2>2 DEF StateOK, DispLease
<1>8. ASSUME NEW chunk \in NextChunks, NEW j \in Job, NEW v \in disp.left
      PROVE  NewJob(chunk, disp.lease, disp.rank[v]) \in JobRecord
  BY NewJobType DEF StateOK, DispRecord, NextChunks
<1>9. CASE DispAdd
  <2>1. PICK chunk \in NextChunks, j \in FreeJobs, v \in disp.left :
          /\ jobs' = [jobs EXCEPT ![j] = NewJob(chunk, disp.lease, disp.rank[v])]
          /\ disp' = [disp EXCEPT !.room = @ - 1, !.left = @ \ chunk]
    BY <1>9 DEF DispAdd
  <2>2. jobs' \in [Job -> JobRecord] BY <1>8, <2>1 DEF StateOK, FreeJobs
  <2>3. disp.room - 1 \in Nat BY <1>9 DEF DispAdd, StateOK, DispRecord
  <2>4. disp' \in DispRecord BY <2>1, <2>3 DEF StateOK, DispRecord
  <2> QED BY <1>9, <2>2, <2>4 DEF StateOK, DispAdd
<1>10. CASE DispAddFails
  <2>1. jobs' \in [Job -> JobRecord]
    BY <1>8, <1>10 DEF StateOK, FreeJobs, DispAddFails
  <2>2. disp' \in DispRecord BY <1>10 DEF StateOK, DispRecord, DispAddFails
  <2> QED BY <1>10, <2>1, <2>2 DEF StateOK, DispAddFails
<1>11. CASE DispRelease
  BY <1>11, ReleaseLeasesType, IdleDispType DEF StateOK, DispRelease
<1>12. CASE DispReleaseFails
  <2>1. disp' \in DispRecord BY <1>12, IdleDispType DEF StateOK, DispRecord, DispReleaseFails
  <2> QED BY <1>12, <2>1 DEF StateOK, DispReleaseFails
<1> QED
  BY <1>1, <1>2, <1>3, <1>4, <1>5, <1>6, <1>7, <1>9, <1>10, <1>11, <1>12
  DEF Dispatcher, DispStep

LEMMA ManualTypes == ASSUME StateOK, Manual PROVE StateOK'
<1>1. CASE ManualBegin
  <2>1. PICK v \in Video, force \in BOOLEAN :
          manual' = [IdleManual EXCEPT !.aid = {v}, !.force = force,
                                       !.pc = IF ~tracking[v].tracked THEN "create"
                                              ELSE IF force THEN "release" ELSE "lease"]
    BY <1>1 DEF ManualBegin
  <2>2. {v} \in SUBSET Video OBVIOUS
  <2>3. manual' \in ManualRecord BY <2>1, <2>2, IdleManualType DEF ManualRecord
  <2> QED BY <1>1, <2>3 DEF StateOK, ManualBegin
<1>2. CASE ManualCreate
  BY <1>2, UpsertDueType, PriorityAssumption DEF StateOK, ManualCreate, ManualRecord
<1>3. CASE ManualRelease
  BY <1>3, ReleaseLeasesType DEF StateOK, ManualRelease, ManualRecord
<1>4. CASE ManualUpdate
  BY <1>4, ForceDueType DEF StateOK, ManualUpdate, ManualRecord
<1>5. CASE ManualLease
  <2>1. FreshLease \in Lease BY <1>5, FreshFacts DEF ManualLease
  <2>2. tracking' \in [Video -> Row] BY <1>5, <2>1, LeaseVideosType DEF StateOK, ManualLease
  <2>3. manual' \in ManualRecord
    BY <1>5, <2>1, IdleManualType DEF StateOK, ManualLease, ManualRecord
  <2> QED BY <1>5, <2>2, <2>3 DEF StateOK, ManualLease
<1>6. NewJob(manual.aid, manual.lease, 1) \in JobRecord
  BY NewJobType, PriorityAssumption DEF StateOK, ManualRecord
<1>7. CASE ManualAdd
  BY <1>6, <1>7, IdleManualType DEF StateOK, ManualAdd, FreeJobs
<1>8. CASE ManualAddFails
  <2>1. jobs' \in [Job -> JobRecord] BY <1>6, <1>8 DEF StateOK, ManualAddFails, FreeJobs
  <2>2. manual' \in ManualRecord BY <1>8 DEF StateOK, ManualAddFails, ManualRecord
  <2> QED BY <1>8, <2>1, <2>2 DEF StateOK, ManualAddFails
<1>9. CASE ManualUndo
  BY <1>9, ReleaseLeasesType, IdleManualType DEF StateOK, ManualUndo
<1> QED
  BY <1>1, <1>2, <1>3, <1>4, <1>5, <1>7, <1>8, <1>9 DEF Manual, ManualStep

LEMMA VideoCommandTypes == ASSUME StateOK, VideoCommand PROVE StateOK'
<1> PICK v \in Video :
      Promote(v) \/ Untrack(v) \/ Register(v) \/ Discover(v) \/ Archive(v) \/ RefreshMetadata(v)
  BY DEF VideoCommand
<1> tracking[v] \in Row BY DEF StateOK
<1>1. CASE Promote(v)
  <2>1. \A p \in Priority : [tracking[v] EXCEPT !.due = TRUE, !.eligible = TRUE,
                               !.lease = NoLease, !.live = FALSE, !.priority = p] \in Row
    BY DEF Row
  <2> QED BY <1>1, <2>1 DEF StateOK, Promote
<1>2. CASE Untrack(v)
  BY <1>2, UntrackedType DEF StateOK, Untrack
<1>3. CASE Register(v)
  BY <1>3, UpsertDueType DEF StateOK, Register
<1>4. CASE Discover(v)
  <2>1. UpsertDue(tracking[v], 2) \in Row BY UpsertDueType, PriorityAssumption
  <2>2. [UpsertDue(tracking[v], 2) EXCEPT !.missing = FALSE] \in Row BY <2>1 DEF Row
  <2> QED BY <1>4, <2>2 DEF StateOK, Discover
<1>5. CASE Archive(v)
  <2>1. \A p \in Priority : [tracking[v] EXCEPT !.due = FALSE, !.lease = NoLease, !.live = FALSE,
                                              !.missing = FALSE, !.priority = p] \in Row
    BY DEF Row
  <2> QED BY <1>5, <2>1 DEF StateOK, Archive
<1>6. CASE RefreshMetadata(v)
  BY <1>6 DEF StateOK, RefreshMetadata, Row
<1> QED BY <1>1, <1>2, <1>3, <1>4, <1>5, <1>6

LEMMA JobCommandTypes == ASSUME StateOK, JobCommand PROVE StateOK'
<1> PICK j \in Job : RemoveJob(j) \/ RetryJob(j) BY DEF JobCommand
<1>1. CASE RemoveJob(j)
  BY <1>1, FreeJobType DEF StateOK, RemoveJob
<1>2. CASE RetryJob(j)
  BY <1>2 DEF StateOK, RetryJob, JobRecord
<1> QED BY <1>1, <1>2

LEMMA CommandTypes == ASSUME StateOK, Command PROVE StateOK'
BY VideoCommandTypes, JobCommandTypes DEF Command

LEMMA TimeTypes == ASSUME StateOK, Time PROVE StateOK'
<1> PICK v \in Video : BecomesDue(v) \/ BecomesEligible(v) \/ LeaseExpires(v)
  BY DEF Time
<1>1. CASE BecomesDue(v)
  BY <1>1 DEF StateOK, BecomesDue, Row
<1>2. CASE BecomesEligible(v)
  BY <1>2 DEF StateOK, BecomesEligible, Row
<1>3. CASE LeaseExpires(v)
  BY <1>3 DEF StateOK, LeaseExpires, Row
<1> QED BY <1>1, <1>2, <1>3

LEMMA QueueTypes == ASSUME StateOK, Queue PROVE StateOK'
<1>1. ASSUME NEW j \in Job, JobReady(j) PROVE StateOK'
  BY <1>1 DEF StateOK, JobReady, JobRecord
<1>2. ASSUME NEW j \in Job, JobStalled(j) PROVE StateOK'
  BY <1>2 DEF StateOK, JobStalled, JobRecord
<1>3. ASSUME NEW j \in Job, LockLost(j) PROVE StateOK'
  <2>1. [jobs[j] EXCEPT !.status = "waiting", !.holder = NoWorker] \in JobRecord
    BY DEF StateOK, JobRecord
  <2> QED BY <1>3, <2>1 DEF StateOK, LockLost
<1>4. CASE Crash
  <2>1. \A j \in Job : [jobs[j] EXCEPT !.status = "stalled", !.holder = NoWorker] \in JobRecord
    BY DEF StateOK, JobRecord
  <2> QED
    BY <1>4, <2>1, IdleWorkType, IdleDispType, IdleManualType DEF StateOK, Crash
<1>5. ASSUME NEW j \in Job, JobForgotten(j) PROVE StateOK'
  BY <1>5, FreeJobType DEF StateOK, JobForgotten
<1> QED BY <1>1, <1>2, <1>3, <1>4, <1>5 DEF Queue

-----------------------------------------------------------------------------
(* Types: the worker *)

\* One slot changes its record at a time.
LEMMA WorkUpdate ==
    ASSUME work \in [Worker -> WorkRecord], NEW w \in Worker, NEW r \in WorkRecord,
           work' = [work EXCEPT ![w] = r]
    PROVE  work' \in [Worker -> WorkRecord]
OBVIOUS

LEMMA FinishTypes ==
    ASSUME StateOK, NEW w \in Worker, Finish(w)
    PROVE  work' \in [Worker -> WorkRecord] /\ jobs' \in [Job -> JobRecord]
<1>1. Rest(w) \in WorkRecord BY IdleWorkType DEF StateOK, Rest, WorkRecord
<1> QED BY <1>1, FreeJobType DEF StateOK, Finish

\* A job that has failed is the job it was, but for its status and its lock.
LEMMA FailTypes ==
    ASSUME StateOK, NEW w \in Worker, NEW stored \in [Job -> JobRecord], Fail(w, stored)
    PROVE  work' \in [Worker -> WorkRecord] /\ jobs' \in [Job -> JobRecord]
<1>1. Rest(w) \in WorkRecord BY IdleWorkType DEF StateOK, Rest, WorkRecord
<1>2. \A j \in Job : [stored[j] EXCEPT !.status = "failed", !.holder = NoWorker] \in JobRecord
  BY DEF JobRecord
<1> QED BY <1>1, <1>2 DEF StateOK, Fail

LEMMA SavedType ==
    ASSUME StateOK, NEW w \in Worker
    PROVE  Saved(w) \in [Job -> JobRecord]
<1>1. work[w].keep \in SUBSET Video /\ work[w].next \in Lease \cup {NoLease}
  BY DEF StateOK, WorkRecord
<1>2. \A j \in Job : [jobs[j] EXCEPT !.aids = work[w].keep, !.lease = work[w].next] \in JobRecord
  BY <1>1 DEF StateOK, JobRecord
<1> QED BY <1>2 DEF StateOK, Saved

LEMMA DelayTypes ==
    ASSUME StateOK, NEW w \in Worker, Delay(w)
    PROVE  work' \in [Worker -> WorkRecord] /\ jobs' \in [Job -> JobRecord]
<1>1. Rest(w) \in WorkRecord BY IdleWorkType DEF StateOK, Rest, WorkRecord
<1>2. \A j \in Job : [jobs[j] EXCEPT !.status = "delayed", !.holder = NoWorker] \in JobRecord
  BY DEF StateOK, JobRecord
<1> QED BY <1>1, <1>2 DEF StateOK, Delay

LEMMA RetryTypes ==
    ASSUME StateOK, NEW w \in Worker, NEW aids \in SUBSET Video,
           NEW why \in {"api", "missing", "error", "capacity"}, Retry(w, aids, why)
    PROVE  work' \in [Worker -> WorkRecord]
<1>1. work[w] \in WorkRecord BY DEF StateOK
<1>2. why \in {"none", "api", "missing", "error", "capacity", "deadline"} OBVIOUS
<1>3. [work[w] EXCEPT !.pc = "retry", !.keep = aids, !.why = why] \in WorkRecord
  BY <1>1, <1>2 DEF WorkRecord
<1> QED BY <1>3, WorkUpdate DEF StateOK, Retry

LEMMA WorkTypes == ASSUME StateOK, Work PROVE StateOK'
<1> PICK w \in Worker :
      \/ \E j \in Job : WorkStart(w, j)
      \/ WorkStep(w) \/ WorkFault(w) \/ LateCommit(w)
  BY DEF Work
<1>w. work[w] \in WorkRecord BY DEF StateOK
<1>1. ASSUME NEW j \in Job, WorkStart(w, j) PROVE StateOK'
  <2>1. jobs[j] \in JobRecord BY DEF StateOK
  <2>2. [IdleWork EXCEPT !.pc = "filter", !.job = j, !.aids = jobs[j].aids,
                         !.lease = jobs[j].lease] \in WorkRecord
    BY <2>1, IdleWorkType DEF WorkRecord, JobRecord
  <2>3. [jobs[j] EXCEPT !.status = "active", !.holder = w] \in JobRecord
    BY <2>1 DEF JobRecord
  <2> QED BY <1>1, <2>2, <2>3, FreeJobType DEF StateOK, WorkStart
<1>2. CASE WorkFilter(w)
  <2>1. Owned(tracking, work[w].aids, work[w].lease) \in SUBSET Video
    BY <1>w DEF Owned, WorkRecord
  <2>2. CASE Finish(w) BY <1>2, <2>2, FinishTypes DEF StateOK, WorkFilter
  <2>3. CASE /\ work' = [work EXCEPT ![w] = [@ EXCEPT !.pc = "fetch",
                                !.batch = Owned(tracking, work[w].aids, work[w].lease)]]
             /\ UNCHANGED jobs
    <3>1. [work[w] EXCEPT !.pc = "fetch",
                   !.batch = Owned(tracking, work[w].aids, work[w].lease)] \in WorkRecord
      BY <1>w, <2>1 DEF WorkRecord
    <3> QED BY <1>2, <2>3, <3>1, WorkUpdate DEF StateOK, WorkFilter
  <2> QED BY <1>2, <2>2, <2>3 DEF WorkFilter
<1>3. CASE WorkFetch(w)
  <2>1. PICK got \in SUBSET work[w].batch :
          work' = [work EXCEPT ![w] = [@ EXCEPT !.pc = "commit", !.got = got]]
    BY <1>3 DEF WorkFetch
  <2>2. [work[w] EXCEPT !.pc = "commit", !.got = got] \in WorkRecord
    BY <1>w DEF WorkRecord
  <2> QED BY <1>3, <2>1, <2>2, WorkUpdate DEF StateOK, WorkFetch
<1>4. CASE WorkCommit(w)
  <2>1. tracking' \in [Video -> Row] BY <1>4, SettleType DEF StateOK, WorkCommit
  <2>2. CASE Finish(w) BY <1>4, <2>1, <2>2, FinishTypes DEF StateOK, WorkCommit
  <2>3. CASE /\ work' = [work EXCEPT ![w] = [@ EXCEPT !.pc = "pending", !.got = {},
                                                     !.keep = work[w].batch \ work[w].got]]
             /\ UNCHANGED jobs
    <3>1. [work[w] EXCEPT !.pc = "pending", !.got = {}, !.keep = work[w].batch \ work[w].got]
             \in WorkRecord
      BY <1>w DEF WorkRecord
    <3> QED BY <1>4, <2>1, <2>3, <3>1, WorkUpdate DEF StateOK, WorkCommit
  <2> QED BY <1>4, <2>2, <2>3 DEF WorkCommit
<1>5. CASE WorkPending(w)
  <2>1. [work[w] EXCEPT !.pc = "check", !.todo = {v \in work[w].keep : tracking[v].missing}]
           \in WorkRecord
    BY <1>w DEF WorkRecord
  <2> QED BY <1>5, <2>1, WorkUpdate DEF StateOK, WorkPending
<1>6. CASE WorkProbe(w)
  <2>1. PICK v \in work[w].todo :
          \/ /\ work' = [work EXCEPT ![w].todo = @ \ {v}]
             /\ UNCHANGED tracking
          \/ /\ work' = [work EXCEPT ![w] = [@ EXCEPT !.todo = work[w].todo \ {v},
                                                       !.keep = work[w].keep \ {v}]]
             /\ \E p \in Priority : tracking' = Settle(tracking, {v}, work[w].lease, p)
    BY <1>6 DEF WorkProbe
  <2>2. tracking' \in [Video -> Row] BY <2>1, SettleType DEF StateOK
  <2>3. [work[w] EXCEPT !.todo = @ \ {v}] \in WorkRecord BY <1>w DEF WorkRecord
  <2>4. [work[w] EXCEPT !.todo = work[w].todo \ {v},
                         !.keep = work[w].keep \ {v}] \in WorkRecord
    BY <1>w DEF WorkRecord
  <2>5. ASSUME work' = [work EXCEPT ![w].todo = @ \ {v}] PROVE work' \in [Worker -> WorkRecord]
    BY <2>5 DEF StateOK, WorkRecord
  <2>6. ASSUME work' = [work EXCEPT ![w] = [@ EXCEPT !.todo = work[w].todo \ {v},
                                                       !.keep = work[w].keep \ {v}]]
        PROVE  work' \in [Worker -> WorkRecord]
    BY <2>4, <2>6, WorkUpdate DEF StateOK
  <2>7. work' \in [Worker -> WorkRecord] BY <2>1, <2>5, <2>6
  <2> QED BY <1>6, <2>2, <2>7 DEF StateOK, WorkProbe
<1>7. CASE WorkProbed(w)
  <2>1. CASE Finish(w) BY <1>7, <2>1, FinishTypes DEF StateOK, WorkProbed
  <2>2. CASE Retry(w, work[w].keep, "missing") /\ UNCHANGED jobs
    BY <1>7, <1>w, <2>2, RetryTypes DEF StateOK, WorkProbed, WorkRecord
  <2> QED BY <1>7, <2>1, <2>2 DEF WorkProbed
<1>8. CASE RetryRead(w)
  <2>1. Owned(tracking, work[w].keep, work[w].lease) \in SUBSET Video
    BY <1>w DEF Owned, WorkRecord
  <2>2. [work[w] EXCEPT !.pc = "renew", !.keep = Owned(tracking, work[w].keep, work[w].lease)]
           \in WorkRecord
    BY <1>w, <2>1 DEF WorkRecord
  <2> QED BY <1>8, <2>2, WorkUpdate DEF StateOK, RetryRead
<1>9. CASE RetryRenew(w)
  <2>1. FreshLease \in Lease BY <1>9, FreshFacts DEF RetryRenew
  <2>2. tracking' \in [Video -> Row] BY <1>9, <2>1, RenewType DEF StateOK, RetryRenew
  <2>3. [work[w] EXCEPT !.pc = "save", !.next = FreshLease] \in WorkRecord
    BY <1>w, <2>1 DEF WorkRecord
  <2> QED BY <1>9, <2>2, <2>3, WorkUpdate DEF StateOK, RetryRenew
<1>10. CASE RetrySave(w)
  <2>1. CASE Finish(w) BY <1>10, <2>1, FinishTypes DEF StateOK, RetrySave
  <2>2. Saved(w) \in [Job -> JobRecord] BY SavedType
  <2>3. Rest(w) \in WorkRecord BY <1>w, IdleWorkType DEF Rest, WorkRecord
  <2>4. CASE /\ work' = [work EXCEPT ![w] = Rest(w)]
             /\ jobs' = IF jobs[work[w].job].holder = w THEN [jobs EXCEPT ![work[w].job] = FreeJob]
                        ELSE Saved(w)
    BY <1>10, <2>2, <2>3, <2>4, FreeJobType DEF StateOK, RetrySave
  <2>5. CASE /\ work' = [work EXCEPT ![w] = [@ EXCEPT !.pc = "delay", !.aids = work[w].keep,
                                                     !.lease = work[w].next]]
             /\ jobs' = Saved(w)
    <3>1. [work[w] EXCEPT !.pc = "delay", !.aids = work[w].keep, !.lease = work[w].next]
             \in WorkRecord
      BY <1>w DEF WorkRecord
    <3> QED BY <1>10, <2>2, <2>5, <3>1, WorkUpdate DEF StateOK, RetrySave
  <2> QED BY <1>10, <2>1, <2>4, <2>5 DEF RetrySave
<1>11. CASE RetryDelay(w)
  BY <1>11, DelayTypes DEF StateOK, RetryDelay
<1>12. CASE WorkApiError(w)
  BY <1>12, <1>w, RetryTypes DEF StateOK, WorkApiError, WorkRecord
<1>13. CASE WorkThrows(w)
  BY <1>13, <1>w, RetryTypes DEF StateOK, WorkThrows, WorkRecord
<1>14. CASE RetryRenewFails(w)
  <2>1. CASE Fail(w, jobs) BY <1>14, <2>1, FailTypes DEF StateOK, RetryRenewFails
  <2>2. CASE Retry(w, work[w].aids, "error") /\ UNCHANGED jobs
    BY <1>14, <1>w, <2>2, RetryTypes DEF StateOK, RetryRenewFails, WorkRecord
  <2> QED BY <1>14, <2>1, <2>2 DEF RetryRenewFails
<1>15. CASE WorkNoteFails(w)
  BY <1>15, FailTypes DEF StateOK, WorkNoteFails
<1>18. CASE RetrySaveFails(w)
  <2>1. PICK stored \in {jobs, Saved(w)} :
          \/ Retry(w, work[w].aids, "error") /\ jobs' = stored
          \/ Fail(w, stored)
    BY <1>18 DEF RetrySaveFails
  <2>2. stored \in [Job -> JobRecord] BY <2>1, SavedType DEF StateOK
  <2>3. CASE Fail(w, stored) BY <1>18, <2>2, <2>3, FailTypes DEF StateOK, RetrySaveFails
  <2>4. CASE Retry(w, work[w].aids, "error") /\ jobs' = stored
    BY <1>18, <1>w, <2>2, <2>4, RetryTypes DEF StateOK, RetrySaveFails, WorkRecord
  <2> QED BY <2>1, <2>3, <2>4
<1>19. CASE RetryDelayFails(w)
  <2>1. CASE Delay(w) BY <1>19, <2>1, DelayTypes DEF StateOK, RetryDelayFails
  <2>2. CASE Fail(w, jobs) BY <1>19, <2>2, FailTypes DEF StateOK, RetryDelayFails
  <2> QED BY <1>19, <2>1, <2>2 DEF RetryDelayFails
<1>16. CASE Deadline(w)
  <2> DEFINE inFlight == work[w].pc = "commit"
             bg == IF inFlight THEN work[w].got ELSE {}
             bgLease == IF inFlight /\ work[w].got # {} THEN work[w].lease ELSE NoLease
  <2>1. bg \in SUBSET Video /\ bgLease \in Lease \cup {NoLease} BY <1>w DEF WorkRecord
  <2>2. work' = [work EXCEPT ![w] =
                   [IdleWork EXCEPT !.pc = "retry", !.job = work[w].job, !.aids = work[w].aids,
                                    !.lease = work[w].lease, !.keep = work[w].aids,
                                    !.why = "deadline", !.bg = bg, !.bgLease = bgLease]]
    BY <1>16 DEF Deadline
  <2> HIDE DEF bg, bgLease
  <2>3. [IdleWork EXCEPT !.pc = "retry", !.job = work[w].job, !.aids = work[w].aids,
                         !.lease = work[w].lease, !.keep = work[w].aids,
                         !.why = "deadline", !.bg = bg, !.bgLease = bgLease] \in WorkRecord
    BY <1>w, <2>1, IdleWorkType DEF WorkRecord
  <2> QED BY <1>16, <2>2, <2>3, WorkUpdate DEF StateOK, Deadline
<1>17. CASE LateCommit(w)
  <2>1. tracking' \in [Video -> Row] BY <1>17, SettleType DEF StateOK, LateCommit
  <2>2. [work[w] EXCEPT !.bg = {}, !.bgLease = NoLease] \in WorkRecord
    BY <1>w DEF WorkRecord
  <2> QED BY <1>17, <2>1, <2>2, WorkUpdate DEF StateOK, LateCommit
<1> QED
  BY <1>1, <1>2, <1>3, <1>4, <1>5, <1>6, <1>7, <1>8, <1>9, <1>10, <1>11, <1>12, <1>13, <1>14,
     <1>15, <1>16, <1>17, <1>18, <1>19
  DEF WorkStep, WorkFault

LEMMA StepTypes == ASSUME StateOK, Step PROVE StateOK'
BY DispatcherTypes, ManualTypes, CommandTypes, QueueTypes, WorkTypes, TimeTypes DEF Step

\* Every step uses up at most one of each bound.
CountersOK == faults \in 0..MaxFaults /\ requests \in 0..MaxRequests /\ commands \in 0..MaxCommands

CountersStep ==
    /\ Fault \/ NoFault
    /\ requests' = requests \/ (requests < MaxRequests /\ requests' = requests + 1)
    /\ commands' = commands \/ (commands < MaxCommands /\ commands' = commands + 1)

LEMMA StepCounts == ASSUME Step PROVE CountersStep
<1>1. CASE Dispatcher
  BY <1>1, Zenon DEF Dispatcher, DispStep, DispCount, DispScan, DispEvict, DispEvictFails, DispUnlease,
     DispFind, DispLease, DispAdd, DispAddFails, DispRelease, DispReleaseFails, CountersStep
<1>2. CASE Manual
  BY <1>2, Zenon DEF Manual, ManualStep, ManualBegin, ManualCreate, ManualRelease, ManualUpdate,
     ManualLease, ManualAdd, ManualAddFails, ManualUndo, CountersStep
<1>3. CASE Command
  BY <1>3, Zenon DEF Command, VideoCommand, JobCommand, Promote, Untrack, Register, Discover,
     Archive, RefreshMetadata, RemoveJob, RetryJob, CountersStep
<1>4. CASE Queue
  BY <1>4, Zenon DEF Queue, JobReady, JobStalled, JobForgotten, LockLost, Crash, CountersStep
<1>5. CASE Work
  <2> PICK w \in Worker :
        \/ \E j \in Job : WorkStart(w, j)
        \/ WorkStep(w) \/ WorkFault(w) \/ LateCommit(w)
    BY <1>5 DEF Work
  <2>1. CASE \E j \in Job : WorkStart(w, j)
    BY <2>1, Zenon DEF WorkStart, CountersStep
  <2>2. CASE WorkStep(w)
    BY <2>2, Zenon DEF WorkStep, WorkFilter, WorkFetch, WorkCommit, WorkPending, WorkProbe,
       WorkProbed, RetryRead, RetryRenew, RetrySave, RetryDelay, CountersStep
  <2>3. CASE WorkFault(w)
    BY <2>3, Zenon DEF WorkFault, WorkNoteFails, WorkApiError, WorkThrows, RetryRenewFails,
       RetrySaveFails, RetryDelayFails, Deadline, CountersStep
  <2>4. CASE LateCommit(w)
    BY <2>4, Zenon DEF LateCommit, CountersStep
  <2> QED BY <2>1, <2>2, <2>3, <2>4
<1>6. CASE Time
  BY <1>6, Zenon DEF Time, BecomesDue, BecomesEligible, LeaseExpires, CountersStep
<1> QED BY <1>1, <1>2, <1>3, <1>4, <1>5, <1>6 DEF Step

LEMMA StepCounters == ASSUME CountersOK, Step PROVE CountersOK'
BY StepCounts, BoundAssumption DEF CountersOK, CountersStep, Fault, NoFault

\* The history names videos.
LEMMA HistoryTypes ==
    ASSUME StateOK', lost \in [Worker -> SUBSET Video], KeepHistory
    PROVE  lost' \in [Worker -> SUBSET Video]
<1>1. \A w \in Worker : work'[w].got \in SUBSET Video /\ work'[w].bg \in SUBSET Video
  BY DEF StateOK, WorkRecord
<1>2. \A w \in Worker : ResultsOf(w)' \in SUBSET Video
  BY <1>1 DEF ResultsOf
<1> QED BY <1>2 DEF KeepHistory

LEMMA TypeParts == TypeOK <=> StateOK /\ CountersOK /\ lost \in [Worker -> SUBSET Video]
BY DEF TypeOK, StateOK, CountersOK

LEMMA InitTypes == Init => TypeOK
<1> SUFFICES ASSUME Init PROVE TypeOK OBVIOUS
<1>1. Untracked \in Row /\ NewRow(2) \in Row
  BY UntrackedType, PriorityAssumption DEF NewRow, Row
<1>2. StateOK
  BY <1>1, FreeJobType, IdleWorkType, IdleDispType, IdleManualType DEF Init, StateOK
<1> QED BY <1>2, BoundAssumption, TypeParts DEF Init, CountersOK

LEMMA NextTypes == TypeOK /\ [Next]_vars => TypeOK'
<1> SUFFICES ASSUME TypeOK, [Next]_vars PROVE TypeOK' OBVIOUS
<1>1. CASE Next
  <2>1. StateOK' /\ CountersOK' BY <1>1, StepTypes, StepCounters, TypeParts DEF Next
  <2>2. (lost \in [Worker -> SUBSET Video])'
    BY <1>1, <2>1, HistoryTypes, TypeParts DEF Next
  <2> QED BY <2>1, <2>2 DEF TypeOK, StateOK, CountersOK
<1>2. CASE UNCHANGED vars
  BY <1>2 DEF vars, TypeOK
<1> QED BY <1>1, <1>2

\* Type correctness.  In particular no job is ever queued at a priority that no row can have, the
\* dispatcher's capacity never turns negative, and no local ever holds an unknown video or lease.
THEOREM TypeCorrect == Spec => []TypeOK
BY InitTypes, NextTypes, PTL DEF Spec

-----------------------------------------------------------------------------
(* No two queued jobs carry one video.  Most steps leave the leases that    *)
(* matter alone: jobs keep theirs or leave the queue, and whoever holds a   *)
(* lease that is not queued yet held it before.                             *)

CarrierParts == ChunksDisjoint /\ ClaimUnqueued /\ RequestUnqueued /\ RenewalUnqueued

JobsKept ==
    \A j \in Job : \/ jobs'[j].lease = NoLease
                   \/ jobs'[j].lease = jobs[j].lease /\ jobs'[j].aids \subseteq jobs[j].aids

DispKept ==
    disp'.pc = "add" => /\ disp.pc = "add" /\ disp'.lease = disp.lease
                        /\ disp'.left \subseteq disp.left

ManualKept == manual'.pc = "add" => manual.pc = "add" /\ manual'.lease = manual.lease

WorkKept ==
    \A w \in Worker : work'[w].pc = "save" => work[w].pc = "save" /\ work'[w].next = work[w].next

LEMMA KeptCarriers ==
    ASSUME CarrierParts, JobsKept, DispKept, ManualKept, WorkKept
    PROVE  CarrierParts'
<1>1. ChunksDisjoint'
  BY NoLeaseAssumption DEF CarrierParts, JobsKept, ChunksDisjoint
<1>2. ClaimUnqueued'
  BY NoLeaseAssumption DEF CarrierParts, JobsKept, DispKept, ClaimUnqueued
<1>3. RequestUnqueued'
  BY NoLeaseAssumption
  DEF CarrierParts, JobsKept, DispKept, ManualKept, WorkKept, RequestUnqueued
<1>4. RenewalUnqueued'
  BY NoLeaseAssumption
  DEF CarrierParts, JobsKept, DispKept, WorkKept, RenewalUnqueued
<1> QED BY <1>1, <1>2, <1>3, <1>4 DEF CarrierParts

\* A lease that is mentioned nowhere differs from every lease a job or an actor holds.
LEMMA InUse ==
    /\ \A v \in Video : tracking[v].lease \in LeasesInUse
    /\ \A j \in Job : jobs[j].lease \in LeasesInUse
    /\ \A w \in Worker : /\ work[w].lease \in LeasesInUse
                         /\ work[w].next \in LeasesInUse
                         /\ work[w].bgLease \in LeasesInUse
    /\ disp.lease \in LeasesInUse /\ manual.lease \in LeasesInUse
<1>1. \A v \in Video : tracking[v].lease \in LeasesInUse BY Zenon DEF LeasesInUse
<1>2. \A j \in Job : jobs[j].lease \in LeasesInUse BY Zenon DEF LeasesInUse
<1>3. disp.lease \in LeasesInUse /\ manual.lease \in LeasesInUse BY Zenon DEF LeasesInUse
<1>4. ASSUME NEW w \in Worker
      PROVE  {work[w].lease, work[w].next, work[w].bgLease} \subseteq LeasesInUse
  <2> DEFINE held == {{work[u].lease, work[u].next, work[u].bgLease} : u \in Worker}
  <2>1. UNION held \subseteq LeasesInUse BY Zenon DEF LeasesInUse
  <2>2. {work[w].lease, work[w].next, work[w].bgLease} \in held OBVIOUS
  <2> HIDE DEF held
  <2> QED BY <2>1, <2>2
<1> QED BY <1>1, <1>2, <1>3, <1>4

LEMMA IdleFields ==
    /\ FreeJob.lease = NoLease /\ FreeJob.aids = {} /\ FreeJob.status = "free"
    /\ FreeJob.holder = NoWorker
    /\ IdleDisp.pc = "idle" /\ IdleManual.pc = "idle" /\ IdleManual.lease = NoLease
    /\ IdleWork.pc = "idle" /\ IdleWork.got = {} /\ IdleWork.bg = {}
    /\ IdleWork.bgLease = NoLease
BY DEF FreeJob, IdleDisp, IdleManual, IdleWork

LEMMA DispatcherCarriers == ASSUME StateOK, CarrierParts, Dispatcher PROVE CarrierParts'
<1> USE DEF StateOK
<1>m. ManualKept /\ WorkKept
  BY Zenon DEF Dispatcher, DispStep, DispCount, DispScan, DispEvict, DispEvictFails, DispUnlease,
     DispFind, DispLease, DispAdd, DispAddFails, DispRelease, DispReleaseFails, ManualKept, WorkKept
<1>1. CASE DispCount
  BY <1>1, <1>m, IdleDispType, KeptCarriers DEF DispCount, JobsKept, DispKept, DispRecord
<1>2. CASE DispScan
  <2>1. disp'.pc # "add" BY <1>2, IdleDispType, IdleFields DEF DispScan, DispRecord
  <2> QED BY <1>2, <1>m, <2>1, KeptCarriers DEF DispScan, JobsKept, DispKept
<1>3. CASE DispEvict
  <2>1. disp'.pc # "add" BY <1>3, IdleDispType, IdleFields DEF DispEvict, DispRecord
  <2>2. JobsKept BY <1>3, IdleFields DEF DispEvict, JobsKept, DispRecord, ScannedJob
  <2> QED BY <1>m, <2>1, <2>2, KeptCarriers DEF DispKept
<1>4. CASE DispEvictFails
  <2>1. disp'.pc # "add" BY <1>4, IdleFields DEF DispEvictFails
  <2>2. JobsKept BY <1>4, IdleFields DEF DispEvictFails, JobsKept
  <2> QED BY <1>m, <2>1, <2>2, KeptCarriers DEF DispKept
<1>5. CASE DispUnlease
  <2>1. disp'.pc # "add" BY <1>5, IdleDispType DEF DispUnlease, DispRecord
  <2> QED BY <1>5, <1>m, <2>1, KeptCarriers DEF DispUnlease, JobsKept, DispKept
<1>6. CASE DispFind
  <2>1. disp'.pc # "add" BY <1>6, IdleFields DEF DispFind, DispRecord
  <2> QED BY <1>6, <1>m, <2>1, KeptCarriers DEF DispFind, JobsKept, DispKept
<1>7. CASE DispLease
  <2>1. CASE disp' = IdleDisp
    BY <1>7, <1>m, <2>1, IdleFields, KeptCarriers DEF DispLease, JobsKept, DispKept
  <2>2. CASE disp'.pc = "add" /\ disp'.lease = FreshLease
    <3>1. FreshLease \in Lease /\ FreshLease \notin LeasesInUse BY <1>7, FreshFacts DEF DispLease
    <3>2. UNCHANGED <<jobs, work, manual>> BY <1>7 DEF DispLease
    <3>3. ChunksDisjoint' BY <3>2 DEF CarrierParts, ChunksDisjoint
    <3>4. ClaimUnqueued' BY <2>2, <3>1, <3>2, InUse DEF ClaimUnqueued
    <3>5. RequestUnqueued' BY <2>2, <3>1, <3>2, InUse DEF CarrierParts, RequestUnqueued
    <3>6. RenewalUnqueued' BY <2>2, <3>1, <3>2, InUse DEF CarrierParts, RenewalUnqueued
    <3> QED BY <3>3, <3>4, <3>5, <3>6 DEF CarrierParts
  <2> QED BY <1>7, <2>1, <2>2 DEF DispLease, DispRecord
\* A chunk of the claim enters the queue: its videos leave what is still to be queued.
<1>8. ASSUME disp.pc = "add", NEW chunk \in NextChunks, NEW j \in Job, NEW p,
             jobs' = [jobs EXCEPT ![j] = NewJob(chunk, disp.lease, p)],
             \/ disp'.pc # "add"
             \/ disp'.lease = disp.lease /\ disp'.left = disp.left \ chunk,
             UNCHANGED <<work, manual>>
      PROVE  CarrierParts'
  <2>1. /\ jobs'[j].aids = chunk /\ jobs'[j].lease = disp.lease
        /\ \A k \in Job \ {j} : jobs'[k] = jobs[k]
    BY <1>8 DEF NewJob
  <2>2. chunk \subseteq disp.left BY <1>8 DEF NextChunks
  <2>3. ChunksDisjoint' BY <1>8, <2>1, <2>2 DEF CarrierParts, ChunksDisjoint, ClaimUnqueued
  <2>4. ClaimUnqueued' BY <1>8, <2>1, <2>2 DEF CarrierParts, ClaimUnqueued
  <2>5. RequestUnqueued' BY <1>8, <2>1 DEF CarrierParts, RequestUnqueued
  <2>6. RenewalUnqueued' BY <1>8, <2>1 DEF CarrierParts, RenewalUnqueued
  <2> QED BY <2>3, <2>4, <2>5, <2>6 DEF CarrierParts
<1>9. CASE DispAdd
  <2>1. PICK chunk \in NextChunks, j \in FreeJobs, v \in disp.left :
          /\ jobs' = [jobs EXCEPT ![j] = NewJob(chunk, disp.lease, disp.rank[v])]
          /\ disp' = [disp EXCEPT !.room = @ - 1, !.left = @ \ chunk]
    BY <1>9 DEF DispAdd
  <2>2. disp'.lease = disp.lease /\ disp'.left = disp.left \ chunk BY <2>1 DEF DispRecord
  <2> QED BY <1>8, <1>9, <2>1, <2>2 DEF DispAdd, FreeJobs
<1>10. CASE DispAddFails
  <2>1. disp'.pc # "add" BY <1>10 DEF DispAddFails, DispRecord
  <2>2. CASE jobs' = jobs
    BY <1>m, <2>1, <2>2, KeptCarriers DEF JobsKept, DispKept
  <2>3. CASE jobs' # jobs
    BY <1>8, <1>10, <2>1, <2>3 DEF DispAddFails, FreeJobs
  <2> QED BY <2>2, <2>3
<1>11. CASE DispRelease
  <2>1. disp'.pc # "add" BY <1>11, IdleFields DEF DispRelease
  <2> QED BY <1>11, <1>m, <2>1, KeptCarriers DEF DispRelease, JobsKept, DispKept
<1>12. CASE DispReleaseFails
  <2>1. disp'.pc # "add" BY <1>12, IdleFields DEF DispReleaseFails, DispRecord
  <2> QED BY <1>12, <1>m, <2>1, KeptCarriers DEF DispReleaseFails, JobsKept, DispKept
<1> QED
  BY <1>1, <1>2, <1>3, <1>4, <1>5, <1>6, <1>7, <1>9, <1>10, <1>11, <1>12
  DEF Dispatcher, DispStep

LEMMA ManualCarriers == ASSUME StateOK, CarrierParts, Manual PROVE CarrierParts'
<1> USE DEF StateOK
<1>k. DispKept /\ WorkKept
  BY Zenon DEF Manual, ManualStep, ManualBegin, ManualCreate, ManualRelease, ManualUpdate,
     ManualLease, ManualAdd, ManualAddFails, ManualUndo, DispKept, WorkKept
<1>1. CASE ManualBegin \/ ManualCreate \/ ManualRelease \/ ManualUpdate \/ ManualUndo
  <2>1. manual'.pc # "add"
    <3>1. CASE ManualBegin BY <3>1, IdleManualType DEF ManualBegin, ManualRecord
    <3>2. CASE ManualCreate BY <3>2 DEF ManualCreate, ManualRecord
    <3>3. CASE ManualRelease BY <3>3 DEF ManualRelease, ManualRecord
    <3>4. CASE ManualUpdate BY <3>4 DEF ManualUpdate, ManualRecord
    <3>5. CASE ManualUndo BY <3>5, IdleFields DEF ManualUndo
    <3> QED BY <1>1, <3>1, <3>2, <3>3, <3>4, <3>5
  <2>2. UNCHANGED jobs
    BY <1>1 DEF ManualBegin, ManualCreate, ManualRelease, ManualUpdate, ManualUndo
  <2> QED BY <1>k, <2>1, <2>2, KeptCarriers DEF JobsKept, ManualKept
<1>2. CASE ManualLease
  <2>1. CASE manual' = IdleManual
    BY <1>2, <1>k, <2>1, IdleFields, KeptCarriers DEF ManualLease, JobsKept, ManualKept
  <2>2. CASE manual'.pc = "add" /\ manual'.lease = FreshLease
    <3>1. FreshLease \in Lease /\ FreshLease \notin LeasesInUse BY <1>2, FreshFacts DEF ManualLease
    <3>2. UNCHANGED <<jobs, work, disp>> BY <1>2 DEF ManualLease
    <3>3. ChunksDisjoint' BY <3>2 DEF CarrierParts, ChunksDisjoint
    <3>4. ClaimUnqueued' BY <3>2 DEF CarrierParts, ClaimUnqueued
    <3>5. RequestUnqueued' BY <2>2, <3>1, <3>2, InUse DEF RequestUnqueued
    <3>6. RenewalUnqueued' BY <3>2 DEF CarrierParts, RenewalUnqueued
    <3> QED BY <3>3, <3>4, <3>5, <3>6 DEF CarrierParts
  <2> QED BY <1>2, <2>1, <2>2 DEF ManualLease, ManualRecord
\* The requested video enters the queue under a lease no other job has.
<1>3. ASSUME manual.pc = "add", NEW j \in Job,
             jobs' = [jobs EXCEPT ![j] = NewJob(manual.aid, manual.lease, 1)],
             manual'.pc # "add", UNCHANGED <<work, disp>>
      PROVE  CarrierParts'
  <2>1. jobs'[j].lease = manual.lease /\ \A k \in Job \ {j} : jobs'[k] = jobs[k]
    BY <1>3 DEF NewJob
  <2>2. ChunksDisjoint' BY <1>3, <2>1 DEF CarrierParts, ChunksDisjoint, RequestUnqueued
  <2>3. ClaimUnqueued' BY <1>3, <2>1 DEF CarrierParts, ClaimUnqueued, RequestUnqueued
  <2>4. RequestUnqueued' BY <1>3 DEF RequestUnqueued
  <2>5. RenewalUnqueued' BY <1>3, <2>1 DEF CarrierParts, RenewalUnqueued, RequestUnqueued
  <2> QED BY <2>2, <2>3, <2>4, <2>5 DEF CarrierParts
<1>4. CASE ManualAdd
  BY <1>3, <1>4, IdleFields DEF ManualAdd, FreeJobs
<1>5. CASE ManualAddFails
  <2>1. manual'.pc # "add" BY <1>5 DEF ManualAddFails, ManualRecord
  <2>2. CASE jobs' = jobs
    BY <1>k, <2>1, <2>2, KeptCarriers DEF JobsKept, ManualKept
  <2>3. CASE jobs' # jobs
    BY <1>3, <1>5, <2>1, <2>3 DEF ManualAddFails, FreeJobs
  <2> QED BY <2>2, <2>3
<1> QED BY <1>1, <1>2, <1>4, <1>5 DEF Manual, ManualStep

LEMMA OtherCarriers == ASSUME StateOK, CarrierParts, Command \/ Time \/ Queue PROVE CarrierParts'
<1> USE DEF StateOK
<1>1. CASE VideoCommand \/ Time
  <2>1. UNCHANGED <<jobs, work, disp, manual>>
    BY <1>1, Zenon DEF VideoCommand, Promote, Untrack, Register, Discover, Archive,
       RefreshMetadata, Time, BecomesDue, BecomesEligible, LeaseExpires
  <2> QED BY <2>1, KeptCarriers DEF JobsKept, DispKept, ManualKept, WorkKept
<1>3. CASE JobCommand
  <2> PICK j \in Job : RemoveJob(j) \/ RetryJob(j) BY <1>3 DEF JobCommand
  <2>1. JobsKept BY IdleFields DEF RemoveJob, RetryJob, JobRecord, JobsKept
  <2>2. UNCHANGED <<work, disp, manual>> BY DEF RemoveJob, RetryJob
  <2> QED BY <2>1, <2>2, KeptCarriers DEF DispKept, ManualKept, WorkKept
<1>2. CASE Queue
  <2>1. JobsKept
    <3>1. ASSUME NEW j \in Job, JobReady(j) PROVE JobsKept
      BY <3>1 DEF JobReady, JobRecord, JobsKept
    <3>2. ASSUME NEW j \in Job, JobStalled(j) PROVE JobsKept
      BY <3>2 DEF JobStalled, JobRecord, JobsKept
    <3>3. ASSUME NEW j \in Job, LockLost(j) PROVE JobsKept
      BY <3>3 DEF LockLost, JobRecord, JobsKept
    <3>4. CASE Crash
      BY <3>4 DEF Crash, JobRecord, JobsKept
    <3>5. ASSUME NEW j \in Job, JobForgotten(j) PROVE JobsKept
      BY <3>5, IdleFields DEF JobForgotten, JobsKept
    <3> QED BY <1>2, <3>1, <3>2, <3>3, <3>4, <3>5 DEF Queue
  <2>2. \/ UNCHANGED <<work, disp, manual>>
        \/ /\ work' = [w \in Worker |-> IdleWork]
           /\ disp' = IdleDisp /\ manual' = IdleManual
    BY <1>2, Zenon DEF Queue, JobReady, JobStalled, JobForgotten, LockLost, Crash
  <2> QED BY <2>1, <2>2, IdleFields, KeptCarriers DEF DispKept, ManualKept, WorkKept
<1> QED BY <1>1, <1>2, <1>3 DEF Command

\* What Finish and Retry do to the leases.
LEMMA FinishFields ==
    ASSUME StateOK, NEW w \in Worker, Finish(w)
    PROVE  /\ JobsKept
           /\ work'[w].pc = "idle" /\ work'[w].got = {}
           /\ work'[w].bg = work[w].bg /\ work'[w].bgLease = work[w].bgLease
           /\ \A u \in Worker \ {w} : work'[u] = work[u]
<1>1. JobsKept BY IdleFields DEF StateOK, Finish, JobsKept
<1>2. Rest(w).pc = "idle" /\ Rest(w).got = {} /\ Rest(w).bg = work[w].bg
        /\ Rest(w).bgLease = work[w].bgLease
  BY DEF Rest, IdleWork
<1> QED BY <1>1, <1>2 DEF StateOK, Finish

\* What a failure leaves of the jobs it finds.
LEMMA FailFields ==
    ASSUME StateOK, NEW w \in Worker, NEW stored \in [Job -> JobRecord], Fail(w, stored)
    PROVE  /\ \A k \in Job :
                /\ jobs'[k].aids = stored[k].aids /\ jobs'[k].lease = stored[k].lease
                /\ \/ jobs'[k] = stored[k]
                   \/ /\ k = work[w].job /\ stored[k].holder = w
                      /\ jobs'[k].status = "failed" /\ jobs'[k].holder = NoWorker
           /\ work'[w].pc = "idle" /\ work'[w].got = {}
           /\ work'[w].bg = work[w].bg /\ work'[w].bgLease = work[w].bgLease
           /\ \A u \in Worker \ {w} : work'[u] = work[u]
<1>1. \A k \in Job : /\ jobs'[k].aids = stored[k].aids /\ jobs'[k].lease = stored[k].lease
                     /\ \/ jobs'[k] = stored[k]
                        \/ /\ k = work[w].job /\ stored[k].holder = w
                           /\ jobs'[k].status = "failed" /\ jobs'[k].holder = NoWorker
  BY DEF Fail, JobRecord
<1>2. Rest(w).pc = "idle" /\ Rest(w).got = {} /\ Rest(w).bg = work[w].bg
        /\ Rest(w).bgLease = work[w].bgLease
  BY DEF Rest, IdleWork
<1> QED BY <1>1, <1>2 DEF StateOK, Fail

\* What storing a renewed lease changes of the jobs.
LEMMA SavedFields ==
    ASSUME StateOK, NEW w \in Worker
    PROVE  \A k \in Job : LET kept == Saved(w)[k]
                          IN /\ kept.status = jobs[k].status /\ kept.holder = jobs[k].holder
                             /\ \/ kept = jobs[k]
                                \/ /\ k = work[w].job /\ jobs[k].status # "free"
                                   /\ kept.aids = work[w].keep /\ kept.lease = work[w].next
BY DEF StateOK, Saved, JobRecord

\* What moveToDelayed changes of the jobs.
LEMMA DelayFields ==
    ASSUME StateOK, NEW w \in Worker, Delay(w)
    PROVE  /\ \A k \in Job :
                /\ jobs'[k].aids = jobs[k].aids /\ jobs'[k].lease = jobs[k].lease
                /\ \/ jobs'[k] = jobs[k]
                   \/ /\ k = work[w].job /\ jobs[k].holder = w
                      /\ jobs'[k].status = "delayed" /\ jobs'[k].holder = NoWorker
           /\ work'[w].pc = "idle" /\ work'[w].got = {}
           /\ work'[w].bg = work[w].bg /\ work'[w].bgLease = work[w].bgLease
           /\ \A u \in Worker \ {w} : work'[u] = work[u]
<1>1. \A k \in Job : /\ jobs'[k].aids = jobs[k].aids /\ jobs'[k].lease = jobs[k].lease
                     /\ \/ jobs'[k] = jobs[k]
                        \/ /\ k = work[w].job /\ jobs[k].holder = w
                           /\ jobs'[k].status = "delayed" /\ jobs'[k].holder = NoWorker
  BY DEF StateOK, Delay, JobRecord
<1>2. Rest(w).pc = "idle" /\ Rest(w).got = {} /\ Rest(w).bg = work[w].bg
        /\ Rest(w).bgLease = work[w].bgLease
  BY DEF Rest, IdleWork
<1> QED BY <1>1, <1>2 DEF StateOK, Delay

LEMMA RetryFields ==
    ASSUME StateOK, NEW w \in Worker, NEW aids, NEW why, Retry(w, aids, why)
    PROVE  /\ work'[w].pc = "retry" /\ work'[w].lease = work[w].lease
           /\ work'[w].bg = work[w].bg /\ work'[w].bgLease = work[w].bgLease
           /\ \A u \in Worker \ {w} : work'[u] = work[u]
BY DEF StateOK, Retry, WorkRecord

\* A worker step that stores no renewed lease: the slot does not end up about to store one.
LEMMA SlotKept ==
    ASSUME NEW w \in Worker, work'[w].pc # "save", \A u \in Worker \ {w} : work'[u] = work[u]
    PROVE  WorkKept
BY DEF WorkKept

LEMMA WorkCarriers == ASSUME StateOK, CarrierParts, Work PROVE CarrierParts'
<1> USE DEF StateOK
<1>p. PICK w \in Worker :
      \/ \E j \in Job : WorkStart(w, j)
      \/ WorkStep(w) \/ WorkFault(w) \/ LateCommit(w)
  BY DEF Work
<1>w. w \in Worker /\ work[w] \in WorkRecord BY <1>p
<1>d. UNCHANGED <<disp, manual>>
  BY <1>p, Zenon DEF WorkStart, WorkStep, WorkFilter, WorkFetch, WorkCommit, WorkPending, WorkProbe,
     WorkProbed, RetryRead, RetryRenew, RetrySave, RetryDelay, WorkFault, WorkNoteFails,
     WorkApiError, WorkThrows, RetryRenewFails, RetrySaveFails, RetryDelayFails, Deadline, LateCommit
<1>k. DispKept /\ ManualKept BY <1>d DEF DispKept, ManualKept
<1>f. ASSUME Finish(w) PROVE CarrierParts'
  <2>1. work'[w].pc # "save" BY <1>f, FinishFields
  <2> QED BY <1>k, <1>f, <2>1, FinishFields, SlotKept, KeptCarriers
<1>r. ASSUME NEW aids, NEW why, Retry(w, aids, why), UNCHANGED jobs PROVE CarrierParts'
  <2>1. work'[w].pc # "save" BY <1>r, RetryFields
  <2> QED BY <1>k, <1>r, <2>1, RetryFields, SlotKept, KeptCarriers DEF JobsKept
<1>b. ASSUME NEW stored \in [Job -> JobRecord], Fail(w, stored),
             \A k \in Job : stored[k].lease = jobs[k].lease /\ stored[k].aids = jobs[k].aids
      PROVE  CarrierParts'
  <2>1. work'[w].pc # "save" /\ \A u \in Worker \ {w} : work'[u] = work[u]
    BY <1>b, <1>w, FailFields
  <2>2. JobsKept BY <1>b, <1>w, FailFields DEF JobsKept
  <2> QED BY <1>w, <1>k, <2>1, <2>2, SlotKept, KeptCarriers
\* The slot's job takes the renewed lease, which no other job has.
<1>s. ASSUME work[w].pc = "save", work'[w].pc # "save", \A u \in Worker \ {w} : work'[u] = work[u],
             \A k \in Job : \/ jobs'[k].lease = jobs[k].lease /\ jobs'[k].aids = jobs[k].aids
                            \/ k = work[w].job /\ jobs'[k].lease = work[w].next
      PROVE  CarrierParts'
  <2>1. ChunksDisjoint' BY <1>w, <1>s DEF CarrierParts, ChunksDisjoint, RenewalUnqueued
  <2>2. ClaimUnqueued' BY <1>w, <1>d, <1>s DEF CarrierParts, ClaimUnqueued, RenewalUnqueued
  <2>3. RequestUnqueued' BY <1>w, <1>d, <1>s DEF CarrierParts, RequestUnqueued
  <2>4. RenewalUnqueued' BY <1>w, <1>d, <1>s DEF CarrierParts, RenewalUnqueued
  <2> QED BY <2>1, <2>2, <2>3, <2>4 DEF CarrierParts
\* The slot moves on to a step other than storing a lease, and the jobs stay.
<1>q. ASSUME UNCHANGED jobs, work'[w].pc # "save", \A u \in Worker \ {w} : work'[u] = work[u]
      PROVE  CarrierParts'
  BY <1>w, <1>k, <1>q, SlotKept, KeptCarriers DEF JobsKept
<1>1. ASSUME NEW j \in Job, WorkStart(w, j) PROVE CarrierParts'
  <2>1. JobsKept
    <3>1. \/ jobs' = [jobs EXCEPT ![j] = FreeJob]
          \/ jobs' = [jobs EXCEPT ![j] = [jobs[j] EXCEPT !.status = "active", !.holder = w]]
      BY <1>1, Zenon DEF WorkStart
    <3>2. CASE jobs' = [jobs EXCEPT ![j] = FreeJob] BY <3>2, IdleFields DEF JobsKept
    <3>3. CASE jobs' = [jobs EXCEPT ![j] = [jobs[j] EXCEPT !.status = "active", !.holder = w]]
      BY <3>3 DEF JobsKept, JobRecord
    <3> QED BY <3>1, <3>2, <3>3
  <2>2. UNCHANGED work \/ work'[w].pc = "filter"
    <3> DEFINE rec == [IdleWork EXCEPT !.pc = "filter", !.job = j, !.aids = jobs[j].aids,
                                       !.lease = jobs[j].lease]
    <3>1. rec.pc = "filter" BY IdleWorkType DEF WorkRecord
    <3>2. UNCHANGED work \/ work' = [work EXCEPT ![w] = rec] BY <1>1, Zenon DEF WorkStart
    <3> HIDE DEF rec
    <3> QED BY <1>w, <3>1, <3>2
  <2>3. \A u \in Worker \ {w} : work'[u] = work[u] BY <1>1 DEF WorkStart
  <2>4. WorkKept BY <2>2, <2>3 DEF WorkKept
  <2> QED BY <1>k, <2>1, <2>4, KeptCarriers
<1>2. CASE WorkFilter(w)
  <2>1. CASE Finish(w) BY <1>f, <2>1
  <2>2. CASE ~Finish(w)
    <3>1. work'[w].pc # "save" /\ \A u \in Worker \ {w} : work'[u] = work[u]
      BY <1>w, <1>2, <2>2 DEF WorkFilter, WorkRecord
    <3> QED BY <1>2, <1>q, <2>2, <3>1 DEF WorkFilter
  <2> QED BY <2>1, <2>2
<1>3. CASE WorkFetch(w)
  <2>1. work'[w].pc # "save" /\ \A u \in Worker \ {w} : work'[u] = work[u]
    BY <1>w, <1>3 DEF WorkFetch, WorkRecord
  <2> QED BY <1>3, <1>q, <2>1 DEF WorkFetch
<1>4. CASE WorkCommit(w)
  <2>1. CASE Finish(w) BY <1>f, <2>1
  <2>2. CASE ~Finish(w)
    <3>1. work'[w].pc # "save" /\ \A u \in Worker \ {w} : work'[u] = work[u]
      BY <1>w, <1>4, <2>2 DEF WorkCommit, WorkRecord
    <3> QED BY <1>4, <1>q, <2>2, <3>1 DEF WorkCommit
  <2> QED BY <2>1, <2>2
<1>5. CASE WorkPending(w)
  <2>1. work'[w].pc # "save" /\ \A u \in Worker \ {w} : work'[u] = work[u]
    BY <1>w, <1>5 DEF WorkPending, WorkRecord
  <2> QED BY <1>5, <1>q, <2>1 DEF WorkPending
<1>6. CASE WorkProbe(w)
  <2>1. work'[w].pc # "save" /\ \A u \in Worker \ {w} : work'[u] = work[u]
    BY <1>w, <1>6 DEF WorkProbe, WorkRecord
  <2> QED BY <1>6, <1>q, <2>1 DEF WorkProbe
<1>7. CASE WorkProbed(w)
  BY <1>7, <1>f, <1>r DEF WorkProbed
<1>8. CASE RetryRead(w)
  <2>1. work'[w].pc # "save" /\ \A u \in Worker \ {w} : work'[u] = work[u]
    BY <1>w, <1>8 DEF RetryRead, WorkRecord
  <2> QED BY <1>8, <1>q, <2>1 DEF RetryRead
\* The renewed lease is new: no job holds it, and nobody else is about to store it.
<1>9. CASE RetryRenew(w)
  <2>1. FreshLease \in Lease /\ FreshLease \notin LeasesInUse BY <1>9, FreshFacts DEF RetryRenew
  <2>2. UNCHANGED <<jobs, disp, manual>> BY <1>9 DEF RetryRenew
  <2>3. work'[w].next = FreshLease /\ \A u \in Worker \ {w} : work'[u] = work[u]
    BY <1>w, <1>9 DEF RetryRenew, WorkRecord
  <2>4. ChunksDisjoint' BY <2>2 DEF CarrierParts, ChunksDisjoint
  <2>5. ClaimUnqueued' BY <2>2 DEF CarrierParts, ClaimUnqueued
  <2>6. RequestUnqueued' BY <2>1, <2>2, <2>3, InUse DEF CarrierParts, RequestUnqueued
  <2>7. RenewalUnqueued' BY <2>1, <2>2, <2>3, InUse DEF CarrierParts, RenewalUnqueued
  <2> QED BY <2>4, <2>5, <2>6, <2>7 DEF CarrierParts
<1>10. CASE RetrySave(w)
  <2>1. work'[w].pc # "save" /\ \A u \in Worker \ {w} : work'[u] = work[u]
    <3>1. Rest(w).pc = "idle" BY DEF Rest, IdleWork
    <3>2. CASE Finish(w) BY <1>w, <3>2, FinishFields
    <3>3. CASE work' = [work EXCEPT ![w] = Rest(w)] BY <1>w, <3>1, <3>3
    <3>4. CASE work' = [work EXCEPT ![w] = [@ EXCEPT !.pc = "delay", !.aids = work[w].keep,
                                                     !.lease = work[w].next]]
      BY <1>w, <3>4 DEF WorkRecord
    <3> QED BY <1>10, <3>2, <3>3, <3>4, Zenon DEF RetrySave
  <2>2. Finish(w) \/ jobs' = [jobs EXCEPT ![work[w].job] = FreeJob] \/ jobs' = Saved(w)
    BY <1>10 DEF RetrySave
  <2>3. CASE Finish(w) BY <1>f, <2>3
  <2>4. CASE jobs' = [jobs EXCEPT ![work[w].job] = FreeJob]
    <3>1. JobsKept BY <2>4, IdleFields DEF JobsKept
    <3> QED BY <1>w, <1>k, <2>1, <3>1, SlotKept, KeptCarriers
  <2>5. CASE jobs' = Saved(w)
    <3>1. work[w].pc = "save" BY <1>10 DEF RetrySave
    <3> QED BY <1>s, <1>w, <2>1, <2>5, <3>1, SavedFields
  <2> QED BY <2>2, <2>3, <2>4, <2>5
<1>11. ASSUME Delay(w) PROVE CarrierParts'
  <2>1. work'[w].pc # "save" /\ \A u \in Worker \ {w} : work'[u] = work[u]
    BY <1>w, <1>11, DelayFields
  <2>2. JobsKept BY <1>w, <1>11, DelayFields DEF JobsKept
  <2> QED BY <1>w, <1>k, <2>1, <2>2, SlotKept, KeptCarriers
<1>12. CASE WorkApiError(w) BY <1>12, <1>r DEF WorkApiError
<1>13. CASE WorkThrows(w) BY <1>13, <1>r DEF WorkThrows
<1>14. CASE RetryRenewFails(w) \/ WorkNoteFails(w)
  BY <1>14, <1>b, <1>r DEF RetryRenewFails, WorkNoteFails
<1>15. CASE RetrySaveFails(w)
  <2>1. PICK stored \in {jobs, Saved(w)} :
          \/ Retry(w, work[w].aids, "error") /\ jobs' = stored
          \/ Fail(w, stored)
    BY <1>15 DEF RetrySaveFails
  <2>2. work[w].pc = "save" BY <1>15 DEF RetrySaveFails
  <2>3. \A k \in Job : \/ stored[k].lease = jobs[k].lease /\ stored[k].aids = jobs[k].aids
                       \/ k = work[w].job /\ stored[k].lease = work[w].next
    BY <1>w, <2>1, SavedFields
  <2>4. CASE Retry(w, work[w].aids, "error") /\ jobs' = stored
    <3>1. work'[w].pc # "save" /\ \A u \in Worker \ {w} : work'[u] = work[u]
      BY <1>w, <2>4, RetryFields
    <3> QED BY <1>s, <2>2, <2>3, <2>4, <3>1
  <2>5. CASE Fail(w, stored)
    <3>1. stored \in [Job -> JobRecord] BY <1>w, <2>1, SavedType
    <3>2. work'[w].pc # "save" /\ \A u \in Worker \ {w} : work'[u] = work[u]
      BY <1>w, <2>5, <3>1, FailFields
    <3>3. \A k \in Job : \/ jobs'[k].lease = jobs[k].lease /\ jobs'[k].aids = jobs[k].aids
                         \/ k = work[w].job /\ jobs'[k].lease = work[w].next
      BY <1>w, <2>3, <2>5, <3>1, FailFields
    <3> QED BY <1>s, <2>2, <3>2, <3>3
  <2> QED BY <2>1, <2>4, <2>5
<1>18. CASE RetryDelay(w) \/ RetryDelayFails(w)
  BY <1>18, <1>11, <1>b DEF RetryDelay, RetryDelayFails
<1>16. CASE Deadline(w)
  <2>1. work'[w].pc # "save" /\ \A u \in Worker \ {w} : work'[u] = work[u]
    BY <1>16, IdleWorkType DEF Deadline, WorkRecord
  <2> QED BY <1>16, <1>q, <2>1 DEF Deadline
<1>17. CASE LateCommit(w)
  <2>1. work'[w].pc = work[w].pc /\ work'[w].next = work[w].next
        /\ \A u \in Worker \ {w} : work'[u] = work[u]
    BY <1>w, <1>17 DEF LateCommit, WorkRecord
  <2>2. WorkKept BY <2>1 DEF WorkKept
  <2> QED BY <1>k, <1>17, <2>2, KeptCarriers DEF LateCommit, JobsKept
<1> QED
  BY <1>p, <1>1, <1>2, <1>3, <1>4, <1>5, <1>6, <1>7, <1>8, <1>9, <1>10, <1>12, <1>13, <1>14,
     <1>15, <1>16, <1>17, <1>18
  DEF WorkStep, WorkFault

LEMMA CarrierParts0 == Init => CarrierParts
BY NoLeaseAssumption, IdleFields
DEF Init, CarrierParts, ChunksDisjoint, ClaimUnqueued, RequestUnqueued, RenewalUnqueued

LEMMA CarrierInductive == CarrierInv /\ [Next]_vars => CarrierInv'
<1> SUFFICES ASSUME CarrierInv, [Next]_vars PROVE CarrierInv' OBVIOUS
<1>1. TypeOK' BY NextTypes DEF CarrierInv
<1>2. StateOK /\ CarrierParts BY TypeParts DEF CarrierInv, CarrierParts
<1>3. CarrierParts'
  <2>1. CASE Step
    BY <1>2, <2>1, DispatcherCarriers, ManualCarriers, OtherCarriers, WorkCarriers DEF Step
  <2>2. CASE UNCHANGED vars
    BY <1>2, <2>2 DEF vars, CarrierParts, ChunksDisjoint, ClaimUnqueued, RequestUnqueued,
       RenewalUnqueued
  <2> QED BY <2>1, <2>2 DEF Next
<1> QED BY <1>1, <1>3 DEF CarrierInv, CarrierParts

LEMMA CarrierInvSingle == CarrierInv => SingleCarrier
BY DEF CarrierInv, ChunksDisjoint, SingleCarrier, Carries

\* However claims, retries, evictions, repeated deliveries and forced requests interleave, the
\* queue never carries one video twice: two jobs that name it under the lease its row holds are
\* the same job.
THEOREM SingleCarrierAlways == Spec => []SingleCarrier
<1>1. Init => CarrierInv BY InitTypes, CarrierParts0 DEF CarrierInv, CarrierParts
<1> QED BY <1>1, CarrierInductive, CarrierInvSingle, PTL DEF Spec

-----------------------------------------------------------------------------
(* An answer whose row was taken away never settles it.  A step gives a row *)
(* no lease but a new one (LeasesFresh) and answers keep theirs until they  *)
(* are written or forgotten (AnswersKept), so what is lost stays lost.      *)

LeasesFresh ==
    \A v \in Video : \/ tracking'[v].lease \in {tracking[v].lease, NoLease}
                     \/ tracking'[v].lease \in Lease \ LeasesInUse

AnswersKept ==
    \A w \in Worker : ResultsOf(w) # {} /\ ResultsOf(w)' # {}
                         => ResultLease(w)' = ResultLease(w)

LEMMA ReleaseLease ==
    ASSUME NEW rows \in [Video -> Row], NEW vs, NEW v \in Video
    PROVE  ReleaseLeases(rows, vs)[v].lease \in {rows[v].lease, NoLease}
BY DEF ReleaseLeases, Row

LEMMA SettleLease ==
    ASSUME NEW rows \in [Video -> Row], NEW vs, NEW lease, NEW p, NEW v \in Video
    PROVE  Settle(rows, vs, lease, p)[v].lease \in {rows[v].lease, NoLease}
BY DEF Settle, Row

LEMMA RenewLease ==
    ASSUME NEW rows \in [Video -> Row], NEW vs, NEW lease, NEW new, NEW why, NEW v \in Video
    PROVE  Renew(rows, vs, lease, new, why)[v].lease \in {rows[v].lease, new}
BY DEF Renew, Row

LEMMA LeaseVideosLease ==
    ASSUME NEW rows \in [Video -> Row], NEW vs, NEW new, NEW v \in Video
    PROVE  LeaseVideos(rows, vs, new)[v].lease \in {rows[v].lease, new}
BY DEF LeaseVideos, Row

LEMMA UpsertDueLease ==
    ASSUME NEW row \in Row, NEW p
    PROVE  UpsertDue(row, p).lease \in {row.lease, NoLease}
BY DEF UpsertDue, NewRow, Row

LEMMA ForceDueLease ==
    ASSUME NEW row \in Row
    PROVE  ForceDue(row).lease = row.lease
BY DEF ForceDue, Row

\* What a step keeps of HoldersLeased and OvertakenApart when it leaves the workers alone.
LEMMA IdleWorkersStale ==
    ASSUME UNCHANGED work, HoldersLeased, OvertakenApart,
           \A j \in Job : jobs'[j] = FreeJob \/ jobs'[j].lease \in Lease
    PROVE  HoldersLeased' /\ OvertakenApart' /\ AnswersKept
BY DEF HoldersLeased, OvertakenApart, AnswersKept, ResultsOf, ResultLease

LEMMA DispatcherStale ==
    ASSUME StateOK, CarrierParts, HoldersLeased, OvertakenApart, Dispatcher
    PROVE  HoldersLeased' /\ OvertakenApart' /\ AnswersKept /\ LeasesFresh
<1> USE DEF StateOK
<1>w. UNCHANGED work
  BY Zenon DEF Dispatcher, DispStep, DispCount, DispScan, DispEvict, DispEvictFails, DispUnlease,
     DispFind, DispLease, DispAdd, DispAddFails, DispRelease, DispReleaseFails
<1>1. \A j \in Job : jobs'[j] = FreeJob \/ jobs'[j].lease \in Lease
  <2>1. CASE UNCHANGED jobs BY <2>1 DEF HoldersLeased
  <2>2. ASSUME NEW j \in Job, jobs' = [jobs EXCEPT ![j] = FreeJob]
        PROVE  \A k \in Job : jobs'[k] = FreeJob \/ jobs'[k].lease \in Lease
    BY <2>2, IdleFields DEF HoldersLeased
  <2>3. ASSUME NEW j \in Job, NEW chunk, NEW p, disp.pc = "add",
               jobs' = [jobs EXCEPT ![j] = NewJob(chunk, disp.lease, p)]
        PROVE  \A k \in Job : jobs'[k] = FreeJob \/ jobs'[k].lease \in Lease
    BY <2>3 DEF HoldersLeased, NewJob, CarrierParts, ClaimUnqueued
  <2>4. CASE DispEvict \/ DispEvictFails
    <3>1. PICK s \in disp.scan : \/ UNCHANGED jobs
                                 \/ jobs' = [jobs EXCEPT ![s.job] = FreeJob]
      BY <2>4 DEF DispEvict, DispEvictFails
    <3>2. s.job \in Job BY <3>1, <2>4 DEF DispRecord, ScannedJob
    <3> QED BY <2>1, <2>2, <3>1, <3>2
  <2>5. CASE DispAdd \/ DispAddFails
    <3>1. PICK chunk \in NextChunks, j \in FreeJobs, v \in disp.left :
             \/ UNCHANGED jobs
             \/ jobs' = [jobs EXCEPT ![j] = NewJob(chunk, disp.lease, disp.rank[v])]
      BY <2>5 DEF DispAdd, DispAddFails
    <3>2. j \in Job /\ disp.pc = "add" BY <2>5, <3>1 DEF FreeJobs, DispAdd, DispAddFails
    <3> QED BY <2>1, <2>3, <3>1, <3>2
  <2>6. UNCHANGED jobs \/ DispEvict \/ DispEvictFails \/ DispAdd \/ DispAddFails
    BY Zenon DEF Dispatcher, DispStep, DispCount, DispScan, DispUnlease, DispFind, DispLease,
       DispRelease, DispReleaseFails
  <2> QED BY <2>1, <2>4, <2>5, <2>6
<1>2. LeasesFresh
  <2>1. CASE UNCHANGED tracking BY <2>1 DEF LeasesFresh
  <2>2. CASE DispUnlease
    <3>1. PICK s \in disp.victim : tracking' = ReleaseOwned(tracking, s.aids, s.lease)
      BY <2>2 DEF DispUnlease
    <3> QED BY <3>1, ReleaseLease DEF ReleaseOwned, LeasesFresh
  <2>3. CASE DispLease
    BY <2>3, FreshFacts, LeaseVideosLease DEF DispLease, LeasesFresh
  <2>4. CASE DispRelease
    BY <2>4, ReleaseLease DEF DispRelease, LeasesFresh
  <2>5. UNCHANGED tracking \/ DispUnlease \/ DispLease \/ DispRelease
    BY Zenon DEF Dispatcher, DispStep, DispCount, DispScan, DispEvict, DispEvictFails, DispFind,
       DispAdd, DispAddFails, DispReleaseFails
  <2> QED BY <2>1, <2>2, <2>3, <2>4, <2>5
<1> QED BY <1>w, <1>1, <1>2, IdleWorkersStale

LEMMA ManualStale ==
    ASSUME StateOK, CarrierParts, HoldersLeased, OvertakenApart, Manual
    PROVE  HoldersLeased' /\ OvertakenApart' /\ AnswersKept /\ LeasesFresh
<1> USE DEF StateOK
<1>w. UNCHANGED work
  BY Zenon DEF Manual, ManualStep, ManualBegin, ManualCreate, ManualRelease, ManualUpdate,
     ManualLease, ManualAdd, ManualAddFails, ManualUndo
<1>1. \A j \in Job : jobs'[j] = FreeJob \/ jobs'[j].lease \in Lease
  <2>1. CASE UNCHANGED jobs BY <2>1 DEF HoldersLeased
  <2>2. CASE ManualAdd \/ ManualAddFails
    <3>1. PICK j \in FreeJobs :
             \/ UNCHANGED jobs
             \/ jobs' = [jobs EXCEPT ![j] = NewJob(manual.aid, manual.lease, 1)]
      BY <2>2 DEF ManualAdd, ManualAddFails
    <3>2. j \in Job /\ manual.pc = "add" BY <2>2, <3>1 DEF FreeJobs, ManualAdd, ManualAddFails
    <3>3. manual.lease \in Lease BY <3>2 DEF CarrierParts, RequestUnqueued
    <3> QED BY <2>1, <3>1, <3>2, <3>3 DEF HoldersLeased, NewJob
  <2>3. UNCHANGED jobs \/ ManualAdd \/ ManualAddFails
    BY Zenon DEF Manual, ManualStep, ManualBegin, ManualCreate, ManualRelease, ManualUpdate,
       ManualLease, ManualUndo
  <2> QED BY <2>1, <2>2, <2>3
<1>2. LeasesFresh
  <2>1. CASE UNCHANGED tracking BY <2>1 DEF LeasesFresh
  <2>2. CASE ManualCreate
    BY <2>2, UpsertDueLease DEF ManualCreate, LeasesFresh
  <2>3. CASE ManualRelease \/ ManualUndo
    BY <2>3, ReleaseLease DEF ManualRelease, ManualUndo, LeasesFresh
  <2>4. CASE ManualUpdate
    BY <2>4, ForceDueLease DEF ManualUpdate, LeasesFresh
  <2>5. CASE ManualLease
    BY <2>5, FreshFacts, LeaseVideosLease DEF ManualLease, LeasesFresh
  <2>6. \/ UNCHANGED tracking
        \/ ManualCreate \/ ManualRelease \/ ManualUndo \/ ManualUpdate \/ ManualLease
    BY Zenon DEF Manual, ManualStep, ManualBegin, ManualAdd, ManualAddFails
  <2> QED BY <2>1, <2>2, <2>3, <2>4, <2>5, <2>6
<1> QED BY <1>w, <1>1, <1>2, IdleWorkersStale

LEMMA OtherStale ==
    ASSUME StateOK, HoldersLeased, OvertakenApart, Command \/ Time \/ Queue
    PROVE  HoldersLeased' /\ OvertakenApart' /\ AnswersKept /\ LeasesFresh
<1> USE DEF StateOK
<1>1. CASE VideoCommand \/ Time
  <2>1. UNCHANGED <<jobs, work>>
    BY <1>1, Zenon DEF VideoCommand, Promote, Untrack, Register, Discover, Archive, RefreshMetadata,
       Time, BecomesDue, BecomesEligible, LeaseExpires
  <2>2. HoldersLeased' /\ OvertakenApart' /\ AnswersKept
    BY <2>1, IdleWorkersStale DEF HoldersLeased
  <2>3. PICK v \in Video :
          \/ Promote(v) \/ Untrack(v) \/ Register(v) \/ Discover(v) \/ Archive(v)
          \/ RefreshMetadata(v) \/ BecomesDue(v) \/ BecomesEligible(v) \/ LeaseExpires(v)
    BY <1>1, Zenon DEF VideoCommand, Time
  <2>4. tracking[v] \in Row BY <2>3
  <2>5. LeasesFresh
    <3>1. CASE Promote(v)
      BY <2>3, <2>4, <3>1 DEF Promote, LeasesFresh, Row
    <3>2. CASE Untrack(v)
      BY <2>3, <3>2 DEF Untrack, Untracked, LeasesFresh
    <3>3. CASE Register(v)
      BY <2>3, <2>4, <3>3, UpsertDueLease DEF Register, LeasesFresh
    <3>4. CASE Discover(v)
      <4>1. UpsertDue(tracking[v], 2) \in Row BY <2>4, UpsertDueType, PriorityAssumption
      <4>2. [UpsertDue(tracking[v], 2) EXCEPT !.missing = FALSE].lease
               \in {tracking[v].lease, NoLease}
        BY <2>4, <4>1, UpsertDueLease DEF Row
      <4> QED BY <2>3, <3>4, <4>2 DEF Discover, LeasesFresh
    <3>5. CASE Archive(v)
      BY <2>3, <2>4, <3>5 DEF Archive, LeasesFresh, Row
    <3>6. CASE RefreshMetadata(v) \/ BecomesDue(v) \/ BecomesEligible(v) \/ LeaseExpires(v)
      BY <2>3, <2>4, <3>6
      DEF RefreshMetadata, BecomesDue, BecomesEligible, LeaseExpires, LeasesFresh, Row
    <3> QED BY <2>3, <3>1, <3>2, <3>3, <3>4, <3>5, <3>6
  <2> QED BY <2>2, <2>5
<1>2. CASE Queue
  <2>1. LeasesFresh
    BY <1>2, Zenon DEF Queue, JobReady, JobStalled, JobForgotten, LockLost, Crash, LeasesFresh
  <2>2. \A j \in Job : jobs'[j] = FreeJob \/ jobs'[j].lease \in Lease
    <3>1. ASSUME NEW j \in Job, JobReady(j) \/ JobStalled(j) \/ LockLost(j)
          PROVE  \A k \in Job : jobs'[k] = FreeJob \/ jobs'[k].lease \in Lease
      <4>1. jobs[j].status # "free" /\ jobs'[j].lease = jobs[j].lease
              /\ \A k \in Job \ {j} : jobs'[k] = jobs[k]
        BY <3>1 DEF JobReady, JobStalled, LockLost, JobRecord
      <4> QED BY <4>1, IdleFields DEF HoldersLeased
    <3>2. CASE Crash
      <4>1. \A j \in Job : jobs'[j] = jobs[j]
                          \/ (jobs[j].status = "active" /\ jobs'[j].lease = jobs[j].lease)
        BY <3>2 DEF Crash, JobRecord
      <4> QED BY <4>1, IdleFields DEF HoldersLeased
    <3>3. ASSUME NEW j \in Job, JobForgotten(j)
          PROVE  \A k \in Job : jobs'[k] = FreeJob \/ jobs'[k].lease \in Lease
      BY <3>3 DEF JobForgotten, HoldersLeased
    <3> QED BY <1>2, <3>1, <3>2, <3>3 DEF Queue
  <2>3. UNCHANGED work \/ work' = [w \in Worker |-> IdleWork]
    BY <1>2, Zenon DEF Queue, JobReady, JobStalled, JobForgotten, LockLost, Crash
  <2>4. CASE UNCHANGED work BY <2>1, <2>2, <2>4, IdleWorkersStale
  <2>5. CASE work' = [w \in Worker |-> IdleWork]
    BY <2>1, <2>2, <2>5, IdleFields
    DEF HoldersLeased, OvertakenApart, AnswersKept, ResultsOf, ResultLease
  <2> QED BY <2>3, <2>4, <2>5
<1>3. CASE JobCommand
  <2> PICK j \in Job : RemoveJob(j) \/ RetryJob(j) BY <1>3 DEF JobCommand
  <2>1. UNCHANGED <<tracking, work>> BY DEF RemoveJob, RetryJob
  <2>2. \A k \in Job : \/ jobs'[k] = FreeJob \/ jobs'[k] = jobs[k]
                       \/ jobs[k].status = "failed" /\ jobs'[k].lease = jobs[k].lease
    BY DEF RemoveJob, RetryJob, JobRecord
  <2>3. \A k \in Job : jobs'[k] = FreeJob \/ jobs'[k].lease \in Lease
    BY <2>2, IdleFields DEF HoldersLeased
  <2> QED BY <2>1, <2>3, IdleWorkersStale DEF LeasesFresh
<1> QED BY <1>1, <1>2, <1>3 DEF Command

\* What a worker step must keep of the job it runs and of the answers it holds.
LEMMA SlotStale ==
    ASSUME HoldersLeased, OvertakenApart, NEW w \in Worker,
           \A u \in Worker \ {w} : work'[u] = work[u],
           work'[w].pc = "idle" \/ work'[w].lease \in Lease,
           work'[w].bg # {} => /\ work'[w].bgLease \in Lease
                               /\ work'[w].pc \in {"idle", "retry", "renew", "save", "delay"},
           ResultsOf(w) # {} /\ ResultsOf(w)' # {} => ResultLease(w)' = ResultLease(w),
           \A j \in Job : jobs'[j] = FreeJob \/ jobs'[j].lease \in Lease
    PROVE  HoldersLeased' /\ OvertakenApart' /\ AnswersKept
<1>1. HoldersLeased' /\ OvertakenApart' BY DEF HoldersLeased, OvertakenApart
<1>2. AnswersKept BY DEF AnswersKept, ResultsOf, ResultLease
<1> QED BY <1>1, <1>2

\* The usual step of a slot: it holds no answers to commit before or after, and a commit that was
\* overtaken stays in flight or ends.
LEMMA SlotMoves ==
    ASSUME HoldersLeased, OvertakenApart, NEW w \in Worker,
           \A u \in Worker \ {w} : work'[u] = work[u],
           work'[w].pc # "commit",
           work'[w].pc = "idle" \/ work'[w].lease \in Lease,
           \/ work'[w].bg = {}
           \/ /\ work[w].pc # "commit"
              /\ work'[w].bg = work[w].bg /\ work'[w].bgLease = work[w].bgLease
              /\ work'[w].pc \in {"idle", "retry", "renew", "save", "delay"},
           \A j \in Job : jobs'[j] = FreeJob \/ jobs'[j].lease \in Lease
    PROVE  HoldersLeased' /\ OvertakenApart' /\ AnswersKept
<1>1. work'[w].bg # {} => /\ work'[w].bgLease \in Lease
                          /\ work'[w].pc \in {"idle", "retry", "renew", "save", "delay"}
  BY DEF OvertakenApart
<1>2. ResultsOf(w) # {} /\ ResultsOf(w)' # {} => ResultLease(w)' = ResultLease(w)
  BY DEF ResultsOf, ResultLease
<1> QED BY <1>1, <1>2, SlotStale

LEMMA FinishStale ==
    ASSUME StateOK, HoldersLeased, OvertakenApart, NEW w \in Worker, Finish(w)
    PROVE  HoldersLeased' /\ OvertakenApart' /\ AnswersKept
<1>1. \A j \in Job : jobs'[j] = FreeJob \/ jobs'[j].lease \in Lease
  BY IdleFields DEF StateOK, Finish, HoldersLeased
<1>2. work'[w].bg # {} => work[w].pc # "commit" BY FinishFields DEF OvertakenApart
<1> QED BY <1>1, <1>2, FinishFields, SlotMoves

\* A job that fails keeps its lease, and so does one that is delayed.
LEMMA FailStale ==
    ASSUME StateOK, HoldersLeased, OvertakenApart, NEW w \in Worker,
           NEW stored \in [Job -> JobRecord], Fail(w, stored),
           \A k \in Job : stored[k] = FreeJob \/ stored[k].lease \in Lease
    PROVE  HoldersLeased' /\ OvertakenApart' /\ AnswersKept
<1>1. \A j \in Job : jobs'[j] = FreeJob \/ jobs'[j].lease \in Lease
  BY FailFields, IdleFields, NoWorkerAssumption
<1>2. work'[w].bg # {} => work[w].pc # "commit" BY FailFields DEF OvertakenApart
<1> QED BY <1>1, <1>2, FailFields, SlotMoves

LEMMA DelayStale ==
    ASSUME StateOK, HoldersLeased, OvertakenApart, NEW w \in Worker, Delay(w)
    PROVE  HoldersLeased' /\ OvertakenApart' /\ AnswersKept
<1>1. \A j \in Job : jobs'[j] = FreeJob \/ jobs'[j].lease \in Lease
  BY DelayFields, IdleFields, NoWorkerAssumption DEF HoldersLeased
<1>2. work'[w].bg # {} => work[w].pc # "commit" BY DelayFields DEF OvertakenApart
<1> QED BY <1>1, <1>2, DelayFields, SlotMoves

\* So does the job in which a worker stores the lease it has renewed.
LEMMA SavedLeased ==
    ASSUME StateOK, CarrierParts, HoldersLeased, NEW w \in Worker, work[w].pc = "save"
    PROVE  \A k \in Job : Saved(w)[k] = FreeJob \/ Saved(w)[k].lease \in Lease
BY SavedFields DEF CarrierParts, RenewalUnqueued, HoldersLeased

LEMMA RetryStale ==
    ASSUME StateOK, HoldersLeased, OvertakenApart, NEW w \in Worker, NEW aids, NEW why,
           Retry(w, aids, why), work[w].pc # "idle",
           \A j \in Job : jobs'[j] = FreeJob \/ jobs'[j].lease \in Lease
    PROVE  HoldersLeased' /\ OvertakenApart' /\ AnswersKept
<1>2. work'[w].bg # {} => work[w].pc # "commit" BY RetryFields DEF OvertakenApart
<1>3. work'[w].lease \in Lease BY RetryFields DEF HoldersLeased
<1> QED BY <1>2, <1>3, RetryFields, SlotMoves

LEMMA WorkStale ==
    ASSUME StateOK, CarrierParts, HoldersLeased, OvertakenApart, Work
    PROVE  HoldersLeased' /\ OvertakenApart' /\ AnswersKept
<1> USE DEF StateOK
<1>p. PICK w \in Worker :
      \/ \E j \in Job : WorkStart(w, j)
      \/ WorkStep(w) \/ WorkFault(w) \/ LateCommit(w)
  BY DEF Work
<1>w. w \in Worker /\ work[w] \in WorkRecord BY <1>p
<1>h. work[w].pc # "idle" => work[w].lease \in Lease BY <1>w DEF HoldersLeased
<1>o. work[w].bg # {} => /\ work[w].bgLease \in Lease
                         /\ work[w].pc \in {"idle", "retry", "renew", "save", "delay"}
  BY <1>w DEF OvertakenApart
<1>j. UNCHANGED jobs => \A j \in Job : jobs'[j] = FreeJob \/ jobs'[j].lease \in Lease
  BY DEF HoldersLeased
<1>1. ASSUME NEW j \in Job, WorkStart(w, j)
      PROVE  HoldersLeased' /\ OvertakenApart' /\ AnswersKept
  <2>1. jobs[j].lease \in Lease /\ work[w].bg = {} BY <1>1, IdleFields DEF WorkStart, HoldersLeased
  <2>2. CASE jobs[j].aids = {}
    <3>1. \A k \in Job : jobs'[k] = FreeJob \/ jobs'[k].lease \in Lease
      BY <1>1, <2>2, IdleFields DEF WorkStart, HoldersLeased
    <3> QED BY <1>1, <2>2, <3>1, IdleWorkersStale DEF WorkStart
  <2>3. CASE jobs[j].aids # {}
    <3>1. jobs' = [jobs EXCEPT ![j] = [jobs[j] EXCEPT !.status = "active", !.holder = w]]
      BY <1>1, <2>3, Zenon DEF WorkStart
    <3>2. \A k \in Job : jobs'[k] = FreeJob \/ jobs'[k].lease \in Lease
      BY <2>1, <3>1 DEF HoldersLeased, JobRecord
    <3> DEFINE rec == [IdleWork EXCEPT !.pc = "filter", !.job = j, !.aids = jobs[j].aids,
                                       !.lease = jobs[j].lease]
    <3>3. rec.pc = "filter" /\ rec.lease = jobs[j].lease /\ rec.bg = {}
      BY DEF IdleWork
    <3>4. work' = [work EXCEPT ![w] = rec] BY <1>1, <2>3, Zenon DEF WorkStart
    <3> HIDE DEF rec
    <3>5. work'[w] = rec /\ \A u \in Worker \ {w} : work'[u] = work[u] BY <1>w, <3>4
    <3> QED BY <1>w, <2>1, <3>2, <3>3, <3>5, SlotMoves
  <2> QED BY <2>2, <2>3
<1>2. CASE WorkFilter(w)
  <2>1. CASE Finish(w) BY <1>w, <2>1, FinishStale
  <2>2. CASE ~Finish(w)
    <3>1. /\ work'[w].pc = "fetch" /\ work'[w].lease = work[w].lease
          /\ work'[w].bg = work[w].bg /\ work[w].pc = "filter"
          /\ \A u \in Worker \ {w} : work'[u] = work[u]
      <4>1. work[w].pc = "filter" /\ work' =
               [work EXCEPT ![w] = [@ EXCEPT !.pc = "fetch",
                                 !.batch = Owned(tracking, work[w].aids, work[w].lease)]]
        BY <1>2, <2>2 DEF WorkFilter
      <4> QED BY <1>w, <4>1 DEF WorkRecord
    <3>2. UNCHANGED jobs BY <1>2, <2>2 DEF WorkFilter
    <3> QED BY <1>w, <1>h, <1>o, <1>j, <3>1, <3>2, SlotMoves
  <2> QED BY <2>1, <2>2
<1>3. CASE WorkFetch(w)
  <2>1. /\ work'[w].lease = work[w].lease /\ work'[w].bg = work[w].bg /\ work[w].pc = "fetch"
        /\ \A u \in Worker \ {w} : work'[u] = work[u]
    BY <1>w, <1>3 DEF WorkFetch, WorkRecord
  <2>2. work[w].bg = {} /\ ResultsOf(w) = {} BY <1>o, <2>1 DEF ResultsOf
  <2>3. \A j \in Job : jobs'[j] = FreeJob \/ jobs'[j].lease \in Lease
    BY <1>3, <1>j DEF WorkFetch
  <2> QED BY <1>w, <1>h, <2>1, <2>2, <2>3, SlotStale
<1>4. CASE WorkCommit(w)
  <2>1. CASE Finish(w) BY <1>w, <2>1, FinishStale
  <2>2. CASE ~Finish(w)
    <3>1. /\ work'[w].pc = "pending" /\ work'[w].lease = work[w].lease
          /\ work'[w].bg = work[w].bg /\ work[w].pc = "commit"
          /\ \A u \in Worker \ {w} : work'[u] = work[u]
      <4>1. work[w].pc = "commit" /\ work' =
               [work EXCEPT ![w] = [@ EXCEPT !.pc = "pending", !.got = {},
                                             !.keep = work[w].batch \ work[w].got]]
        BY <1>4, <2>2 DEF WorkCommit
      <4> QED BY <1>w, <4>1 DEF WorkRecord
    <3>2. UNCHANGED jobs BY <1>4, <2>2 DEF WorkCommit
    <3> QED BY <1>w, <1>h, <1>o, <1>j, <3>1, <3>2, SlotMoves
  <2> QED BY <2>1, <2>2
<1>5. CASE WorkPending(w)
  <2>1. /\ work'[w].pc = "check" /\ work'[w].lease = work[w].lease
        /\ work'[w].bg = work[w].bg /\ work[w].pc = "pending"
        /\ \A u \in Worker \ {w} : work'[u] = work[u]
    BY <1>w, <1>5 DEF WorkPending, WorkRecord
  <2>2. UNCHANGED jobs BY <1>5 DEF WorkPending
  <2> QED BY <1>w, <1>h, <1>o, <1>j, <2>1, <2>2, SlotMoves
<1>6. CASE WorkProbe(w)
  <2>1. /\ work'[w].pc = "check" /\ work'[w].lease = work[w].lease
        /\ work'[w].bg = work[w].bg /\ work[w].pc = "check"
        /\ \A u \in Worker \ {w} : work'[u] = work[u]
    <3>1. PICK v \in work[w].todo :
            \/ work' = [work EXCEPT ![w].todo = @ \ {v}]
            \/ work' = [work EXCEPT ![w] = [@ EXCEPT !.todo = work[w].todo \ {v},
                                                     !.keep = work[w].keep \ {v}]]
      BY <1>6, Zenon DEF WorkProbe
    <3>2. work[w].pc = "check" BY <1>6 DEF WorkProbe
    <3>3. CASE work' = [work EXCEPT ![w].todo = @ \ {v}]
      BY <1>w, <3>2, <3>3 DEF WorkRecord
    <3>4. CASE work' = [work EXCEPT ![w] = [@ EXCEPT !.todo = work[w].todo \ {v},
                                                     !.keep = work[w].keep \ {v}]]
      BY <1>w, <3>2, <3>4 DEF WorkRecord
    <3> QED BY <3>1, <3>3, <3>4
  <2>2. UNCHANGED jobs BY <1>6 DEF WorkProbe
  <2> QED BY <1>w, <1>h, <1>o, <1>j, <2>1, <2>2, SlotMoves
<1>7. CASE WorkProbed(w)
  BY <1>w, <1>j, <1>7, FinishStale, RetryStale DEF WorkProbed
<1>8. CASE RetryRead(w)
  <2>1. /\ work'[w].pc = "renew" /\ work'[w].lease = work[w].lease /\ work[w].pc = "retry"
        /\ work'[w].bg = work[w].bg /\ work'[w].bgLease = work[w].bgLease
        /\ \A u \in Worker \ {w} : work'[u] = work[u]
    BY <1>w, <1>8 DEF RetryRead, WorkRecord
  <2>2. UNCHANGED jobs BY <1>8 DEF RetryRead
  <2> QED BY <1>w, <1>h, <1>j, <2>1, <2>2, SlotMoves
<1>9. CASE RetryRenew(w)
  <2>1. /\ work'[w].pc = "save" /\ work'[w].lease = work[w].lease /\ work[w].pc = "renew"
        /\ work'[w].bg = work[w].bg /\ work'[w].bgLease = work[w].bgLease
        /\ \A u \in Worker \ {w} : work'[u] = work[u]
    BY <1>w, <1>9 DEF RetryRenew, WorkRecord
  <2>2. UNCHANGED jobs BY <1>9 DEF RetryRenew
  <2> QED BY <1>w, <1>h, <1>j, <2>1, <2>2, SlotMoves
\* The job and the slot take the renewed lease.
<1>10. CASE RetrySave(w)
  <2>1. CASE Finish(w) BY <1>w, <2>1, FinishStale
  <2>2. CASE ~Finish(w)
    <3>1. work[w].pc = "save" /\ work[w].next \in Lease
      BY <1>w, <1>10 DEF RetrySave, CarrierParts, RenewalUnqueued
    <3>2. jobs' = [jobs EXCEPT ![work[w].job] = FreeJob] \/ jobs' = Saved(w)
      BY <1>10, <2>2 DEF RetrySave
    <3>3. \A k \in Job : jobs'[k] = FreeJob \/ jobs'[k].lease \in Lease
      <4>1. CASE jobs' = [jobs EXCEPT ![work[w].job] = FreeJob]
        BY <4>1, IdleFields DEF HoldersLeased
      <4>2. CASE jobs' = Saved(w) BY <1>w, <3>1, <4>2, SavedLeased
      <4> QED BY <3>2, <4>1, <4>2
    <3>4. \/ work' = [work EXCEPT ![w] = Rest(w)]
          \/ work' = [work EXCEPT ![w] = [@ EXCEPT !.pc = "delay", !.aids = work[w].keep,
                                                   !.lease = work[w].next]]
      BY <1>10, <2>2, Zenon DEF RetrySave
    <3>5. /\ work'[w].pc = "idle" \/ (work'[w].pc = "delay" /\ work'[w].lease = work[w].next)
          /\ work'[w].bg = work[w].bg /\ work'[w].bgLease = work[w].bgLease
      <4>1. CASE work' = [work EXCEPT ![w] = Rest(w)]
        <5>1. Rest(w).pc = "idle" /\ Rest(w).bg = work[w].bg /\ Rest(w).bgLease = work[w].bgLease
          BY DEF Rest, IdleWork
        <5>2. work'[w] = Rest(w) BY <1>w, <4>1
        <5> QED BY <5>1, <5>2
      <4>2. CASE work' = [work EXCEPT ![w] = [@ EXCEPT !.pc = "delay", !.aids = work[w].keep,
                                                       !.lease = work[w].next]]
        BY <1>w, <4>2 DEF WorkRecord
      <4> QED BY <3>4, <4>1, <4>2
    <3>6. \A u \in Worker \ {w} : work'[u] = work[u] BY <3>4
    <3> QED BY <1>w, <3>1, <3>3, <3>5, <3>6, SlotMoves
  <2> QED BY <2>1, <2>2
<1>11. CASE RetryDelay(w) BY <1>w, <1>11, DelayStale DEF RetryDelay
<1>12. CASE WorkApiError(w) BY <1>w, <1>j, <1>12, RetryStale DEF WorkApiError
<1>13. CASE WorkThrows(w) BY <1>w, <1>j, <1>13, RetryStale DEF WorkThrows
<1>14. CASE RetryRenewFails(w)
  BY <1>w, <1>j, <1>14, FailStale, RetryStale DEF RetryRenewFails, HoldersLeased
<1>15. CASE WorkNoteFails(w)
  BY <1>w, <1>15, FailStale DEF WorkNoteFails, HoldersLeased
<1>18. CASE RetrySaveFails(w)
  <2>1. PICK stored \in {jobs, Saved(w)} :
          \/ Retry(w, work[w].aids, "error") /\ jobs' = stored
          \/ Fail(w, stored)
    BY <1>18 DEF RetrySaveFails
  <2>2. work[w].pc = "save" BY <1>18 DEF RetrySaveFails
  <2>3. stored \in [Job -> JobRecord] BY <1>w, <2>1, SavedType
  <2>4. \A k \in Job : stored[k] = FreeJob \/ stored[k].lease \in Lease
    BY <1>w, <2>1, <2>2, SavedLeased DEF HoldersLeased
  <2> QED BY <1>w, <2>1, <2>2, <2>3, <2>4, FailStale, RetryStale
<1>19. CASE RetryDelayFails(w)
  BY <1>w, <1>19, DelayStale, FailStale DEF RetryDelayFails, HoldersLeased
<1>16. CASE Deadline(w)
  <2> DEFINE bg == IF work[w].pc = "commit" THEN work[w].got ELSE {}
             bgLease == IF work[w].pc = "commit" /\ work[w].got # {} THEN work[w].lease
                        ELSE NoLease
             rec == [IdleWork EXCEPT !.pc = "retry", !.job = work[w].job, !.aids = work[w].aids,
                                     !.lease = work[w].lease, !.keep = work[w].aids,
                                     !.why = "deadline", !.bg = bg, !.bgLease = bgLease]
  <2>1. work' = [work EXCEPT ![w] = rec] /\ UNCHANGED jobs /\ work[w].pc # "idle"
    BY <1>16 DEF Deadline
  <2>2. rec.pc = "retry" /\ rec.lease = work[w].lease /\ rec.bg = bg /\ rec.bgLease = bgLease
    <3> HIDE DEF bg, bgLease
    <3> QED BY DEF IdleWork
  <2> HIDE DEF rec
  <2>3. work'[w] = rec /\ \A u \in Worker \ {w} : work'[u] = work[u] BY <1>w, <2>1
  <2>4. bg # {} => bgLease = work[w].lease /\ work[w].pc = "commit" OBVIOUS
  <2> HIDE DEF bg, bgLease
  <2>5. ResultsOf(w)' = bg /\ ResultLease(w)' = bgLease BY <2>2, <2>3 DEF ResultsOf, ResultLease
  <2>6. bg # {} => ResultLease(w) = bgLease BY <2>4 DEF ResultLease
  <2> QED BY <1>w, <1>h, <1>j, <2>1, <2>2, <2>3, <2>4, <2>5, <2>6, SlotStale
<1>17. CASE LateCommit(w)
  <2>1. /\ work'[w].bg = {} /\ work'[w].pc = work[w].pc /\ work'[w].lease = work[w].lease
        /\ work[w].bg # {} /\ \A u \in Worker \ {w} : work'[u] = work[u]
    BY <1>w, <1>17 DEF LateCommit, WorkRecord
  <2>2. UNCHANGED jobs BY <1>17 DEF LateCommit
  <2> QED BY <1>w, <1>h, <1>o, <1>j, <2>1, <2>2, SlotMoves
<1> QED
  BY <1>p, <1>1, <1>2, <1>3, <1>4, <1>5, <1>6, <1>7, <1>8, <1>9, <1>10, <1>11, <1>12, <1>13,
     <1>14, <1>15, <1>16, <1>17, <1>18, <1>19
  DEF WorkStep, WorkFault

LEMMA WorkFresh == ASSUME StateOK, Work PROVE LeasesFresh
<1> USE DEF StateOK
<1>p. PICK w \in Worker :
      \/ \E j \in Job : WorkStart(w, j)
      \/ WorkStep(w) \/ WorkFault(w) \/ LateCommit(w)
  BY DEF Work
<1>1. CASE UNCHANGED tracking BY <1>1 DEF LeasesFresh
<1>2. ASSUME NEW vs, NEW lease, NEW p, tracking' = Settle(tracking, vs, lease, p)
      PROVE  LeasesFresh
  BY <1>2, SettleLease DEF LeasesFresh
<1>3. CASE WorkCommit(w) BY <1>2, <1>3 DEF WorkCommit
<1>4. CASE WorkProbe(w) BY <1>1, <1>2, <1>4 DEF WorkProbe
<1>5. CASE RetryRenew(w)
  <2>1. FreshLease \in Lease \ LeasesInUse BY <1>5, FreshFacts DEF RetryRenew
  <2> QED BY <1>5, <2>1, RenewLease DEF RetryRenew, LeasesFresh
<1>6. CASE LateCommit(w) BY <1>1, <1>2, <1>6 DEF LateCommit
<1>7. UNCHANGED tracking \/ WorkCommit(w) \/ WorkProbe(w) \/ RetryRenew(w) \/ LateCommit(w)
  BY <1>p, Zenon DEF WorkStart, WorkStep, WorkFilter, WorkFetch, WorkPending, WorkProbed, RetryRead,
     RetrySave, RetryDelay, WorkFault, WorkNoteFails, WorkApiError, WorkThrows, RetryRenewFails,
     RetrySaveFails, RetryDelayFails, Deadline
<1> QED BY <1>1, <1>3, <1>4, <1>5, <1>6, <1>7

\* What was lost stays lost: the row's lease only changes to NoLease or to a new one, neither of
\* which is the lease of the answer.
LEMMA LostKept ==
    ASSUME TypeOK, HoldersLeased, OvertakenApart, LostStaysLost, KeepHistory, LeasesFresh,
           AnswersKept
    PROVE  LostStaysLost'
<1> SUFFICES ASSUME NEW w \in Worker
             PROVE  /\ ResultsOf(w)' = {} => lost'[w] = {}
                    /\ \A v \in lost'[w] : tracking'[v].lease # ResultLease(w)'
  BY DEF LostStaysLost
<1>1. lost'[w] = IF ResultsOf(w)' = {} THEN {}
                 ELSE lost[w] \cup {v \in ResultsOf(w)' : tracking'[v].lease # ResultLease(w)'}
  BY DEF KeepHistory
<1>2. ASSUME NEW v \in lost[w], ResultsOf(w)' # {}
      PROVE  tracking'[v].lease # ResultLease(w)'
  <2>1. v \in Video /\ tracking[v].lease # ResultLease(w) /\ ResultsOf(w) # {}
    BY <1>2 DEF TypeOK, LostStaysLost
  <2>2. ResultLease(w)' = ResultLease(w) BY <1>2, <2>1 DEF AnswersKept
  <2>3. ResultLease(w) \in Lease
    BY <2>1 DEF ResultsOf, ResultLease, HoldersLeased, OvertakenApart
  <2>4. ResultLease(w) \in LeasesInUse BY InUse DEF ResultLease
  <2>5. \/ tracking'[v].lease \in {tracking[v].lease, NoLease}
        \/ tracking'[v].lease \in Lease \ LeasesInUse
    BY <2>1 DEF LeasesFresh
  <2> QED BY <2>1, <2>2, <2>3, <2>4, <2>5, NoLeaseAssumption
<1> QED BY <1>1, <1>2

LEMMA StaleInductive == StaleInv /\ [Next]_vars => StaleInv'
<1> SUFFICES ASSUME StaleInv, [Next]_vars PROVE StaleInv' OBVIOUS
<1>1. CarrierInv' BY CarrierInductive DEF StaleInv
<1>2. StateOK /\ CarrierParts /\ TypeOK /\ HoldersLeased /\ OvertakenApart /\ LostStaysLost
  BY TypeParts DEF StaleInv, CarrierInv, CarrierParts
<1>3. CASE Next
  <2>1. HoldersLeased' /\ OvertakenApart' /\ AnswersKept /\ LeasesFresh
    BY <1>2, <1>3, DispatcherStale, ManualStale, OtherStale, WorkStale, WorkFresh DEF Next, Step
  <2>2. LostStaysLost' BY <1>2, <1>3, <2>1, LostKept DEF Next
  <2> QED BY <1>1, <2>1, <2>2 DEF StaleInv
<1>4. CASE UNCHANGED vars
  BY <1>1, <1>2, <1>4 DEF StaleInv, HoldersLeased, OvertakenApart, LostStaysLost, vars, ResultsOf,
     ResultLease
<1> QED BY <1>3, <1>4

LEMMA StaleInit == Init => StaleInv
<1> SUFFICES ASSUME Init PROVE StaleInv OBVIOUS
<1>1. CarrierInv BY InitTypes, CarrierParts0 DEF CarrierInv, CarrierParts
<1>2. HoldersLeased /\ OvertakenApart /\ LostStaysLost
  BY IdleFields DEF Init, HoldersLeased, OvertakenApart, LostStaysLost
<1> QED BY <1>1, <1>2 DEF StaleInv

\* A transaction, on time or overtaken, leaves the rows alone that no longer hold its lease.
LEMMA StaleStep ==
    StaleInv => \A w \in Worker : WorkCommit(w) \/ LateCommit(w)
                                    => \A v \in lost[w] : tracking'[v] = tracking[v]
<1> SUFFICES ASSUME StaleInv, NEW w \in Worker, WorkCommit(w) \/ LateCommit(w), NEW v \in lost[w]
             PROVE  tracking'[v] = tracking[v]
  OBVIOUS
<1>1. v \in Video /\ tracking[v].lease # ResultLease(w)
  BY DEF StaleInv, CarrierInv, TypeOK, LostStaysLost
<1>2. ASSUME NEW vs, NEW p, tracking' = Settle(tracking, vs, ResultLease(w), p)
      PROVE  tracking'[v] = tracking[v]
  BY <1>1, <1>2 DEF Settle, Owned
<1>3. CASE WorkCommit(w) BY <1>2, <1>3 DEF WorkCommit, ResultLease
<1>4. CASE LateCommit(w)
  <2>1. ResultLease(w) = work[w].bgLease
    BY <1>4 DEF LateCommit, ResultLease, StaleInv, OvertakenApart
  <2> QED BY <1>2, <1>4, <2>1 DEF LateCommit
<1> QED BY <1>3, <1>4

\* The invariant that both theorems rest on holds in every reachable state.
THEOREM StaleInvAlways == Spec => []StaleInv
BY StaleInit, StaleInductive, PTL DEF Spec

\* An answer that Bilibili gave under one lease never changes a row that has been taken away from
\* that lease since: not when its transaction runs, not when the deadline has overtaken it, and
\* whatever became of the row in between.
THEOREM StaleNeverSettles == Spec => StaleAnswersNeverSettle
<1>1. StaleInv /\ [Next]_vars =>
        [\A w \in Worker : WorkCommit(w) \/ LateCommit(w)
                             => \A v \in lost[w] : tracking'[v] = tracking[v]]_vars
  BY StaleStep
<1> QED BY <1>1, StaleInvAlways, PTL DEF Spec, StaleAnswersNeverSettle

-----------------------------------------------------------------------------
(* The queue stays within its cap.  A step queues at most one job, and only *)
(* the dispatcher and a manual request do, out of the slots they hold, and  *)
(* an operator who retries a failed one, which counts as a request.         *)

\* A job keeps its contents and does not come back to the queue, or is gone.
JobsStay ==
    \A j \in Job : \/ jobs'[j].status = "free" /\ jobs'[j].holder = NoWorker
                   \/ /\ jobs'[j].aids = jobs[j].aids /\ jobs'[j].lease = jobs[j].lease
                      /\ jobs[j].status # "free" => jobs'[j].status # "free"
                      /\ Queued(j)' \/ jobs'[j].holder = NoWorker \/ jobs'[j] = jobs[j]
                      /\ ~Queued(j) /\ jobs[j].holder = NoWorker => jobs'[j] = jobs[j]

Unheld == \A j \in Job : ~Queued(j) => jobs[j].holder = NoWorker

\* The dispatcher does not begin to evict, nor list more jobs to evict.
ListShrinks == disp'.pc = "evict" => disp.pc = "evict" /\ disp'.scan \subseteq disp.scan

LEMMA FilledCounts ==
    /\ IsFiniteSet(Filled) /\ Cardinality(Filled) \in Nat
    /\ IsFiniteSet(Filled') /\ Cardinality(Filled') \in Nat
<1>1. IsFiniteSet(Filled) /\ IsFiniteSet(Filled')
  <2>1. Filled \subseteq Job /\ Filled' \subseteq Job BY DEF Filled
  <2> QED BY <2>1, NoJobAssumption, FS_Subset
<1> QED BY <1>1, FS_CardinalityType

\* Every queued job fills a slot.
LEMMA DepthFilled == Depth <= Cardinality(Filled)
<1>1. {j \in Job : Queued(j)} \subseteq Filled BY DEF Filled
<1> QED BY <1>1, FilledCounts, FS_Subset DEF Depth

\* No job comes back to the queue, and one that leaves it is unlocked.
CountsStay ==
    \A j \in Job : /\ Queued(j)' => Queued(j)
                   /\ jobs'[j].status = "failed" => jobs[j].status # "free"
                   /\ ~Queued(j)' => jobs'[j].holder = NoWorker

LEMMA JobsStayCounts == Unheld /\ JobsStay => CountsStay
BY DEF JobsStay, Unheld, Queued, CountsStay

\* Then no slot is filled.
LEMMA FilledKept ==
    ASSUME CountsStay, ListShrinks
    PROVE  Cardinality(Filled') <= Cardinality(Filled)
<1>1. Filled' \subseteq Filled BY DEF Filled, Queued, CountsStay, ListShrinks
<1> QED BY <1>1, FilledCounts, FS_Subset

\* One job more is one slot less.
LEMMA FilledGrows ==
    ASSUME NEW j \in Job, \A k \in Job \ {j} : jobs'[k] = jobs[k], ListShrinks
    PROVE  Cardinality(Filled') <= Cardinality(Filled) + 1
<1> DEFINE more == Filled \cup {j}
<1>1. Filled' \subseteq more BY DEF Filled, Queued, ListShrinks
<1>2. IsFiniteSet(more) /\ Cardinality(more) <= Cardinality(Filled) + 1
  <2>1. /\ IsFiniteSet(more)
        /\ Cardinality(more) = IF j \in Filled THEN Cardinality(Filled) ELSE Cardinality(Filled) + 1
    BY FilledCounts, FS_AddElement
  <2> QED BY <2>1, FilledCounts
<1>3. Cardinality(more) \in Nat BY <1>2, FS_CardinalityType
<1> HIDE DEF more
<1>4. Cardinality(Filled') <= Cardinality(more) BY <1>1, <1>2, FS_Subset
<1> QED BY <1>2, <1>3, <1>4, FilledCounts

\* An evicted job leaves its slot.
LEMMA FilledShrinks ==
    ASSUME NEW j \in Filled, jobs'[j].status = "free", disp'.pc # "evict",
           \A k \in Job \ {j} : jobs'[k] = jobs[k]
    PROVE  Cardinality(Filled') + 1 <= Cardinality(Filled)
<1> DEFINE rest == Filled \ {j}
<1>1. Filled' \subseteq rest BY DEF Filled, Queued
<1>2. IsFiniteSet(rest) /\ Cardinality(rest) = Cardinality(Filled) - 1
  BY FilledCounts, FS_RemoveElement
<1>3. Cardinality(rest) \in Nat BY <1>2, FS_CardinalityType
<1> HIDE DEF rest
<1>4. Cardinality(Filled') <= Cardinality(rest) BY <1>1, <1>2, FS_Subset
<1> QED BY <1>2, <1>3, <1>4, FilledCounts

\* The slots that are held.
LEMMA SlotTypes ==
    ASSUME StateOK, CountersOK
    PROVE  DispSlots \in Nat /\ ManualSlots \in Nat /\ requests \in Nat /\ QueueCap \in Nat
BY BoundAssumption DEF StateOK, CountersOK, DispRecord, DispSlots, ManualSlots

LEMMA SlotTypesNext ==
    ASSUME StateOK', CountersOK'
    PROVE  DispSlots' \in Nat /\ ManualSlots' \in Nat /\ requests' \in Nat
BY BoundAssumption DEF StateOK, CountersOK, DispRecord, DispSlots, ManualSlots

\* The ways in which a step moves the sum: nobody takes a slot, the slot of an evicted job is
\* counted, a slot of the claim or of a request turns into a job, a request or a retried job brings
\* its own.
SlotsMove ==
    LET filled == Cardinality(Filled)  more == Cardinality(Filled') IN
    \/ more <= filled /\ DispSlots' <= DispSlots /\ ManualSlots' <= ManualSlots
         /\ requests' = requests
    \/ more + 1 <= filled /\ DispSlots' <= DispSlots + 1 /\ ManualSlots' = ManualSlots
         /\ requests' = requests
    \/ more <= filled + 1 /\ DispSlots' + 1 <= DispSlots /\ ManualSlots' = ManualSlots
         /\ requests' = requests
    \/ more <= filled + 1 /\ DispSlots' = DispSlots /\ ManualSlots' + 1 <= ManualSlots
         /\ requests' = requests
    \/ more <= filled /\ DispSlots' = DispSlots /\ ManualSlots' <= ManualSlots + 1
         /\ requests' = requests + 1
    \/ more <= filled + 1 /\ DispSlots' = DispSlots /\ ManualSlots' = ManualSlots
         /\ requests' = requests + 1

LEMMA SlotSum ==
    ASSUME StateOK, CountersOK, StateOK', CountersOK', SlotInv, SlotsMove
    PROVE  Cardinality(Filled') + DispSlots' + ManualSlots' <= QueueCap + requests'
<1>1. /\ Cardinality(Filled) \in Nat /\ Cardinality(Filled') \in Nat
      /\ DispSlots \in Nat /\ DispSlots' \in Nat
      /\ ManualSlots \in Nat /\ ManualSlots' \in Nat
      /\ requests \in Nat /\ requests' \in Nat /\ QueueCap \in Nat
  BY FilledCounts, SlotTypes, SlotTypesNext
<1>2. Cardinality(Filled) + DispSlots + ManualSlots <= QueueCap + requests BY DEF SlotInv
<1> PICK d \in Nat, s \in Nat, m \in Nat, r \in Nat, d2 \in Nat, s2 \in Nat, m2 \in Nat, r2 \in Nat :
      /\ d = Cardinality(Filled) /\ s = DispSlots /\ m = ManualSlots /\ r = requests
      /\ d2 = Cardinality(Filled') /\ s2 = DispSlots' /\ m2 = ManualSlots' /\ r2 = requests'
  BY <1>1
<1>3. d + s + m <= QueueCap + r BY <1>2
<1>4. \/ d2 <= d /\ s2 <= s /\ m2 <= m /\ r2 = r
      \/ d2 + 1 <= d /\ s2 <= s + 1 /\ m2 = m /\ r2 = r
      \/ d2 <= d + 1 /\ s2 + 1 <= s /\ m2 = m /\ r2 = r
      \/ d2 <= d + 1 /\ s2 = s /\ m2 + 1 <= m /\ r2 = r
      \/ d2 <= d /\ s2 = s /\ m2 <= m + 1 /\ r2 = r + 1
      \/ d2 <= d + 1 /\ s2 = s /\ m2 = m /\ r2 = r + 1
  BY DEF SlotsMove
<1>5. QueueCap \in Nat BY <1>1
<1>6. d2 + s2 + m2 <= QueueCap + r2 BY ONLY <1>3, <1>4, <1>5
<1> QED BY <1>6

\* The usual step: no job is added, and neither actor takes slots.
LEMMA SlotsKept ==
    ASSUME StateOK, CountersOK, SlotInv, StateOK', CountersOK', CountsStay, ListShrinks,
           DispSlots' <= DispSlots, UNCHANGED requests,
           manual'.pc # "idle" => manual.pc # "idle", ManualSlots' <= ManualSlots
    PROVE  SlotInv'
<1>1. Unheld' BY DEF CountsStay, Unheld
<1>2. Cardinality(Filled') <= Cardinality(Filled) BY FilledKept
<1>3. Cardinality(Filled') + DispSlots' + ManualSlots' <= QueueCap + requests'
  BY <1>2, SlotSum DEF SlotsMove
<1> QED BY <1>1, <1>3 DEF SlotInv, Unheld

LEMMA DispatcherSlots ==
    ASSUME StateOK, CountersOK, SlotInv, StateOK', CountersOK', Dispatcher
    PROVE  SlotInv'
<1> USE DEF StateOK
<1>m. UNCHANGED <<manual, requests>> /\ ManualSlots' = ManualSlots
  BY Zenon DEF Dispatcher, DispStep, DispCount, DispScan, DispEvict, DispEvictFails, DispUnlease,
     DispFind, DispLease, DispAdd, DispAddFails, DispRelease, DispReleaseFails, ManualSlots
<1>n. /\ DispSlots \in Nat /\ DispSlots' \in Nat /\ ManualSlots \in Nat /\ ManualSlots' \in Nat
      /\ requests \in Nat /\ requests' \in Nat /\ QueueCap \in Nat
      /\ Cardinality(Filled) \in Nat /\ Cardinality(Filled') \in Nat
  BY SlotTypes, SlotTypesNext, FilledCounts
<1>h. Unheld BY DEF SlotInv, Unheld
<1>i. disp' = IdleDisp => DispSlots' = 0 /\ ListShrinks BY IdleFields DEF DispSlots, ListShrinks
\* The dispatcher goes on without adding a job.
<1>k. ASSUME JobsStay, ListShrinks, DispSlots' <= DispSlots PROVE SlotInv'
  <2>1. ManualSlots' <= ManualSlots BY <1>m, <1>n
  <2> QED BY <1>h, <1>k, <1>m, <2>1, JobsStayCounts, SlotsKept
<1>u. ASSUME UNCHANGED jobs PROVE JobsStay BY <1>u DEF JobsStay
<1>v. ASSUME disp'.pc # "evict" PROVE ListShrinks BY <1>v DEF ListShrinks
<1>1. CASE DispCount
  <2>1. CASE Depth < QueueCap
    <3>1. disp'.pc = "find" /\ disp'.room = QueueCap - Depth
      BY <1>1, <2>1, IdleDispType DEF DispCount, DispRecord
    <3>2. DispSlots' = QueueCap - Depth BY <3>1 DEF DispSlots
    <3>3. UNCHANGED jobs BY <1>1 DEF DispCount
    <3>4. Cardinality(Filled') = Depth
      <4>1. Filled' = {j \in Job : Queued(j)} BY <3>1, <3>3 DEF Filled, Queued
      <4> QED BY <4>1 DEF Depth
    <3>5. ManualSlots <= requests BY <1>n DEF SlotInv, ManualSlots, StateOK
    <3>6. Cardinality(Filled') + DispSlots' + ManualSlots' <= QueueCap + requests'
      BY <1>m, <1>n, <3>2, <3>4, <3>5, DepthNat
    <3>7. Unheld' BY <1>h, <3>3 DEF Unheld, Queued
    <3> QED BY <1>m, <3>6, <3>7 DEF SlotInv, Unheld
  <2>2. CASE ~(Depth < QueueCap)
    <3>1. disp'.pc = "scan" BY <1>1, <2>2, IdleDispType DEF DispCount, DispRecord
    <3>2. DispSlots' = 0 BY <3>1 DEF DispSlots
    <3> QED BY <1>1, <1>k, <1>n, <1>u, <1>v, <3>1, <3>2 DEF DispCount
  <2> QED BY <2>1, <2>2
<1>2. CASE DispScan
  <2>1. disp'.pc \in {"idle", "evict"} BY <1>2, IdleFields DEF DispScan, DispRecord
  <2>2. DispSlots' = 0 BY <2>1 DEF DispSlots
  <2>3. UNCHANGED jobs BY <1>2 DEF DispScan
  <2>4. Filled' \subseteq Filled
    <3>1. CASE disp' = IdleDisp BY <2>3, <3>1, IdleFields DEF Filled, Queued
    <3>2. CASE disp' # IdleDisp
      <4>1. \A s \in disp'.scan : jobs[s.job].status \in {"waiting", "delayed"}
        <5>1. PICK seen \in SUBSET {j \in Job : jobs[j].status \in {"waiting", "delayed"}} :
                disp' = [disp EXCEPT !.pc = "evict",
                                     !.scan = {[job |-> j, aids |-> jobs[j].aids,
                                                lease |-> jobs[j].lease] : j \in seen}]
          <6>1. \A v : {j \in Job : /\ jobs[j].status \in {"waiting", "delayed"}
                                    /\ jobs[j].priority > tracking[v].priority}
                         \in SUBSET {j \in Job : jobs[j].status \in {"waiting", "delayed"}}
            OBVIOUS
          <6> QED BY <1>2, <3>2, <6>1, Zenon DEF DispScan
        <5>2. disp'.scan = {[job |-> j, aids |-> jobs[j].aids, lease |-> jobs[j].lease] : j \in seen}
          BY <5>1 DEF DispRecord
        <5> QED BY <5>2
      <4> QED BY <2>3, <4>1 DEF Filled, Queued
    <3> QED BY <3>1, <3>2
  <2>5. Cardinality(Filled') <= Cardinality(Filled) BY <2>4, FilledCounts, FS_Subset
  <2>6. Cardinality(Filled') + DispSlots' + ManualSlots' <= QueueCap + requests'
    BY <1>m, <1>n, <2>2, <2>5, SlotSum DEF SlotsMove
  <2>7. Unheld' BY <1>h, <2>3 DEF Unheld, Queued
  <2> QED BY <1>m, <2>6, <2>7 DEF SlotInv, Unheld
<1>3. CASE DispEvict
  <2>1. PICK s \in disp.scan :
         IF Removable(s.job)
         THEN /\ jobs' = [jobs EXCEPT ![s.job] = FreeJob]
              /\ disp' = [IdleDisp EXCEPT !.pc = "unlease", !.victim = {s}]
         ELSE /\ disp' = IF disp.scan = {s} THEN IdleDisp
                         ELSE [disp EXCEPT !.scan = @ \ {s}]
              /\ UNCHANGED jobs
    BY <1>3 DEF DispEvict
  <2>2. s.job \in Job /\ disp.pc = "evict" BY <1>3, <2>1 DEF DispEvict, DispRecord, ScannedJob
  <2>3. DispSlots = 0 BY <2>2 DEF DispSlots
  <2>4. CASE Removable(s.job)
    <3>1. disp'.pc = "unlease" BY <2>1, <2>4, IdleDispType DEF DispRecord
    <3>2. DispSlots' = 1 BY <3>1 DEF DispSlots
    <3>3. jobs'[s.job] = FreeJob /\ \A k \in Job \ {s.job} : jobs'[k] = jobs[k]
      BY <2>1, <2>2, <2>4
    <3>4. s.job \in Filled BY <2>1, <2>2, <2>4 DEF Filled, Queued, Removable
    <3>5. Cardinality(Filled') + 1 <= Cardinality(Filled)
      BY <3>1, <3>3, <3>4, FilledShrinks, IdleFields
    <3>6. DispSlots' <= DispSlots + 1 BY <2>3, <3>2
    <3>7. Cardinality(Filled') + DispSlots' + ManualSlots' <= QueueCap + requests'
      BY <1>m, <3>5, <3>6, SlotSum DEF SlotsMove
    <3>8. Unheld' BY <1>h, <3>3, IdleFields DEF Unheld, Queued
    <3> QED BY <1>m, <3>7, <3>8 DEF SlotInv, Unheld
  <2>5. CASE ~Removable(s.job)
    <3>1. \/ disp' = IdleDisp
          \/ disp'.pc = "evict" /\ disp'.scan \subseteq disp.scan
      BY <2>1, <2>2, <2>5 DEF DispRecord
    <3>2. DispSlots' = 0 /\ ListShrinks BY <1>i, <2>2, <3>1 DEF DispSlots, ListShrinks
    <3> QED BY <1>k, <1>n, <1>u, <2>1, <2>5, <3>2
  <2> QED BY <2>4, <2>5
<1>4. CASE DispEvictFails
  <2>1. JobsStay BY <1>4, IdleFields DEF DispEvictFails, JobsStay
  <2> QED BY <1>4, <1>i, <1>k, <1>n, <2>1 DEF DispEvictFails
<1>5. CASE DispUnlease
  <2>1. disp'.pc = "find" /\ disp'.room = 1 BY <1>5, IdleDispType DEF DispUnlease, DispRecord
  <2>2. DispSlots' = 1 /\ DispSlots = 1 BY <1>5, <2>1 DEF DispSlots, DispUnlease
  <2> QED BY <1>5, <1>k, <1>u, <1>v, <2>1, <2>2 DEF DispUnlease
<1>6. CASE DispFind
  <2>1. disp' = IdleDisp \/ (disp'.pc = "lease" /\ disp'.room = disp.room)
    BY <1>6 DEF DispFind, DispRecord
  <2>2. DispSlots' <= DispSlots /\ ListShrinks
    BY <1>6, <1>i, <1>n, <2>1 DEF DispSlots, DispFind, ListShrinks
  <2> QED BY <1>6, <1>k, <1>u, <2>2 DEF DispFind
<1>7. CASE DispLease
  <2>1. disp' = IdleDisp \/ (disp'.pc = "add" /\ disp'.room = disp.room)
    BY <1>7 DEF DispLease, DispRecord
  <2>2. DispSlots' <= DispSlots /\ ListShrinks
    BY <1>7, <1>i, <1>n, <2>1 DEF DispSlots, DispLease, ListShrinks
  <2> QED BY <1>7, <1>k, <1>u, <2>2 DEF DispLease
\* A job is added out of a slot of the claim.
<1>8. ASSUME disp.pc = "add", disp.room > 0, NEW j \in Job, NEW aids, NEW lease, NEW p,
             jobs' = [jobs EXCEPT ![j] = NewJob(aids, lease, p)],
             DispSlots' <= disp.room - 1, disp'.pc # "evict"
      PROVE  SlotInv'
  <2>1. /\ jobs'[j].status = "waiting" /\ \A k \in Job \ {j} : jobs'[k] = jobs[k]
    BY <1>8 DEF NewJob
  <2>2. Cardinality(Filled') <= Cardinality(Filled) + 1 BY <1>8, <1>v, <2>1, FilledGrows
  <2>3. DispSlots' + 1 <= DispSlots BY <1>8, <1>n DEF DispSlots
  <2>4. Cardinality(Filled') + DispSlots' + ManualSlots' <= QueueCap + requests'
    BY <1>m, <2>2, <2>3, SlotSum DEF SlotsMove
  <2>5. Unheld' BY <1>h, <2>1 DEF Unheld, Queued
  <2> QED BY <1>m, <2>4, <2>5 DEF SlotInv, Unheld
<1>9. CASE DispAdd
  <2>1. PICK chunk \in NextChunks, j \in FreeJobs, v \in disp.left :
          /\ jobs' = [jobs EXCEPT ![j] = NewJob(chunk, disp.lease, disp.rank[v])]
          /\ disp' = [disp EXCEPT !.room = @ - 1, !.left = @ \ chunk]
    BY <1>9 DEF DispAdd
  <2>2. disp'.pc = "add" /\ disp'.room = disp.room - 1 BY <1>9, <2>1 DEF DispAdd, DispRecord
  <2>3. DispSlots' <= disp.room - 1 BY <1>n, <2>2 DEF DispSlots, DispRecord
  <2>4. j \in Job BY DEF FreeJobs
  <2> QED BY <1>8, <1>9, <2>1, <2>2, <2>3, <2>4 DEF DispAdd
<1>10. CASE DispAddFails
  <2>1. disp'.pc = "undo" BY <1>10 DEF DispAddFails, DispRecord
  <2>2. DispSlots' = 0 /\ disp.room \in Nat BY <2>1 DEF DispSlots, DispRecord
  <2>3. CASE jobs' = jobs BY <1>k, <1>n, <1>u, <1>v, <2>1, <2>2, <2>3
  <2>4. CASE jobs' # jobs
    <3>1. PICK chunk \in NextChunks, j \in FreeJobs, v \in disp.left :
            jobs' = [jobs EXCEPT ![j] = NewJob(chunk, disp.lease, disp.rank[v])]
      BY <1>10, <2>4 DEF DispAddFails
    <3>2. j \in Job BY DEF FreeJobs
    <3>3. DispSlots' <= disp.room - 1 BY <1>10, <2>2 DEF DispAddFails
    <3> QED BY <1>8, <1>10, <2>1, <3>1, <3>2, <3>3 DEF DispAddFails
  <2> QED BY <2>3, <2>4
<1>11. CASE DispRelease
  BY <1>11, <1>i, <1>k, <1>n, <1>u DEF DispRelease
<1>12. CASE DispReleaseFails
  <2>1. disp' = IdleDisp \/ disp'.pc = "undo" BY <1>12 DEF DispReleaseFails, DispRecord
  <2>2. DispSlots' = 0 /\ ListShrinks BY <1>i, <2>1 DEF DispSlots, ListShrinks
  <2> QED BY <1>12, <1>k, <1>n, <1>u, <2>2 DEF DispReleaseFails
<1> QED
  BY <1>1, <1>2, <1>3, <1>4, <1>5, <1>6, <1>7, <1>9, <1>10, <1>11, <1>12
  DEF Dispatcher, DispStep

LEMMA ManualSlotsStep ==
    ASSUME StateOK, CountersOK, SlotInv, StateOK', CountersOK', Manual
    PROVE  SlotInv'
<1> USE DEF StateOK
<1>d. UNCHANGED disp /\ DispSlots' = DispSlots /\ ListShrinks
  BY Zenon DEF Manual, ManualStep, ManualBegin, ManualCreate, ManualRelease, ManualUpdate,
     ManualLease, ManualAdd, ManualAddFails, ManualUndo, DispSlots, ListShrinks
<1>h. Unheld BY DEF SlotInv, Unheld
<1>n. /\ DispSlots \in Nat /\ DispSlots' \in Nat /\ ManualSlots \in Nat /\ ManualSlots' \in Nat
      /\ requests \in Nat /\ requests' \in Nat /\ QueueCap \in Nat
      /\ Cardinality(Filled) \in Nat /\ Cardinality(Filled') \in Nat
  BY SlotTypes, SlotTypesNext, FilledCounts
<1>1. CASE ManualBegin
  <2>1. UNCHANGED jobs /\ requests' = requests + 1 /\ manual.pc = "idle" BY <1>1 DEF ManualBegin
  <2>2. Cardinality(Filled') <= Cardinality(Filled)
    <3>1. JobsStay BY <2>1 DEF JobsStay
    <3> QED BY <1>d, <1>h, <3>1, JobsStayCounts, FilledKept
  <2>3. ManualSlots' <= ManualSlots + 1 BY <1>n, <2>1 DEF ManualSlots
  <2>4. Cardinality(Filled') + DispSlots' + ManualSlots' <= QueueCap + requests'
    BY <1>d, <2>1, <2>2, <2>3, SlotSum DEF SlotsMove
  <2>5. requests' > 0 BY <1>n, <2>1
  <2>6. Unheld' BY <1>h, <2>1 DEF Unheld, Queued
  <2> QED BY <2>4, <2>5, <2>6 DEF SlotInv, Unheld
\* The request goes on.
<1>2. ASSUME UNCHANGED <<jobs, requests>>, manual.pc # "idle", ManualSlots' <= ManualSlots
      PROVE  SlotInv'
  <2>1. JobsStay BY <1>2 DEF JobsStay
  <2>2. DispSlots' <= DispSlots BY <1>d, <1>n
  <2> QED BY <1>2, <1>d, <1>h, <2>1, <2>2, JobsStayCounts, SlotsKept
<1>3. CASE ManualCreate \/ ManualRelease \/ ManualUpdate \/ ManualLease
  <2>1. manual.pc \in {"create", "release", "update", "lease"}
    BY <1>3 DEF ManualCreate, ManualRelease, ManualUpdate, ManualLease
  <2>2. ManualSlots' <= ManualSlots BY <1>n, <2>1 DEF ManualSlots
  <2>3. UNCHANGED <<jobs, requests>>
    BY <1>3 DEF ManualCreate, ManualRelease, ManualUpdate, ManualLease
  <2> QED BY <1>2, <2>1, <2>2, <2>3
<1>4. CASE ManualUndo
  <2>1. ManualSlots' = 0 BY <1>4, IdleFields DEF ManualUndo, ManualSlots
  <2> QED BY <1>2, <1>4, <1>n, <2>1 DEF ManualUndo
\* The request queues its job, or fails to.
<1>5. CASE ManualAdd \/ ManualAddFails
  <2>1. manual.pc = "add" /\ UNCHANGED requests /\ manual'.pc \in {"idle", "undo"}
    BY <1>5, IdleFields DEF ManualAdd, ManualAddFails, ManualRecord
  <2>2. ManualSlots = 1 /\ ManualSlots' = 0 BY <2>1 DEF ManualSlots
  <2>3. ManualSlots' + 1 <= ManualSlots BY <2>2
  <2>4. CASE UNCHANGED jobs BY <1>2, <1>n, <2>1, <2>2, <2>4
  <2>5. CASE jobs' # jobs
    <3>1. PICK j \in FreeJobs : jobs' = [jobs EXCEPT ![j] = NewJob(manual.aid, manual.lease, 1)]
      BY <1>5, <2>5 DEF ManualAdd, ManualAddFails
    <3>2. /\ j \in Job /\ jobs'[j].status = "waiting"
          /\ \A k \in Job \ {j} : jobs'[k] = jobs[k]
      BY <3>1 DEF FreeJobs, NewJob
    <3>3. Cardinality(Filled') <= Cardinality(Filled) + 1 BY <1>d, <3>2, FilledGrows
    <3>4. Cardinality(Filled') + DispSlots' + ManualSlots' <= QueueCap + requests'
      BY <1>d, <2>1, <2>3, <3>3, SlotSum DEF SlotsMove
    <3>5. Unheld' BY <1>h, <3>2 DEF Unheld, Queued
    <3> QED BY <2>1, <3>4, <3>5 DEF SlotInv, Unheld
  <2> QED BY <2>4, <2>5
<1> QED BY <1>1, <1>3, <1>4, <1>5 DEF Manual, ManualStep

\* Nobody else queues a job, but an operator who retries a failed one.  A worker's steps, except that
\* the job takes the renewed lease, leave the contents of the jobs alone.
LEMMA OtherJobsStay ==
    ASSUME StateOK, Command \/ Time \/ Queue
    PROVE  JobsStay \/ \E j \in Job : RetryJob(j)
<1> USE DEF StateOK
<1>1. CASE VideoCommand \/ Time
  <2>1. UNCHANGED jobs
    BY <1>1, Zenon DEF VideoCommand, Promote, Untrack, Register, Discover, Archive,
       RefreshMetadata, Time, BecomesDue, BecomesEligible, LeaseExpires
  <2> QED BY <2>1 DEF JobsStay
<1>2. ASSUME NEW j \in Job, JobReady(j) \/ JobStalled(j) \/ LockLost(j) PROVE JobsStay
  <2>1. \A k \in Job \ {j} : jobs'[k] = jobs[k]
    BY <1>2 DEF JobReady, JobStalled, LockLost
  <2>2. /\ Queued(j)' /\ Queued(j)
        /\ jobs'[j].aids = jobs[j].aids /\ jobs'[j].lease = jobs[j].lease
    BY <1>2 DEF JobReady, JobStalled, LockLost, JobRecord, Queued
  <2> QED BY <2>1, <2>2 DEF JobsStay, Queued
<1>3. CASE Crash
  BY <1>3 DEF Crash, JobsStay, JobRecord, Queued
<1>4. ASSUME NEW j \in Job, JobForgotten(j) \/ RemoveJob(j) PROVE JobsStay
  BY <1>4, IdleFields DEF JobForgotten, RemoveJob, JobsStay
<1> QED BY <1>1, <1>2, <1>3, <1>4 DEF Queue, Command, JobCommand

LEMMA FinishJobs ==
    ASSUME StateOK, NEW w \in Worker, Finish(w)
    PROVE  JobsStay
BY IdleFields DEF StateOK, Finish, JobsStay

LEMMA FailJobs ==
    ASSUME StateOK, NEW w \in Worker, Fail(w, jobs)
    PROVE  JobsStay
BY FailFields, NoWorkerAssumption DEF StateOK, JobsStay, Queued

LEMMA DelayJobs ==
    ASSUME StateOK, NEW w \in Worker, Delay(w)
    PROVE  JobsStay
BY DelayFields, NoWorkerAssumption DEF StateOK, JobsStay, Queued

\* A job that takes the renewed lease stays where it is, fails or is done.
LEMMA SavingJobs ==
    ASSUME StateOK, Unheld, NEW w \in Worker, RetrySave(w) \/ RetrySaveFails(w)
    PROVE  /\ work[w].pc = "save"
           /\ \A k \in Job :
                \/ jobs'[k] = FreeJob
                \/ /\ \/ jobs'[k].status = jobs[k].status /\ jobs'[k].holder = jobs[k].holder
                      \/ Queued(k) /\ jobs'[k].status = "failed" /\ jobs'[k].holder = NoWorker
                   /\ \/ jobs'[k].aids = jobs[k].aids /\ jobs'[k].lease = jobs[k].lease
                      \/ k = work[w].job /\ jobs'[k].lease = work[w].next
<1> USE DEF StateOK
<1>1. work[w].pc = "save" BY DEF RetrySave, RetrySaveFails
<1>2. CASE RetrySave(w)
  <2>1. Finish(w) \/ jobs' = [jobs EXCEPT ![work[w].job] = FreeJob] \/ jobs' = Saved(w)
    BY <1>2 DEF RetrySave
  <2>2. CASE Finish(w) BY <1>1, <2>2 DEF Finish
  <2>3. CASE jobs' = [jobs EXCEPT ![work[w].job] = FreeJob] BY <1>1, <2>3
  <2>4. CASE jobs' = Saved(w) BY <1>1, <2>4, SavedFields
  <2> QED BY <2>1, <2>2, <2>3, <2>4
<1>3. CASE RetrySaveFails(w)
  <2>1. PICK stored \in {jobs, Saved(w)} : jobs' = stored \/ Fail(w, stored)
    BY <1>3 DEF RetrySaveFails
  <2>2. stored \in [Job -> JobRecord] BY <2>1, SavedType
  <2>3. \A k \in Job : /\ stored[k].status = jobs[k].status /\ stored[k].holder = jobs[k].holder
                       /\ \/ stored[k].aids = jobs[k].aids /\ stored[k].lease = jobs[k].lease
                          \/ k = work[w].job /\ stored[k].lease = work[w].next
    BY <2>1, SavedFields
  <2>4. CASE jobs' = stored BY <1>1, <2>3, <2>4
  <2>5. CASE Fail(w, stored)
    <3>1. \A k \in Job : stored[k].holder = w => Queued(k)
      BY <2>3, NoWorkerAssumption DEF Unheld
    <3> QED BY <1>1, <2>2, <2>3, <2>5, <3>1, FailFields
  <2> QED BY <2>1, <2>4, <2>5
<1> QED BY <1>2, <1>3

LEMMA WorkJobs ==
    ASSUME StateOK, NEW w \in Worker,
           (\E j \in Job : WorkStart(w, j)) \/ WorkStep(w) \/ WorkFault(w) \/ LateCommit(w)
    PROVE  JobsStay \/ RetrySave(w) \/ RetrySaveFails(w)
<1> USE DEF StateOK
<1>u. ASSUME UNCHANGED jobs PROVE JobsStay BY <1>u DEF JobsStay
<1>1. ASSUME NEW j \in Job, WorkStart(w, j) PROVE JobsStay
  <2>1. \/ jobs' = [jobs EXCEPT ![j] = FreeJob]
        \/ jobs' = [jobs EXCEPT ![j] = [jobs[j] EXCEPT !.status = "active", !.holder = w]]
    BY <1>1, Zenon DEF WorkStart
  <2>2. jobs[j].status = "waiting" BY <1>1 DEF WorkStart
  <2>3. CASE jobs' = [jobs EXCEPT ![j] = FreeJob] BY <2>3, IdleFields DEF JobsStay
  <2>4. CASE jobs' = [jobs EXCEPT ![j] = [jobs[j] EXCEPT !.status = "active", !.holder = w]]
    <3>1. jobs'[j].aids = jobs[j].aids /\ jobs'[j].lease = jobs[j].lease
      BY <2>4 DEF JobRecord
    <3>2. Queued(j) /\ Queued(j)' BY <2>2, <2>4 DEF Queued, JobRecord
    <3> QED BY <2>2, <2>4, <3>1, <3>2 DEF JobsStay, Queued
  <2> QED BY <2>1, <2>3, <2>4
<1>2. Finish(w) \/ Fail(w, jobs) \/ Delay(w) \/ UNCHANGED jobs
        \/ (\E j \in Job : WorkStart(w, j)) \/ RetrySave(w) \/ RetrySaveFails(w)
  BY Zenon DEF WorkStep, WorkFilter, WorkFetch, WorkCommit, WorkPending, WorkProbe,
     WorkProbed, RetryRead, RetryRenew, RetryDelay, WorkFault, WorkNoteFails,
     WorkApiError, WorkThrows, RetryRenewFails, RetryDelayFails, Deadline, LateCommit
<1> QED BY <1>u, <1>1, <1>2, FinishJobs, FailJobs, DelayJobs

LEMMA OtherSlots ==
    ASSUME StateOK, CountersOK, SlotInv, StateOK', CountersOK', Command \/ Time \/ Queue
    PROVE  SlotInv'
<1> USE DEF StateOK
<1>h. Unheld BY DEF SlotInv, Unheld
<1>n. DispSlots \in Nat /\ ManualSlots \in Nat BY SlotTypes
<1>1. CASE \E j \in Job : RetryJob(j)
  <2>1. PICK j \in Job : RetryJob(j) BY <1>1
  <2>2. UNCHANGED <<disp, manual>> /\ requests' = requests + 1 BY <2>1 DEF RetryJob
  <2>3. jobs'[j].status = "waiting" /\ \A k \in Job \ {j} : jobs'[k] = jobs[k]
    BY <2>1 DEF RetryJob, JobRecord
  <2>4. Cardinality(Filled') <= Cardinality(Filled) + 1
    BY <2>2, <2>3, FilledGrows DEF ListShrinks
  <2>5. DispSlots' = DispSlots /\ ManualSlots' = ManualSlots BY <2>2 DEF DispSlots, ManualSlots
  <2>6. Cardinality(Filled') + DispSlots' + ManualSlots' <= QueueCap + requests'
    BY <2>2, <2>4, <2>5, SlotSum DEF SlotsMove
  <2>7. Unheld' BY <1>h, <2>3 DEF Unheld, Queued
  <2>8. requests' > 0 BY <2>2, SlotTypes
  <2> QED BY <2>6, <2>7, <2>8 DEF SlotInv, Unheld
<1>2. CASE ~(\E j \in Job : RetryJob(j))
  <2>1. \/ UNCHANGED <<disp, manual>>
        \/ disp' = IdleDisp /\ manual' = IdleManual
    BY <1>2, Zenon DEF Command, VideoCommand, JobCommand, Promote, Untrack, Register, Discover,
       Archive, RefreshMetadata, RemoveJob, Time, BecomesDue, BecomesEligible, LeaseExpires, Queue,
       JobReady, JobStalled, JobForgotten, LockLost, Crash
  <2>2. UNCHANGED requests
    BY <1>2, Zenon DEF Command, VideoCommand, JobCommand, Promote, Untrack, Register, Discover,
       Archive, RefreshMetadata, RemoveJob, Time, BecomesDue, BecomesEligible, LeaseExpires, Queue,
       JobReady, JobStalled, JobForgotten, LockLost, Crash
  <2>3. DispSlots' <= DispSlots /\ ManualSlots' <= ManualSlots
    BY <1>n, <2>1, IdleFields DEF DispSlots, ManualSlots
  <2>4. (manual'.pc # "idle" => manual.pc # "idle") /\ ListShrinks
    BY <2>1, IdleFields DEF ListShrinks
  <2>5. CountsStay BY <1>2, <1>h, OtherJobsStay, JobsStayCounts
  <2> QED BY <2>2, <2>3, <2>4, <2>5, SlotsKept
<1> QED BY <1>1, <1>2

LEMMA WorkSlots ==
    ASSUME StateOK, CountersOK, SlotInv, StateOK', CountersOK', Work
    PROVE  SlotInv'
<1> USE DEF StateOK
<1>p. PICK w \in Worker :
      (\E j \in Job : WorkStart(w, j)) \/ WorkStep(w) \/ WorkFault(w) \/ LateCommit(w)
  BY DEF Work
<1>d. UNCHANGED <<disp, manual, requests>>
  BY <1>p, Zenon DEF WorkStart, WorkStep, WorkFilter, WorkFetch, WorkCommit, WorkPending, WorkProbe,
     WorkProbed, RetryRead, RetryRenew, RetrySave, RetryDelay, WorkFault, WorkNoteFails,
     WorkApiError, WorkThrows, RetryRenewFails, RetrySaveFails, RetryDelayFails, Deadline, LateCommit
<1>s. DispSlots' = DispSlots /\ ManualSlots' = ManualSlots /\ ListShrinks
  BY <1>d DEF DispSlots, ManualSlots, ListShrinks
<1>n. DispSlots' <= DispSlots /\ ManualSlots' <= ManualSlots BY <1>s, SlotTypes
<1>h. Unheld BY DEF SlotInv, Unheld
<1>1. CountsStay
  <2>1. CASE JobsStay BY <1>h, <2>1, JobsStayCounts
  <2>2. CASE RetrySave(w) \/ RetrySaveFails(w)
    BY <1>h, <2>2, SavingJobs, IdleFields DEF CountsStay, Unheld, Queued
  <2> QED BY <1>p, <2>1, <2>2, WorkJobs
<1> QED BY <1>1, <1>d, <1>n, <1>s, SlotsKept

LEMMA SlotInit == Init => SlotInv
<1> SUFFICES ASSUME Init PROVE SlotInv OBVIOUS
<1>1. \A j \in Job : jobs[j].status = "free" /\ jobs[j].holder = NoWorker
  BY IdleFields DEF Init
<1>2. Filled = {} BY <1>1, IdleFields DEF Init, Filled, Queued
<1>3. Cardinality(Filled) = 0 BY <1>2, FS_EmptySet
<1>4. DispSlots = 0 /\ ManualSlots = 0 BY IdleFields DEF Init, DispSlots, ManualSlots
<1> QED BY <1>1, <1>3, <1>4, IdleFields, BoundAssumption DEF Init, SlotInv

LEMMA SlotInductive == TypeOK /\ TypeOK' /\ SlotInv /\ [Next]_vars => SlotInv'
<1> SUFFICES ASSUME TypeOK, TypeOK', SlotInv, [Next]_vars PROVE SlotInv' OBVIOUS
<1>1. StateOK /\ CountersOK /\ StateOK' /\ CountersOK' BY DEF TypeOK, StateOK, CountersOK
<1>2. CASE Step
  BY <1>1, <1>2, DispatcherSlots, ManualSlotsStep, OtherSlots, WorkSlots DEF Step
<1>3. CASE UNCHANGED vars
  BY <1>3 DEF vars, SlotInv, Filled, Queued, DispSlots, ManualSlots
<1> QED BY <1>2, <1>3 DEF Next

LEMMA SlotInvBounded == TypeOK /\ SlotInv => QueueBounded
<1> SUFFICES ASSUME TypeOK, SlotInv PROVE QueueBounded OBVIOUS
<1>1. StateOK /\ CountersOK BY TypeParts
<1> QED BY <1>1, DepthNat, DepthFilled, FilledCounts, SlotTypes DEF SlotInv, QueueBounded, DispSlots

\* The queue never holds more jobs than its cap, the manual requests and an operator's retries of
\* failed jobs allow, not even after the dispatcher has queued everything it has made room for: a
\* slot that an eviction counts has really become free, be the evicted job one that has failed since
\* it was listed, and the workers' retries, redeliveries and late answers never put a job back that
\* is gone or has failed.
THEOREM QueueBoundedAlways == Spec => []QueueBounded
<1>1. Init => TypeOK /\ SlotInv BY InitTypes, SlotInit
<1>2. TypeOK /\ SlotInv /\ [Next]_vars => (TypeOK /\ SlotInv)' BY NextTypes, SlotInductive
<1> QED BY <1>1, <1>2, SlotInvBounded, PTL DEF Spec

-----------------------------------------------------------------------------
(* No lease is abandoned.  What the dispatcher listed stays true of a job   *)
(* until the job renews its lease, and a slot that no fault has disturbed   *)
(* holds its job and has all of its rows in hand.                           *)

\* Nothing has been listed and nobody evicted.
LEMMA IdleDispFields ==
    IdleDisp.pc = "idle" /\ IdleDisp.scan = {} /\ IdleDisp.victim = {} /\ IdleDisp.left = {}
BY DEF IdleDisp

\* A listed job that is still queued under the lease listed was so before the step.
ListedKept ==
    \A s \in disp.scan :
        jobs'[s.job].status # "free" /\ jobs'[s.job].lease = s.lease
            => /\ jobs[s.job].status # "free" /\ jobs[s.job].lease = s.lease
               /\ jobs'[s.job].aids = jobs[s.job].aids

LEMMA JobsStayListed ==
    ASSUME StateOK, SlotInv, JobsStay
    PROVE  ListedKept
<1>1. \A s \in disp.scan : s.job \in Job BY DEF StateOK, DispRecord, ScannedJob
<1>2. \A j \in Job : jobs[j].status = "free" => ~Queued(j) /\ jobs[j].holder = NoWorker
  BY DEF SlotInv, Queued
<1> QED BY <1>1, <1>2 DEF JobsStay, ListedKept

\* A new job takes no id that the list names.
LEMMA NewJobListed ==
    ASSUME NEW j \in FreeJobs, \A k \in Job \ {j} : jobs'[k] = jobs[k], StateOK
    PROVE  ListedKept
<1>1. \A s \in disp.scan : s.job \in Job /\ s.job # j
  BY DEF StateOK, DispRecord, ScannedJob, FreeJobs
<1> QED BY <1>1 DEF ListedKept

\* The usual step: the list shrinks, and no lease is renewed.
LEMMA ScanKept ==
    ASSUME ScanTrue, ListedKept, WorkKept, disp'.scan \subseteq disp.scan,
           OneVictim'
    PROVE  ScanTrue'
<1>1. ASSUME NEW s \in disp.scan, jobs'[s.job].status # "free" /\ jobs'[s.job].lease = s.lease
      PROVE  jobs'[s.job].aids = s.aids
  BY <1>1 DEF ListedKept, ScanTrue
<1>2. ASSUME NEW s \in disp.scan, NEW w \in Worker, work'[w].pc = "save"
      PROVE  work'[w].next # s.lease
  BY <1>2 DEF WorkKept, ScanTrue
<1> QED BY <1>1, <1>2 DEF ScanTrue

LEMMA DispatcherScan ==
    ASSUME StateOK, CarrierParts, SlotInv, ScanTrue, Dispatcher
    PROVE  ScanTrue'
<1> USE DEF StateOK
<1>w. UNCHANGED work /\ WorkKept
  BY Zenon DEF Dispatcher, DispStep, DispCount, DispScan, DispEvict, DispEvictFails, DispUnlease,
     DispFind, DispLease, DispAdd, DispAddFails, DispRelease, DispReleaseFails, WorkKept
<1>v. OneVictim /\ (disp.pc # "unlease" => disp.victim = {}) BY DEF ScanTrue, OneVictim
<1>1. CASE DispScan
  <2>1. UNCHANGED jobs /\ disp.pc = "scan" BY <1>1 DEF DispScan
  <2>2. PICK seen \in SUBSET Job :
          \/ disp' = IdleDisp
          \/ disp' = [disp EXCEPT !.pc = "evict",
                                  !.scan = {[job |-> j, aids |-> jobs[j].aids,
                                             lease |-> jobs[j].lease] : j \in seen}]
    <3>1. \A v : {j \in Job : /\ jobs[j].status \in {"waiting", "delayed"}
                              /\ jobs[j].priority > tracking[v].priority} \in SUBSET Job
      OBVIOUS
    <3> QED BY <1>1, <3>1, Zenon DEF DispScan
  <2>3. CASE disp' = IdleDisp BY <2>3, IdleDispFields DEF ScanTrue, OneVictim
  <2>4. CASE disp' = [disp EXCEPT !.pc = "evict",
                                  !.scan = {[job |-> j, aids |-> jobs[j].aids,
                                             lease |-> jobs[j].lease] : j \in seen}]
    <3>1. disp'.victim = {} BY <1>v, <2>1, <2>4 DEF DispRecord
    <3>2. disp'.scan = {[job |-> j, aids |-> jobs[j].aids, lease |-> jobs[j].lease] : j \in seen}
      BY <2>4 DEF DispRecord
    <3>3. ASSUME NEW s \in disp'.scan
          PROVE  /\ jobs'[s.job].aids = s.aids
                 /\ \A w \in Worker : work'[w].pc = "save" => work'[w].next # s.lease
      <4>1. PICK j \in seen : s = [job |-> j, aids |-> jobs[j].aids, lease |-> jobs[j].lease]
        BY <3>2
      <4>2. s.job = j /\ s.aids = jobs[j].aids /\ s.lease = jobs[j].lease BY <4>1
      <4>3. j \in Job OBVIOUS
      <4> QED BY <1>w, <2>1, <4>2, <4>3 DEF CarrierParts, RenewalUnqueued
    <3> QED BY <3>1, <3>3 DEF ScanTrue, OneVictim
  <2> QED BY <2>2, <2>3, <2>4
<1>2. ASSUME JobsStay, disp'.scan \subseteq disp.scan, OneVictim'
      PROVE  ScanTrue'
  BY <1>2, <1>w, JobsStayListed, ScanKept
<1>3. ASSUME disp' = IdleDisp
      PROVE  disp'.scan \subseteq disp.scan /\ OneVictim'
  BY <1>3, IdleDispFields DEF OneVictim
<1>4. CASE DispEvict
  <2>1. PICK s \in disp.scan :
         IF Removable(s.job)
         THEN /\ jobs' = [jobs EXCEPT ![s.job] = FreeJob]
              /\ disp' = [IdleDisp EXCEPT !.pc = "unlease", !.victim = {s}]
         ELSE /\ disp' = IF disp.scan = {s} THEN IdleDisp
                         ELSE [disp EXCEPT !.scan = @ \ {s}]
              /\ UNCHANGED jobs
    BY <1>4 DEF DispEvict
  <2>2. JobsStay BY <2>1, IdleFields DEF JobsStay, DispRecord, ScannedJob
  <2>3. CASE disp' = [IdleDisp EXCEPT !.pc = "unlease", !.victim = {s}]
    <3>1. disp'.pc = "unlease" /\ disp'.scan = {} /\ disp'.victim = {s}
      BY <2>3, IdleDispType, IdleDispFields DEF DispRecord
    <3> QED BY <1>2, <2>2, <3>1 DEF OneVictim
  <2>4. CASE disp' = [disp EXCEPT !.scan = @ \ {s}]
    <3>1. disp.victim = {} BY <1>4, <1>v DEF DispEvict
    <3>2. disp'.victim = {} /\ disp'.scan \subseteq disp.scan BY <2>4, <3>1 DEF DispRecord
    <3> QED BY <1>2, <2>2, <3>2 DEF OneVictim
  <2> QED BY <1>2, <1>3, <2>1, <2>2, <2>3, <2>4
<1>5. CASE DispEvictFails
  <2>1. JobsStay BY <1>5, IdleFields DEF DispEvictFails, JobsStay
  <2> QED BY <1>2, <1>3, <1>5, <2>1 DEF DispEvictFails
\* A step that takes no list and makes no victim.
<1>6. ASSUME UNCHANGED jobs, disp.pc # "unlease",
             disp' = IdleDisp \/ (disp'.scan = disp.scan /\ disp'.victim = disp.victim)
      PROVE  ScanTrue'
  <2>1. JobsStay BY <1>6 DEF JobsStay
  <2>2. CASE disp' = IdleDisp BY <1>2, <1>3, <2>1, <2>2
  <2>3. CASE disp'.scan = disp.scan /\ disp'.victim = disp.victim 
    BY <1>2, <1>6, <1>v, <2>1, <2>3 DEF OneVictim
  <2> QED BY <1>6, <2>2, <2>3
<1>7. CASE DispCount
  <2>1. disp'.scan = {} /\ disp'.victim = {} BY <1>7, IdleDispType, IdleDispFields DEF DispCount, DispRecord
  <2>2. JobsStay BY <1>7 DEF DispCount, JobsStay
  <2> QED BY <1>2, <2>1, <2>2 DEF OneVictim
<1>8. CASE DispUnlease
  <2>1. disp'.scan = {} /\ disp'.victim = {}
    BY <1>8, IdleDispType, IdleDispFields DEF DispUnlease, DispRecord
  <2>2. JobsStay BY <1>8 DEF DispUnlease, JobsStay
  <2> QED BY <1>2, <2>1, <2>2 DEF OneVictim
<1>9. CASE DispFind \/ DispLease \/ DispReleaseFails
  <2>1. disp' = IdleDisp \/ (disp'.scan = disp.scan /\ disp'.victim = disp.victim)
    <3>1. CASE DispFind BY <3>1 DEF DispFind, DispRecord
    <3>2. CASE DispLease BY <3>2 DEF DispLease, DispRecord
    <3>3. CASE DispReleaseFails BY <3>3 DEF DispReleaseFails, DispRecord
    <3> QED BY <1>9, <3>1, <3>2, <3>3
  <2>2. UNCHANGED jobs /\ disp.pc # "unlease"
    BY <1>9 DEF DispFind, DispLease, DispReleaseFails, DispDoneAdding
  <2> QED BY <1>6, <2>1, <2>2
<1>10. CASE DispRelease
  BY <1>6, <1>10 DEF DispRelease, DispDoneAdding
<1>11. CASE DispAdd \/ DispAddFails
  <2>1. disp.pc = "add" /\ disp'.scan = disp.scan /\ disp'.victim = disp.victim
    BY <1>11 DEF DispAdd, DispAddFails, DispRecord
  <2>2. CASE UNCHANGED jobs BY <1>6, <2>1, <2>2
  <2>3. CASE jobs' # jobs
    <3>1. PICK j \in FreeJobs : \A k \in Job \ {j} : jobs'[k] = jobs[k]
      BY <1>11, <2>3 DEF DispAdd, DispAddFails
    <3>2. ListedKept BY <3>1, NewJobListed
    <3> QED BY <1>v, <1>w, <2>1, <3>2, ScanKept DEF OneVictim
  <2> QED BY <2>2, <2>3
<1> QED
  BY <1>1, <1>4, <1>5, <1>7, <1>8, <1>9, <1>10, <1>11 DEF Dispatcher, DispStep

LEMMA OtherScan ==
    ASSUME StateOK, CarrierParts, SlotInv, ScanTrue, Manual \/ Command \/ Time \/ Queue
    PROVE  ScanTrue'
<1> USE DEF StateOK
<1>1. CASE Manual
  <2>1. UNCHANGED <<disp, work>>
    BY <1>1, Zenon DEF Manual, ManualStep, ManualBegin, ManualCreate, ManualRelease, ManualUpdate,
       ManualLease, ManualAdd, ManualAddFails, ManualUndo
  <2>2. UNCHANGED jobs \/ \E j \in FreeJobs : \A k \in Job \ {j} : jobs'[k] = jobs[k]
    <3>1. UNCHANGED jobs \/ \E j \in FreeJobs : jobs' = [jobs EXCEPT ![j] =
                                                         NewJob(manual.aid, manual.lease, 1)]
      BY <1>1 DEF Manual, ManualStep, ManualBegin, ManualCreate, ManualRelease, ManualUpdate,
         ManualLease, ManualAdd, ManualAddFails, ManualUndo
    <3> QED BY <3>1
  <2>3. ListedKept
    <3>1. CASE UNCHANGED jobs BY <3>1 DEF ListedKept
    <3> QED BY <2>2, <3>1, NewJobListed
  <2> QED BY <2>1, <2>3, ScanKept DEF WorkKept, ScanTrue, OneVictim
<1>2. CASE Command \/ Time \/ Queue
  <2>1. ListedKept
    <3>1. ASSUME NEW j \in Job, RetryJob(j) PROVE ListedKept
      BY <3>1 DEF RetryJob, ListedKept, DispRecord, ScannedJob, JobRecord
    <3> QED BY <1>2, <3>1, OtherJobsStay, JobsStayListed
  <2>2. \/ UNCHANGED <<disp, work>>
        \/ disp' = IdleDisp /\ work' = [w \in Worker |-> IdleWork]
    BY <1>2, Zenon DEF Command, VideoCommand, JobCommand, Promote, Untrack, Register, Discover,
       Archive, RefreshMetadata, RemoveJob, RetryJob, Time, BecomesDue, BecomesEligible,
       LeaseExpires, Queue, JobReady, JobStalled, JobForgotten, LockLost, Crash
  <2>3. WorkKept BY <2>2, IdleFields DEF WorkKept
  <2>4. disp'.scan \subseteq disp.scan /\ OneVictim'
    BY <2>2, IdleDispFields DEF ScanTrue, OneVictim
  <2> QED BY <2>1, <2>3, <2>4, ScanKept
<1> QED BY <1>1, <1>2

\* What a worker step does to the renewed leases.
LEMMA WorkRenews ==
    ASSUME StateOK, NEW w \in Worker,
           (\E j \in Job : WorkStart(w, j)) \/ WorkStep(w) \/ WorkFault(w) \/ LateCommit(w)
    PROVE  WorkKept \/ RetryRenew(w)
<1> USE DEF StateOK
<1>w. work[w] \in WorkRecord OBVIOUS
<1>o. \A u \in Worker \ {w} : work'[u] = work[u]
  BY DEF WorkStart, WorkStep, WorkFilter, WorkFetch, WorkCommit, WorkPending, WorkProbe, WorkProbed,
     RetryRead, RetryRenew, RetrySave, RetryDelay, WorkFault, WorkNoteFails, WorkApiError,
     WorkThrows, RetryRenewFails, RetrySaveFails, RetryDelayFails, Deadline, LateCommit, Finish,
     Fail, Delay, Retry
<1>q. ASSUME work'[w].pc # "save" PROVE WorkKept BY <1>o, <1>q, SlotKept
<1>f. ASSUME Finish(w) PROVE WorkKept BY <1>f, <1>q, FinishFields
<1>r. ASSUME NEW aids, NEW why, Retry(w, aids, why) PROVE WorkKept BY <1>r, <1>q, RetryFields
<1>b. ASSUME NEW stored \in [Job -> JobRecord], Fail(w, stored) PROVE WorkKept
  BY <1>b, <1>q, FailFields
<1>d. ASSUME Delay(w) PROVE WorkKept BY <1>d, <1>q, DelayFields
<1>1. ASSUME NEW j \in Job, WorkStart(w, j) PROVE WorkKept
  <2> DEFINE rec == [IdleWork EXCEPT !.pc = "filter", !.job = j, !.aids = jobs[j].aids,
                                     !.lease = jobs[j].lease]
  <2>1. rec.pc = "filter" BY IdleWorkType DEF WorkRecord
  <2>2. UNCHANGED work \/ work' = [work EXCEPT ![w] = rec] BY <1>1, Zenon DEF WorkStart
  <2> HIDE DEF rec
  <2>3. UNCHANGED work \/ work'[w].pc # "save" BY <2>1, <2>2
  <2>4. CASE UNCHANGED work BY <2>4 DEF WorkKept
  <2> QED BY <1>q, <2>3, <2>4
<1>2. CASE WorkFilter(w) BY <1>2, <1>w, <1>f, <1>q DEF WorkFilter, WorkRecord
<1>3. CASE WorkFetch(w) BY <1>3, <1>w, <1>q DEF WorkFetch, WorkRecord
<1>4. CASE WorkCommit(w) BY <1>4, <1>w, <1>f, <1>q DEF WorkCommit, WorkRecord
<1>5. CASE WorkPending(w) BY <1>5, <1>w, <1>q DEF WorkPending, WorkRecord
<1>6. CASE WorkProbe(w) BY <1>6, <1>w, <1>q DEF WorkProbe, WorkRecord
<1>7. CASE WorkProbed(w) BY <1>7, <1>f, <1>r DEF WorkProbed
<1>8. CASE RetryRead(w) BY <1>8, <1>w, <1>q DEF RetryRead, WorkRecord
<1>9. CASE RetrySave(w)
  <2>1. Rest(w).pc = "idle" BY DEF Rest, IdleWork
  <2>2. CASE Finish(w) BY <1>f, <2>2
  <2>3. CASE work' = [work EXCEPT ![w] = Rest(w)] BY <1>w, <1>q, <2>1, <2>3
  <2>4. CASE work' = [work EXCEPT ![w] = [@ EXCEPT !.pc = "delay", !.aids = work[w].keep,
                                                   !.lease = work[w].next]]
    BY <1>w, <1>q, <2>4 DEF WorkRecord
  <2> QED BY <1>9, <2>2, <2>3, <2>4, Zenon DEF RetrySave
<1>10. CASE RetryDelay(w) \/ RetryDelayFails(w)
  BY <1>10, <1>b, <1>d DEF RetryDelay, RetryDelayFails
<1>11. CASE WorkApiError(w) \/ WorkThrows(w) BY <1>11, <1>r DEF WorkApiError, WorkThrows
<1>12. CASE RetryRenewFails(w) \/ WorkNoteFails(w)
  BY <1>12, <1>b, <1>r DEF RetryRenewFails, WorkNoteFails
<1>13. CASE RetrySaveFails(w) BY <1>13, <1>b, <1>r, SavedType DEF RetrySaveFails
<1>14. CASE Deadline(w) BY <1>14, <1>w, <1>q, IdleWorkType DEF Deadline, WorkRecord
<1>15. CASE LateCommit(w)
  <2>1. work'[w].pc = work[w].pc /\ work'[w].next = work[w].next
    BY <1>w, <1>15 DEF LateCommit, WorkRecord
  <2> QED BY <1>o, <2>1 DEF WorkKept
<1> QED
  BY <1>1, <1>2, <1>3, <1>4, <1>5, <1>6, <1>7, <1>8, <1>9, <1>10, <1>11, <1>12, <1>13, <1>14, <1>15
  DEF WorkStep, WorkFault

LEMMA WorkScan ==
    ASSUME StateOK, CarrierParts, SlotInv, ScanTrue, Work
    PROVE  ScanTrue'
<1> USE DEF StateOK
<1>p. PICK w \in Worker :
      (\E j \in Job : WorkStart(w, j)) \/ WorkStep(w) \/ WorkFault(w) \/ LateCommit(w)
  BY DEF Work
<1>d. UNCHANGED disp
  BY <1>p, Zenon DEF WorkStart, WorkStep, WorkFilter, WorkFetch, WorkCommit, WorkPending, WorkProbe,
     WorkProbed, RetryRead, RetryRenew, RetrySave, RetryDelay, WorkFault, WorkNoteFails,
     WorkApiError, WorkThrows, RetryRenewFails, RetrySaveFails, RetryDelayFails, Deadline, LateCommit
<1>1. ASSUME ListedKept, WorkKept PROVE ScanTrue'
  BY <1>1, <1>d, ScanKept DEF ScanTrue, OneVictim
<1>2. CASE RetryRenew(w)
  <2>1. FreshLease \notin LeasesInUse BY <1>2, FreshFacts DEF RetryRenew
  <2>2. \A s \in disp.scan : s.lease \in LeasesInUse BY DEF LeasesInUse
  <2>3. work'[w].next = FreshLease /\ \A u \in Worker \ {w} : work'[u] = work[u]
    BY <1>2 DEF RetryRenew, WorkRecord
  <2> QED BY <1>2, <1>d, <2>1, <2>2, <2>3 DEF RetryRenew, ScanTrue, OneVictim
\* The job is saved under a lease that the list does not name.
<1>3. CASE RetrySave(w) \/ RetrySaveFails(w)
  <2>1. Unheld BY DEF SlotInv, Unheld
  <2>2. work[w].pc = "save" BY <1>3, <2>1, SavingJobs
  <2>3. WorkKept BY <1>p, <2>2, WorkRenews DEF RetryRenew
  <2>4. \A s \in disp.scan : s.job \in Job /\ s.lease # work[w].next
    BY <2>2 DEF ScanTrue, DispRecord, ScannedJob
  <2>5. \A k \in Job : jobs'[k].status # "free" =>
          /\ jobs[k].status # "free"
          /\ \/ jobs'[k].aids = jobs[k].aids /\ jobs'[k].lease = jobs[k].lease
             \/ jobs'[k].lease = work[w].next
    BY <1>3, <2>1, SavingJobs, IdleFields DEF Queued
  <2>6. ListedKept BY <2>4, <2>5 DEF ListedKept
  <2> QED BY <1>1, <2>3, <2>6
<1>4. CASE ~RetryRenew(w) /\ ~RetrySave(w) /\ ~RetrySaveFails(w)
  BY <1>p, <1>1, <1>4, WorkJobs, WorkRenews, JobsStayListed
<1> QED BY <1>2, <1>3, <1>4

SlotsHold == \A w \in Worker : work[w].pc # "idle" => SlotHoldsJob(w)

\* No row gets a lease back that somebody still mentions.
LEMMA NotRegained ==
    ASSUME LeasesFresh, NEW lease \in Lease, lease \in LeasesInUse, NEW v \in Video,
           tracking'[v].lease = lease
    PROVE  tracking[v].lease = lease
BY NoLeaseAssumption DEF LeasesFresh

\* A slot whose job and locals stay holds its job, whatever becomes of the rows.
LEMMA SlotUndisturbed ==
    ASSUME StateOK, HoldersLeased, LeasesFresh, NEW w \in Worker, work[w].pc # "idle",
           SlotHoldsJob(w),
           work'[w].pc = work[w].pc, work'[w].job = work[w].job, work'[w].aids = work[w].aids,
           work'[w].lease = work[w].lease, work'[w].batch = work[w].batch,
           work'[w].keep = work[w].keep,
           jobs'[work[w].job] = jobs[work[w].job]
    PROVE  SlotHoldsJob(w)'
<1>1. work[w].lease \in Lease /\ work[w].lease \in LeasesInUse BY InUse DEF HoldersLeased
<1>2. work[w].aids \subseteq Video BY DEF StateOK, WorkRecord
<1>3. Owned(tracking', work[w].aids, work[w].lease) \subseteq Owned(tracking, work[w].aids, work[w].lease)
  BY <1>1, <1>2, NotRegained DEF Owned
<1>4. Owned(tracking, work[w].aids, work[w].lease)'
        = Owned(tracking', work[w].aids, work[w].lease)
  BY DEF Owned
<1> QED BY <1>3, <1>4 DEF SlotHoldsJob

\* Steps that leave the slots and the locked jobs alone.
LEMMA SlotsUndisturbed ==
    ASSUME StateOK, HoldersLeased, LeasesFresh, SlotsHold, UNCHANGED work,
           \A j \in Job : jobs[j].status = "active" => jobs'[j] = jobs[j]
    PROVE  SlotsHold'
<1> SUFFICES ASSUME NEW w \in Worker, work'[w].pc # "idle" PROVE SlotHoldsJob(w)'
  BY DEF SlotsHold
<1>1. SlotHoldsJob(w) /\ work[w].pc # "idle" BY DEF SlotsHold
<1>2. jobs'[work[w].job] = jobs[work[w].job] BY <1>1 DEF SlotHoldsJob
<1> QED BY <1>1, <1>2, SlotUndisturbed

\* A step of one slot that leaves the jobs of the others alone.
LEMMA OthersUndisturbed ==
    ASSUME StateOK, HoldersLeased, LeasesFresh, SlotsHold, NEW w \in Worker,
           \A u \in Worker \ {w} : work'[u] = work[u],
           \A j \in Job : jobs[j].status = "active" /\ jobs[j].holder # w => jobs'[j] = jobs[j],
           work'[w].pc # "idle" => SlotHoldsJob(w)'
    PROVE  SlotsHold'
<1> SUFFICES ASSUME NEW u \in Worker \ {w}, work'[u].pc # "idle" PROVE SlotHoldsJob(u)'
  BY DEF SlotsHold
<1>1. SlotHoldsJob(u) /\ work[u].pc # "idle" BY DEF SlotsHold
<1>2. jobs'[work[u].job] = jobs[work[u].job] BY <1>1 DEF SlotHoldsJob
<1> QED BY <1>1, <1>2, SlotUndisturbed

\* The row keeps its lease or gets a new one, and somebody attends to it.
AttendsTo(v) ==
    /\ tracking'[v].lease # NoLease
    /\ tracking'[v].lease = tracking[v].lease => Attended(v)
    => Attended(v)' \/ EvictedOutdated(v) \/ RemovedByHand(v)

LEMMA DispatcherAttends ==
    ASSUME StateOK, HoldersLeased, LeasesFresh, ScanTrue, SlotsHold, disp.pc # "undo", DispStep
    PROVE  SlotsHold' /\ disp'.pc # "undo" /\ \A v \in Video : AttendsTo(v)
<1> USE DEF StateOK
<1>w. UNCHANGED <<work, manual>>
  BY Zenon DEF DispStep, DispCount, DispScan, DispEvict, DispUnlease, DispFind, DispLease, DispAdd,
     DispRelease
<1>j. \/ UNCHANGED jobs
      \/ DispAdd /\ \E j \in FreeJobs : \A k \in Job \ {j} : jobs'[k] = jobs[k]
      \/ DispEvict /\ \E s \in disp.scan : /\ Removable(s.job)
                                           /\ jobs' = [jobs EXCEPT ![s.job] = FreeJob]
                                           /\ disp' = [IdleDisp EXCEPT !.pc = "unlease",
                                                                       !.victim = {s}]
  <2>1. CASE DispAdd
    <3>1. PICK j \in FreeJobs : \A k \in Job \ {j} : jobs'[k] = jobs[k]
      BY <2>1 DEF DispAdd
    <3> QED BY <2>1, <3>1
  <2>2. CASE DispEvict BY <2>2 DEF DispEvict
  <2>3. CASE ~DispAdd /\ ~DispEvict
    BY <2>3, Zenon DEF DispStep, DispCount, DispScan, DispUnlease, DispFind, DispLease, DispRelease
  <2> QED BY <2>1, <2>2, <2>3
<1>1. SlotsHold'
  <2>1. \A j \in Job : jobs[j].status = "active" => jobs'[j] = jobs[j]
    BY <1>j DEF FreeJobs, Removable
  <2> QED BY <1>w, <2>1, SlotsUndisturbed
<1>2. disp'.pc # "undo"
  <2>1. CASE DispCount BY <2>1, IdleDispType DEF DispCount, DispRecord
  <2>2. CASE DispScan BY <2>2, IdleFields DEF DispScan, DispRecord
  <2>3. CASE DispEvict BY <2>3, IdleDispType, IdleFields DEF DispEvict, DispRecord
  <2>4. CASE DispUnlease BY <2>4, IdleDispType DEF DispUnlease, DispRecord
  <2>5. CASE DispFind BY <2>5, IdleFields DEF DispFind, DispRecord
  <2>6. CASE DispLease BY <2>6, IdleFields DEF DispLease, DispRecord
  <2>7. CASE DispAdd BY <2>7 DEF DispAdd, DispRecord
  <2>8. CASE DispRelease BY <2>8, IdleFields DEF DispRelease
  <2> QED BY <2>1, <2>2, <2>3, <2>4, <2>5, <2>6, <2>7, <2>8 DEF DispStep
<1>3. ASSUME NEW v \in Video, tracking'[v].lease # NoLease,
             tracking'[v].lease # tracking[v].lease
      PROVE  Attended(v)'
  <2>1. DispLease
    <3>1. CASE DispUnlease BY <1>3, <3>1, ReleaseLease DEF DispUnlease, ReleaseOwned
    <3>2. CASE DispRelease BY <1>3, <3>2, ReleaseLease DEF DispRelease
    <3>3. UNCHANGED tracking \/ DispUnlease \/ DispRelease \/ DispLease
      BY Zenon DEF DispStep, DispCount, DispScan, DispEvict, DispFind, DispAdd
    <3> QED BY <1>3, <3>1, <3>2, <3>3
  <2>2. v \in Claimed(tracking, disp.left) /\ tracking'[v].lease = FreshLease
    BY <1>3, <2>1 DEF DispLease, LeaseVideos, Claimed, Row
  <2>3. disp'.pc = "add" /\ disp'.left = Claimed(tracking, disp.left) /\ disp'.lease = FreshLease
    BY <2>1, <2>2 DEF DispLease, DispRecord
  <2> QED BY <2>2, <2>3 DEF Attended
<1>4. ASSUME NEW v \in Video, tracking'[v].lease # NoLease,
             tracking'[v].lease = tracking[v].lease, Attended(v)
      PROVE  Attended(v)' \/ EvictedOutdated(v)
  <2>1. ASSUME NEW j \in Job, Carries(j, v) PROVE Attended(v)' \/ EvictedOutdated(v)
    <3>1. CASE jobs'[j] = jobs[j] BY <1>4, <2>1, <3>1 DEF Attended, Carries, Queued
    <3>2. CASE jobs'[j] # jobs[j]
      <4>1. ~DispAdd \/ jobs'[j] = jobs[j]
        BY <1>j, <2>1 DEF FreeJobs, Carries, Queued, DispAdd, DispEvict
      <4>2. DispEvict BY <1>j, <3>2, <4>1
      <4>3. PICK s \in disp.scan : /\ jobs' = [jobs EXCEPT ![s.job] = FreeJob]
                                   /\ disp' = [IdleDisp EXCEPT !.pc = "unlease", !.victim = {s}]
        BY <1>j, <3>2, <4>1, <4>2
      <4>4. s.job = j /\ jobs'[j].status = "free" BY <3>2, <4>3, IdleFields
      <4>5. CASE s.lease = jobs[j].lease
        <5>1. v \in s.aids /\ s.lease = tracking'[v].lease
          BY <1>4, <2>1, <4>4, <4>5 DEF ScanTrue, Carries, Queued
        <5>2. s \in disp'.victim BY <4>3, IdleDispType DEF DispRecord
        <5> QED BY <5>1, <5>2 DEF Attended
      <4>6. CASE s.lease # jobs[j].lease BY <2>1, <4>2, <4>4, <4>6 DEF EvictedOutdated
      <4> QED BY <4>5, <4>6
    <3> QED BY <3>1, <3>2
  <2>2. ASSUME NEW w \in Worker, work[w].pc = "save", v \in work[w].keep,
               work[w].next = tracking[v].lease
        PROVE  Attended(v)'
    BY <1>4, <1>w, <2>2 DEF Attended
  <2>3. CASE /\ manual.pc \in {"add", "undo"}
             /\ v \in manual.aid /\ manual.lease = tracking[v].lease
    BY <1>4, <1>w, <2>3 DEF Attended
\* The dispatcher queues the video under its lease, or takes the lease away.
  <2>4. CASE disp.pc = "add" /\ v \in disp.left /\ disp.lease = tracking[v].lease
    <3>1. DispAdd \/ DispRelease
      BY <2>4, Zenon DEF DispStep, DispCount, DispScan, DispEvict, DispUnlease, DispFind, DispLease
    <3>2. CASE DispRelease
      BY <1>4, <2>4, <3>2 DEF DispRelease, ReleaseLeases, Row
    <3>3. CASE DispAdd
      <4>1. PICK chunk \in NextChunks, j \in FreeJobs, u \in disp.left :
              /\ jobs' = [jobs EXCEPT ![j] = NewJob(chunk, disp.lease, disp.rank[u])]
              /\ disp' = [disp EXCEPT !.room = @ - 1, !.left = @ \ chunk]
        BY <3>3 DEF DispAdd
      <4>2. /\ j \in Job /\ jobs'[j].status = "waiting" /\ jobs'[j].aids = chunk
            /\ jobs'[j].lease = disp.lease
        BY <4>1 DEF FreeJobs, NewJob
      <4>3. disp'.pc = "add" /\ disp'.left = disp.left \ chunk /\ disp'.lease = disp.lease
        BY <2>4, <4>1 DEF DispRecord
      <4>4. CASE v \in chunk BY <1>4, <2>4, <4>2, <4>4 DEF Attended, Carries, Queued
      <4>5. CASE v \notin chunk BY <1>4, <2>4, <4>3, <4>5 DEF Attended
      <4> QED BY <4>4, <4>5
    <3> QED BY <3>1, <3>2, <3>3
\* The victim's row is released.
  <2>5. ASSUME NEW s \in disp.victim, v \in s.aids, s.lease = tracking[v].lease PROVE FALSE
    <3>1. disp.pc = "unlease" BY <2>5 DEF ScanTrue, OneVictim
    <3>2. DispUnlease
      BY <3>1, Zenon DEF DispStep, DispCount, DispScan, DispEvict, DispFind, DispLease, DispAdd,
         DispRelease, DispDoneAdding
    <3>3. PICK t \in disp.victim : tracking' = ReleaseOwned(tracking, t.aids, t.lease)
      BY <3>2 DEF DispUnlease
    <3>4. t = s
      BY <2>5, <3>3 DEF ScanTrue, OneVictim
    <3> QED BY <1>4, <2>5, <3>3, <3>4 DEF ReleaseOwned, ReleaseLeases, Owned, Row
  <2>6. disp.pc # "undo" OBVIOUS
  <2> QED BY <1>4, <2>1, <2>2, <2>3, <2>4, <2>5, <2>6 DEF Attended
<1>5. ASSUME NEW v \in Video PROVE AttendsTo(v) BY <1>3, <1>4 DEF AttendsTo
<1> QED BY <1>1, <1>2, <1>5

LEMMA ManualAttends ==
    ASSUME StateOK, HoldersLeased, LeasesFresh, SlotsHold, manual.pc # "undo",
           ManualBegin \/ ManualStep
    PROVE  SlotsHold' /\ manual'.pc # "undo" /\ \A v \in Video : AttendsTo(v)
<1> USE DEF StateOK
<1>w. UNCHANGED <<work, disp>>
  BY Zenon DEF ManualStep, ManualBegin, ManualCreate, ManualRelease, ManualUpdate, ManualLease,
     ManualAdd, ManualUndo
<1>j. UNCHANGED jobs \/ (ManualAdd /\ \E j \in FreeJobs : \A k \in Job \ {j} : jobs'[k] = jobs[k])
  <2>1. CASE ManualAdd
    <3>1. PICK j \in FreeJobs : \A k \in Job \ {j} : jobs'[k] = jobs[k]
      BY <2>1 DEF ManualAdd
    <3> QED BY <2>1, <3>1
  <2>2. CASE ~ManualAdd
    BY <2>2, Zenon DEF ManualStep, ManualBegin, ManualCreate, ManualRelease, ManualUpdate,
       ManualLease, ManualUndo
  <2> QED BY <2>1, <2>2
<1>1. SlotsHold'
  <2>1. \A j \in Job : jobs[j].status = "active" => jobs'[j] = jobs[j] BY <1>j DEF FreeJobs
  <2> QED BY <1>w, <2>1, SlotsUndisturbed
<1>2. manual'.pc # "undo"
  <2>1. CASE ManualBegin BY <2>1, IdleManualType DEF ManualBegin, ManualRecord
  <2>2. CASE ManualCreate BY <2>2 DEF ManualCreate, ManualRecord
  <2>3. CASE ManualRelease BY <2>3 DEF ManualRelease, ManualRecord
  <2>4. CASE ManualUpdate BY <2>4 DEF ManualUpdate, ManualRecord
  <2>5. CASE ManualLease BY <2>5, IdleFields DEF ManualLease, ManualRecord
  <2>6. CASE ManualAdd \/ ManualUndo BY <2>6, IdleFields DEF ManualAdd, ManualUndo
  <2> QED BY <2>1, <2>2, <2>3, <2>4, <2>5, <2>6 DEF ManualStep
<1>3. ASSUME NEW v \in Video, tracking'[v].lease # NoLease,
             tracking'[v].lease # tracking[v].lease
      PROVE  Attended(v)'
  <2>1. ManualLease
    <3>1. CASE ManualCreate BY <1>3, <3>1, UpsertDueLease DEF ManualCreate
    <3>2. CASE ManualRelease BY <1>3, <3>2, ReleaseLease DEF ManualRelease
    <3>3. CASE ManualUpdate BY <1>3, <3>3, ForceDueLease DEF ManualUpdate
    <3>4. CASE ManualUndo BY <1>3, <3>4, ReleaseLease DEF ManualUndo
    <3>5. UNCHANGED tracking \/ ManualCreate \/ ManualRelease \/ ManualUpdate \/ ManualUndo
            \/ ManualLease
      BY Zenon DEF ManualStep, ManualBegin, ManualAdd
    <3> QED BY <1>3, <3>1, <3>2, <3>3, <3>4, <3>5
  <2>2. v \in Claimed(tracking, manual.aid) /\ tracking'[v].lease = FreshLease
    BY <1>3, <2>1 DEF ManualLease, LeaseVideos, Claimed, Row
  <2>3. manual'.pc = "add" /\ manual'.aid = manual.aid /\ manual'.lease = FreshLease
    BY <2>1, <2>2 DEF ManualLease, ManualRecord
  <2> QED BY <2>2, <2>3 DEF Attended, Claimed
<1>4. ASSUME NEW v \in Video, tracking'[v].lease # NoLease,
             tracking'[v].lease = tracking[v].lease, Attended(v)
      PROVE  Attended(v)'
  <2>1. ASSUME NEW j \in Job, Carries(j, v) PROVE Attended(v)'
    <3>1. jobs'[j] = jobs[j] BY <1>j, <2>1 DEF FreeJobs, Carries, Queued
    <3> QED BY <1>4, <2>1, <3>1 DEF Attended, Carries, Queued
  <2>2. ASSUME NEW w \in Worker, work[w].pc = "save", v \in work[w].keep,
               work[w].next = tracking[v].lease
        PROVE  Attended(v)'
    BY <1>4, <1>w, <2>2 DEF Attended
  <2>3. CASE /\ disp.pc \in {"add", "undo"}
             /\ v \in disp.left /\ disp.lease = tracking[v].lease
    BY <1>4, <1>w, <2>3 DEF Attended
  <2>4. CASE \E s \in disp.victim : v \in s.aids /\ s.lease = tracking[v].lease
    BY <1>4, <1>w, <2>4 DEF Attended
\* The request queues the video under its lease.
  <2>5. CASE manual.pc = "add" /\ v \in manual.aid /\ manual.lease = tracking[v].lease
    <3>1. ManualAdd
      BY <2>5, Zenon DEF ManualStep, ManualBegin, ManualCreate, ManualRelease, ManualUpdate,
         ManualLease, ManualUndo
    <3>2. PICK j \in FreeJobs : jobs' = [jobs EXCEPT ![j] = NewJob(manual.aid, manual.lease, 1)]
      BY <3>1 DEF ManualAdd
    <3>3. /\ j \in Job /\ jobs'[j].status = "waiting" /\ jobs'[j].aids = manual.aid
          /\ jobs'[j].lease = manual.lease
      BY <3>2 DEF FreeJobs, NewJob
    <3> QED BY <1>4, <2>5, <3>3 DEF Attended, Carries, Queued
  <2> QED BY <1>4, <2>1, <2>2, <2>3, <2>4, <2>5 DEF Attended
<1>5. ASSUME NEW v \in Video PROVE AttendsTo(v) BY <1>3, <1>4 DEF AttendsTo
<1> QED BY <1>1, <1>2, <1>5

\* Commands and the passing of time only clear leases, and a job that is delivered again keeps what
\* it carries; an operator may remove one that no slot works on.
LEMMA OtherAttends ==
    ASSUME StateOK, HoldersLeased, LeasesFresh, SlotsHold,
           Command \/ Time \/ \E j \in Job : JobReady(j) \/ JobStalled(j) \/ JobForgotten(j)
    PROVE  SlotsHold' /\ UNCHANGED <<disp, manual>> /\ \A v \in Video : AttendsTo(v)
<1> USE DEF StateOK
<1>c. VideoCommand \/ JobCommand \/ Time
        \/ \E j \in Job : JobReady(j) \/ JobStalled(j) \/ JobForgotten(j)
  BY DEF Command
<1>w. UNCHANGED <<work, disp, manual>>
  BY <1>c, Zenon DEF VideoCommand, Promote, Untrack, Register, Discover, Archive, RefreshMetadata,
     JobCommand, RemoveJob, RetryJob, Time, BecomesDue, BecomesEligible, LeaseExpires, JobReady,
     JobStalled, JobForgotten
<1>j. ASSUME NEW j \in Job
      PROVE  \/ jobs'[j] = jobs[j]
             \/ /\ jobs[j].status # "active" /\ jobs'[j].status = "waiting"
                /\ jobs'[j].aids = jobs[j].aids /\ jobs'[j].lease = jobs[j].lease
             \/ jobs[j].status = "failed"
             \/ jobs[j].status # "active" /\ RemoveJob(j)
  <2>1. CASE VideoCommand \/ Time
    BY <2>1, Zenon DEF VideoCommand, Promote, Untrack, Register, Discover, Archive,
       RefreshMetadata, Time, BecomesDue, BecomesEligible, LeaseExpires
  <2>2. CASE \E k \in Job : JobReady(k) \/ JobStalled(k) \/ JobForgotten(k)
    BY <2>2 DEF JobReady, JobStalled, JobForgotten, JobRecord
  <2>3. CASE JobCommand
    <3>1. PICK k \in Job : RemoveJob(k) \/ RetryJob(k) BY <2>3 DEF JobCommand
    <3>2. CASE j = k BY <3>1, <3>2 DEF RemoveJob, RetryJob, Removable
    <3>3. CASE j # k BY <3>1, <3>3 DEF RemoveJob, RetryJob
    <3> QED BY <3>2, <3>3
  <2> QED BY <1>c, <2>1, <2>2, <2>3
<1>1. SlotsHold'
  <2>1. \A j \in Job : jobs[j].status = "active" => jobs'[j] = jobs[j] BY <1>j
  <2> QED BY <1>w, <2>1, SlotsUndisturbed
<1>2. ASSUME NEW v \in Video PROVE tracking'[v].lease \in {tracking[v].lease, NoLease}
  <2>1. CASE JobCommand \/ \E j \in Job : JobReady(j) \/ JobStalled(j) \/ JobForgotten(j)
    BY <2>1 DEF JobCommand, RemoveJob, RetryJob, JobReady, JobStalled, JobForgotten
  <2>2. CASE Time BY <2>2 DEF Time, BecomesDue, BecomesEligible, LeaseExpires, Row
  <2>3. CASE VideoCommand
    <3> PICK u \in Video : \/ Promote(u) \/ Untrack(u) \/ Register(u) \/ Discover(u) \/ Archive(u)
                           \/ RefreshMetadata(u)
      BY <2>3 DEF VideoCommand
    <3>1. CASE Promote(u) BY <3>1 DEF Promote, Row
    <3>2. CASE Untrack(u) BY <3>2 DEF Untrack, Untracked
    <3>3. CASE Register(u) BY <3>3, UpsertDueLease DEF Register
    <3>4. CASE Discover(u)
      <4>1. UpsertDue(tracking[u], 2) \in Row BY UpsertDueType, PriorityAssumption
      <4>2. tracking'[u].lease = UpsertDue(tracking[u], 2).lease BY <3>4, <4>1 DEF Discover, Row
      <4>3. tracking'[u].lease \in {tracking[u].lease, NoLease} BY <4>2, UpsertDueLease
      <4>4. \A t \in Video \ {u} : tracking'[t] = tracking[t] BY <3>4 DEF Discover
      <4> QED BY <4>3, <4>4
    <3>5. CASE Archive(u) BY <3>5 DEF Archive, Row
    <3>6. CASE RefreshMetadata(u) BY <3>6 DEF RefreshMetadata, Row
    <3> QED BY <3>1, <3>2, <3>3, <3>4, <3>5, <3>6
  <2> QED BY <1>c, <2>1, <2>2, <2>3
<1>3. ASSUME NEW v \in Video, tracking'[v].lease = tracking[v].lease, Attended(v)
      PROVE  Attended(v)' \/ RemovedByHand(v)
  <2>1. ASSUME NEW j \in Job, Carries(j, v) PROVE Carries(j, v)' \/ RemovedByHand(v)
    BY <1>3, <1>j, <2>1 DEF Carries, Queued, RemovedByHand
  <2>2. CASE \E j \in Job : Carries(j, v) BY <2>1, <2>2 DEF Attended
  <2>3. CASE ~\E j \in Job : Carries(j, v) BY <1>3, <1>w, <2>3 DEF Attended
  <2> QED BY <2>2, <2>3
<1>4. ASSUME NEW v \in Video PROVE AttendsTo(v) BY <1>2, <1>3 DEF AttendsTo
<1> QED BY <1>1, <1>w, <1>4

-----------------------------------------------------------------------------
(* The worker's part: a slot gives a job up only when none of the rows it   *)
(* owns is left in the job.                                                 *)

\* An attended row stays attended when its job stays in the queue, and a renewal until it is saved.
LEMMA StaysAttended ==
    ASSUME NEW v, tracking'[v].lease = tracking[v].lease, Attended(v),
           UNCHANGED <<disp, manual>>,
           \A j \in Job : Carries(j, v) =>
               /\ Queued(j)'
               /\ jobs'[j].aids = jobs[j].aids /\ jobs'[j].lease = jobs[j].lease,
           \A u \in Worker : work[u].pc = "save" /\ v \in work[u].keep
                             /\ work[u].next = tracking[v].lease => Attended(v)'
    PROVE  Attended(v)'
<1>1. CASE \E j \in Job : Carries(j, v) BY <1>1 DEF Attended, Carries
<1>2. CASE \E u \in Worker : /\ work[u].pc = "save" /\ v \in work[u].keep
                             /\ work[u].next = tracking[v].lease
  BY <1>2
<1>3. CASE /\ ~\E j \in Job : Carries(j, v)
           /\ ~\E u \in Worker : /\ work[u].pc = "save" /\ v \in work[u].keep
                                 /\ work[u].next = tracking[v].lease
  BY <1>3 DEF Attended
<1> QED BY <1>1, <1>2, <1>3

\* The slot's record, as the steps change it.
SlotIs(w, pc, keep) ==
    /\ work'[w].pc = pc /\ work'[w].keep = keep
    /\ work'[w].job = work[w].job /\ work'[w].aids = work[w].aids
    /\ work'[w].lease = work[w].lease
    /\ \A u \in Worker \ {w} : work'[u] = work[u]

\* A step before the renewal that keeps the jobs: what it owns yet is what it keeps.
LEMMA SlotMovesOn ==
    ASSUME StateOK, HoldersLeased, LeasesFresh, SlotsHold, NEW w \in Worker, NEW pc, NEW keep,
           SlotIs(w, pc, keep), work[w].pc \notin {"idle", "save"}, UNCHANGED jobs,
           \/ pc \in {"fetch", "commit"}
              /\ \A v \in work[w].aids : tracking'[v].lease = work[w].lease
                                            => v \in work'[w].batch
           \/ pc \in {"pending", "check", "retry", "renew"}
              /\ \A v \in work[w].aids : tracking'[v].lease = work[w].lease => v \in keep
           \/ pc = "save" /\ \A v \in work[w].aids : tracking'[v].lease # work[w].lease
    PROVE  SlotsHold'
<1>1. SlotHoldsJob(w) BY DEF SlotsHold
<1>2. Owned(tracking, work[w].aids, work[w].lease)'
        = {v \in work[w].aids : tracking'[v].lease = work[w].lease}
  BY DEF Owned, SlotIs
<1>3. SlotHoldsJob(w)'
  BY <1>1, <1>2 DEF SlotHoldsJob, SlotIs
<1> QED BY <1>3, OthersUndisturbed DEF SlotIs

\* The slot gives up a job of which no row is left.
LEMMA GivesUp ==
    ASSUME StateOK, HoldersLeased, LeasesFresh, SlotsHold, NEW w \in Worker, Finish(w),
           UNCHANGED <<disp, manual>>, work[w].pc \notin {"idle", "save"},
           \A v \in work[w].aids : tracking'[v].lease # work[w].lease,
           \A v \in Video : tracking'[v].lease \in {tracking[v].lease, NoLease}
    PROVE  SlotsHold' /\ \A v \in Video : AttendsTo(v)
<1> USE DEF StateOK
<1>1. SlotHoldsJob(w) BY DEF SlotsHold
<1>2. \A j \in Job : jobs'[j] = jobs[j] \/ (j = work[w].job /\ jobs[j].holder = w)
  BY DEF Finish
<1>3. SlotsHold'
  <2>1. \A u \in Worker \ {w} : work'[u] = work[u] BY FinishFields
  <2>2. work'[w].pc = "idle" BY FinishFields
  <2>3. \A j \in Job : jobs[j].status = "active" /\ jobs[j].holder # w => jobs'[j] = jobs[j]
    BY <1>2
  <2> QED BY <2>1, <2>2, <2>3, OthersUndisturbed
<1>4. ASSUME NEW v \in Video, tracking'[v].lease # NoLease,
             tracking'[v].lease = tracking[v].lease => Attended(v)
      PROVE  Attended(v)'
  <2>1. tracking'[v].lease = tracking[v].lease /\ Attended(v) BY <1>4
  <2>2. ASSUME NEW j \in Job, Carries(j, v) PROVE jobs'[j] = jobs[j] /\ Queued(j)'
    BY <1>1, <1>2, <2>1, <2>2 DEF Carries, Queued, SlotHoldsJob
  <2>3. ASSUME NEW u \in Worker, work[u].pc = "save", v \in work[u].keep,
               work[u].next = tracking[v].lease
        PROVE  Attended(v)'
    <3>1. u # w BY <2>3
    <3>2. work'[u] = work[u] BY <3>1, FinishFields
    <3> QED BY <2>1, <2>3, <3>2 DEF Attended
  <2> QED BY <2>1, <2>2, <2>3, StaysAttended
<1> QED BY <1>3, <1>4 DEF AttendsTo

\* A step of the slot that neither renews a lease nor touches the jobs.
LEMMA KeepsAttending ==
    ASSUME StateOK, NEW w \in Worker, UNCHANGED <<jobs, disp, manual>>,
           \A u \in Worker \ {w} : work'[u] = work[u],
           work[w].pc = "save" => /\ work'[w].pc = "save" /\ work'[w].keep = work[w].keep
                                  /\ work'[w].next = work[w].next,
           \A v \in Video : tracking'[v].lease \in {tracking[v].lease, NoLease}
    PROVE  \A v \in Video : AttendsTo(v)
<1> SUFFICES ASSUME NEW v \in Video, tracking'[v].lease # NoLease,
                    tracking'[v].lease = tracking[v].lease => Attended(v)
             PROVE  Attended(v)'
  BY DEF AttendsTo
<1>1. tracking'[v].lease = tracking[v].lease /\ Attended(v) OBVIOUS
<1>2. ASSUME NEW u \in Worker, work[u].pc = "save", v \in work[u].keep,
             work[u].next = tracking[v].lease
      PROVE  Attended(v)'
  <2>1. work'[u].pc = "save" /\ work'[u].keep = work[u].keep /\ work'[u].next = work[u].next
    BY <1>2
  <2> QED BY <1>1, <1>2, <2>1 DEF Attended
<1>3. \A j \in Job : Carries(j, v) => jobs'[j] = jobs[j] /\ Queued(j)'
  BY DEF Carries, Queued
<1> QED BY <1>1, <1>2, <1>3, StaysAttended

LEMMA WorkAttends ==
    ASSUME StateOK, HoldersLeased, LeasesFresh, SlotsHold, NEW w \in Worker,
           (\E j \in Job : WorkStart(w, j)) \/ WorkStep(w) \/ LateCommit(w)
    PROVE  SlotsHold' /\ UNCHANGED <<disp, manual>> /\ \A v \in Video : AttendsTo(v)
<1> USE DEF StateOK
<1>w. work[w] \in WorkRecord OBVIOUS
<1>d. UNCHANGED <<disp, manual>>
  BY Zenon DEF WorkStart, WorkStep, WorkFilter, WorkFetch, WorkCommit, WorkPending, WorkProbe,
     WorkProbed, RetryRead, RetryRenew, RetrySave, RetryDelay, LateCommit
<1>h. work[w].pc # "idle" => SlotHoldsJob(w) BY DEF SlotsHold
<1>l. work[w].pc # "idle" => work[w].lease \in Lease /\ work[w].lease \in LeasesInUse
  BY InUse DEF HoldersLeased
<1>v. work[w].aids \subseteq Video /\ work[w].keep \subseteq Video BY <1>w DEF WorkRecord
\* Of the job's rows, those that hold its lease after the step held it before.
<1>g. ASSUME work[w].pc # "idle", NEW v \in work[w].aids, tracking'[v].lease = work[w].lease
      PROVE  tracking[v].lease = work[w].lease
  <2>1. v \in Video BY <1>v
  <2> QED BY <1>g, <1>l, <2>1, NotRegained
\* ... and are among those in hand.
<1>b. ASSUME work[w].pc \in {"fetch", "commit"}, NEW v \in work[w].aids,
             tracking[v].lease = work[w].lease
      PROVE  v \in work[w].batch
  BY <1>h, <1>b DEF SlotHoldsJob, Owned
<1>k. ASSUME work[w].pc \in {"pending", "check", "retry", "renew"}, NEW v \in work[w].aids,
             tracking[v].lease = work[w].lease
      PROVE  v \in work[w].keep
  BY <1>h, <1>k DEF SlotHoldsJob, Owned
<1>u. ASSUME UNCHANGED tracking
      PROVE  \A v \in Video : tracking'[v].lease \in {tracking[v].lease, NoLease}
  BY <1>u
<1>s. ASSUME NEW vs, NEW lease, NEW p, tracking' = Settle(tracking, vs, lease, p)
      PROVE  /\ \A v \in Video : tracking'[v].lease \in {tracking[v].lease, NoLease}
             /\ \A v \in vs : v \in Video /\ lease \in Lease => tracking'[v].lease # lease
  <2>1. \A v \in Video : tracking'[v].lease \in {tracking[v].lease, NoLease}
    BY <1>s, SettleLease
  <2>2. ASSUME NEW v \in vs, v \in Video, lease \in Lease PROVE tracking'[v].lease # lease
    BY <1>s, <2>2, NoLeaseAssumption DEF Settle, Owned, Row
  <2> QED BY <2>1, <2>2
<1>1. ASSUME NEW j \in Job, WorkStart(w, j)
      PROVE  SlotsHold' /\ \A v \in Video : AttendsTo(v)
  <2>1. /\ work[w].pc = "idle" /\ jobs[j].status = "waiting" /\ UNCHANGED tracking
        /\ \A k \in Job \ {j} : jobs'[k] = jobs[k]
        /\ \A u \in Worker \ {w} : work'[u] = work[u]
    BY <1>1 DEF WorkStart
  <2>2. \/ jobs[j].aids = {} /\ UNCHANGED work
        \/ /\ SlotHoldsJob(w)' /\ Queued(j)'
           /\ jobs'[j].aids = jobs[j].aids /\ jobs'[j].lease = jobs[j].lease
    <3>1. CASE jobs[j].aids = {} BY <1>1, <3>1 DEF WorkStart
    <3>2. CASE jobs[j].aids # {}
      <4> DEFINE rec == [IdleWork EXCEPT !.pc = "filter", !.job = j, !.aids = jobs[j].aids,
                                         !.lease = jobs[j].lease]
      <4>1. rec.pc = "filter" /\ rec.job = j /\ rec.aids = jobs[j].aids /\ rec.lease = jobs[j].lease
        BY IdleWorkType DEF WorkRecord
      <4>2. work' = [work EXCEPT ![w] = rec] BY <1>1, <3>2, Zenon DEF WorkStart
      <4>3. jobs' = [jobs EXCEPT ![j] = [jobs[j] EXCEPT !.status = "active", !.holder = w]]
        BY <1>1, <3>2 DEF WorkStart
      <4>4. /\ jobs'[j].status = "active" /\ jobs'[j].holder = w
            /\ jobs'[j].aids = jobs[j].aids /\ jobs'[j].lease = jobs[j].lease
        BY <4>3 DEF JobRecord
      <4> HIDE DEF rec
      <4>5. /\ work'[w].pc = "filter" /\ work'[w].job = j /\ work'[w].aids = jobs[j].aids
            /\ work'[w].lease = jobs[j].lease
        BY <4>1, <4>2
      <4> QED BY <4>4, <4>5 DEF SlotHoldsJob, Queued
    <3> QED BY <3>1, <3>2
  <2>3. SlotsHold' BY <2>1, <2>2, OthersUndisturbed
  <2>4. ASSUME NEW v \in Video, tracking'[v].lease = tracking[v].lease, Attended(v)
        PROVE  Attended(v)'
    <3>1. ASSUME NEW k \in Job, Carries(k, v)
          PROVE  /\ Queued(k)' /\ jobs'[k].aids = jobs[k].aids
                 /\ jobs'[k].lease = jobs[k].lease
      BY <2>1, <2>2, <3>1 DEF Carries, Queued
    <3>2. ASSUME NEW u \in Worker, work[u].pc = "save", v \in work[u].keep,
                 work[u].next = tracking[v].lease
          PROVE  Attended(v)'
      <4>1. work'[u] = work[u] BY <2>1, <3>2
      <4> QED BY <2>4, <3>2, <4>1 DEF Attended
    <3> QED BY <1>d, <2>4, <3>1, <3>2, StaysAttended
  <2> QED BY <2>1, <2>3, <2>4 DEF AttendsTo
<1>2. CASE WorkFilter(w)
  <2>1. work[w].pc = "filter" /\ UNCHANGED tracking BY <1>2 DEF WorkFilter
  <2>2. CASE Finish(w) /\ Owned(tracking, work[w].aids, work[w].lease) = {}
    <3>1. \A v \in work[w].aids : tracking'[v].lease # work[w].lease
      BY <2>1, <2>2 DEF Owned
    <3> QED BY <1>d, <1>u, <2>1, <2>2, <3>1, GivesUp
  <2>3. CASE /\ UNCHANGED jobs
             /\ work' = [work EXCEPT ![w] = [@ EXCEPT !.pc = "fetch",
                                       !.batch = Owned(tracking, work[w].aids, work[w].lease)]]
    <3>1. /\ SlotIs(w, "fetch", work[w].keep)
          /\ work'[w].batch = Owned(tracking, work[w].aids, work[w].lease)
      BY <1>w, <2>3 DEF SlotIs, WorkRecord
    <3>2. \A v \in work[w].aids : tracking'[v].lease = work[w].lease => v \in work'[w].batch
      BY <2>1, <3>1 DEF Owned
    <3>3. SlotsHold' BY <2>1, <2>3, <3>1, <3>2, SlotMovesOn
    <3> QED BY <1>d, <1>u, <2>1, <2>3, <3>1, <3>3, KeepsAttending DEF SlotIs
  <2> QED BY <1>2, <1>d, <2>2, <2>3 DEF WorkFilter
<1>3. CASE WorkFetch(w)
  <2>1. work[w].pc = "fetch" /\ UNCHANGED <<tracking, jobs>> BY <1>3 DEF WorkFetch
  <2>2. SlotIs(w, "commit", work[w].keep) /\ work'[w].batch = work[w].batch
    BY <1>w, <1>3 DEF WorkFetch, SlotIs, WorkRecord
  <2>3. \A v \in work[w].aids : tracking'[v].lease = work[w].lease => v \in work'[w].batch
    BY <1>b, <2>1, <2>2
  <2>4. SlotsHold' BY <2>1, <2>2, <2>3, SlotMovesOn
  <2> QED BY <1>d, <1>u, <2>1, <2>2, <2>4, KeepsAttending DEF SlotIs
\* The rows of the answer that the job owns are settled; the others are kept.
<1>4. CASE WorkCommit(w)
  <2>1. work[w].pc = "commit" BY <1>4 DEF WorkCommit
  <2>2. PICK p \in Priority : tracking' = Settle(tracking, work[w].got, work[w].lease, p)
    BY <1>4 DEF WorkCommit
  <2>3. \A v \in Video : tracking'[v].lease \in {tracking[v].lease, NoLease} BY <1>s, <2>2
  <2>4. ASSUME NEW v \in work[w].aids, tracking'[v].lease = work[w].lease
        PROVE  v \in work[w].batch \ work[w].got
    <3>1. v \in work[w].batch BY <1>b, <1>g, <2>1, <2>4
    <3>2. v \notin work[w].got BY <1>l, <1>s, <1>v, <2>1, <2>2, <2>4
    <3> QED BY <3>1, <3>2
  <2>5. CASE Finish(w) /\ work[w].got = work[w].batch
    BY <1>d, <2>1, <2>3, <2>4, <2>5, GivesUp
  <2>6. CASE /\ UNCHANGED jobs
             /\ work' = [work EXCEPT ![w] = [@ EXCEPT !.pc = "pending", !.got = {},
                                       !.keep = work[w].batch \ work[w].got]]
    <3>1. SlotIs(w, "pending", work[w].batch \ work[w].got)
      BY <1>w, <2>6 DEF SlotIs, WorkRecord
    <3>2. SlotsHold' BY <2>1, <2>4, <2>6, <3>1, SlotMovesOn
    <3> QED BY <1>d, <2>1, <2>3, <2>6, <3>1, <3>2, KeepsAttending DEF SlotIs
  <2> QED BY <1>4, <1>d, <2>5, <2>6 DEF WorkCommit
<1>5. CASE WorkPending(w)
  <2>1. work[w].pc = "pending" /\ UNCHANGED <<tracking, jobs>> BY <1>5 DEF WorkPending
  <2>2. SlotIs(w, "check", work[w].keep) BY <1>w, <1>5 DEF WorkPending, SlotIs, WorkRecord
  <2>3. \A v \in work[w].aids : tracking'[v].lease = work[w].lease => v \in work[w].keep
    BY <1>k, <2>1
  <2>4. SlotsHold' BY <2>1, <2>2, <2>3, SlotMovesOn
  <2> QED BY <1>d, <1>u, <2>1, <2>2, <2>4, KeepsAttending DEF SlotIs
<1>6. CASE WorkProbe(w)
  <2>1. work[w].pc = "check" /\ UNCHANGED jobs BY <1>6 DEF WorkProbe
  <2>2. PICK v \in work[w].todo :
         \/ /\ work' = [work EXCEPT ![w].todo = @ \ {v}]
            /\ UNCHANGED tracking
         \/ /\ work' = [work EXCEPT ![w] = [@ EXCEPT !.todo = work[w].todo \ {v},
                                                     !.keep = work[w].keep \ {v}]]
            /\ \E p \in Priority : tracking' = Settle(tracking, {v}, work[w].lease, p)
    BY <1>6 DEF WorkProbe
  <2>3. CASE /\ work' = [work EXCEPT ![w].todo = @ \ {v}]
             /\ UNCHANGED tracking
    <3>1. SlotIs(w, "check", work[w].keep) BY <1>w, <2>1, <2>3 DEF SlotIs, WorkRecord
    <3>2. \A u \in work[w].aids : tracking'[u].lease = work[w].lease => u \in work[w].keep
      BY <1>k, <2>1, <2>3
    <3>3. SlotsHold' BY <2>1, <3>1, <3>2, SlotMovesOn
    <3> QED BY <1>d, <1>u, <2>1, <2>3, <3>1, <3>3, KeepsAttending DEF SlotIs
  <2>4. CASE /\ work' = [work EXCEPT ![w] = [@ EXCEPT !.todo = work[w].todo \ {v},
                                                      !.keep = work[w].keep \ {v}]]
             /\ \E p \in Priority : tracking' = Settle(tracking, {v}, work[w].lease, p)
    <3>1. SlotIs(w, "check", work[w].keep \ {v}) BY <1>w, <2>1, <2>4 DEF SlotIs, WorkRecord
    <3>2. PICK p \in Priority : tracking' = Settle(tracking, {v}, work[w].lease, p) BY <2>4
    <3>3. \A u \in Video : tracking'[u].lease \in {tracking[u].lease, NoLease} BY <1>s, <3>2
    <3>4. ASSUME NEW u \in work[w].aids, tracking'[u].lease = work[w].lease
          PROVE  u \in work[w].keep \ {v}
      <4>1. u \in work[w].keep BY <1>k, <1>g, <2>1, <3>4
      <4>2. u # v BY <1>l, <1>s, <1>v, <2>1, <3>2, <3>4
      <4> QED BY <4>1, <4>2
    <3>5. SlotsHold' BY <2>1, <3>1, <3>4, SlotMovesOn
    <3> QED BY <1>d, <2>1, <3>1, <3>3, <3>5, KeepsAttending DEF SlotIs
  <2> QED BY <1>d, <2>2, <2>3, <2>4
<1>7. CASE WorkProbed(w)
  <2>1. work[w].pc = "check" /\ UNCHANGED tracking BY <1>7 DEF WorkProbed
  <2>2. \A v \in work[w].aids : tracking'[v].lease = work[w].lease => v \in work[w].keep
    BY <1>k, <2>1
  <2>3. CASE Finish(w) /\ work[w].keep = {} BY <1>d, <1>u, <2>1, <2>2, <2>3, GivesUp
  <2>4. CASE Retry(w, work[w].keep, "missing") /\ UNCHANGED jobs
    <3>1. SlotIs(w, "retry", work[w].keep) BY <1>w, <2>4 DEF Retry, SlotIs, WorkRecord
    <3>2. SlotsHold' BY <2>1, <2>2, <2>4, <3>1, SlotMovesOn
    <3> QED BY <1>d, <1>u, <2>1, <2>4, <3>1, <3>2, KeepsAttending DEF SlotIs
  <2> QED BY <1>7, <1>d, <2>3, <2>4 DEF WorkProbed
<1>8. CASE RetryRead(w)
  <2>1. work[w].pc = "retry" /\ UNCHANGED <<tracking, jobs>> BY <1>8 DEF RetryRead
  <2>2. SlotIs(w, "renew", Owned(tracking, work[w].keep, work[w].lease))
    BY <1>w, <1>8 DEF RetryRead, SlotIs, WorkRecord
  <2>3. \A v \in work[w].aids : tracking'[v].lease = work[w].lease
          => v \in Owned(tracking, work[w].keep, work[w].lease)
    BY <1>k, <2>1 DEF Owned
  <2>4. SlotsHold' BY <2>1, <2>2, <2>3, SlotMovesOn
  <2> QED BY <1>d, <1>u, <2>1, <2>2, <2>4, KeepsAttending DEF SlotIs
\* Every row that the job owns is renewed, and the slot is about to save it.
<1>9. CASE RetryRenew(w)
  <2>1. work[w].pc = "renew" /\ UNCHANGED jobs BY <1>9 DEF RetryRenew
  <2>2. FreshLease \in Lease /\ FreshLease \notin LeasesInUse BY <1>9, FreshFacts DEF RetryRenew
  <2>3. tracking' = Renew(tracking, work[w].keep, work[w].lease, FreshLease, work[w].why)
    BY <1>9 DEF RetryRenew
  <2>4. SlotIs(w, "save", work[w].keep) /\ work'[w].next = FreshLease
    BY <1>w, <1>9 DEF RetryRenew, SlotIs, WorkRecord
  <2>5. ASSUME NEW v \in Video
        PROVE  \/ tracking'[v].lease = tracking[v].lease
                    /\ ~(v \in work[w].keep /\ tracking[v].lease = work[w].lease)
               \/ v \in work[w].keep /\ tracking'[v].lease = FreshLease
    BY <2>3 DEF Renew, Owned, Row
  <2>6. ASSUME NEW v \in work[w].aids PROVE tracking'[v].lease # work[w].lease
    <3>1. v \in Video /\ FreshLease # work[w].lease BY <1>l, <1>v, <2>1, <2>2
    <3> QED BY <1>g, <1>k, <2>1, <2>5, <3>1
  <2>7. SlotsHold' BY <2>1, <2>4, <2>6, SlotMovesOn
  <2>8. ASSUME NEW v \in Video, tracking'[v].lease # NoLease,
               tracking'[v].lease = tracking[v].lease => Attended(v)
        PROVE  Attended(v)'
    <3>1. CASE v \in work[w].keep /\ tracking'[v].lease = FreshLease
      BY <2>4, <3>1 DEF SlotIs, Attended
    <3>2. CASE tracking'[v].lease = tracking[v].lease
      <4>1. \A j \in Job : Carries(j, v) => Queued(j)' BY <2>1 DEF Carries, Queued
      <4>2. ASSUME NEW u \in Worker, work[u].pc = "save", v \in work[u].keep,
                   work[u].next = tracking[v].lease
            PROVE  Attended(v)'
        <5>1. work'[u] = work[u] BY <2>1, <2>4, <4>2 DEF SlotIs
        <5> QED BY <3>2, <4>2, <5>1 DEF Attended
      <4> QED BY <1>d, <2>1, <2>8, <3>2, <4>1, <4>2, StaysAttended
    <3> QED BY <2>5, <3>1, <3>2
  <2> QED BY <1>d, <2>7, <2>8 DEF AttendsTo
\* The job takes the renewed lease with the rows that hold it.
<1>10. CASE RetrySave(w)
  <2> DEFINE j == work[w].job
  <2>1. work[w].pc = "save" /\ UNCHANGED tracking BY <1>10 DEF RetrySave
  <2>2. /\ j \in Job /\ jobs[j].status = "active" /\ jobs[j].holder = w
        /\ jobs[j].aids = work[w].aids /\ jobs[j].lease = work[w].lease
        /\ \A v \in work[w].aids : tracking[v].lease # work[w].lease
    BY <1>h, <2>1 DEF SlotHoldsJob, Owned
  <2>3. \A u \in Worker \ {w} : work'[u] = work[u]
    BY <1>10, <2>2 DEF RetrySave
  <2>4. \A k \in Job \ {j} : jobs'[k] = jobs[k]
    BY <1>10, <2>2 DEF RetrySave, Saved
  <2>5. \/ work[w].keep = {} /\ work'[w].pc = "idle"
        \/ /\ work'[w].pc = "delay" /\ work'[w].job = j /\ work'[w].aids = work[w].keep
           /\ work'[w].lease = work[w].next
           /\ jobs'[j].status = "active" /\ jobs'[j].holder = w
           /\ jobs'[j].aids = work[w].keep /\ jobs'[j].lease = work[w].next
    <3>1. CASE work[w].keep = {} /\ work[w].why # "deadline"
      <4>1. Rest(w).pc = "idle" BY DEF Rest, IdleWork
      <4>2. work' = [work EXCEPT ![w] = Rest(w)] BY <1>10, <2>2, <3>1 DEF RetrySave
      <4> QED BY <3>1, <4>1, <4>2
    <3>2. CASE ~(work[w].keep = {} /\ work[w].why # "deadline")
      <4>1. /\ work' = [work EXCEPT ![w] = [@ EXCEPT !.pc = "delay", !.aids = work[w].keep,
                                       !.lease = work[w].next]]
            /\ jobs' = Saved(w)
        BY <1>10, <2>2, <3>2 DEF RetrySave
      <4>2. /\ work'[w].pc = "delay" /\ work'[w].job = j /\ work'[w].aids = work[w].keep
            /\ work'[w].lease = work[w].next
        BY <1>w, <4>1 DEF WorkRecord
      <4>3. jobs'[j] = [jobs[j] EXCEPT !.aids = work[w].keep, !.lease = work[w].next]
        BY <2>2, <4>1 DEF Saved
      <4>4. /\ jobs'[j].status = "active" /\ jobs'[j].holder = w
            /\ jobs'[j].aids = work[w].keep /\ jobs'[j].lease = work[w].next
        BY <2>2, <4>3 DEF JobRecord
      <4> QED BY <4>2, <4>4
    <3> QED BY <3>1, <3>2
  <2>6. work'[w].pc # "idle" => SlotHoldsJob(w)'
    BY <2>2, <2>5 DEF SlotHoldsJob
  <2>7. \A k \in Job : jobs[k].status = "active" /\ jobs[k].holder # w => jobs'[k] = jobs[k]
    BY <2>2, <2>4
  <2>8. SlotsHold' BY <2>3, <2>6, <2>7, OthersUndisturbed
  <2>9. ASSUME NEW v \in Video, tracking'[v].lease # NoLease, Attended(v)
        PROVE  Attended(v)'
    <3>1. tracking'[v].lease = tracking[v].lease BY <2>1
    <3>2. ASSUME NEW k \in Job, Carries(k, v)
          PROVE  jobs'[k] = jobs[k] /\ Queued(k)'
      BY <2>2, <2>4, <3>2 DEF Carries, Queued
    <3>3. ASSUME NEW u \in Worker, work[u].pc = "save", v \in work[u].keep,
                 work[u].next = tracking[v].lease
          PROVE  Attended(v)'
      <4>1. CASE u = w
        <5>1. v \in work[w].keep /\ work[w].next = tracking[v].lease BY <3>3, <4>1
        <5>2. PICK k \in Job : k = j BY <2>2
        <5>3. Queued(k)' /\ v \in jobs'[k].aids /\ jobs'[k].lease = tracking'[v].lease
          BY <2>5, <3>1, <5>1, <5>2 DEF Queued
        <5>4. Carries(k, v)' BY <2>9, <5>3 DEF Carries
        <5> QED BY <5>4 DEF Attended
      <4>2. CASE u # w
        <5>1. work'[u] = work[u] BY <2>3, <4>2
        <5> QED BY <3>1, <3>3, <5>1 DEF Attended
      <4> QED BY <4>1, <4>2
    <3> QED BY <1>d, <2>9, <3>1, <3>2, <3>3, StaysAttended
  <2> QED BY <1>d, <2>1, <2>8, <2>9 DEF AttendsTo
<1>11. CASE RetryDelay(w)
  <2>1. work[w].pc = "delay" /\ UNCHANGED tracking BY <1>11 DEF RetryDelay
  <2>2. work'[w].pc = "idle" /\ \A u \in Worker \ {w} : work'[u] = work[u]
    BY <1>11, DelayFields DEF RetryDelay
  <2>3. ASSUME NEW k \in Job
        PROVE  \/ jobs'[k] = jobs[k]
               \/ /\ jobs[k].holder = w /\ jobs'[k].status = "delayed"
                  /\ jobs'[k].aids = jobs[k].aids /\ jobs'[k].lease = jobs[k].lease
    BY <1>11, DelayFields DEF RetryDelay
  <2>4. SlotsHold' BY <2>2, <2>3, OthersUndisturbed
  <2>5. ASSUME NEW v \in Video, tracking'[v].lease = tracking[v].lease, Attended(v)
        PROVE  Attended(v)'
    <3>1. \A k \in Job : Carries(k, v) => /\ Queued(k)'
                                          /\ jobs'[k].aids = jobs[k].aids
                                          /\ jobs'[k].lease = jobs[k].lease
      BY <2>3 DEF Carries, Queued
    <3>2. ASSUME NEW u \in Worker, work[u].pc = "save", v \in work[u].keep,
                 work[u].next = tracking[v].lease
          PROVE  Attended(v)'
      <4>1. work'[u] = work[u] BY <2>1, <2>2, <3>2
      <4> QED BY <2>5, <3>2, <4>1 DEF Attended
    <3> QED BY <1>d, <2>5, <3>1, <3>2, StaysAttended
  <2> QED BY <1>d, <2>1, <2>4, <2>5 DEF AttendsTo
<1>12. CASE LateCommit(w)
  <2>1. UNCHANGED jobs BY <1>12 DEF LateCommit
  <2>2. /\ work'[w].pc = work[w].pc /\ work'[w].job = work[w].job /\ work'[w].aids = work[w].aids
        /\ work'[w].lease = work[w].lease /\ work'[w].batch = work[w].batch
        /\ work'[w].keep = work[w].keep /\ work'[w].next = work[w].next
        /\ \A u \in Worker \ {w} : work'[u] = work[u]
    BY <1>w, <1>12 DEF LateCommit, WorkRecord
  <2>3. \A v \in Video : tracking'[v].lease \in {tracking[v].lease, NoLease}
    BY <1>12, <1>s, <1>u DEF LateCommit
  <2>4. work'[w].pc # "idle" => SlotHoldsJob(w)' BY <1>h, <2>1, <2>2, SlotUndisturbed
  <2>5. SlotsHold' BY <2>1, <2>2, <2>4, OthersUndisturbed
  <2> QED BY <1>d, <2>1, <2>2, <2>3, <2>5, KeepsAttending
<1> QED
  BY <1>d, <1>1, <1>2, <1>3, <1>4, <1>5, <1>6, <1>7, <1>8, <1>9, <1>10, <1>11, <1>12 DEF WorkStep

\* A step that uses up no fault comes after none.
LEMMA Faultless ==
    ASSUME CountersOK, Step, faults' = 0
    PROVE  faults = 0 /\ ~Fault
<1>1. faults \in Nat BY BoundAssumption DEF CountersOK
<1>2. Fault \/ NoFault BY StepCounts DEF CountersStep
<1> QED BY <1>1, <1>2 DEF Fault, NoFault

LEMMA AttendStep ==
    ASSUME StaleInv, SlotInv, AttendInv, Next
    PROVE  /\ AttendInv'
           /\ faults' = 0 => \A v \in Video : AttendsTo(v)
<1>1. /\ StateOK /\ CountersOK /\ CarrierParts /\ HoldersLeased /\ OvertakenApart /\ ScanTrue
      /\ Step
  BY TypeParts DEF StaleInv, CarrierInv, CarrierParts, AttendInv, Next
<1>2. ScanTrue' BY <1>1, DispatcherScan, OtherScan, WorkScan DEF Step
<1>3. LeasesFresh BY <1>1, DispatcherStale, ManualStale, OtherStale, WorkFresh DEF Step
<1>4. ASSUME faults' = 0
      PROVE  /\ SlotsHold' /\ disp'.pc # "undo" /\ manual'.pc # "undo"
             /\ \A v \in Video : AttendsTo(v)
  <2>1. faults = 0 /\ ~Fault BY <1>1, <1>4, Faultless
  <2>2. SlotsHold /\ disp.pc # "undo" /\ manual.pc # "undo" BY <2>1 DEF AttendInv, SlotsHold
  <2>3. CASE Dispatcher
    <3>1. DispStep
      BY <2>1, <2>3 DEF Dispatcher, DispEvictFails, DispAddFails, DispReleaseFails
    <3>2. UNCHANGED manual
      BY <3>1, Zenon DEF DispStep, DispCount, DispScan, DispEvict, DispUnlease, DispFind,
         DispLease, DispAdd, DispRelease
    <3> QED BY <1>1, <1>3, <2>2, <3>1, <3>2, DispatcherAttends
  <2>4. CASE Manual
    <3>1. ManualBegin \/ ManualStep BY <2>1, <2>4 DEF Manual, ManualAddFails
    <3>2. UNCHANGED disp
      BY <3>1, Zenon DEF ManualStep, ManualBegin, ManualCreate, ManualRelease, ManualUpdate,
         ManualLease, ManualAdd, ManualUndo
    <3> QED BY <1>1, <1>3, <2>2, <3>1, <3>2, ManualAttends
  <2>5. CASE Command \/ Time \/ Queue
    <3>1. Command \/ Time \/ \E j \in Job : JobReady(j) \/ JobStalled(j) \/ JobForgotten(j)
      BY <2>1, <2>5 DEF Queue, LockLost, Crash
    <3> QED BY <1>1, <1>3, <2>2, <3>1, OtherAttends
  <2>6. CASE Work
    <3>1. PICK w \in Worker : \/ \E j \in Job : WorkStart(w, j)
                              \/ WorkStep(w) \/ WorkFault(w) \/ LateCommit(w)
      BY <2>6 DEF Work
    <3>2. ~WorkFault(w)
      BY <2>1 DEF WorkFault, WorkNoteFails, WorkApiError, WorkThrows, RetryRenewFails,
         RetrySaveFails, RetryDelayFails, Deadline
    <3> QED BY <1>1, <1>3, <2>2, <3>1, <3>2, WorkAttends
  <2> QED BY <1>1, <2>3, <2>4, <2>5, <2>6 DEF Step
<1>5. AttendInv' BY <1>2, <1>4 DEF AttendInv, SlotsHold
<1> QED BY <1>4, <1>5

\* What the theorem rests on.
SettledInv == StaleInv /\ SlotInv /\ AttendInv

LEMMA SettledInductive == SettledInv /\ [Next]_vars => SettledInv'
<1> SUFFICES ASSUME SettledInv, [Next]_vars PROVE SettledInv' OBVIOUS
<1>1. StaleInv' BY StaleInductive DEF SettledInv
<1>2. TypeOK /\ TypeOK' BY <1>1 DEF SettledInv, StaleInv, CarrierInv
<1>3. SlotInv' BY <1>2, SlotInductive DEF SettledInv
<1>4. CASE Next BY <1>1, <1>3, <1>4, AttendStep DEF SettledInv
<1>5. CASE UNCHANGED vars
  <2>1. AttendInv'
    BY <1>5 DEF SettledInv, AttendInv, vars, ScanTrue, OneVictim, SlotHoldsJob, Owned
  <2> QED BY <1>1, <1>3, <2>1 DEF SettledInv
<1> QED BY <1>4, <1>5

LEMMA SettledInit == Init => SettledInv
<1> SUFFICES ASSUME Init PROVE SettledInv OBVIOUS
<1>1. AttendInv
  BY IdleDispFields, IdleFields DEF Init, AttendInv, ScanTrue, OneVictim
<1> QED BY <1>1, StaleInit, SlotInit DEF SettledInv

\* While no call fails, no deadline passes and nothing crashes, a row never gets a lease that
\* nobody will act on and the lease of a row is never abandoned, with any number of videos, jobs,
\* slots, requests and commands, except in two ways: the dispatcher evicts a job that has renewed
\* its lease since the dispatcher listed it, or an operator removes a job from the queue.
THEOREM LeaseAttendedAlways == Spec => LeaseAttended
<1>1. Spec => []SettledInv BY SettledInit, SettledInductive, PTL DEF Spec
<1>2. SettledInv /\ [Next]_vars =>
        [faults' = 0 =>
           \A v \in Video :
              /\ tracking'[v].lease # NoLease
              /\ tracking'[v].lease = tracking[v].lease => Attended(v)
              => Attended(v)' \/ EvictedOutdated(v) \/ RemovedByHand(v)]_vars
  BY AttendStep DEF SettledInv, AttendsTo
<1> QED BY <1>1, <1>2, PTL DEF Spec, LeaseAttended
====
