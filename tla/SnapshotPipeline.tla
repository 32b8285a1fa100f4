---- MODULE SnapshotPipeline ----
(***************************************************************************)
(* The snapshot pipeline of the crawler: the dispatcher leases due rows    *)
(* and queues them in batches, BullMQ delivers the batches to workers, a   *)
(* worker samples its batch and settles the rows it still owns, and the    *)
(* control plane forces, promotes and removes videos, removes queued jobs  *)
(* and retries failed ones at any moment.                                  *)
(*                                                                         *)
(*   tracking  the rows of video_tracking (PostgreSQL)                     *)
(*   jobs      the jobs of the snapshot-batch queue (Redis)                *)
(*   work      what each worker slot holds in memory                       *)
(*   disp      the locals of TrackingDispatcher.tick                       *)
(*   manual    the locals of one ManualSnapshotService.enqueue call        *)
(*   lost      history: see ResultsOf                                      *)
(*   faults, requests, commands   how much of each bound is used           *)
(*                                                                         *)
(* An await in the source is a boundary between two actions here.  Redis   *)
(* and PostgreSQL survive a crash of the process; its memory does not.     *)
(***************************************************************************)
EXTENDS TrackingRepository

CONSTANTS
    Job,            \* the job ids that may be in Redis at once
    Worker,         \* the worker slots (concurrency)
    NoJob, NoWorker,
    QueueCap,       \* policy.queueCap
    ChunkSize,      \* CHUNK_SIZE: aids per job
    MaxPerTick,     \* maxPerTick: rows per tick
    MaxFaults,      \* bound: crashes, lost locks, deadlines, failed calls, outlived leases
    MaxRequests,    \* bound: manual snapshot requests and retries of failed jobs
    MaxCommands     \* bound: promotions, removals of videos and jobs, upserts and archivings

ASSUME NoJobAssumption == NoJob \notin Job /\ IsFiniteSet(Job)
ASSUME NoWorkerAssumption == NoWorker \notin Worker
ASSUME BoundAssumption ==
    /\ QueueCap \in Nat \ {0} /\ ChunkSize \in Nat \ {0} /\ MaxPerTick \in Nat \ {0}
    /\ MaxFaults \in Nat /\ MaxRequests \in Nat /\ MaxCommands \in Nat

VARIABLES tracking, jobs, work, disp, manual, lost, faults, requests, commands

vars == <<tracking, jobs, work, disp, manual, lost, faults, requests, commands>>

-----------------------------------------------------------------------------
(* The state of each actor *)

JobRecord == [status   : {"free", "waiting", "active", "stalled", "delayed", "failed"},
              aids     : SUBSET Video,
              lease    : Lease \cup {NoLease},
              priority : Priority,
              holder   : Worker \cup {NoWorker}]   \* who holds BullMQ's lock on the job

FreeJob == [status |-> "free", aids |-> {}, lease |-> NoLease, priority |-> 2,
            holder |-> NoWorker]

\* Mutant: the priority of the job is off by one.
NewJobShifted(aids, lease, p) == [status |-> "waiting", aids |-> aids, lease |-> lease,
                                  priority |-> p - 1, holder |-> NoWorker]

NewJob(aids, lease, p) == [status |-> "waiting", aids |-> aids, lease |-> lease,
                           priority |-> p, holder |-> NoWorker]

WorkRecord == [pc      : {"idle", "filter", "fetch", "commit", "pending", "check",
                          "retry", "renew", "save", "delay"},
               job     : Job \cup {NoJob},
               aids    : SUBSET Video,             \* job.data.aids
               lease   : Lease \cup {NoLease},     \* job.data.leaseUntil
               batch   : SUBSET Video,             \* the aids that passed the lease filter
               got     : SUBSET Video,             \* the aids in Bilibili's answer
               todo    : SUBSET Video,             \* rows whose details are still to be probed
               keep    : SUBSET Video,             \* the aids to retry
               why     : {"none", "api", "missing", "error", "capacity", "deadline"},
               next    : Lease \cup {NoLease},     \* the lease retryBatch wrote
               bg      : SUBSET Video,             \* a commit in flight after the deadline
               bgLease : Lease \cup {NoLease}]

IdleWork == [pc |-> "idle", job |-> NoJob, aids |-> {}, lease |-> NoLease, batch |-> {},
             got |-> {}, todo |-> {}, keep |-> {}, why |-> "none", next |-> NoLease,
             bg |-> {}, bgLease |-> NoLease]

ScannedJob == [job : Job, aids : SUBSET Video, lease : Lease \cup {NoLease}]

DispRecord == [pc     : {"idle", "scan", "evict", "unlease", "find", "lease", "add", "undo"},
               room   : Nat,                       \* capacity
               scan   : SUBSET ScannedJob,         \* what getJobs returned
               victim : SUBSET ScannedJob,         \* the job removed, at most one
               left   : SUBSET Video,              \* found, then claimed and not yet dispatched
               rank   : [Video -> Priority],       \* priorities as the claim returned them
               lease  : Lease \cup {NoLease}]

IdleDisp == [pc |-> "idle", room |-> 0, scan |-> {}, victim |-> {}, left |-> {},
             rank |-> [v \in Video |-> 2], lease |-> NoLease]

ManualRecord == [pc    : {"idle", "create", "release", "update", "lease", "add", "undo"},
                 aid   : SUBSET Video,             \* the aid requested, at most one
                 force : BOOLEAN,
                 lease : Lease \cup {NoLease}]

IdleManual == [pc |-> "idle", aid |-> {}, force |-> FALSE, lease |-> NoLease]

TypeOK ==
    /\ tracking \in [Video -> Row]
    /\ jobs \in [Job -> JobRecord]
    /\ work \in [Worker -> WorkRecord]
    /\ disp \in DispRecord
    /\ manual \in ManualRecord
    /\ lost \in [Worker -> SUBSET Video]
    /\ faults \in 0..MaxFaults
    /\ requests \in 0..MaxRequests
    /\ commands \in 0..MaxCommands

Init ==
    /\ tracking \in [Video -> {Untracked, NewRow(2)}]
    /\ jobs = [j \in Job |-> FreeJob]
    /\ work = [w \in Worker |-> IdleWork]
    /\ disp = IdleDisp
    /\ manual = IdleManual
    /\ lost = [w \in Worker |-> {}]
    /\ faults = 0 /\ requests = 0 /\ commands = 0

-----------------------------------------------------------------------------
(* Shared helpers *)

\* Every lease value some row, job or local still mentions.
LeasesInUse ==
    {tracking[v].lease : v \in Video} \cup {jobs[j].lease : j \in Job}
    \cup (UNION {{work[w].lease, work[w].next, work[w].bgLease} : w \in Worker})
    \cup {s.lease : s \in disp.scan \cup disp.victim} \cup {disp.lease, manual.lease}

\* A new value of lease_until, now + duration.  Values are taken to be distinct: two captures of
\* the clock that lease one row within the same millisecond are not modelled.  As the values are
\* only compared for equality, which unused one it is does not matter.
IsFresh(lease) == lease \notin LeasesInUse
\* Mutant: the clock is too coarse to tell two leases apart.
FreshLeaseCoarse == CHOOSE lease \in Lease : TRUE

FreshExists == \E lease \in Lease : IsFresh(lease)
FreshLease == CHOOSE lease \in Lease : IsFresh(lease)

\* A job id nobody can refer to any more.  BullMQ never reuses an id, so neither may the model
\* while a worker or the dispatcher's scan remembers it.
FreeJobs == {j \in Job : /\ jobs[j].status = "free"
                         /\ \A w \in Worker : work[w].job # j
                         /\ \A s \in disp.scan : s.job # j}

\* A failed job is kept for an operator to look at, and may be retried, but nobody works on it.
Queued(j) == jobs[j].status \notin {"free", "failed"}

\* getJobCounts: active + waiting + delayed.  A stalled job still counts as active.
Depth == Cardinality({j \in Job : Queued(j)})

\* What job.remove accepts: a job that is there and that no worker has locked.
Removable(j) == jobs[j].status \in {"waiting", "delayed", "failed"}

\* A job carries a video while it names it together with the lease the row holds: only then do
\* its answers count.
Carries(j, v) ==
    /\ Queued(j) /\ v \in jobs[j].aids
    /\ tracking[v].lease # NoLease /\ tracking[v].lease = jobs[j].lease

\* Somebody will still act on the row's lease: a queued job, a worker about to store the renewed
\* lease, or a caller that has leased the row and not queued it yet.
Attended(v) ==
    \/ \E j \in Job : Carries(j, v)
    \/ \E w \in Worker : work[w].pc = "save" /\ v \in work[w].keep
                         /\ work[w].next = tracking[v].lease
    \/ /\ disp.pc \in {"add", "undo"}
       /\ v \in disp.left /\ disp.lease = tracking[v].lease
    \/ \E s \in disp.victim : v \in s.aids /\ s.lease = tracking[v].lease
    \/ /\ manual.pc \in {"add", "undo"}
       /\ v \in manual.aid /\ manual.lease = tracking[v].lease

Fault == faults < MaxFaults /\ faults' = faults + 1
NoFault == UNCHANGED faults

\* The answers in a worker's hands that a transaction may still write, and the lease it does so
\* under: those about to be committed, or those a commit overtaken by the deadline is writing.
ResultsOf(w) == IF work[w].pc = "commit" THEN work[w].got ELSE work[w].bg
ResultLease(w) == IF work[w].pc = "commit" THEN work[w].lease ELSE work[w].bgLease

\* History: lost[w] collects the videos of those answers whose row stopped holding that lease.
KeepHistory ==
    lost' = [w \in Worker |->
                IF ResultsOf(w)' = {} THEN {}
                ELSE lost[w] \cup {v \in ResultsOf(w)' : tracking'[v].lease # ResultLease(w)'}]

-----------------------------------------------------------------------------
(* TrackingDispatcher.tick *)

DispCount ==
    /\ disp.pc = "idle"
    /\ disp' = IF Depth < QueueCap
               THEN [IdleDisp EXCEPT !.pc = "find", !.room = QueueCap - Depth]
               ELSE [IdleDisp EXCEPT !.pc = "scan"]
    /\ NoFault
    /\ UNCHANGED <<tracking, jobs, work, manual, requests, commands>>

\* The queue is full.  If the most urgent due row has priority < 2, list the queued jobs that
\* are less urgent than it.
DispScan ==
    /\ disp.pc = "scan"
    /\ \/ \E v \in UNION FindDueVideos(tracking, 1) :
            /\ tracking[v].priority < 2
            /\ LET seen == {j \in Job : /\ jobs[j].status \in {"waiting", "delayed"}
                                        /\ jobs[j].priority > tracking[v].priority}
               IN disp' = IF seen = {} THEN IdleDisp
                          ELSE [disp EXCEPT
                                  !.pc = "evict",
                                  !.scan = {[job |-> j, aids |-> jobs[j].aids,
                                             lease |-> jobs[j].lease] : j \in seen}]
       \/ /\ \A v \in ClaimableVideos(tracking) : tracking[v].priority >= 2
          /\ disp' = IdleDisp
    /\ NoFault
    /\ UNCHANGED <<tracking, jobs, work, manual, requests, commands>>

\* Mutant: the slot is taken whether or not the job was removed.
DispEvictBlind ==
    /\ disp.pc = "evict"
    /\ \E s \in disp.scan :
         /\ jobs' = IF Removable(s.job)
                    THEN [jobs EXCEPT ![s.job] = FreeJob] ELSE jobs
         /\ disp' = [IdleDisp EXCEPT !.pc = "unlease", !.victim = {s}]
    /\ NoFault
    /\ UNCHANGED <<tracking, work, manual, requests, commands>>

\* removeJob on the next job listed.  It fails on a job that is locked or gone, not on one that has
\* failed since.
DispEvict ==
    /\ disp.pc = "evict"
    /\ \E s \in disp.scan :
         IF Removable(s.job)
         THEN /\ jobs' = [jobs EXCEPT ![s.job] = FreeJob]
              /\ disp' = [IdleDisp EXCEPT !.pc = "unlease", !.victim = {s}]
         ELSE /\ disp' = IF disp.scan = {s} THEN IdleDisp
                         ELSE [disp EXCEPT !.scan = @ \ {s}]
              /\ UNCHANGED jobs
    /\ NoFault
    /\ UNCHANGED <<tracking, work, manual, requests, commands>>

\* removeJob timed out, whether or not Redis removed the job: tick rethrows.
DispEvictFails ==
    /\ disp.pc = "evict"
    /\ Fault
    /\ \E s \in disp.scan :
         jobs' \in IF Removable(s.job)
                   THEN {jobs, [jobs EXCEPT ![s.job] = FreeJob]} ELSE {jobs}
    /\ disp' = IdleDisp
    /\ UNCHANGED <<tracking, work, manual, requests, commands>>

\* Release the evicted batch under the lease getJobs showed, and take its slot.
DispUnlease ==
    /\ disp.pc = "unlease"
    /\ \E s \in disp.victim : tracking' = ReleaseOwned(tracking, s.aids, s.lease)
    /\ disp' = [IdleDisp EXCEPT !.pc = "find", !.room = 1]
    /\ NoFault
    /\ UNCHANGED <<jobs, work, manual, requests, commands>>

DispFind ==
    /\ disp.pc = "find"
    /\ \E found \in FindDueVideos(tracking, IF MaxPerTick < disp.room * ChunkSize
                                            THEN MaxPerTick ELSE disp.room * ChunkSize) :
         disp' = IF found = {} THEN IdleDisp ELSE [disp EXCEPT !.pc = "lease", !.left = found]
    /\ NoFault
    /\ UNCHANGED <<tracking, jobs, work, manual, requests, commands>>

DispLease ==
    /\ disp.pc = "lease"
    /\ FreshExists
    /\ tracking' = LeaseVideos(tracking, disp.left, FreshLease)
    /\ LET claimed == Claimed(tracking, disp.left)
       IN disp' = IF claimed = {} THEN IdleDisp
                  ELSE [disp EXCEPT !.pc = "add", !.left = claimed, !.lease = FreshLease,
                                    !.rank = [v \in Video |-> IF v \in claimed
                                                              THEN tracking[v].priority
                                                              ELSE 2]]
    /\ NoFault
    /\ UNCHANGED <<jobs, work, manual, requests, commands>>

\* The next chunk: up to ChunkSize claimed videos of the most urgent priority that is left.
NextChunks ==
    LET first == {v \in disp.left : \A u \in disp.left : disp.rank[v] <= disp.rank[u]}
    IN {chunk \in SUBSET first :
          /\ Cardinality(chunk) <= ChunkSize
          /\ chunk = first \/ Cardinality(chunk) = ChunkSize}

DispAdd ==
    /\ disp.pc = "add" /\ disp.room > 0 /\ disp.left # {}
    /\ \E chunk \in NextChunks, j \in FreeJobs, v \in disp.left :
         /\ v \in chunk
         /\ jobs' = [jobs EXCEPT ![j] = NewJob(chunk, disp.lease, disp.rank[v])]
         /\ disp' = [disp EXCEPT !.room = @ - 1, !.left = @ \ chunk]
    /\ NoFault
    /\ UNCHANGED <<tracking, work, manual, requests, commands>>

\* queue.add threw.  A timeout says nothing about whether Redis took the job.
DispAddFails ==
    /\ disp.pc = "add" /\ disp.room > 0 /\ disp.left # {}
    /\ Fault
    /\ \E chunk \in NextChunks, j \in FreeJobs, v \in disp.left :
         /\ v \in chunk
         /\ jobs' \in {jobs, [jobs EXCEPT ![j] = NewJob(chunk, disp.lease, disp.rank[v])]}
    /\ disp' = [disp EXCEPT !.pc = "undo"]
    /\ UNCHANGED <<tracking, work, manual, requests, commands>>

DispDoneAdding == disp.pc = "undo" \/ (disp.pc = "add" /\ (disp.room = 0 \/ disp.left = {}))

\* releaseLeases(claimed.slice(dispatched)), with no expected lease.
DispRelease ==
    /\ DispDoneAdding
    /\ tracking' = ReleaseLeases(tracking, disp.left)
    /\ disp' = IdleDisp
    /\ NoFault
    /\ UNCHANGED <<jobs, work, manual, requests, commands>>

DispReleaseFails ==
    /\ DispDoneAdding
    /\ Fault
    /\ disp' = IF disp.pc = "add" THEN [disp EXCEPT !.pc = "undo"] ELSE IdleDisp
    /\ UNCHANGED <<tracking, jobs, work, manual, requests, commands>>

-----------------------------------------------------------------------------
(* ManualSnapshotService.enqueue *)

\* getTracking, and the 404 of a video nobody knows leaves no trace.
ManualBegin ==
    /\ manual.pc = "idle" /\ requests < MaxRequests
    /\ requests' = requests + 1
    /\ \E v \in Video, force \in BOOLEAN :
         manual' = [IdleManual EXCEPT
                      !.aid = {v}, !.force = force,
                      !.pc = IF ~tracking[v].tracked THEN "create"
                             ELSE IF force THEN "release" ELSE "lease"]
    /\ NoFault
    /\ UNCHANGED <<tracking, jobs, work, disp, commands>>

ManualCreate ==
    /\ manual.pc = "create"
    /\ tracking' = [v \in Video |-> IF v \in manual.aid THEN UpsertDue(tracking[v], 1)
                                    ELSE tracking[v]]
    /\ manual' = [manual EXCEPT !.pc = IF manual.force THEN "release" ELSE "lease"]
    /\ NoFault
    /\ UNCHANGED <<jobs, work, disp, requests, commands>>

ManualRelease ==
    /\ manual.pc = "release"
    /\ tracking' = ReleaseLeases(tracking, manual.aid)
    /\ manual' = [manual EXCEPT !.pc = "update"]
    /\ NoFault
    /\ UNCHANGED <<jobs, work, disp, requests, commands>>

ManualUpdate ==
    /\ manual.pc = "update"
    /\ tracking' = [v \in Video |-> IF v \in manual.aid THEN ForceDue(tracking[v])
                                    ELSE tracking[v]]
    /\ manual' = [manual EXCEPT !.pc = "lease"]
    /\ NoFault
    /\ UNCHANGED <<jobs, work, disp, requests, commands>>

\* No row returned: ENTITY_CONFLICT, "already being processed".
ManualLease ==
    /\ manual.pc = "lease"
    /\ FreshExists
    /\ tracking' = LeaseVideos(tracking, manual.aid, FreshLease)
    /\ manual' = IF Claimed(tracking, manual.aid) = {} THEN IdleManual
                 ELSE [manual EXCEPT !.pc = "add", !.lease = FreshLease]
    /\ NoFault
    /\ UNCHANGED <<jobs, work, disp, requests, commands>>

ManualAdd ==
    /\ manual.pc = "add"
    /\ \E j \in FreeJobs : jobs' = [jobs EXCEPT ![j] = NewJob(manual.aid, manual.lease, 1)]
    /\ manual' = IdleManual
    /\ NoFault
    /\ UNCHANGED <<tracking, work, disp, requests, commands>>

ManualAddFails ==
    /\ manual.pc = "add"
    /\ Fault
    /\ \E j \in FreeJobs :
         jobs' \in {jobs, [jobs EXCEPT ![j] = NewJob(manual.aid, manual.lease, 1)]}
    /\ manual' = [manual EXCEPT !.pc = "undo"]
    /\ UNCHANGED <<tracking, work, disp, requests, commands>>

\* releaseLeases([id]), with no expected lease.
ManualUndo ==
    /\ manual.pc = "undo"
    /\ tracking' = ReleaseLeases(tracking, manual.aid)
    /\ manual' = IdleManual
    /\ NoFault
    /\ UNCHANGED <<jobs, work, disp, requests, commands>>

-----------------------------------------------------------------------------
(* The rest of the control plane, one statement each *)

\* POST /videos/:aid/promote: an upsert that clears the lease whoever holds it.
Promote(v) ==
    /\ commands < MaxCommands /\ commands' = commands + 1
    /\ tracking[v].tracked
    /\ \E p \in Priority :
         tracking' = [tracking EXCEPT ![v] = [@ EXCEPT !.due = TRUE, !.eligible = TRUE,
                                                       !.lease = NoLease, !.live = FALSE,
                                                       !.priority = p]]
    /\ NoFault
    /\ UNCHANGED <<jobs, work, disp, manual, requests>>

\* DELETE /videos/:aid ends in deleteTracking.
Untrack(v) ==
    /\ commands < MaxCommands /\ commands' = commands + 1
    /\ tracking' = [tracking EXCEPT ![v] = Untracked]
    /\ NoFault
    /\ UNCHANGED <<jobs, work, disp, manual, requests>>

\* POST /videos and the manual ingest: an upsert that keeps the lease of a tracked row.
Register(v) ==
    /\ commands < MaxCommands /\ commands' = commands + 1
    /\ \E p \in Priority : tracking' = [tracking EXCEPT ![v] = UpsertDue(@, p)]
    /\ NoFault
    /\ UNCHANGED <<jobs, work, disp, manual, requests>>

\* A discovery evaluation accepts the video, tracked already or not; a human label of 1 likewise.
Discover(v) ==
    /\ commands < MaxCommands /\ commands' = commands + 1
    /\ tracking' = [tracking EXCEPT ![v] = [UpsertDue(@, 2) EXCEPT !.missing = FALSE]]
    /\ NoFault
    /\ UNCHANGED <<jobs, work, disp, manual, requests>>

\* A discovery evaluation finds that the video is gone: the row is parked in `archive`, at a
\* priority that is not urgent, and its lease is cleared whoever holds it.
Archive(v) ==
    /\ commands < MaxCommands /\ commands' = commands + 1
    /\ tracking[v].tracked
    /\ \E p \in Priority :
         /\ p >= 2
         /\ tracking' = [tracking EXCEPT ![v] = [@ EXCEPT !.due = FALSE, !.lease = NoLease,
                                                       !.live = FALSE, !.missing = FALSE,
                                                       !.priority = p]]
    /\ NoFault
    /\ UNCHANGED <<jobs, work, disp, manual, requests>>

\* A metadata refresh writes last_error of a tracked row, over whatever it held.
RefreshMetadata(v) ==
    /\ tracking[v].missing
    /\ tracking' = [tracking EXCEPT ![v].missing = FALSE]
    /\ NoFault
    /\ UNCHANGED <<jobs, work, disp, manual, requests, commands>>

\* DELETE /stats/jobs/tracking/:id.  The rows of the job keep their lease.
RemoveJob(j) ==
    /\ commands < MaxCommands /\ commands' = commands + 1
    /\ Removable(j)
    /\ jobs' = [jobs EXCEPT ![j] = FreeJob]
    /\ NoFault
    /\ UNCHANGED <<tracking, work, disp, manual, requests>>

\* POST /stats/jobs/tracking/:id/retries: a failed job waits again, whatever the length of the queue.
RetryJob(j) ==
    /\ requests < MaxRequests /\ requests' = requests + 1
    /\ jobs[j].status = "failed"
    /\ jobs' = [jobs EXCEPT ![j].status = "waiting"]
    /\ NoFault
    /\ UNCHANGED <<tracking, work, disp, manual, commands>>

-----------------------------------------------------------------------------
(* BullMQ, as the crawler uses it *)

\* A worker slot takes a waiting job and locks it.  A job without aids completes at once.  A slot
\* whose last commit was overtaken by the deadline stays busy until that commit ends: the job it
\* would take is taken by another slot.
WorkStart(w, j) ==
    /\ work[w].pc = "idle" /\ work[w].bg = {}
    /\ jobs[j].status = "waiting"
    /\ IF jobs[j].aids = {}
       THEN /\ jobs' = [jobs EXCEPT ![j] = FreeJob]
            /\ UNCHANGED work
       ELSE /\ jobs' = [jobs EXCEPT ![j] = [@ EXCEPT !.status = "active", !.holder = w]]
            /\ work' = [work EXCEPT ![w] = [IdleWork EXCEPT !.pc = "filter", !.job = j,
                                                            !.aids = jobs[j].aids,
                                                            !.lease = jobs[j].lease]]
    /\ NoFault
    /\ UNCHANGED <<tracking, disp, manual, requests, commands>>

JobReady(j) ==
    /\ jobs[j].status = "delayed"
    /\ jobs' = [jobs EXCEPT ![j].status = "waiting"]
    /\ NoFault
    /\ UNCHANGED <<tracking, work, disp, manual, requests, commands>>

\* A job whose process died is found stalled and delivered again.
JobStalled(j) ==
    /\ jobs[j].status = "stalled"
    /\ jobs' = [jobs EXCEPT ![j].status = "waiting"]
    /\ NoFault
    /\ UNCHANGED <<tracking, work, disp, manual, requests, commands>>

\* removeOnFail: of the failed jobs, those of a day ago and all but a thousand are dropped.
JobForgotten(j) ==
    /\ jobs[j].status = "failed"
    /\ jobs' = [jobs EXCEPT ![j] = FreeJob]
    /\ NoFault
    /\ UNCHANGED <<tracking, work, disp, manual, requests, commands>>

\* The lock lapses while its worker lives on: the job is delivered a second time.
LockLost(j) ==
    /\ jobs[j].status = "active"
    /\ Fault
    /\ jobs' = [jobs EXCEPT ![j] = [@ EXCEPT !.status = "waiting", !.holder = NoWorker]]
    /\ UNCHANGED <<tracking, work, disp, manual, requests, commands>>

Crash ==
    /\ Fault
    /\ jobs' = [j \in Job |-> IF jobs[j].status = "active"
                              THEN [jobs[j] EXCEPT !.status = "stalled", !.holder = NoWorker]
                              ELSE jobs[j]]
    /\ work' = [w \in Worker |-> IdleWork]
    /\ disp' = IdleDisp
    /\ manual' = IdleManual
    /\ UNCHANGED <<tracking, requests, commands>>

-----------------------------------------------------------------------------
(* The snapshot worker: SnapshotService.processBatch, then retryBatch *)

\* The slot is free again; a commit overtaken by the deadline may still be in flight.
Rest(w) == [IdleWork EXCEPT !.bg = work[w].bg, !.bgLease = work[w].bgLease]

\* The processor returned: the job leaves the queue, if it is still ours.
Finish(w) ==
    /\ work' = [work EXCEPT ![w] = Rest(w)]
    /\ jobs' = [j \in Job |-> IF j = work[w].job /\ jobs[j].holder = w THEN FreeJob
                              ELSE jobs[j]]

\* The processor threw, and attempts is 1: the job, with the data it has in Redis, is kept as failed.
Fail(w, stored) ==
    /\ work' = [work EXCEPT ![w] = Rest(w)]
    /\ jobs' = [j \in Job |-> IF j = work[w].job /\ stored[j].holder = w
                              THEN [stored[j] EXCEPT !.status = "failed", !.holder = NoWorker]
                              ELSE stored[j]]

\* Hand `aids` to retryBatch.
Retry(w, aids, why) ==
    work' = [work EXCEPT ![w] = [@ EXCEPT !.pc = "retry", !.keep = aids, !.why = why]]

WorkFilter(w) ==
    /\ work[w].pc = "filter"
    /\ LET owned == Owned(tracking, work[w].aids, work[w].lease)
       IN IF owned = {} THEN Finish(w)
          ELSE /\ work' = [work EXCEPT ![w] = [@ EXCEPT !.pc = "fetch", !.batch = owned]]
               /\ UNCHANGED jobs
    /\ NoFault
    /\ UNCHANGED <<tracking, disp, manual, requests, commands>>

\* A job that starts late is marked first, outside of the try block: if that fails, so does it.
WorkNoteFails(w) ==
    /\ work[w].pc = "filter"
    /\ Fault
    /\ Fail(w, jobs)
    /\ UNCHANGED <<tracking, disp, manual, requests, commands>>

\* Bilibili answers for some of the batch.
WorkFetch(w) ==
    /\ work[w].pc = "fetch"
    /\ \E got \in SUBSET work[w].batch :
         work' = [work EXCEPT ![w] = [@ EXCEPT !.pc = "commit", !.got = got]]
    /\ NoFault
    /\ UNCHANGED <<tracking, jobs, disp, manual, requests, commands>>

\* Bilibili answers with an error code.
WorkApiError(w) ==
    /\ work[w].pc = "fetch"
    /\ Fault
    /\ Retry(w, work[w].aids, "api")
    /\ UNCHANGED <<tracking, jobs, disp, manual, requests, commands>>

\* The transaction of processBatch.  Without missing videos the job is done.
WorkCommit(w) ==
    /\ work[w].pc = "commit"
    /\ \E p \in Priority :
         tracking' = Settle(tracking, work[w].got, work[w].lease, p)
    /\ IF work[w].got = work[w].batch THEN Finish(w)
       ELSE /\ work' = [work EXCEPT ![w] = [@ EXCEPT !.pc = "pending", !.got = {},
                                    !.keep = work[w].batch \ work[w].got]]
            /\ UNCHANGED jobs
    /\ NoFault
    /\ UNCHANGED <<disp, manual, requests, commands>>

\* Of the missing videos, those that were already missing last time.
WorkPending(w) ==
    /\ work[w].pc = "pending"
    /\ work' = [work EXCEPT ![w] = [@ EXCEPT !.pc = "check",
                            !.todo = {v \in work[w].keep : tracking[v].missing}]]
    /\ NoFault
    /\ UNCHANGED <<tracking, jobs, disp, manual, requests, commands>>

\* getVideoDetails succeeds, or says that the video is gone for good.
WorkProbe(w) ==
    /\ work[w].pc = "check"
    /\ \E v \in work[w].todo :
         \/ /\ work' = [work EXCEPT ![w].todo = @ \ {v}]
            /\ UNCHANGED tracking
         \/ /\ work' = [work EXCEPT ![w] = [@ EXCEPT !.todo = work[w].todo \ {v},
                                                     !.keep = work[w].keep \ {v}]]
            /\ \E p \in Priority : tracking' = Settle(tracking, {v}, work[w].lease, p)
    /\ NoFault
    /\ UNCHANGED <<jobs, disp, manual, requests, commands>>

WorkProbed(w) ==
    /\ work[w].pc = "check" /\ work[w].todo = {}
    /\ IF work[w].keep = {} THEN Finish(w)
       ELSE Retry(w, work[w].keep, "missing") /\ UNCHANGED jobs
    /\ NoFault
    /\ UNCHANGED <<tracking, disp, manual, requests, commands>>

\* Anything processBatch throws sends the whole job to retryBatch.
WorkThrows(w) ==
    /\ work[w].pc \in {"filter", "fetch", "commit", "pending", "check"}
    /\ Fault
    /\ \E why \in {"error", "capacity"} : Retry(w, work[w].aids, why)
    /\ UNCHANGED <<tracking, jobs, disp, manual, requests, commands>>

\* retryBatch reads the rows that still hold the job's lease ...
RetryRead(w) ==
    /\ work[w].pc = "retry"
    /\ work' = [work EXCEPT ![w] = [@ EXCEPT !.pc = "renew",
                            !.keep = Owned(tracking, work[w].keep, work[w].lease)]]
    /\ NoFault
    /\ UNCHANGED <<tracking, jobs, disp, manual, requests, commands>>

\* Mutant: the job is not told the renewed lease.
RetryRenewUntold(w) ==
    /\ work[w].pc = "renew"
    /\ FreshExists
    /\ tracking' = Renew(tracking, work[w].keep, work[w].lease, FreshLease, work[w].why)
    /\ work' = [work EXCEPT ![w] = [@ EXCEPT !.pc = "save", !.next = work[w].lease]]
    /\ NoFault
    /\ UNCHANGED <<jobs, disp, manual, requests, commands>>

\* ... and renews those that hold it yet when they are written.
RetryRenew(w) ==
    /\ work[w].pc = "renew"
    /\ FreshExists
    /\ tracking' = Renew(tracking, work[w].keep, work[w].lease, FreshLease, work[w].why)
    /\ work' = [work EXCEPT ![w] = [@ EXCEPT !.pc = "save", !.next = FreshLease]]
    /\ NoFault
    /\ UNCHANGED <<jobs, disp, manual, requests, commands>>

\* The transaction fails: inside the try block its error is handled once more, with every aid of
\* the job; out of the catch block and out of onDeadline the job fails.
RetryRenewFails(w) ==
    /\ work[w].pc \in {"retry", "renew"}
    /\ Fault
    /\ IF work[w].why \in {"api", "missing"}
       THEN Retry(w, work[w].aids, "error") /\ UNCHANGED jobs
       ELSE Fail(w, jobs)
    /\ UNCHANGED <<tracking, disp, manual, requests, commands>>

\* job.updateData, which needs the job to be there.
Saved(w) ==
    [j \in Job |-> IF j = work[w].job /\ jobs[j].status # "free"
                   THEN [jobs[j] EXCEPT !.aids = work[w].keep, !.lease = work[w].next] ELSE jobs[j]]

\* The job's aids and lease become what retryBatch returned.  Without aids the job is done, but
\* onDeadline delays it all the same.
RetrySave(w) ==
    /\ work[w].pc = "save"
    /\ LET j == work[w].job
       IN IF jobs[j].status = "free"
          THEN Finish(w)
          ELSE IF work[w].keep = {} /\ work[w].why # "deadline"
          THEN /\ work' = [work EXCEPT ![w] = Rest(w)]
               /\ jobs' = IF jobs[j].holder = w THEN [jobs EXCEPT ![j] = FreeJob] ELSE Saved(w)
          ELSE /\ work' = [work EXCEPT ![w] = [@ EXCEPT !.pc = "delay", !.aids = work[w].keep,
                                       !.lease = work[w].next]]
               /\ jobs' = Saved(w)
    /\ NoFault
    /\ UNCHANGED <<tracking, disp, manual, requests, commands>>

\* job.updateData failed, or timed out after Redis stored it.  Inside the try block retryBatch is
\* called once more, under the old lease; out of the catch block and out of onDeadline the job fails.
RetrySaveFails(w) ==
    /\ work[w].pc = "save"
    /\ Fault
    /\ \E stored \in {jobs, Saved(w)} :
         IF work[w].why \in {"api", "missing"}
         THEN Retry(w, work[w].aids, "error") /\ jobs' = stored
         ELSE Fail(w, stored)
    /\ UNCHANGED <<tracking, disp, manual, requests, commands>>

\* moveToDelayed, which BullMQ refuses without the lock.
Delay(w) ==
    /\ work' = [work EXCEPT ![w] = Rest(w)]
    /\ jobs' = [j \in Job |-> IF j = work[w].job /\ jobs[j].holder = w
                              THEN [jobs[j] EXCEPT !.status = "delayed", !.holder = NoWorker]
                              ELSE jobs[j]]

RetryDelay(w) ==
    /\ work[w].pc = "delay"
    /\ Delay(w)
    /\ NoFault
    /\ UNCHANGED <<tracking, disp, manual, requests, commands>>

\* moveToDelayed, or the update of _queueReadyAt before it, failed, or timed out after Redis did it.
RetryDelayFails(w) ==
    /\ work[w].pc = "delay"
    /\ Fault
    /\ Delay(w) \/ Fail(w, jobs)
    /\ UNCHANGED <<tracking, disp, manual, requests, commands>>

\* The task deadline aborts the processor and calls onDeadline, which retries the whole job.  A
\* transaction whose statements are all issued may still commit behind its back.
Deadline(w) ==
    /\ work[w].pc # "idle" /\ work[w].why # "deadline"
    /\ Fault
    /\ LET inFlight == work[w].pc = "commit"
       IN work' = [work EXCEPT ![w] =
                     [IdleWork EXCEPT !.pc = "retry", !.job = work[w].job,
                                      !.aids = work[w].aids, !.lease = work[w].lease,
                                      !.keep = work[w].aids, !.why = "deadline",
                                      !.bg = IF inFlight THEN work[w].got ELSE {},
                                      !.bgLease = IF inFlight /\ work[w].got # {}
                                                  THEN work[w].lease ELSE NoLease]]
    /\ UNCHANGED <<tracking, jobs, disp, manual, requests, commands>>

\* The overtaken transaction commits, or rolls back.
LateCommit(w) ==
    /\ work[w].bg # {}
    /\ \/ \E p \in Priority : tracking' = Settle(tracking, work[w].bg, work[w].bgLease, p)
       \/ UNCHANGED tracking
    /\ work' = [work EXCEPT ![w] = [@ EXCEPT !.bg = {}, !.bgLease = NoLease]]
    /\ NoFault
    /\ UNCHANGED <<jobs, disp, manual, requests, commands>>

-----------------------------------------------------------------------------
(* Time *)

BecomesDue(v) ==
    /\ tracking[v].tracked /\ ~tracking[v].due
    /\ tracking' = [tracking EXCEPT ![v].due = TRUE]
    /\ NoFault
    /\ UNCHANGED <<jobs, work, disp, manual, requests, commands>>

BecomesEligible(v) ==
    /\ tracking[v].tracked /\ ~tracking[v].eligible
    /\ tracking' = [tracking EXCEPT ![v].eligible = TRUE]
    /\ NoFault
    /\ UNCHANGED <<jobs, work, disp, manual, requests, commands>>

\* A renewed lease outlasts the delay by five minutes.  A job normally ends before its lease, but
\* a long wait in the queue or a slow call can outlast it; the bound on faults covers that too.
LeaseExpires(v) ==
    /\ tracking[v].live /\ tracking[v].eligible
    /\ tracking' = [tracking EXCEPT ![v].live = FALSE]
    /\ IF Attended(v) THEN Fault ELSE NoFault
    /\ UNCHANGED <<jobs, work, disp, manual, requests, commands>>

-----------------------------------------------------------------------------
DispStep ==
    \/ DispCount \/ DispScan \/ DispEvict \/ DispUnlease \/ DispFind \/ DispLease \/ DispAdd
    \/ DispRelease

Dispatcher == DispStep \/ DispEvictFails \/ DispAddFails \/ DispReleaseFails

ManualStep ==
    \/ ManualCreate \/ ManualRelease \/ ManualUpdate \/ ManualLease \/ ManualAdd \/ ManualUndo

Manual == ManualBegin \/ ManualStep \/ ManualAddFails

VideoCommand == \E v \in Video :
    Promote(v) \/ Untrack(v) \/ Register(v) \/ Discover(v) \/ Archive(v) \/ RefreshMetadata(v)

JobCommand == \E j \in Job : RemoveJob(j) \/ RetryJob(j)

Command == VideoCommand \/ JobCommand

Queue ==
    \/ \E j \in Job : JobReady(j) \/ JobStalled(j) \/ JobForgotten(j) \/ LockLost(j)
    \/ Crash

\* What a worker slot does once it holds a job, faults aside.
WorkStep(w) ==
    \/ WorkFilter(w) \/ WorkFetch(w) \/ WorkCommit(w) \/ WorkPending(w) \/ WorkProbe(w)
    \/ WorkProbed(w) \/ RetryRead(w) \/ RetryRenew(w) \/ RetrySave(w) \/ RetryDelay(w)

WorkFault(w) ==
    \/ WorkNoteFails(w) \/ WorkApiError(w) \/ WorkThrows(w) \/ RetryRenewFails(w)
    \/ RetrySaveFails(w) \/ RetryDelayFails(w) \/ Deadline(w)

Work == \E w \in Worker :
    \/ \E j \in Job : WorkStart(w, j)
    \/ WorkStep(w) \/ WorkFault(w) \/ LateCommit(w)

Time == \E v \in Video : BecomesDue(v) \/ BecomesEligible(v) \/ LeaseExpires(v)

Step == Dispatcher \/ Manual \/ Command \/ Queue \/ Work \/ Time

Next == Step /\ KeepHistory

Spec == Init /\ [][Next]_vars

\* The scheduling the code relies on: the dispatcher's interval timer keeps ticking, calls in
\* flight return, BullMQ delivers every job that waits, delays end and leases nobody renews run
\* out.  Faults, requests, commands and the passing of due times are never forced to happen.
Fairness ==
    /\ WF_vars(DispStep /\ KeepHistory)
    /\ WF_vars(ManualStep /\ KeepHistory)
    /\ \A w \in Worker : /\ WF_vars(WorkStep(w) /\ KeepHistory)
                         /\ WF_vars(LateCommit(w) /\ KeepHistory)
    /\ \A j \in Job : /\ SF_vars((\E w \in Worker : WorkStart(w, j)) /\ KeepHistory)
                      /\ WF_vars((JobReady(j) \/ JobStalled(j)) /\ KeepHistory)
    /\ \A v \in Video : /\ WF_vars(BecomesEligible(v) /\ KeepHistory)
                        /\ WF_vars(LeaseExpires(v) /\ ~Attended(v) /\ KeepHistory)

FairSpec == Spec /\ Fairness

-----------------------------------------------------------------------------
(* Properties *)

\* However claims, retries, evictions, duplicate deliveries and forced requests interleave, no two
\* jobs of the queue carry one video (leaseVideos' compare-and-set, chunking, retryBatch).
SingleCarrier ==
    \A v \in Video, j, k \in Job : Carries(j, v) /\ Carries(k, v) => j = k

\* Once a row has been taken away from the lease an answer was fetched under, that answer never
\* changes the row again: neither a commit nor one that the task deadline has overtaken
\* (updateSchedules' expectedLeaseUntil; "expired tasks cannot overwrite a new lease").
StaleAnswersNeverSettle ==
    [][\A w \in Worker : WorkCommit(w) \/ LateCommit(w)
                            => \A v \in lost[w] : tracking'[v] = tracking[v]]_vars

\* Ticks never push the queue past its cap by more than what bypasses it, the manual requests and an
\* operator's retries of failed jobs: neither the count read before the claim, nor an eviction, of a
\* job that has failed since it was listed either, lets the dispatcher overfill it.
QueueBounded == Depth + (IF disp.pc \in {"find", "lease", "add"} THEN disp.room ELSE 0)
                    <= QueueCap + requests

\* The dispatcher evicts a job that carries the video and that has run and renewed its lease since
\* getJobs listed it.
EvictedOutdated(v) ==
    /\ DispEvict
    /\ \E s \in disp.scan : /\ jobs'[s.job].status = "free" /\ Carries(s.job, v)
                            /\ s.lease # jobs[s.job].lease

\* An operator removes the job that carries the video: CrawlerAdminStatsService.remove releases nothing.
RemovedByHand(v) == \E j \in Job : RemoveJob(j) /\ Carries(j, v)

\* While no call fails and nothing crashes, a row gets no lease that nobody will act on, and the
\* lease of a row is not abandoned: such a video would be invisible to the dispatcher until the
\* lease runs out.  There are two exceptions: an eviction under an outdated lease, and a job that
\* an operator removes.
LeaseAttended ==
    [][faults' = 0 =>
         \A v \in Video :
            /\ tracking'[v].lease # NoLease
            /\ tracking'[v].lease = tracking[v].lease => Attended(v)
            => Attended(v)' \/ EvictedOutdated(v) \/ RemovedByHand(v)]_vars

\* A due video is asked about in the end, whatever was lost on the way: a crash, a forgotten lease
\* or a dropped batch only postpones it until the lease runs out.
DueIsSampled ==
    \A v \in Video :
        tracking[v].tracked /\ tracking[v].due
            ~> \/ ~tracking[v].tracked \/ ~tracking[v].due
               \/ \E w \in Worker : work[w].pc = "fetch" /\ v \in work[w].batch

\* A batch that the dispatcher evicts to make room yields all its videos: none of them keeps a
\* live lease that nobody will act on ("yields its slot without losing its retry time").
EvictedBatchYields ==
    [][DispUnlease => \A s \in disp.victim : \A v \in s.aids :
                         tracking'[v].live => Attended(v)']_vars

\* What the README promises of every release: the dispatcher only takes leases away that it gave.
ReleaseIsFenced ==
    [][\A v \in disp.left :
          DispRelease /\ tracking[v].lease # NoLease => tracking[v].lease = disp.lease]_vars

-----------------------------------------------------------------------------
(* Why the first four hold: inductive invariants, proved in SnapshotPipelineProofs               *)

\* Jobs that share a lease, the chunks of one claim, share no video.
ChunksDisjoint ==
    \A j, k \in Job : j # k /\ jobs[j].lease = jobs[k].lease /\ jobs[j].lease # NoLease
                      => jobs[j].aids \cap jobs[k].aids = {}

\* What the dispatcher has not queued yet is in no job under its lease.
ClaimUnqueued ==
    disp.pc = "add" =>
        /\ disp.lease \in Lease
        /\ \A j \in Job : jobs[j].lease = disp.lease => jobs[j].aids \cap disp.left = {}

\* Until it is queued, the lease of a manual request belongs to nobody else.
RequestUnqueued ==
    manual.pc = "add" =>
        /\ manual.lease \in Lease
        /\ \A j \in Job : jobs[j].lease # manual.lease
        /\ disp.pc = "add" => disp.lease # manual.lease
        /\ \A w \in Worker : work[w].pc = "save" => work[w].next # manual.lease

\* Until it is stored in its job, neither does a renewed lease.
RenewalUnqueued ==
    \A w \in Worker : work[w].pc = "save" =>
        /\ work[w].next \in Lease
        /\ \A j \in Job : jobs[j].lease # work[w].next
        /\ disp.pc = "add" => disp.lease # work[w].next
        /\ \A u \in Worker \ {w} : work[u].pc = "save" => work[u].next # work[w].next

CarrierInv ==
    TypeOK /\ ChunksDisjoint /\ ClaimUnqueued /\ RequestUnqueued /\ RenewalUnqueued

\* A queued job and the worker that runs it hold a lease, never NULL.
HoldersLeased ==
    /\ \A j \in Job : jobs[j] = FreeJob \/ jobs[j].lease \in Lease
    /\ \A w \in Worker : work[w].pc # "idle" => work[w].lease \in Lease

\* A slot with an overtaken commit has not taken up another job.
OvertakenApart ==
    \A w \in Worker : work[w].bg # {} =>
        /\ work[w].bgLease \in Lease
        /\ work[w].pc \in {"idle", "retry", "renew", "save", "delay"}

\* A row that was taken away from an answer never gets the answer's lease back.
LostStaysLost ==
    \A w \in Worker : /\ ResultsOf(w) = {} => lost[w] = {}
                      /\ \A v \in lost[w] : tracking[v].lease # ResultLease(w)

StaleInv == CarrierInv /\ HoldersLeased /\ OvertakenApart /\ LostStaysLost

\* The slots of the queue that are filled: by the queued jobs, and by those that the dispatcher has
\* listed to evict and that have failed since, as their eviction still counts.
Filled == {j \in Job : \/ Queued(j)
                       \/ /\ disp.pc = "evict" /\ jobs[j].status = "failed"
                          /\ \E s \in disp.scan : s.job = j}

\* The slots that the dispatcher and a manual request may still take.
DispSlots == IF disp.pc \in {"find", "lease", "add"} THEN disp.room
             ELSE IF disp.pc = "unlease" THEN 1 ELSE 0
ManualSlots == IF manual.pc \in {"create", "release", "update", "lease", "add"} THEN 1 ELSE 0

\* What is queued and what is still to come fits: an evicted job leaves the slot that its eviction
\* counts, a manual request brings its own, and a job that is gone is never delayed again.
SlotInv ==
    /\ Cardinality(Filled) + DispSlots + ManualSlots <= QueueCap + requests
    /\ manual.pc # "idle" => requests > 0
    /\ \A j \in Job : ~Queued(j) => jobs[j].holder = NoWorker

\* While nothing fails, a slot holds the lock on the job it runs, which still names what the slot
\* was given, and the slot has in hand every row of the job that it owns yet.
SlotHoldsJob(w) ==
    /\ work[w].job \in Job
    /\ LET job == jobs[work[w].job]
       IN job.status = "active" /\ job.holder = w /\ job.aids = work[w].aids
                                /\ job.lease = work[w].lease
    /\ LET owned == Owned(tracking, work[w].aids, work[w].lease)
       IN /\ work[w].pc \in {"fetch", "commit"} => owned \subseteq work[w].batch
          /\ work[w].pc \in {"pending", "check", "retry", "renew"} => owned \subseteq work[w].keep
          /\ work[w].pc = "save" => owned = {}

\* Only an eviction has a victim, and it has one.
OneVictim == disp.victim # {} => disp.pc = "unlease" /\ \A s, t \in disp.victim : s = t

\* What the dispatcher listed of a job holds as long as the job keeps its lease.
ScanTrue ==
    /\ \A s \in disp.scan : /\ jobs[s.job].status # "free" /\ jobs[s.job].lease = s.lease
                                 => jobs[s.job].aids = s.aids
                            /\ \A w \in Worker : work[w].pc = "save" => work[w].next # s.lease
    /\ OneVictim

AttendInv ==
    /\ ScanTrue
    /\ faults = 0 => \A w \in Worker : work[w].pc # "idle" => SlotHoldsJob(w)
    /\ faults = 0 => disp.pc # "undo" /\ manual.pc # "undo"
====
