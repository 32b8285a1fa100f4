# Verification of cvsa

TLA+ specifications of the parts of cvsa whose correctness depends on the order in which processes,
jobs and statements happen: the crawler's snapshot pipeline and the schedule it follows, the decisions
whether a video is tracked, the search for new videos, the record of milestones, the limits on what the
crawler sends and the credentials it sends, its statistics, and the backend's search indexing. TLC checks each of them on small
instances; TLAPS proves their invariants and action properties for every instance, and that the network scheduler
implements its abstract specification.

Paths below are relative to the repository; `C/` stands for `apps/crawler/src/crawler/`, `K/` for
`apps/crawler/src/controlPlane/`, `B/` for `apps/backend/src/`, `P/` for `packages/catalog/src/`.

## 1. The system

cvsa keeps an archive of singing-voice-synthesis songs on Bilibili. The **crawler** finds candidate
videos, decides which to track, samples their view counts on a schedule, and detects milestones. The
**backend** serves the catalog of songs, artists and singers and indexes it for search. They share
PostgreSQL and Redis, never memory.

### Inventory

| Component | State | Operations | Talks to |
|---|---|---|---|
| Tracking repository `C/tracking/repository.ts` | `video_tracking`: due time, `lease_until`, priority, state, `last_error` | find due, lease (compare-and-set), renew, settle, release, upsert, delete | PostgreSQL, one statement each |
| Tracking dispatcher `C/tracking/dispatcher.ts` | none between ticks | tick: count queue, evict less urgent jobs, claim due rows, queue them in chunks, release the rest | repository, snapshot queue |
| Manual snapshots `C/tracking/manualSnapshot.ts` | none | enqueue, forced or not: five statements | repository, queue |
| Snapshot worker and service `C/snapshot/{worker,service}.ts` | the batch in hand | filter, fetch, commit in a transaction, probe missing videos, retry, deadline | Bilibili, repository, queue |
| Queue and task context `C/shared/{mq,taskContext}.ts` | BullMQ jobs in Redis, the failed ones included | add, list, remove, retry, delay, deliver, redeliver; deadline of 120 s | Redis |
| Discovery evaluator `C/discovery/evaluator.ts` | none | evaluate a candidate: two reads of the label around a network call, then three writes | Bilibili, three tables |
| Discovery administration `C/discovery/adminService.ts` | `discovery_sample.human_label` | label, untrack | sample and tracking tables |
| Discovery workers, search rover `C/discovery/{worker,searchRover,scheduler}.ts` | `discovery_search_window`, the sweep's job | sweep pages of searches, mark windows, retry, start over after a deferral | queues, Bilibili, PostgreSQL |
| Filter, classifier, relations `C/discovery/{filter,classifier,relationExtractor}.ts` | none | decide by rules and a model | classifier process |
| Schedule evaluation `C/tracking/{scheduler,policy,milestone}.ts` | none of its own: the row and its samples come back to it | next state, time, target, priority and reason | tracking row, `video_snapshot` |
| Milestones `C/milestone/*` | `video_milestone`, the cursor of a recovery in its job, its candidates | observe a sample in its transaction; recover from stored samples, batch by batch | PostgreSQL, Redis |
| Network runtime `C/network/*` | the revision stored, the revision in use | poll, load, replace, apply | PostgreSQL, scheduler |
| Bilibili client and session `C/bilibili/*` | one bundle of cookies and signing keys, its generation, timer and backoff, a cached copy | request, recover, single-flight refresh, start, stop, configure, invalidate | network scheduler, cache |
| Metadata refresh `K/metadataRefresh.ts` | timer, request in flight | refresh due metadata | Bilibili, repository |
| Network scheduler `packages/network-scheduler` | token buckets in Redis | choose an adapter, acquire, wait | Redis |
| Control plane `K/*` | none | ingest, register, promote, delete, label; remove and retry jobs (`K/stats.ts`, `C/stats/adminService.ts`) | the above |
| Crawler statistics `C/stats/*` | buckets of a minute in each process; minutes, hours, pending hours, instances in the database | record, flush, close, roll up, report | PostgreSQL |
| ML | a subprocess | infer | - |
| Catalog `P/*` | catalog tables, `meta.outbox`, Redis cache | create, update, delete with an outbox event, read through the cache, invalidate | PostgreSQL, Redis |
| Backend outbox `B/outbox/*` | outbox entries, BullMQ jobs | poll, mark, sync, acknowledge, record failures | PostgreSQL, Redis, search |
| Backend search `B/search/*` | Meilisearch indexes | sync, search | catalog, Meilisearch |
| HTTP handlers, authentication, contracts, db, env, logger, observability | none or one row per request | request and answer | - |
| Deploy webhook, embedding, web, docs, scripts | - | - | - |

### What is hard

* Nothing holds a lock across two statements of the crawler. A row is claimed by writing a lease; the
  lease is the only thing that connects a row, the BullMQ job that carries it and the worker that
  samples it, and any of the three can be lost, duplicated or overtaken.
* BullMQ delivers a job again when its worker's lock lapses, while that worker may live on. The task
  deadline abandons a batch whose transaction may still commit.
* PostgreSQL and Redis are written one after the other: every pair can be cut between.
* A human can label, untrack, promote or force a video, and remove or retry a job of the queue, at any moment.
* A sweep reads pages of a list that changes between two pages, and starts over when it is deferred. A
  recovery goes through samples that are still being added, and is done again from its last batch.
* The statistics are written while they are counted, by processes that die, and are read by reports in
  several statements while they are rolled up.
* The outbox guarantees delivery at least once, the cache is filled by whoever read last, and the
  index is written by whoever finishes last.

### What makes each part correct

* Snapshot pipeline: no video is in two jobs; an answer whose row was claimed by someone else does not
  settle it; the queue keeps its cap; a lease is always attended by somebody, or its end brings the
  row back; a due video is sampled in the end.
* Search indexing: an entry is acknowledged only when it was synchronised or its task was refused; every entry is
  acknowledged; nothing but a refused task and two races keeps an acknowledged change out of the index.
* Discovery: the last human label decides; no automatic write forgets it; a tracked video can be
  untracked.
* Network scheduler: over any stretch of time a budget admits no more than a full bucket and its refill;
  what may not be repeated is sent once; the delay given with a refusal is enough. Configuration: revisions
  only go forward, and a saved one is in use.
* Schedule: a milestone that a video approaches is sampled when it is reached; sprints and the state `new` end.
* Sweep: what a marked window was to contain was queued; sweeps end.
* Milestones: the first sample that shows one is known, whatever the order of commits or recoveries.
* Statistics: nothing is dropped before it is stored, rolled hours equal their minutes, and a report counts
  each event once.
* Session: neither a refresh nor the cache restores what was invalidated; a running session always has its next
  refresh planned; requests that are rejected together replace the credentials once.

## 2. The modules

| Module | Models |
|---|---|
| `TrackingRepository` | the statements on `video_tracking`, as operators on rows |
| `SnapshotPipeline` | EXTENDS it: dispatcher, manual requests, workers, queue, commands and time |
| `SearchIndexing` | catalog writers and readers, cache, outbox, queue, workers, search index |
| `DiscoveryLabels` | evaluations, human labels and manual additions |
| `TrackingSchedule` | `evaluateNextSchedule` over the life of a row: its samples, and what interferes |
| `RequestBudget` | abstract: what a rate limiter promises |
| `NetworkScheduler` | configuration revisions, token buckets, requests; implements `RequestBudget` |
| `SearchSweep` | incremental sweeps and the ledger of explored windows |
| `MilestoneHistory` | live milestones and their recovery |
| `CrawlerStats` | collectors, hourly rollup, reports |
| `BilibiliSession` | the credentials that requests share: refresh, recovery, cache, invalidation |
| `MC*` | the instances TLC checks: symmetry and the kinds of entity |
| `*Proofs` | theorems |

### SnapshotPipeline

`tracking[v]` is the row (whether it exists, is due and eligible, its lease, whether the lease is live,
its priority, whether `last_error` says the video was missing). `jobs[j]` is the job in Redis, `work[w]`
a slot of the worker with the point between two awaits that it has reached, `disp` the dispatcher's tick,
`manual` the request being served. `lost[w]` is history: the rows that were taken from the lease under
which slot `w` fetched its answer. `Disp*` are the steps of `tick`, `Manual*` those of
`ManualSnapshotService.enqueue`, `Work*` and `Retry*` those of `processBatch` and `retryBatch`,
`Deadline` and `LateCommit` the abandoned task; `Promote`, `Untrack`, `Register`, `Discover`, `Archive`
and `RefreshMetadata` are what the rest of the crawler does to a row, `RemoveJob` and `RetryJob` what an operator does
to a job of the queue. A job that fails is kept as `failed` (`Fail`), neither counted nor delivered, until it is retried,
removed, or dropped by BullMQ (`JobForgotten`). One action is what happens between
two awaits, and every call has an action in which it fails. A `Step` that may take a row away updates `lost`
by `KeepHistory`, a conjunct of `Next`.

Abstractions. A lease value is an opaque model value, fresh when given and forgotten when nobody holds it;
two leases taken in the same millisecond are taken to differ. Time is `BecomesDue`, `BecomesEligible` and `LeaseExpires`;
a lease that runs out while somebody attends to it counts as a fault. The snapshots inserted, the schedule
computed and the metrics are abstracted; a failure of `noteLateness` is `WorkNoteFails`. `getJobs` returns the jobs in any order. The archive's priority 4 is any priority
from 2 on. BullMQ's maximum of stalls is not modelled. An operator's call that fails after the job was removed is the
removal. Of what a deadline can overtake only the commit goes on: the
retry's own statements are taken as finished or failed. Ticks skipped while the rate limiter cools down
are a delay. BullMQ is modelled from how `C/shared/mq.ts` uses it.

### SearchIndexing

`catalog[e]` is a revision and whether the entity is alive, `outbox[n]` the entry of the n-th change
(state, whether `nextRetryAt` has passed, retries), `cache[e]` and `index[e]` the revision that Redis and
Meilisearch hold (0: none), `jobs`, `work` and `readers` as above, `drops` the invalidations still to be
made, `found` what the poll has found and not queued. History: `synced` are the entries some worker wrote
the entity for, `refused` those of which a task ended failed in Meilisearch (`SyncRefused`: `waitForTask` returns it
like any other, and `sync` goes on to acknowledge), `raced` the entities for which a worker was served an outdated revision or was overtaken
by another. `Change` is a writer's transaction, `Read*` is `SongReader.getDetails`, `Poll*` the recovery,
`MarkProcessing` to `RecordFails` are `OutboxService.processEntry`, `Start`, `Complete` and `Retry` the queue.

Abstractions. An entity has one document (its languages are one) and no relations. Meilisearch runs its
tasks in order. The poll's limit of 100 is never reached; BullMQ's maximum of stalls is not modelled;
`markFailed`'s select and update are one step; `retryCount` stops at its limit. A failing read or write
of the cache is `CacheExpires`, and so are two invalidations merged into one. Transactions on one entity
that overlap are taken one after the other. `OutboxService.enqueue` is called by nobody.

### DiscoveryLabels

`sample[v]` is the row of `discovery_sample` with its label, `metadata` and `tracking` the videos with a
row, `tasks[t]` an evaluation or a control plane call and the await it has reached. History: `word[v]` is
the last label a human recorded; `late` the tasks that were about to write the contrary when a label came;
`excused` the videos whose row was last decided by hand, by a late task, or by a call that was cut short;
`bare` the videos added without a sample. `Eval*` are the evaluator, `RecordLabel`, `Delete` and `Look` are `label`,
`Find` is `untrack` (and `promote` and manual snapshots, as far as they add a row), `EnsureSample` is
`ensureManualSample`. A failure, a deferral or a process exit is `CutShort`, possible anywhere.

Abstractions. Verdicts of filter and model are a choice. What an archived row contains is
`SnapshotPipeline`'s. Reads that are only reported are left out. Videos do not interact here, so that one is
enough, and its state space is finite without a bound.

### TrackingSchedule

`row` is what the schedule writes and reads back of `video_tracking`, `samples` the rows of
`video_snapshot`, `views` and `pace` what the video does. Every branch of `evaluateNextSchedule` is an
action (`Sprint` to `KeepRegular`) with the code's condition as its guard, and `Settle` is what the
transaction writes: a branch that does not return `targetMilestone` leaves the stored one. `TakeSample` is
a sample of the due row, `ForceSample` a manual one, `Retry`, `Vanish`, `Register` and `Promote` what else
writes these columns. History: `steady` (the pace has not risen), `watched` (the last sample judged the next
milestone by a history).

Abstractions. Speeds are fractions and are compared by multiplying out. Numbers that the code holds are a
record `Fixed`, the policy a record `Policy`, and `Factor` a function, so that the instance can shrink them in
proportion. `priority`, `etaHours`, `reason`, `next_metadata_at` are written and not read back by the
schedule; they are left out. Two samples have different times. A sample is one step: whose it is, is
`SnapshotPipeline`'s.

### NetworkScheduler and RequestBudget

`stored` is the revision in the database, `revision` the one in use, `polls` and `puts` the loads and
replacements under way, `buckets` the keys in Redis, `calls` the requests inside `execute`. `Ask` is one turn of
the loop: `takeWeightedCandidate`, then the script of `acquireBudgets`, which charges all budgets of the
adapter or none (`Lacking`, `Wait`, `Charge`). Tokens are integers in units of 1/duration. `Restart` loses the process's
memory and keeps Redis and the database. `RequestBudget` is the promise: between any two admissions of a
budget no more than `max` plus the refill; `KeepsBudgets` states that the scheduler implements it, with the
history `admitted` as the abstract variable. A bucket belongs to one adapter, as its key in Redis ends with the
adapter's id (`ScopeAssumption`); a configuration binds adapters to a scope in a sequence, in the order of its list.

Abstractions. Time passes in ticks, and all processes see one clock, which does not go back. Budgets of less than a request a
second, which the code turns into a longer window, are left out, as are statistics. `acquire`,
`consume` and `defer` are called by nobody while the limiter has `acquireBudgets`. An adapter's proxies, the
normalisation and redaction of a configuration and the listeners of `apply` are not modelled.

### SearchSweep

`listed` is what the search finds, `explored` the ledger, `found` the videos queued or tracked, `sweeps` the jobs with
the await they have reached. `Look` finds the earliest gap, `Query`, `Offer` and `MarkExplored` are the
loop over pages and batches, `Slide` the next batch; `Fail`, `Defer` and `Expire` interrupt it anywhere,
with part of a page queued. Videos are published and withdrawn between any two steps. The results are a set, in which a video has
its `Place`, newest first; the videos of a page are those whose places it spans. History: `covered` (videos
a marking was to contain: published before the sweep was taken up), `displaced` (those that moved to a page already read).

Abstractions. One keyword (keywords share nothing but the count of steps); the deep mode with its
checkpoints and explicit queries is not modelled; the upstream lists a video as soon as it is published.

### MilestoneHistory

`samples` and `rows` are `video_snapshot` and `video_milestone`, `answers` the statistics answered and not
yet committed, `jobs` the recoveries with the data saved in the job and the data about to be saved. `Commit` is `observe` in its
transaction, by `ObservedBefore`; `Prepare`, `Batch`, `Finish` are the branches of `recover`, `SaveData` the
worker's `updateData`, `Fail` a failing or dying attempt. History: `scope`, the samples a recovery is to go through.
`Bracketed` is about these: between the sample a row gives and the row's own there is none of `scope`, unless a sample that was
committed late already showed the threshold. (A larger instance has a recovery whose row does not bracket such a late sample; the
proof needs the exception.)

Abstractions. A live row's previous sample is that of the tracking row and is left out, and so is the extra
threshold of a promoted row. Manual rows have a source of their own and touch nothing.

### CrawlerStats

`process[i]` is a collector with the await its flush has reached, `buckets[i]` its minutes (count, serialized
samples, live sketch, dirty, generation); `stored`, `covered`, `pending`, `hours` are the tables; `rollup` and
`report` what is under way. `Begin` to `End` are `persist`, `RollupBegin` to `RollupFails` `runHourlyRollup`,
`ReportBegin` to `ReportMinutes` the selects of `readRange` and the sum of `computeReport`. History:
`recorded`, and `overtaken`, the minutes with an event while the first flush waits for `markMetricsEnabled`.

`SumOf` is the sum of a map's values, and the sums of rows, hours and reports are made of it.

Abstractions. All counters are one, all distributions one. A report's selects see a database that goes on
(PostgreSQL's default isolation). State samples, legacy rows, retention, quantiles and availability are left
out.

### BilibiliSession

`life`, `bundle`, `generation`, `allowCached`, `backoff`, `timer` and `refresh` are the fields of the class
(`backoff` is `nextAttemptAt` and whether that time has come), `calls[c]` a request and the await it has reached,
`invalidations[i]` a call of `invalidate`, `stored` and `wire` the cache and the commands under way to it, `fresh` the
bundles not yet due. `Ask` to `Recovered` are `request`, `signedRequest`, `getWbiKeys` and `recover`;
`JoinRefresh`, `Handshake`, `Publish` and `RefreshFails` are `refreshCredentials`, which whoever waits for it (`Told`) shares;
`Start` to `Configure`, `TimerFires`, `Invalidate` and `Invalidated` are the methods of those names. History: `born` and `era` (for how
many invalidations a bundle's refresh came after), `epoch`, `revoked` (the last invalidation that has returned).

Abstractions. The three requests of the handshake are one await, which ends well or not. A bundle expires when it
is due, so that a changed interval does not move its time. What follows an await without another one is one step, also
when it crosses a few microtasks. The cache executes and answers commands in order and its calls have one
timeout, as with `RedisBilibiliCache`; the crawler as configured today uses `MemoryBilibiliCache`, which is the case where they are
answered at once and nothing is stored before the start. `stop` is final, and a stopped session still answers
requests, as in the code. `invalidate` is called by no part of the crawler yet, only by tests. Headers, signing and the recognition of codes are data.

### How they fit

`SnapshotPipeline` takes the steps of `DiscoveryLabels` that touch a row as commands that may come at any
time (`Discover`, `Untrack`, `Register`, `Archive`), and `DiscoveryLabels` takes the pipeline's only
insertion (a manual snapshot) as a task. Each is thus checked against the most general behaviour of the other.
`TrackingSchedule` refines the pipeline's `settle`, which leaves the next time open, and takes its retry and
its commands; `MilestoneHistory` takes its late and duplicated commits. `SearchSweep` ends where `DiscoveryLabels` begins: with a candidate in the
queue. `NetworkScheduler` and, above it, `BilibiliSession` are what every fetch of the others goes through; there it is an
answer, a failure or a deferral.

## 3. Runs

| Run | Shows | Instance and states |
|---|---|---|
| `snapshot_deliveries` | `TypeOK`, `StaleAnswersNeverSettle`: with jobs delivered twice, deadlines, crashes and commands, an answer never settles a row taken from it; `SingleCarrier`; `QueueBounded`: adds, evictions, failures and retries never let the dispatcher overfill the queue | 1 video, 2 slots, cap 1, and either a fault, a command and then the retry of a failed job, or a manual request: 1.4 million |
| `snapshot_batches` | `LeaseAttended`: while nothing fails no lease is abandoned, except by an eviction under an outdated lease and by an operator's removal of a job | 2 videos in a chunk, cap 1, 2 commands: 800 thousand |
| `snapshot_live` | `DueIsSampled` under fairness | 1 video, a fault, a command: 200 thousand |
| `indexing` | `TypeOK`, `AcknowledgedWasSynced`, `StaleHasCause` | 1 song changed twice, 2 workers, a reader, a fault: 3.0 million |
| `indexing_live` | `EntryDelivered` under fairness | a change, 2 workers, 2 faults, 2 retries: 150 thousand |
| `discovery` | `TypeOK`, `LastWordStands`, `TrackedHasSample`, `LabelsKept` | 1 video, 3 tasks: 280 thousand |
| `network` | `TypeOK`, `SentOnce`, `DelaySuffices`, `SavedIsUsed`, `NeverOlder`, and the refinement `KeepsBudgets` | 2 revisions, 2 adapters, 3 budgets, 2 requests, a poll, an operator, a restart: 900 thousand |
| `sweep` | `TypeOK`, `CoveredIsFound`; `SweepsEnd` under fairness | 3 videos, a sweep, pages of one, 2 attempts: 570 thousand |
| `milestones` | `TypeOK`, `FirstObserved`, `RecoveryComplete`, `Bracketed`; `RecoveryEnds` under fairness | 2 videos, 3 samples, 2 workers, a recovery, batches of one: 470 thousand |
| `stats` | `TypeOK`, `CleanIsStored`, `CoveredIsStored`, `RolledIsExact`, `ReportExact` | 2 processes one after the other, 2 events, 3 minutes, hours of 2, a fault: 1.9 million |
| `schedule` | `ScheduleTypeOK`, `CrossingIsCaught`, `SprintIsAlive` | 1 video, 3 milestones, 13 units of time, 2 events: 820 thousand |
| `session` | `TypeOK`, `InvalidatedStaysOut`, `RefreshIsPlanned`, `RecoverySparesFresh` | 2 requests, an invalidation, 2 bundles, one of them perhaps an earlier session's: 1.4 million |

Bounds. `MaxFaults` (crashes, lost locks, failed calls, deadlines, outlived leases), `MaxRequests`,
`MaxCommands` and `MaxRev` are the only bounds, named in the modules and guards of the actions they
limit. One fault is enough for every action of failure to occur, together with everything that recovers from it;
two workers for one job to be delivered twice; two videos for a chunk and for a job to evict another; eight
leases so that a fresh one always exists. Two changes of an entity make an old and a new revision; three tasks are a label, a contrary
label and an evaluation. The proofs need none of these bounds. `MaxRequests` bounds manual requests and retries of failed
jobs together, since both may go past the cap. `OneDisturbance` constrains `snapshot_deliveries`: a
manual request meets neither fault nor command there, and the retry of a failed job is the last disturbance, which
would else be many more states; all its properties are proved for any mix of them. `LeaseAttended` says nothing after a fault, so that `snapshot_batches`
has none, and it has two commands and no manual request; with one more manual request (`MaxRequests = 1, MaxCommands = 1`, 1.9 million
states) it was found to hold too, and the theorem has them all.

In the newer modules the bounds are `MaxTime` (the clock), `MaxRev`, `MaxRestarts`, `MaxSamples`, `MaxAttempts` (the
code's), `MaxRecords`, `LastRecord`, `MaxUp`, `MaxGeneration`, `MaxPace`, `MaxEvents`, `MaxBundles`, `MaxInvalidations` and `RecoveryAttempts` (the code's). They suffice for: a bucket
that empties, waits, fills and expires, with an old load applied after a replacement; a sweep of several batches whose page
moves, fails, and starts over; a recovery of two batches of a video, done again, while older samples are committed; an
hour rolled up, written to again by a late flush, and reported meanwhile; a video that passes through every
state and branch (milestone 8 is reached by a sprint from 0 or 2 views within 13 units); two requests rejected with one bundle, or one of
them late with the bundle before, while a refresh and an invalidation are under way. Sweeps share only the ledger, and
one is enough for it to change under a page; `CoveredIsFound` is proved for any number of them.

The runs of the pipeline, the indexing, the statistics and the schedule disable TLC's deadlock check: an instance stops when its commands, requests or
changes are used up and nothing is due, or at its last moment. The other modules never stop, and their runs keep the check.

Fairness (liveness runs only). Weak fairness of the dispatcher and the poll: both run on timers. Weak
fairness of the steps of a worker: every await is bounded, by a timeout of the call or the task's deadline. Strong fairness of starting a job and of queueing an entry:
BullMQ and the poll choose again each time, and the choice alternates with other jobs. Weak fairness of time: delays,
`eligible_at` and unattended leases run out. Nothing is assumed of failures, commands, requests or readers.
Weak fairness of a sweep's and a recovery's steps: their workers go on; `SweepsEnd` says nothing of a sweep
that is interrupted, and `RecoveryEnds` holds since attempts are limited.
Liveness is checked with one video: with two, a stream of more urgent rows
starves the less urgent ones, which is the documented order. It assumes that rate-limit cooldowns end.

## 4. Known divergences

Claims of the documentation, of comments or of the design that the code does not keep. Where a claim is
stated in a module, TLC finds it violated when it is added to the named configuration.

1. `dispatcher.ts:195`: `releaseLeases` without the expected lease, at the end of a tick, takes away a lease that a forced
   request gave in between; `apps/crawler/README.md:45` says that releases check the lease. `ReleaseIsFenced`
   in `snapshot_deliveries.cfg` with two videos.
2. `dispatcher.ts:109`: the dispatcher frees an evicted job's rows under the lease it listed; a job that
   renewed its lease between `getJobs` and `removeJob` leaves its rows leased with no job until the lease ends
   (lines 199-200 say why this must not be). `EvictedBatchYields` in `snapshot_batches.cfg`. Without a fault there are two ways in
   which a lease is abandoned, this one (`EvictedOutdated`) and 16 (`RemovedByHand`): `LeaseAttended` allows for both and is proved.
3. `B/search/interface.ts:62`: `sync` reads through the cache; a reader that stores an old revision after the
   invalidation makes the worker index and acknowledge it. `SettledIsCurrent` in `indexing.cfg`.
4. `ArtistWriter.ts:77` and its siblings record `Artist`, `Singer`, `ArtistRole`; the processor (`processor.ts:61-64`) knows
   `artist`, `singer`, `artistRole`: their events are acknowledged without indexing. `OnlyUnindexedSkipped` in `indexing.cfg` with `OneArtist`.
5. `evaluator.ts:189`: a rejection between the second read of the label and the upsert is undone, which the
   comment at 182-183 excludes. `EvaluationNeverRestores` in `discovery.cfg`.
6. A sweep of one `categoryId` marks windows of the keyword as explored for all categories: later sweeps never find the other
   videos. `ExploredIsFound` in `sweep.cfg` with `Request <- Narrow`; the schema's comment says "presence means explored" (`schema/discovery.ts`).
7. `apps/crawler/README.md` says that a sweep saves its search offset page by page. An incremental one never reads the offset it
   saved: it starts over from the ledger.
8. `milestone.ts:13-14` says that the factor of the ETA shrinks near the target; it grows from 4.5 to about 16. (`Factor` models the code.)
9. The first flush of a process serializes the sketches, awaits `markMetricsEnabled`, then clones the buckets: latencies sampled
   meanwhile are counted and their samples lost if none follows (`collector.ts:584-600`; `CleanIsStored` without the exception for `overtaken`).
10. A rollup stops at the first hour that fails and starts with it the next time: one bad hour holds up all later ones (`collector.ts:817`).
11. A promotion to a `targetMilestone` that is stale by the next sample is undone by it: the row goes back to `regular` (`scheduler.ts:340`).
12. A regular video older than 30 days that is sampled twice in short succession without a new view is archived (`scheduler.ts:537`).
13. A recovery that fails for good leaves its rows in `milestone_recovery_candidate`.
14. After a refresh has failed, a signed request is put off until the backoff ends, but a rejected one starts the next handshake at once: `recover` (`session.ts:261`) does not
    look at `nextAttemptAt`. `sessionLifecycle.test.ts:213` says "refresh failure backs off rather than starting a handshake for each queued request". `FailureBacksOff` in `session.cfg`.

15. An operator's sweep may end in the future: `packages/contracts/src/crawler.ts:193` takes any positive `to` and
    `searchRover.ts:363` does not clamp it. It marks windows that are not over, and later sweeps skip what is published in them after it
    (see 6: "presence means explored"). `ExploredIsFound` in `sweep.cfg` with `Request <- Ahead`.
16. `DELETE /stats/jobs/tracking/:id` (`C/stats/adminService.ts:396-403`, `C/shared/mq.ts:221-235`) removes a waiting or delayed job and leaves its
    rows leased, so that no tick sees the videos until the lease ends: the dispatcher's own rule (`dispatcher.ts:199-200`) is that what is not
    on the queue must not keep its lease. `LeaseAttended` without `RemovedByHand` in `snapshot_batches.cfg`. A retry of a failed job
    (lines 387-394) is queued past the cap, and finds none of its rows to do once their lease has ended and another was given.
17. `B/search/interface.ts:68-95`: `sync` waits for each task and does not look at how it ended (`manager.ts:112-120` returns it). A task that Meilisearch
    ends as `failed` is taken for done: the entry is `PROCESSED`, the document is not written, and nothing will write it before the next
    change. `AcknowledgedWasSynced` without `refused` in `indexing.cfg`.

`TrackedHasSample` also names a gap: a video registered without metadata, or added by a manual
snapshot, has no sample, and untracking it answers 404, which `ensureManualSample`'s comment means to avoid.

## 5. Proofs

Eight modules hold theorems. Each is about one component, but for `TrackingDecisionProofs`, which is about the two decisions on a
video and extends both `DiscoveryLabels` and `TrackingSchedule` (whose `ScheduleInit`, `ScheduleNext`, `ScheduleSpec` have longer names for that reason). All hold for any sets and any bounds. What they
assume is named in the modules and evaluated by every run: null values differ from the proper ones; bounds, sizes and
priorities are naturals, and positive where the code divides by them or counts up to them; every entity has a kind; job
identifiers, processes, invalidations and the keys of buckets are finitely many; videos are numbered; buckets belong to one
adapter; and, for the schedule, there is always a milestone ahead, the factor of the ETA is 2 at least (the code's is 4.5 at least), and intervals,
windows and delays are naturals, positive where the code or the contract makes them so. Each proof has the same shape: an invariant is shown to hold initially and to be kept by every action, one lemma for each
action or group of actions, and the properties follow from it.

**SnapshotPipelineProofs.** `TypeCorrect`; `SingleCarrierAlways`; `StaleInvAlways`; `StaleNeverSettles`. `QueueBoundedAlways`; `LeaseAttendedAlways`.
That no video is in two jobs is not inductive: it follows from `CarrierInv`, which says that jobs with one
lease are chunks of one claim and share no video (`ChunksDisjoint`), and that what is about to be queued or stored
under a lease is not queued under it yet (`ClaimUnqueued`, `RequestUnqueued`, `RenewalUnqueued`); a job carries a video only
under the row's lease, so two carriers would have one lease. `StaleInv` adds that holders have leases, that a slot with an overtaken commit
has taken up no other job, and that a row lost to an answer never gets the answer's
lease back (`LostStaysLost`), since a lease in use is never fresh. `settle` compares the lease, so a lost row is untouched.
The bound of the queue follows from `SlotInv`: the slots that are filled, those a tick may still fill and the one of a manual request stay within
the cap and the requests, of which an operator's retry is one. An eviction counts one slot only if it removed a job, whose place it took. Since it may
remove a job that has failed after it was listed, and is not counted any more, such a job still fills its slot (`Filled`) until the dispatcher
has passed it; without this the invariant is not inductive. A job that is gone or has failed has no holder, so that no late retry of its slot brings it back. `LeaseAttended` rests on `AttendInv` (without a fault a slot holds its job's lock, and has in hand
every row of the job that it still owns, so that it settles or renews each of them; and what the dispatcher listed
of a job is true as long as the job has the lease it was listed with) and on `StaleInv`, since a renewed lease must be in no other hands.
Its two exceptions are no gap of the proof: both happen (divergences 2 and 16).

**SearchIndexingProofs.** `TypeCorrect`, `IndexingInvAlways`, `AcknowledgedWasSyncedAlways`,
`StaleHasCauseAlways`. Two facts make the index follow the catalog without a race: an answer
read for the last change, or after it was written, is current (`AnswersCurrent`), and the document is current once
the last change was written (`LatestIndexed`; a refused task writes nothing, and puts the entry into `refused`, not `synced`). Most actions are `Quiet`, they only move entries about, and share one
proof; `Change` and `SyncWrite` have their own.

**TrackingDecisionProofs, whether a video is tracked.** `TypeCorrect`, `DiscoveryInvAlways`, `LastWordStandsAlways`,
`TrackedHasSampleAlways`, `LabelsKeptAlways`. `DiscoveryInv` says that the sample holds the last word,
that whoever is about to decide about a row obeys it unless late (`DecidersObey`), that only tasks in
their last step are late, and that whoever is about to add a row has a sample
or found a row. Most actions are `Passing`; the four that decide have their own proofs.

**TrackingDecisionProofs, when it is sampled.** `ScheduleInvAlways`, `ScheduleTypeCorrect`, and the action properties
`CrossingIsCaughtAlways` and `SprintIsAliveAlways`. Two facts carry `ScheduleInv`. While the pace has not risen, every stored sample tells no
less than the present pace (`Slowing`), so that the code's estimate of a milestone is never later than its coming; and a row that a watched sample
has settled is due before its milestone can be reached, or after the shortest delay (`Foreseen`). For the second, every branch of
the evaluation either `Sprints`, and then waits at most an estimate divided by the factor, or `Waits`, because the milestone is out of reach
for longer than the branch's interval. Fractions are compared by products; the provers cannot decide formulas about those in general, so that
each comparison is a small lemma about integers (`Products` and those after it), applied to constants picked for the
values in the state. That a fastest window and a nearest sample exist is an argument about finite ordered sets (`First`).
`CrossingIsCaught` has a condition, `Foresighted`: the intervals of all that does not sprint stay within the reach of a sprint, `milestoneMaxEtaHours`
times the factor. The default policy has 48 hours against 144 times 4.5, and `MCTrackingSchedule` assumes it of its own. It is necessary:
`policies.ts:68` in `packages/contracts/src/crawler/` takes any positive number, and with `milestoneMaxEta |-> 1` in the instance TLC shows a new
video that waits for its interval while a milestone passes. The proof takes whole factors; it uses nothing of them but that they are 2 or more.

**NetworkSchedulerProofs.** `TypeCorrect`, `NetworkInvAlways`, `SentOnceAlways`, `DelaySufficesAlways`, `SavedIsUsedAlways`,
`NeverOlderAlways`, and the refinement `KeepsBudgetsAlways`. The promise of `RequestBudget` compares any two admissions, so the
invariant has to account for all of them: for every admission `i`, what is in the bucket and what was spent from the
i-th admission on is no more than a full bucket and what has flown in since (`BucketOK`). An admission takes a token out of what the script found,
which keeps the sum; a bucket that expires is full again, and by then it would have been, because the code's time to live is at
least the time to fill (`TimeToLive`, a division rounded up). A restart, a reload or an older revision leave buckets
alone. `DelaySuffices` follows from `DelayOK`: what a bucket will hold at a later time (`LevelAt`) grows with that time,
and only admissions through the same adapter lower it, since adapters share no bucket. `NeverOlder` and `SavedIsUsed` need `PutsOK`: what
is about to be applied has been stored.

**SearchSweepProofs.** `TypeCorrect`, `SweepInvAlways`, `CoveredIsFoundAlways`. While a batch goes on, three facts bound what it can have
missed: nothing before the place it has read up to is unknown (`PagesOK`), nothing after the oldest time it has read
(`OldestOK`), and at the end of the results nothing at all (`EndOK`). The first survives because a video published meanwhile only moves others back, and one
withdrawn moves at most one video forward to a page already read, which is `displaced`. A window that is marked lies after
the oldest time read (`MarkedWithin`: the marking rounds inward), except for videos of that very second. Lemmas about
places say that they are ordered as the videos are (`PlaceOrder`), leave no gap (`PlaceTaken`), and move by one (`PlaceWithout`).
`SweepAdvancesAlways` is the ranking argument of `SweepsEnd`: each step of an attempt that does not end it lowers a tuple of natural numbers
(`Remains`: the look at the ledger, the time left to go back over, the pages left of the batch, the steps left of the page), whatever is published,
withdrawn or answered meanwhile. It needs the invariant `PagesBounded`, and that a marked batch always goes back in time (`Slide`).

**MilestoneHistoryProofs.** `TypeCorrect`, `MilestoneInvAlways`, `FirstObservedAlways`, `RecoveryCompleteAlways`, and the action property
`BracketedAlways`. The invariant is about a job's data, those saved and those about to be saved (`DataOK`): whatever of its scope lies
behind the cursor (`Behind`) is known, the current video is the next of the list, and the sample saved with it is the
last behind the cursor. A batch that dies is done again from the saved data, for which the same holds, since rows are only added.
`RecoveryAdvancesAlways` is the ranking argument of `RecoveryEnds`: each step of a recovery lowers `Remains` (attempts left, the list still to be taken, the
videos left, the time left of the current one, the saving), failed attempts included, while samples are committed. `RemainsInv` says that
what is about to be saved is ahead of what was and that the videos left are finitely many; `Video` itself may be infinite.

**CrawlerStatsProofs.** `TypeCorrect`, `StatsInvAlways`, `CleanIsStoredAlways`, `CoveredIsStoredAlways`, `RolledIsExactAlways`,
`ReportExactAlways`. The first part is about sums: the sum over a finite set, which the community modules define by a recursive
function, exists, depends neither on the order of the elements nor on the set it is taken from, and is additive (`AddsExists` to `SumParts`; they use that proper inclusion of
finite sets is well-founded, not an induction theorem). The invariant has a part for a collector (`Collector`:
what a minute's bucket holds, what of it is being written, and what is covered; generations tell whether it changed since), one for the rollup
(`RollupOK`: the sum read is still that of the rows unless the hour has a later generation) and one for a report (`ReportOK`). A report reads at
several moments; what it counts is at least what was stored at its begin and at most what is stored at its end: the
hours it has found with nothing pending contain the minutes of its begin (`BaseOK`), and each of its minutes is in one hour or in the rest.

**BilibiliSessionProofs.** `TypeCorrect`, `SessionInvAlways`, `InvalidatedStaysOutAlways`, `RefreshIsPlannedAlways`, and the action property
`RecoverySparesFreshAlways`. Everything turns on the order of the commands to the cache. Every step only takes from the head of
the queue, appends, or gives a waiter up (`Flows`), so that facts about which command comes before which are kept. An invalidation's
deletion is overtaken by no write of an older refresh, since it waits for the refresh that it has aborted (`DroppedForGood`); a read
that somebody waits for finds what the session already has (`ReadsAgree`), so that `start` and a recovery bring back nothing
older; a request sent since the credentials changed was sent with the present ones (`SentFresh`), so that a rejected one drops only those.

The invariants named `*Inv` are proved and not repeated by the runs; TLC finds them to hold, as invariants of the same
instances, which is how they were found.

Only model-checked: the liveness properties (`DueIsSampled`, `EntryDelivered`, `SweepsEnd`, `RecoveryEnds`: liveness under
fairness is beyond the prover, as are ENABLED, induction over data and RECURSIVE operators).
Of the last two the argument is proved, that an attempt and a recovery have finitely many steps of their own; that a fair worker takes them is TLC's.
TLC has also found the two ranking properties to hold on the instances of `sweep` and `milestones`.

## 6. Not modelled

* The timer of the metadata refresh: in the plan below. `session.ts` but for its status, headers and counters is modelled.
* Sweeps in deep mode and with explicit queries; the related and hot discovery jobs, whose candidates are evaluated as in `DiscoveryLabels`.
  A failure count that is lost when the process dies between failing and saving it (`C/discovery/worker.ts:476-478`).
* An operator's removal and retry of jobs of the discovery queue, which the same routes offer (`K/stats.ts:45-60`): a sweep's job
  that is removed or retried by hand. They reach neither the milestone queue nor the backend's.
* Milestones: a worker whose lock lapsed and that lives on beside its successor: its late `updateData` can put the saved cursor back, which
  costs work and concerns `RecoveryAdvances` alone. `prepare` lists its candidates by `latest_video_snapshot`, whose row moves on with every
  sample: a video sampled between the request and the first attempt is not listed. `scope` exempts what the listing passes over.
* Network: listeners of `apply`, the pool of proxies behind an adapter, rates below one a second. An exception of `apply` after
  `scheduler.reload` (`config.ts:276-313`), which leaves the new scheduler in use under the old revision and is answered 503.
* Session: `RedisBilibiliCache.get` answers null when Redis fails (`cache.ts:40-50`), after which a refresh goes on as on an empty
  cache; the model's failing read is the one that times out (`CacheTimesOut`), and ends the call.
* Statistics: state samples, legacy rows, quantiles, the overview: nothing decides by them. Retention, in the database and in memory: `evictBuckets` drops
  a minute older than seven days even when it is dirty (`collector.ts:517-528`), so that what a process could not store for seven days is lost;
  `CleanIsStored` is about the minutes it still keeps.
* HTTP routing, DTOs, authentication, schemas, logging, the
  classifier's process, search queries, the embedding proxy, the deploy webhook, web pages, docs and scripts keep no
  state that steps of two actors contend for, or are beyond what a model says more about than a test.

`PROJECT.json` lists every component with its reason.

## 7. Plan

Done, in this order: the snapshot pipeline, the search indexing, the discovery labels, the network scheduler and its configuration,
sweeps, milestones, statistics, the schedule, the sessions; then the proofs of all of them.

Left: `MetadataRefresh`, and the deep sweep's checkpoints.
