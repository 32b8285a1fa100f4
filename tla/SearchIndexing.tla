---- MODULE SearchIndexing ----
(***************************************************************************)
(* How a change of the catalog reaches the search index: the writer        *)
(* records it in the transactional outbox and drops the cached entity, a   *)
(* poller queues the entries that wait, workers read the entity back       *)
(* through the cache and write it to Meilisearch.                          *)
(*                                                                         *)
(*   catalog  the entities (PostgreSQL): their revision, and whether they  *)
(*            are deleted                                                  *)
(*   outbox   the entries of meta.outbox; every change writes exactly one, *)
(*            so that an entry is named by the entity and the revision     *)
(*   cache    the revision cached under each entity's key (Redis)          *)
(*   index    the revision of each entity's document (Meilisearch)         *)
(*   jobs     the jobs of the outbox queue (BullMQ, Redis)                 *)
(*   drops    cache deletions a writer has yet to issue                    *)
(*   found    entries a poll has found and has yet to queue                *)
(*   work     what each worker slot holds in memory                        *)
(*   readers  API requests on their way through getDetails                 *)
(*   raced    history: see Overtaken                                       *)
(*   synced   history: the entries some worker has written to the index    *)
(*   refused  history: the entries whose document Meilisearch did not take *)
(*            in a task that it had accepted                               *)
(*   faults   how much of the bound on failures is used                    *)
(*                                                                         *)
(* A document is one revision: the languages of an entity, each in an      *)
(* index of its own, are written one after the other like a single one.    *)
(***************************************************************************)
EXTENDS Naturals, FiniteSets

CONSTANTS
    Entity,         \* the rows of the catalog
    KindOf,         \* what each of them is
    Worker,         \* the worker slots (concurrency)
    Reader,         \* API requests that read an entity
    Job,            \* the jobs that may be queued at once
    NoWorker,
    MaxRetries,     \* MAX_RETRIES, of an entry and of a job
    MaxRev,         \* bound: changes per entity
    MaxFaults       \* bound: crashes, lost locks, failed calls, outlived leases

Kind == {"song", "artist", "singer", "artistRole", "engine"}

ASSUME KindAssumption == KindOf \in [Entity -> Kind]
ASSUME NoWorkerAssumption == NoWorker \notin Worker
ASSUME BoundAssumption == MaxRetries \in Nat \ {0} /\ MaxRev \in Nat \ {0} /\ MaxFaults \in Nat

VARIABLES catalog, outbox, cache, index, jobs, drops, found, work, readers, raced, synced, refused, faults

vars == <<catalog, outbox, cache, index, jobs, drops, found, work, readers, raced, synced, refused, faults>>

\* The aggregateType each writer records ...
RecordedType(kind) ==
    CASE kind = "song"       -> "song"
      [] kind = "artist"     -> "Artist"
      [] kind = "singer"     -> "Singer"
      [] kind = "artistRole" -> "ArtistRole"
      [] kind = "engine"     -> "SvsEngine"

\* ... and the keys of the processor's searchServices.
SearchServices == {"song", "artist", "singer", "artistRole"}

HasService(e) == RecordedType(KindOf[e]) \in SearchServices

-----------------------------------------------------------------------------
Entry == Entity \X (1..MaxRev)
Rev == 0..MaxRev        \* 0: no document, no cached value, not created

EntryRecord == [status  : {"none", "PENDING", "PROCESSING", "PROCESSED", "FAILED"},
                due     : BOOLEAN,                \* nextRetryAt IS NULL or past
                retries : 0..MaxRetries]          \* retryCount, MaxRetries standing for any more

NoEntry == [status |-> "none", due |-> FALSE, retries |-> 0]
NewEntry == [status |-> "PENDING", due |-> TRUE, retries |-> 0]

JobRecord == [status   : {"free", "waiting", "active", "delayed"},
              entry    : SUBSET Entry,            \* the entry it is for, at most one
              attempts : 0..MaxRetries - 1,       \* attempts that failed
              holder   : Worker \cup {NoWorker}]  \* who holds BullMQ's lock on the job

FreeJob == [status |-> "free", entry |-> {}, attempts |-> 0, holder |-> NoWorker]

WorkRecord == [pc      : {"idle", "mark", "get", "load", "store", "write", "ack", "record"},
               job     : SUBSET Job,              \* at most one, like entry
               entry   : SUBSET Entry,
               retries : 0..MaxRetries,           \* retryCount as markProcessing returned it
               rev     : Rev]                     \* what getDetails returned, 0 for null

IdleWork == [pc |-> "idle", job |-> {}, entry |-> {}, retries |-> 0, rev |-> 0]

ReadRecord == [pc : {"idle", "load", "store"}, entity : SUBSET Entity, rev : Rev]

IdleRead == [pc |-> "idle", entity |-> {}, rev |-> 0]

TypeOK ==
    /\ catalog \in [Entity -> [rev : Rev, alive : BOOLEAN]]
    /\ outbox \in [Entry -> EntryRecord]
    /\ cache \in [Entity -> Rev]
    /\ index \in [Entity -> Rev]
    /\ jobs \in [Job -> JobRecord]
    /\ drops \subseteq Entity
    /\ found \subseteq Entry
    /\ work \in [Worker -> WorkRecord]
    /\ readers \in [Reader -> ReadRecord]
    /\ raced \subseteq Entity
    /\ synced \subseteq Entry
    /\ refused \subseteq Entry
    /\ faults \in 0..MaxFaults

Init ==
    /\ catalog = [e \in Entity |-> [rev |-> 0, alive |-> FALSE]]
    /\ outbox = [n \in Entry |-> NoEntry]
    /\ cache = [e \in Entity |-> 0]
    /\ index = [e \in Entity |-> 0]
    /\ jobs = [j \in Job |-> FreeJob]
    /\ drops = {} /\ found = {}
    /\ work = [w \in Worker |-> IdleWork]
    /\ readers = [r \in Reader |-> IdleRead]
    /\ raced = {} /\ synced = {} /\ refused = {}
    /\ faults = 0

Fault == faults < MaxFaults /\ faults' = faults + 1
NoFault == UNCHANGED faults

\* The row getDetails selects: deleted rows are not found.
Current(e) == IF catalog[e].alive THEN catalog[e].rev ELSE 0

\* The entity a worker's entry is about.
About(w, e) == \E n \in work[w].entry : n[1] = e

-----------------------------------------------------------------------------
(* Writers and readers of the catalog *)

\* Mutant: a deletion records no event.
ChangeUnrecorded(e, alive) ==
    /\ catalog[e].rev < MaxRev
    /\ catalog' = [catalog EXCEPT ![e] = [rev |-> catalog[e].rev + 1, alive |-> alive]]
    /\ outbox' = IF alive THEN [outbox EXCEPT ![<<e, catalog[e].rev + 1>>] = NewEntry]
                          ELSE outbox
    /\ raced' = raced \ {e}
    /\ NoFault
    /\ UNCHANGED <<cache, index, jobs, found, work, readers, synced, refused>>

\* A transaction that changes e: the row, and its entry in the outbox.
Change(e, alive) ==
    /\ catalog[e].rev < MaxRev
    /\ catalog' = [catalog EXCEPT ![e] = [rev |-> catalog[e].rev + 1, alive |-> alive]]
    /\ outbox' = [outbox EXCEPT ![<<e, catalog[e].rev + 1>>] = NewEntry]
    /\ raced' = raced \ {e}
    /\ NoFault
    /\ UNCHANGED <<cache, index, jobs, found, work, readers, synced, refused>>

Create(e) == catalog[e].rev = 0 /\ Change(e, TRUE) /\ UNCHANGED drops

\* update and delete drop the cached entity once the transaction has committed.
Update(e) == catalog[e].alive /\ Change(e, TRUE) /\ drops' = drops \cup {e}
Delete(e) == catalog[e].alive /\ Change(e, FALSE) /\ drops' = drops \cup {e}

InvalidateCache(e) ==
    /\ e \in drops
    /\ cache' = [cache EXCEPT ![e] = 0]
    /\ drops' = drops \ {e}
    /\ NoFault
    /\ UNCHANGED <<catalog, outbox, index, jobs, found, work, readers, raced, synced, refused>>

\* Redis fails: the cache swallows the error.
InvalidateFails(e) ==
    /\ e \in drops
    /\ Fault
    /\ drops' = drops \ {e}
    /\ UNCHANGED <<catalog, outbox, cache, index, jobs, found, work, readers, raced, synced, refused>>

\* The time to live of a cached entity runs out.
CacheExpires(e) ==
    /\ cache[e] # 0
    /\ cache' = [cache EXCEPT ![e] = 0]
    /\ NoFault
    /\ UNCHANGED <<catalog, outbox, index, jobs, drops, found, work, readers, raced, synced, refused>>

\* getDetails for an API request that misses the cache; a hit changes nothing.
ReadMiss(r, e) ==
    /\ readers[r].pc = "idle" /\ cache[e] = 0
    /\ readers' = [readers EXCEPT ![r] = [pc |-> "load", entity |-> {e}, rev |-> 0]]
    /\ NoFault
    /\ UNCHANGED <<catalog, outbox, cache, index, jobs, drops, found, work, raced, synced, refused>>

ReadLoad(r) ==
    /\ readers[r].pc = "load"
    /\ \E e \in readers[r].entity :
         readers' = IF Current(e) = 0 THEN [readers EXCEPT ![r] = IdleRead]
                    ELSE [readers EXCEPT ![r] = [@ EXCEPT !.pc = "store", !.rev = Current(e)]]
    /\ NoFault
    /\ UNCHANGED <<catalog, outbox, cache, index, jobs, drops, found, work, raced, synced, refused>>

ReadStore(r) ==
    /\ readers[r].pc = "store"
    /\ cache' = [e \in Entity |-> IF e \in readers[r].entity THEN readers[r].rev ELSE cache[e]]
    /\ readers' = [readers EXCEPT ![r] = IdleRead]
    /\ NoFault
    /\ UNCHANGED <<catalog, outbox, index, jobs, drops, found, work, raced, synced, refused>>

-----------------------------------------------------------------------------
(* recoverStaleEntries, every five seconds *)

\* Mutant: a lease that has run out is not looked for.
PendingUnleased == {n \in Entry : outbox[n].status \in {"PENDING", "FAILED"} /\ outbox[n].due}

\* findPending, the limit of 100 entries never being reached.
Pending ==
    {n \in Entry : outbox[n].status \in {"PENDING", "FAILED", "PROCESSING"} /\ outbox[n].due}

Poll ==
    /\ found' = found \cup Pending
    /\ NoFault
    /\ UNCHANGED <<catalog, outbox, cache, index, jobs, drops, work, readers, raced, synced, refused>>

\* Each entry found becomes a job of its own, even if another job is for the same entry.
PollAdd(n) ==
    /\ n \in found
    /\ \E j \in Job :
         /\ jobs[j].status = "free" /\ \A w \in Worker : j \notin work[w].job
         /\ jobs' = [jobs EXCEPT ![j] = [FreeJob EXCEPT !.status = "waiting", !.entry = {n}]]
         /\ found' = found \ {n}
    /\ NoFault
    /\ UNCHANGED <<catalog, outbox, cache, index, drops, work, readers, raced, synced, refused>>

\* queue.add fails, which ends the loop.
PollFails ==
    /\ found # {}
    /\ Fault
    /\ found' = {}
    /\ UNCHANGED <<catalog, outbox, cache, index, jobs, drops, work, readers, raced, synced, refused>>

-----------------------------------------------------------------------------
(* BullMQ, and processEntry in one worker slot *)

Start(w, j) ==
    /\ work[w].pc = "idle" /\ jobs[j].status = "waiting"
    /\ work' = [work EXCEPT ![w] = [IdleWork EXCEPT !.pc = "mark", !.job = {j},
                                                    !.entry = jobs[j].entry]]
    /\ jobs' = [jobs EXCEPT ![j] = [@ EXCEPT !.status = "active", !.holder = w]]
    /\ NoFault
    /\ UNCHANGED <<catalog, outbox, cache, index, drops, found, readers, raced, synced, refused>>

\* The processor has returned: without the lock BullMQ refuses to finish the job.
Complete(w) ==
    /\ work' = [work EXCEPT ![w] = IdleWork]
    /\ jobs' = [j \in Job |-> IF j \in work[w].job /\ jobs[j].holder = w THEN FreeJob ELSE jobs[j]]

\* Mutant: one attempt too many.
RetryOnceMore(w) ==
    /\ work' = [work EXCEPT ![w] = IdleWork]
    /\ jobs' = [j \in Job |->
                  IF j \in work[w].job /\ jobs[j].holder = w
                  THEN IF jobs[j].attempts + 1 <= MaxRetries
                       THEN [jobs[j] EXCEPT !.status = "delayed", !.holder = NoWorker,
                                            !.attempts = jobs[j].attempts + 1]
                       ELSE FreeJob
                  ELSE jobs[j]]

\* The processor has thrown: the job is retried until its attempts are used up.
Retry(w) ==
    /\ work' = [work EXCEPT ![w] = IdleWork]
    /\ jobs' = [j \in Job |->
                  IF j \in work[w].job /\ jobs[j].holder = w
                  THEN IF jobs[j].attempts + 1 < MaxRetries
                       THEN [jobs[j] EXCEPT !.status = "delayed", !.holder = NoWorker,
                                            !.attempts = jobs[j].attempts + 1]
                       ELSE FreeJob
                  ELSE jobs[j]]

\* markProcessing, and the choice of the search service.
MarkProcessing(w) ==
    /\ work[w].pc = "mark"
    /\ \E n \in work[w].entry :
         /\ outbox' = [outbox EXCEPT ![n] = [@ EXCEPT !.status = "PROCESSING", !.due = FALSE]]
         /\ work' = [work EXCEPT ![w] = [@ EXCEPT !.retries = outbox[n].retries,
                                         !.pc = IF HasService(n[1]) THEN "get" ELSE "ack"]]
    /\ NoFault
    /\ UNCHANGED <<catalog, cache, index, jobs, drops, found, readers, raced, synced, refused>>

MarkFails(w) ==
    /\ work[w].pc = "mark"
    /\ Fault
    /\ Retry(w)
    /\ UNCHANGED <<catalog, outbox, cache, index, drops, found, readers, raced, synced, refused>>

\* sync reads the entity with getDetails: from the cache ...
SyncGet(w) ==
    /\ work[w].pc = "get"
    /\ \E n \in work[w].entry :
         IF cache[n[1]] = 0
         THEN /\ work' = [work EXCEPT ![w].pc = "load"]
              /\ UNCHANGED raced
         ELSE /\ work' = [work EXCEPT ![w] = [@ EXCEPT !.pc = "write", !.rev = cache[n[1]]]]
              /\ raced' = IF cache[n[1]] = Current(n[1]) THEN raced ELSE raced \cup {n[1]}
    /\ NoFault
    /\ UNCHANGED <<catalog, outbox, cache, index, jobs, drops, found, readers, synced, refused>>

\* Mutant: a deleted entity is left in the index.
SyncLoadKeepsDeleted(w) ==
    /\ work[w].pc = "load"
    /\ \E n \in work[w].entry :
         work' = [work EXCEPT ![w] = [@ EXCEPT !.rev = Current(n[1]),
                                      !.pc = IF Current(n[1]) = 0 THEN "ack" ELSE "store"]]
    /\ NoFault
    /\ UNCHANGED <<catalog, outbox, cache, index, jobs, drops, found, readers, raced, synced, refused>>

\* ... or from the database, and then into the cache.
SyncLoad(w) ==
    /\ work[w].pc = "load"
    /\ \E n \in work[w].entry :
         work' = [work EXCEPT ![w] = [@ EXCEPT !.rev = Current(n[1]),
                                      !.pc = IF Current(n[1]) = 0 THEN "write" ELSE "store"]]
    /\ NoFault
    /\ UNCHANGED <<catalog, outbox, cache, index, jobs, drops, found, readers, raced, synced, refused>>

SyncStore(w) ==
    /\ work[w].pc = "store"
    /\ cache' = [e \in Entity |-> IF About(w, e) THEN work[w].rev ELSE cache[e]]
    /\ work' = [work EXCEPT ![w].pc = "write"]
    /\ NoFault
    /\ UNCHANGED <<catalog, outbox, index, jobs, drops, found, readers, raced, synced, refused>>

\* Another worker writes the same entity from an answer of its own.
Overtaken(w, e) ==
    \E u \in Worker \ {w} : work[u].pc \in {"store", "write"} /\ About(u, e)

\* addDocuments, or deleteDocument for a null: Meilisearch applies its tasks in order.
SyncWrite(w) ==
    /\ work[w].pc = "write"
    /\ index' = [e \in Entity |-> IF About(w, e) THEN work[w].rev ELSE index[e]]
    /\ raced' = raced \cup {e \in Entity : About(w, e) /\ Overtaken(w, e)}
    /\ synced' = synced \cup work[w].entry
    /\ work' = [work EXCEPT ![w].pc = "ack"]
    /\ NoFault
    /\ UNCHANGED <<catalog, outbox, cache, jobs, drops, found, readers, refused>>

\* The task ends as failed.  waitForTask returns it like any other, and sync does not look at it.
SyncRefused(w) ==
    /\ work[w].pc = "write"
    /\ Fault
    /\ refused' = refused \cup work[w].entry
    /\ work' = [work EXCEPT ![w].pc = "ack"]
    /\ UNCHANGED <<catalog, outbox, cache, index, jobs, drops, found, readers, raced, synced>>

MarkProcessed(w) ==
    /\ work[w].pc = "ack"
    /\ outbox' = [n \in Entry |-> IF n \in work[w].entry
                                  THEN [outbox[n] EXCEPT !.status = "PROCESSED"] ELSE outbox[n]]
    /\ Complete(w)
    /\ NoFault
    /\ UNCHANGED <<catalog, cache, index, drops, found, readers, raced, synced, refused>>

\* A call of the try block fails.  One that fails after the write has been accepted, like a wait
\* for the task, comes from "ack".
SyncFails(w) ==
    /\ work[w].pc \in {"get", "load", "write", "ack"}
    /\ Fault
    /\ work' = [work EXCEPT ![w] = [@ EXCEPT !.pc = "record", !.rev = 0]]
    /\ UNCHANGED <<catalog, outbox, cache, index, jobs, drops, found, readers, raced, synced, refused>>

Least(a, b) == IF a < b THEN a ELSE b

\* recordFailure, after which the error is thrown on, or markFailed, after which it is not.
RecordFailure(w) ==
    /\ work[w].pc = "record"
    /\ \E n \in work[w].entry :
         IF work[w].retries + 1 < MaxRetries
         THEN /\ outbox' = [outbox EXCEPT ![n] = [status |-> "PENDING", due |-> FALSE,
                                                  retries |-> work[w].retries + 1]]
              /\ Retry(w)
         ELSE /\ outbox' = [outbox EXCEPT ![n] =
                              [status |-> "FAILED", due |-> FALSE,
                               retries |-> Least(MaxRetries, outbox[n].retries + 1)]]
              /\ Complete(w)
    /\ NoFault
    /\ UNCHANGED <<catalog, cache, index, drops, found, readers, raced, synced, refused>>

RecordFails(w) ==
    /\ work[w].pc = "record"
    /\ Fault
    /\ Retry(w)
    /\ UNCHANGED <<catalog, outbox, cache, index, drops, found, readers, raced, synced, refused>>

JobReady(j) ==
    /\ jobs[j].status = "delayed"
    /\ jobs' = [jobs EXCEPT ![j].status = "waiting"]
    /\ NoFault
    /\ UNCHANGED <<catalog, outbox, cache, index, drops, found, work, readers, raced, synced, refused>>

\* The lock of a running job lapses and the job is delivered again.
LockLost(j) ==
    /\ jobs[j].status = "active"
    /\ Fault
    /\ jobs' = [jobs EXCEPT ![j] = [@ EXCEPT !.status = "waiting", !.holder = NoWorker]]
    /\ UNCHANGED <<catalog, outbox, cache, index, drops, found, work, readers, raced, synced, refused>>

\* The API process dies, workers, requests and poller with it.
Crash ==
    /\ Fault
    /\ jobs' = [j \in Job |-> IF jobs[j].status = "active"
                              THEN [jobs[j] EXCEPT !.status = "waiting", !.holder = NoWorker]
                              ELSE jobs[j]]
    /\ work' = [w \in Worker |-> IdleWork]
    /\ readers' = [r \in Reader |-> IdleRead]
    /\ drops' = {} /\ found' = {}
    /\ UNCHANGED <<catalog, outbox, cache, index, raced, synced, refused>>

\* nextRetryAt passes: a backoff, or the lease of five minutes.  A worker that still holds the
\* entry by then counts as a fault.
RetryTime(n) ==
    /\ outbox[n].status \in {"PENDING", "FAILED", "PROCESSING"} /\ ~outbox[n].due
    /\ outbox' = [outbox EXCEPT ![n].due = TRUE]
    /\ IF outbox[n].status = "PROCESSING" /\ \E w \in Worker : n \in work[w].entry
       THEN Fault ELSE NoFault
    /\ UNCHANGED <<catalog, cache, index, jobs, drops, found, work, readers, raced, synced, refused>>

-----------------------------------------------------------------------------
Writers == \E e \in Entity :
    Create(e) \/ Update(e) \/ Delete(e) \/ InvalidateCache(e) \/ InvalidateFails(e)

Readers ==
    \/ \E r \in Reader : (\E e \in Entity : ReadMiss(r, e)) \/ ReadLoad(r) \/ ReadStore(r)
    \/ \E e \in Entity : CacheExpires(e)

Poller == Poll \/ (\E n \in Entry : PollAdd(n)) \/ PollFails

WorkStep(w) ==
    \/ MarkProcessing(w) \/ SyncGet(w) \/ SyncLoad(w) \/ SyncStore(w) \/ SyncWrite(w)
    \/ MarkProcessed(w) \/ RecordFailure(w)

Workers ==
    \/ \E w \in Worker : \/ \E j \in Job : Start(w, j)
                         \/ WorkStep(w) \/ MarkFails(w) \/ SyncFails(w) \/ SyncRefused(w)
                         \/ RecordFails(w)
    \/ \E j \in Job : JobReady(j) \/ LockLost(j)
    \/ Crash
    \/ \E n \in Entry : RetryTime(n)

Next == Writers \/ Readers \/ Poller \/ Workers

Spec == Init /\ [][Next]_vars

\* The poll timer keeps firing and calls return, BullMQ delivers what waits, delays, backoffs and
\* abandoned leases end.  Changes, reads, expiry of the cache and faults are never forced.
Fairness ==
    /\ WF_vars(Poll)
    /\ \A n \in Entry : SF_vars(PollAdd(n)) /\ WF_vars(RetryTime(n) /\ NoFault)
    /\ \A w \in Worker : WF_vars(WorkStep(w))
    /\ \A j \in Job : WF_vars(JobReady(j)) /\ SF_vars(\E w \in Worker : Start(w, j))

FairSpec == Spec /\ Fairness

-----------------------------------------------------------------------------
(* Properties *)

\* Whatever crashes, is delivered twice or fails in between, an entry of an aggregate with a search
\* service is acknowledged only if some worker wrote the aggregate to the index on its behalf, or saw
\* a task for it end that had failed: no other failure passes for a success (processEntry).
AcknowledgedWasSynced ==
    \A n \in Entry : outbox[n].status = "PROCESSED" /\ HasService(n[1]) => n \in synced \cup refused

\* Every entry is acknowledged in the end: neither a lost job, nor exhausted attempts, nor a worker
\* that died while the entry was PROCESSING strands it.
EntryDelivered ==
    \A n \in Entry : outbox[n].status # "none" ~> outbox[n].status = "PROCESSED"

\* The entry of the last change of e.
Latest(e) == <<e, catalog[e].rev>>

\* Nothing waits to be indexed.
Settled(e) ==
    /\ \A n \in Entry : n[1] = e => outbox[n].status \in {"none", "PROCESSED"}
    /\ \A w \in Worker : ~About(w, e)

\* The index follows the catalog ("syncs search indexes"): once all entries of an entity are
\* acknowledged and its cache is invalidated, its document is the entity's current revision, and a
\* deleted entity has none.
SettledIsCurrent ==
    \A e \in Entity : Settled(e) /\ e \notin drops /\ HasService(e) => index[e] = Current(e)

\* ... provided that no worker was served a revision from the cache that the catalog had left
\* behind, no two workers wrote the entity at once, and not every task for its last change failed:
\* nothing else makes the index stale.
StaleHasCause ==
    \A e \in Entity :
        Settled(e) /\ HasService(e) /\ e \notin raced /\ Latest(e) \notin refused \ synced
            => index[e] = Current(e)

\* Only aggregates without a search index are acknowledged without indexing: the processor has a
\* service for every kind but engines.
OnlyUnindexedSkipped ==
    \A n \in Entry : outbox[n].status = "PROCESSED" /\ KindOf[n[1]] # "engine" => n \in synced

-----------------------------------------------------------------------------
(* Why StaleHasCause holds: an inductive invariant, proved in SearchIndexingProofs               *)

Recorded(n) == n[2] <= catalog[n[1]].rev

\* The outbox has an entry for every change, and nobody works on an entry it does not have.
ChangesRecorded ==
    /\ \A n \in Entry : outbox[n].status # "none" <=> Recorded(n)
    /\ \A j \in Job : \A n \in jobs[j].entry : Recorded(n)
    /\ \A w \in Worker : \A n \in work[w].entry : Recorded(n)
    /\ \A n \in found \cup synced \cup refused : Recorded(n)

OneEntryEach ==
    /\ \A j \in Job : \A n, m \in jobs[j].entry : n = m
    /\ \A w \in Worker : \A n, m \in work[w].entry : n = m

\* A worker that goes on to acknowledge its entry has written it, or thinks so.
AcknowledgesSynced ==
    \A w \in Worker : \A n \in work[w].entry :
        work[w].pc = "ack" /\ HasService(n[1]) => n \in synced \cup refused

\* Without a race, an answer read for the last change, or after the last change was written, is
\* the current revision.
AnswersCurrent ==
    \A w \in Worker : \A n \in work[w].entry :
        /\ work[w].pc \in {"store", "write"} /\ n[1] \notin raced
        /\ n = Latest(n[1]) \/ Latest(n[1]) \in synced
        => work[w].rev = Current(n[1])

\* Without a race, the index is current once the last change was written.
LatestIndexed ==
    \A e \in Entity :
        /\ catalog[e].rev = 0 => ~catalog[e].alive /\ index[e] = 0
        /\ e \notin raced /\ Latest(e) \in synced => index[e] = Current(e)

IndexingInv ==
    /\ TypeOK /\ ChangesRecorded /\ OneEntryEach
    /\ AcknowledgedWasSynced /\ AcknowledgesSynced /\ AnswersCurrent /\ LatestIndexed
====
