---- MODULE SearchIndexingProofs ----
(***************************************************************************)
(* Theorems about the search indexing, for any catalog, any number of      *)
(* workers, readers and jobs and any bounds: its types, that an entry is   *)
(* acknowledged only once its entity was written to the index on its       *)
(* behalf or a task to write it ended failed, and that the index is stale  *)
(* only after a race or such a task.                                       *)
(*                                                                         *)
(* Most actions are Quiet: they move entries between the queue, the poller *)
(* and the workers, and leave what the catalog and the index hold alone.   *)
(* Quiet steps preserve IndexingInv whatever they do to the cache; the two *)
(* actions that are not quiet, Change and SyncWrite, have proofs of their  *)
(* own.                                                                    *)
(***************************************************************************)
EXTENDS SearchIndexing, TLAPS

-----------------------------------------------------------------------------
(* Records *)

LEMMA EntryParts ==
    ASSUME NEW n \in Entry
    PROVE  /\ n[1] \in Entity /\ n[2] \in 1..MaxRev /\ n[2] \in Nat /\ n[2] \in Rev
           /\ n = <<n[1], n[2]>>
BY BoundAssumption DEF Entry, Rev

LEMMA NewEntryType == NewEntry \in EntryRecord /\ NoEntry \in EntryRecord
BY BoundAssumption DEF NewEntry, NoEntry, EntryRecord

LEMMA FreeJobType == FreeJob \in JobRecord
BY BoundAssumption DEF FreeJob, JobRecord

LEMMA IdleWorkType == IdleWork \in WorkRecord
BY BoundAssumption DEF IdleWork, WorkRecord, Rev

LEMMA IdleReadType == IdleRead \in ReadRecord
BY BoundAssumption DEF IdleRead, ReadRecord, Rev

LEMMA CurrentType ==
    ASSUME TypeOK, NEW e \in Entity
    PROVE  Current(e) \in Rev
BY BoundAssumption DEF Current, TypeOK, Rev

LEMMA FaultType ==
    ASSUME TypeOK, Fault \/ NoFault
    PROVE  faults' \in 0..MaxFaults
BY BoundAssumption DEF TypeOK, Fault, NoFault

LEMMA CompleteType ==
    ASSUME TypeOK, NEW w \in Worker, Complete(w)
    PROVE  jobs' \in [Job -> JobRecord] /\ work' \in [Worker -> WorkRecord]
BY FreeJobType, IdleWorkType DEF Complete, TypeOK

LEMMA RetryType ==
    ASSUME TypeOK, NEW w \in Worker, Retry(w)
    PROVE  jobs' \in [Job -> JobRecord] /\ work' \in [Worker -> WorkRecord]
<1>1. work' \in [Worker -> WorkRecord]
  BY IdleWorkType DEF Retry, TypeOK
<1>2. ASSUME NEW j \in Job, jobs[j].attempts + 1 < MaxRetries
      PROVE  [jobs[j] EXCEPT !.status = "delayed", !.holder = NoWorker,
                             !.attempts = jobs[j].attempts + 1] \in JobRecord
  <2>1. jobs[j].attempts \in 0..MaxRetries - 1 /\ jobs[j] \in JobRecord
    BY DEF TypeOK, JobRecord
  <2>2. jobs[j].attempts + 1 \in 0..MaxRetries - 1
    BY <1>2, <2>1, BoundAssumption
  <2> QED BY <2>1, <2>2 DEF JobRecord
<1>3. jobs' \in [Job -> JobRecord]
  BY <1>2, FreeJobType DEF Retry, TypeOK
<1> QED BY <1>1, <1>3

-----------------------------------------------------------------------------
(* Every action keeps the types *)

LEMMA ChangeType ==
    ASSUME TypeOK, NEW e \in Entity, NEW alive \in BOOLEAN, Change(e, alive), drops' \subseteq Entity
    PROVE  TypeOK'
<1>1. catalog[e].rev + 1 \in Rev /\ catalog[e].rev + 1 \in 1..MaxRev
  BY BoundAssumption DEF TypeOK, Change, Rev
<1>2. catalog' \in [Entity -> [rev : Rev, alive : BOOLEAN]]
  BY <1>1 DEF TypeOK, Change
<1>3. outbox' \in [Entry -> EntryRecord]
  BY <1>1, NewEntryType DEF TypeOK, Change, Entry
<1>4. raced' \subseteq Entity
  BY DEF TypeOK, Change
<1>5. faults' \in 0..MaxFaults
  BY FaultType DEF Change
<1> QED BY <1>2, <1>3, <1>4, <1>5 DEF TypeOK, Change

LEMMA WritersType ==
    ASSUME TypeOK, Writers
    PROVE  TypeOK'
<1> PICK e \in Entity :
      Create(e) \/ Update(e) \/ Delete(e) \/ InvalidateCache(e) \/ InvalidateFails(e)
  BY DEF Writers
<1>1. CASE Create(e)
  BY <1>1, ChangeType DEF Create, TypeOK
<1>2. CASE Update(e)
  BY <1>2, ChangeType DEF Update, TypeOK
<1>3. CASE Delete(e)
  BY <1>3, ChangeType DEF Delete, TypeOK
<1>4. CASE InvalidateCache(e)
  <2>1. faults' \in 0..MaxFaults
    BY <1>4, FaultType DEF InvalidateCache
  <2> QED BY <1>4, <2>1, BoundAssumption DEF InvalidateCache, TypeOK, Rev
<1>5. CASE InvalidateFails(e)
  <2>1. faults' \in 0..MaxFaults
    BY <1>5, FaultType DEF InvalidateFails
  <2> QED BY <1>5, <2>1 DEF InvalidateFails, TypeOK
<1> QED BY <1>1, <1>2, <1>3, <1>4, <1>5

LEMMA ReadersType ==
    ASSUME TypeOK, Readers
    PROVE  TypeOK'
<1> USE BoundAssumption
<1>1. ASSUME NEW r \in Reader, NEW e \in Entity, ReadMiss(r, e)
      PROVE  TypeOK'
  BY <1>1 DEF ReadMiss, TypeOK, ReadRecord, Rev, NoFault
<1>2. ASSUME NEW r \in Reader, ReadLoad(r)
      PROVE  TypeOK'
  <2> PICK e \in readers[r].entity :
        readers' = IF Current(e) = 0 THEN [readers EXCEPT ![r] = IdleRead]
                   ELSE [readers EXCEPT ![r] = [readers[r] EXCEPT !.pc = "store", !.rev = Current(e)]]
    BY <1>2 DEF ReadLoad
  <2>1. e \in Entity /\ readers[r] \in ReadRecord
    BY DEF TypeOK, ReadRecord
  <2>2. [readers[r] EXCEPT !.pc = "store", !.rev = Current(e)] \in ReadRecord
    BY <2>1, CurrentType DEF ReadRecord
  <2>3. readers' \in [Reader -> ReadRecord]
    BY <2>2, IdleReadType DEF TypeOK
  <2> QED BY <1>2, <2>3 DEF ReadLoad, TypeOK, NoFault
<1>3. ASSUME NEW r \in Reader, ReadStore(r)
      PROVE  TypeOK'
  <2>1. readers[r].rev \in Rev
    BY DEF TypeOK, ReadRecord
  <2>2. cache' \in [Entity -> Rev]
    BY <1>3, <2>1 DEF ReadStore, TypeOK
  <2>3. readers' \in [Reader -> ReadRecord]
    BY <1>3, IdleReadType DEF ReadStore, TypeOK
  <2> QED BY <1>3, <2>2, <2>3 DEF ReadStore, TypeOK, NoFault
<1>4. ASSUME NEW e \in Entity, CacheExpires(e)
      PROVE  TypeOK'
  BY <1>4 DEF CacheExpires, TypeOK, Rev, NoFault
<1> QED BY <1>1, <1>2, <1>3, <1>4 DEF Readers

LEMMA PollerType ==
    ASSUME TypeOK, Poller
    PROVE  TypeOK'
<1>1. CASE Poll
  BY <1>1 DEF Poll, Pending, TypeOK, NoFault
<1>2. ASSUME NEW n \in Entry, PollAdd(n)
      PROVE  TypeOK'
  <2> PICK j \in Job :
        /\ jobs' = [jobs EXCEPT ![j] = [FreeJob EXCEPT !.status = "waiting", !.entry = {n}]]
        /\ found' = found \ {n}
    BY <1>2 DEF PollAdd
  <2>1. [FreeJob EXCEPT !.status = "waiting", !.entry = {n}] \in JobRecord
    BY FreeJobType DEF JobRecord
  <2> QED BY <1>2, <2>1 DEF PollAdd, TypeOK, NoFault
<1>3. CASE PollFails
  <2>1. faults' \in 0..MaxFaults
    BY <1>3, FaultType DEF PollFails
  <2> QED BY <1>3, <2>1 DEF PollFails, TypeOK
<1> QED BY <1>1, <1>2, <1>3 DEF Poller

LEMMA WorkStepType ==
    ASSUME TypeOK, NEW w \in Worker, WorkStep(w)
    PROVE  TypeOK'
<1>1. work[w] \in WorkRecord /\ work[w].entry \subseteq Entry /\ work[w].rev \in Rev
  BY DEF TypeOK, WorkRecord
<1>2. CASE MarkProcessing(w)
  <2>1. PICK n \in work[w].entry :
          /\ outbox' = [outbox EXCEPT ![n] = [outbox[n] EXCEPT !.status = "PROCESSING", !.due = FALSE]]
          /\ work' = [work EXCEPT ![w] = [work[w] EXCEPT !.retries = outbox[n].retries,
                                          !.pc = IF HasService(n[1]) THEN "get" ELSE "ack"]]
    BY <1>2 DEF MarkProcessing
  <2>2. n \in Entry /\ outbox[n] \in EntryRecord
    BY <1>1 DEF TypeOK
  <2>3. [outbox[n] EXCEPT !.status = "PROCESSING", !.due = FALSE] \in EntryRecord
    BY <2>2 DEF EntryRecord
  <2>4. [work[w] EXCEPT !.retries = outbox[n].retries,
                        !.pc = IF HasService(n[1]) THEN "get" ELSE "ack"] \in WorkRecord
    BY <1>1, <2>2 DEF WorkRecord, EntryRecord
  <2> QED BY <1>2, <2>1, <2>2, <2>3, <2>4 DEF MarkProcessing, TypeOK, NoFault
<1>3. CASE SyncGet(w)
  <2>1. PICK n \in work[w].entry :
          \/ work' = [work EXCEPT ![w].pc = "load"] /\ raced' = raced
          \/ /\ work' = [work EXCEPT ![w] = [work[w] EXCEPT !.pc = "write", !.rev = cache[n[1]]]]
             /\ raced' \subseteq raced \cup {n[1]}
    BY <1>3 DEF SyncGet
  <2>2. n \in Entry /\ n[1] \in Entity
    BY <1>1, EntryParts
  <2>3. cache[n[1]] \in Rev
    BY <2>2 DEF TypeOK
  <2>4. [work[w] EXCEPT !.pc = "write", !.rev = cache[n[1]]] \in WorkRecord
    BY <1>1, <2>3 DEF WorkRecord
  <2>5. [work[w] EXCEPT !.pc = "load"] \in WorkRecord
    BY <1>1 DEF WorkRecord
  <2>6. work' \in [Worker -> WorkRecord]
    BY <2>1, <2>4, <2>5 DEF TypeOK
  <2>7. raced' \subseteq Entity
    BY <2>1, <2>2 DEF TypeOK
  <2> QED BY <1>3, <2>6, <2>7 DEF SyncGet, TypeOK, NoFault
<1>4. CASE SyncLoad(w)
  <2>1. PICK n \in work[w].entry :
          work' = [work EXCEPT ![w] = [work[w] EXCEPT !.rev = Current(n[1]),
                                       !.pc = IF Current(n[1]) = 0 THEN "write" ELSE "store"]]
    BY <1>4 DEF SyncLoad
  <2>2. Current(n[1]) \in Rev
    BY <1>1, EntryParts, CurrentType
  <2>3. [work[w] EXCEPT !.rev = Current(n[1]),
                        !.pc = IF Current(n[1]) = 0 THEN "write" ELSE "store"] \in WorkRecord
    BY <1>1, <2>2 DEF WorkRecord
  <2> QED BY <1>4, <2>1, <2>3 DEF SyncLoad, TypeOK, NoFault
<1>5. CASE SyncStore(w)
  <2>1. [work[w] EXCEPT !.pc = "write"] \in WorkRecord
    BY <1>1 DEF WorkRecord
  <2>2. cache' \in [Entity -> Rev]
    BY <1>5, <1>1 DEF SyncStore, TypeOK
  <2>3. work' \in [Worker -> WorkRecord]
    BY <1>5, <2>1 DEF SyncStore, TypeOK
  <2> QED BY <1>5, <2>2, <2>3 DEF SyncStore, TypeOK, NoFault
<1>6. CASE SyncWrite(w)
  <2>1. [work[w] EXCEPT !.pc = "ack"] \in WorkRecord
    BY <1>1 DEF WorkRecord
  <2>2. index' \in [Entity -> Rev]
    BY <1>6, <1>1 DEF SyncWrite, TypeOK
  <2>3. work' \in [Worker -> WorkRecord]
    BY <1>6, <2>1 DEF SyncWrite, TypeOK
  <2>4. raced' \subseteq Entity /\ synced' \subseteq Entry
    BY <1>6, <1>1 DEF SyncWrite, TypeOK
  <2> QED BY <1>6, <2>2, <2>3, <2>4 DEF SyncWrite, TypeOK, NoFault
<1>7. CASE MarkProcessed(w)
  <2>1. ASSUME NEW n \in Entry
        PROVE  [outbox[n] EXCEPT !.status = "PROCESSED"] \in EntryRecord
    BY DEF TypeOK, EntryRecord
  <2>2. outbox' \in [Entry -> EntryRecord]
    BY <1>7, <2>1 DEF MarkProcessed, TypeOK
  <2>3. jobs' \in [Job -> JobRecord] /\ work' \in [Worker -> WorkRecord]
    BY <1>7, CompleteType DEF MarkProcessed
  <2> QED BY <1>7, <2>2, <2>3 DEF MarkProcessed, TypeOK, NoFault
<1>8. CASE RecordFailure(w)
  <2>1. PICK n \in work[w].entry :
          \/ /\ work[w].retries + 1 < MaxRetries
             /\ outbox' = [outbox EXCEPT ![n] = [status |-> "PENDING", due |-> FALSE,
                                                 retries |-> work[w].retries + 1]]
             /\ Retry(w)
          \/ /\ outbox' = [outbox EXCEPT ![n] =
                             [status |-> "FAILED", due |-> FALSE,
                              retries |-> Least(MaxRetries, outbox[n].retries + 1)]]
             /\ Complete(w)
    BY <1>8 DEF RecordFailure
  <2>2. n \in Entry /\ outbox[n].retries \in 0..MaxRetries /\ work[w].retries \in 0..MaxRetries
    BY <1>1 DEF TypeOK, EntryRecord, WorkRecord
  <2>3. Least(MaxRetries, outbox[n].retries + 1) \in 0..MaxRetries
    BY <2>2, BoundAssumption DEF Least
  <2>4. work[w].retries + 1 < MaxRetries => work[w].retries + 1 \in 0..MaxRetries
    BY <2>2, BoundAssumption
  <2>5. PICK entry \in EntryRecord : outbox' = [outbox EXCEPT ![n] = entry]
    BY <2>1, <2>3, <2>4 DEF EntryRecord
  <2>6. jobs' \in [Job -> JobRecord] /\ work' \in [Worker -> WorkRecord]
    BY <2>1, CompleteType, RetryType
  <2> QED BY <1>8, <2>2, <2>5, <2>6 DEF RecordFailure, TypeOK, NoFault
<1> QED BY <1>2, <1>3, <1>4, <1>5, <1>6, <1>7, <1>8 DEF WorkStep

LEMMA WorkersType ==
    ASSUME TypeOK, Workers
    PROVE  TypeOK'
<1>1. ASSUME NEW w \in Worker, NEW j \in Job, Start(w, j)
      PROVE  TypeOK'
  <2>1. jobs[j] \in JobRecord /\ jobs[j].entry \subseteq Entry
    BY DEF TypeOK, JobRecord
  <2>2. [IdleWork EXCEPT !.pc = "mark", !.job = {j}, !.entry = jobs[j].entry] \in WorkRecord
    BY <2>1, IdleWorkType DEF WorkRecord
  <2>3. [jobs[j] EXCEPT !.status = "active", !.holder = w] \in JobRecord
    BY <2>1 DEF JobRecord
  <2> QED BY <1>1, <2>2, <2>3 DEF Start, TypeOK, NoFault
<1>2. ASSUME NEW w \in Worker, MarkFails(w) \/ RecordFails(w)
      PROVE  TypeOK'
  <2>1. faults' \in 0..MaxFaults
    BY <1>2, FaultType DEF MarkFails, RecordFails
  <2>2. jobs' \in [Job -> JobRecord] /\ work' \in [Worker -> WorkRecord]
    BY <1>2, RetryType DEF MarkFails, RecordFails
  <2> QED BY <1>2, <2>1, <2>2 DEF MarkFails, RecordFails, TypeOK
<1>3. ASSUME NEW w \in Worker, SyncFails(w)
      PROVE  TypeOK'
  <2>1. faults' \in 0..MaxFaults
    BY <1>3, FaultType DEF SyncFails
  <2>2. [work[w] EXCEPT !.pc = "record", !.rev = 0] \in WorkRecord
    <3>1. work[w] \in WorkRecord /\ 0 \in Rev
      BY BoundAssumption DEF TypeOK, Rev
    <3> QED BY <3>1 DEF WorkRecord
  <2> QED BY <1>3, <2>1, <2>2 DEF SyncFails, TypeOK
<1>9. ASSUME NEW w \in Worker, SyncRefused(w)
      PROVE  TypeOK'
  <2>1. faults' \in 0..MaxFaults
    BY <1>9, FaultType DEF SyncRefused
  <2>2. work[w] \in WorkRecord /\ work[w].entry \subseteq Entry
    BY DEF TypeOK, WorkRecord
  <2>3. [work[w] EXCEPT !.pc = "ack"] \in WorkRecord
    BY <2>2 DEF WorkRecord
  <2>4. work' \in [Worker -> WorkRecord] /\ refused' \subseteq Entry
    BY <1>9, <2>2, <2>3 DEF SyncRefused, TypeOK
  <2> QED BY <1>9, <2>1, <2>4 DEF SyncRefused, TypeOK
<1>4. ASSUME NEW j \in Job, JobReady(j)
      PROVE  TypeOK'
  <2>1. [jobs[j] EXCEPT !.status = "waiting"] \in JobRecord
    BY DEF TypeOK, JobRecord
  <2> QED BY <1>4, <2>1 DEF JobReady, TypeOK, NoFault
<1>5. ASSUME NEW j \in Job, LockLost(j)
      PROVE  TypeOK'
  <2>1. faults' \in 0..MaxFaults
    BY <1>5, FaultType DEF LockLost
  <2>2. [jobs[j] EXCEPT !.status = "waiting", !.holder = NoWorker] \in JobRecord
    BY DEF TypeOK, JobRecord
  <2> QED BY <1>5, <2>1, <2>2 DEF LockLost, TypeOK
<1>6. CASE Crash
  <2>1. faults' \in 0..MaxFaults
    BY <1>6, FaultType DEF Crash
  <2>2. ASSUME NEW j \in Job
        PROVE  [jobs[j] EXCEPT !.status = "waiting", !.holder = NoWorker] \in JobRecord
    BY DEF TypeOK, JobRecord
  <2>3. jobs' \in [Job -> JobRecord]
    BY <1>6, <2>2 DEF Crash, TypeOK
  <2>4. work' \in [Worker -> WorkRecord] /\ readers' \in [Reader -> ReadRecord]
    BY <1>6, IdleWorkType, IdleReadType DEF Crash
  <2> QED BY <1>6, <2>1, <2>3, <2>4 DEF Crash, TypeOK
<1>7. ASSUME NEW n \in Entry, RetryTime(n)
      PROVE  TypeOK'
  <2>1. faults' \in 0..MaxFaults
    BY <1>7, FaultType DEF RetryTime
  <2>2. [outbox[n] EXCEPT !.due = TRUE] \in EntryRecord
    BY DEF TypeOK, EntryRecord
  <2> QED BY <1>7, <2>1, <2>2 DEF RetryTime, TypeOK
<1>8. ASSUME NEW w \in Worker, WorkStep(w)
      PROVE  TypeOK'
  BY <1>8, WorkStepType
<1> QED BY <1>1, <1>2, <1>3, <1>4, <1>5, <1>6, <1>7, <1>8, <1>9 DEF Workers

LEMMA TypeInit == Init => TypeOK
BY BoundAssumption, NewEntryType, FreeJobType, IdleWorkType, IdleReadType
DEF Init, TypeOK, Rev

LEMMA TypeStep == TypeOK /\ [Next]_vars => TypeOK'
<1> SUFFICES ASSUME TypeOK, [Next]_vars PROVE TypeOK'
  OBVIOUS
<1>1. CASE UNCHANGED vars
  BY <1>1 DEF vars, TypeOK
<1> QED BY <1>1, WritersType, ReadersType, PollerType, WorkersType DEF Next

\* Every variable keeps its type: no revision, retry or attempt leaves its range, whatever is
\* delivered twice or fails.
THEOREM TypeCorrect == Spec => []TypeOK
<1>1. Init => TypeOK
  BY TypeInit
<1>2. TypeOK /\ [Next]_vars => TypeOK'
  BY TypeStep
<1> QED BY <1>1, <1>2, PTL DEF Spec

-----------------------------------------------------------------------------
(* Quiet steps *)

\* What a step may do with an entry, a job or a worker without touching catalog and index: an
\* entry is acknowledged only if it was synced or refused, a job carries an entry that was found, a worker
\* takes the entry of a job and goes on with the answer it has or with the current revision.
QuietEntry(n) ==
    /\ outbox'[n].status = "none" <=> outbox[n].status = "none"
    /\ outbox'[n].status = "PROCESSED" =>
         outbox[n].status = "PROCESSED" \/ ~HasService(n[1]) \/ n \in synced \cup refused

QuietJob(j) == jobs'[j].entry \subseteq jobs[j].entry \/ \E n \in found : jobs'[j].entry = {n}

QuietWorker(w) ==
    /\ work'[w].entry \subseteq work[w].entry \/ \E j \in Job : work'[w].entry = jobs[j].entry
    /\ \A n \in work'[w].entry :
         /\ work'[w].pc = "ack" => ~HasService(n[1]) \/ n \in synced \cup refused'
         /\ work'[w].pc \in {"store", "write"} /\ n[1] \notin raced'
            /\ (n = Latest(n[1]) \/ Latest(n[1]) \in synced)
            => work'[w].rev = Current(n[1])

Quiet ==
    /\ UNCHANGED <<catalog, index, synced>> /\ raced \subseteq raced' /\ refused \subseteq refused'
    /\ \A n \in found' : n \in found \/ outbox[n].status # "none"
    /\ \A n \in refused' : n \in refused \/ outbox[n].status # "none"
    /\ \A n \in Entry : QuietEntry(n)
    /\ \A j \in Job : QuietJob(j)
    /\ \A w \in Worker : QuietWorker(w)

LEMMA QuietKeeps ==
    ASSUME IndexingInv, TypeOK', Quiet
    PROVE  IndexingInv'
<1>1. UNCHANGED <<catalog, index, synced>> /\ raced \subseteq raced' /\ refused \subseteq refused'
  BY DEF Quiet
<1>2. /\ \A n : Recorded(n)' <=> Recorded(n)
      /\ \A e : Latest(e)' = Latest(e) /\ Current(e)' = Current(e)
  BY <1>1 DEF Recorded, Latest, Current
<1>3. \A n \in Entry : outbox[n].status # "none" <=> Recorded(n)
  BY DEF IndexingInv, ChangesRecorded
<1>4. \A j \in Job : \A n \in jobs'[j].entry : Recorded(n)
  BY DEF IndexingInv, ChangesRecorded, Quiet, QuietJob
<1>5. \A w \in Worker : \A n \in work'[w].entry : Recorded(n)
  BY DEF IndexingInv, ChangesRecorded, Quiet, QuietJob, QuietWorker
<1>6. \A n \in found' : Recorded(n)
  BY <1>3 DEF IndexingInv, ChangesRecorded, Quiet, TypeOK
<1>7. ChangesRecorded'
  <2>1. \A n \in Entry : outbox'[n].status # "none" <=> Recorded(n)
    BY <1>3 DEF Quiet, QuietEntry
  <2>2. \A n \in synced' \cup refused' : Recorded(n)
    BY <1>1, <1>3 DEF IndexingInv, ChangesRecorded, Quiet, TypeOK
  <2> QED BY <1>2, <1>4, <1>5, <1>6, <2>1, <2>2 DEF ChangesRecorded
<1>8. OneEntryEach'
  BY DEF IndexingInv, OneEntryEach, Quiet, QuietJob, QuietWorker
<1>9. AcknowledgedWasSynced'
  BY <1>1 DEF IndexingInv, AcknowledgedWasSynced, Quiet, QuietEntry, HasService
<1>10. AcknowledgesSynced'
  BY <1>1 DEF AcknowledgesSynced, Quiet, QuietWorker, HasService
<1>11. AnswersCurrent'
  BY <1>1, <1>2 DEF AnswersCurrent, Quiet, QuietWorker
<1>12. LatestIndexed'
  BY <1>1, <1>2 DEF IndexingInv, LatestIndexed
<1> QED BY <1>7, <1>8, <1>9, <1>10, <1>11, <1>12 DEF IndexingInv

\* Entries, jobs and workers that a step leaves alone, or that lose what they hold, are quiet.
LEMMA SameEntryQuiet ==
    ASSUME NEW n, outbox'[n] = outbox[n]
    PROVE  QuietEntry(n)
BY DEF QuietEntry

LEMMA SameWorkerQuiet ==
    ASSUME IndexingInv, NEW w \in Worker, raced \subseteq raced', refused \subseteq refused',
           work'[w] = work[w] \/ work'[w].entry = {}
    PROVE  QuietWorker(w)
BY DEF IndexingInv, AcknowledgesSynced, AnswersCurrent, QuietWorker

\* Retry and Complete take a job and its entry away from a worker.
LEMMA FinishQuiet ==
    ASSUME IndexingInv, NEW w \in Worker, Retry(w) \/ Complete(w), UNCHANGED <<raced, refused>>
    PROVE  /\ \A j \in Job : QuietJob(j)
           /\ \A u \in Worker : QuietWorker(u)
<1>1. ASSUME NEW j \in Job
      PROVE  QuietJob(j)
  <2>1. \/ jobs'[j] = jobs[j] \/ jobs'[j] = FreeJob
        \/ jobs'[j] = [jobs[j] EXCEPT !.status = "delayed", !.holder = NoWorker,
                                      !.attempts = jobs[j].attempts + 1]
    BY DEF Retry, Complete
  <2>2. jobs'[j].entry = jobs[j].entry \/ jobs'[j].entry = {}
    <3>1. jobs[j] \in JobRecord
      BY DEF IndexingInv, TypeOK
    <3>2. [jobs[j] EXCEPT !.status = "delayed", !.holder = NoWorker,
                          !.attempts = jobs[j].attempts + 1].entry = jobs[j].entry
      BY <3>1 DEF JobRecord
    <3>3. FreeJob.entry = {}
      BY DEF FreeJob
    <3> QED BY <2>1, <3>2, <3>3
  <2> QED BY <2>2 DEF QuietJob
<1>2. ASSUME NEW u \in Worker
      PROVE  QuietWorker(u)
  <2>1. work'[u] = work[u] \/ work'[u].entry = {}
    <3>1. work' = [work EXCEPT ![w] = IdleWork] /\ work \in [Worker -> WorkRecord]
      BY DEF Retry, Complete, IndexingInv, TypeOK
    <3>2. IdleWork.entry = {}
      BY DEF IdleWork
    <3> QED BY <3>1, <3>2
  <2> QED BY <2>1, SameWorkerQuiet
<1> QED BY <1>1, <1>2

\* A step of one worker that keeps its entries.
LEMMA OneWorkerQuiet ==
    ASSUME IndexingInv, NEW w \in Worker, NEW held \in WorkRecord,
           work' = [work EXCEPT ![w] = held], held.entry = work[w].entry,
           raced \subseteq raced', refused \subseteq refused',
           \A n \in held.entry :
               /\ held.pc = "ack" => ~HasService(n[1]) \/ n \in synced \cup refused'
               /\ held.pc \in {"store", "write"} /\ n[1] \notin raced'
                  /\ (n = Latest(n[1]) \/ Latest(n[1]) \in synced)
                  => held.rev = Current(n[1])
    PROVE  \A u \in Worker : QuietWorker(u)
<1>1. ASSUME NEW u \in Worker, u # w
      PROVE  QuietWorker(u)
  <2>1. work'[u] = work[u]
    BY <1>1 DEF IndexingInv, TypeOK
  <2> QED BY <2>1, SameWorkerQuiet
<1>2. QuietWorker(w)
  <2>1. work'[w] = held
    BY DEF IndexingInv, TypeOK
  <2> QED BY <2>1 DEF QuietWorker
<1> QED BY <1>1, <1>2

\* Steps that move no entry and no answer.
LEMMA AsideQuiet ==
    ASSUME IndexingInv, UNCHANGED <<catalog, outbox, index, jobs, work, raced, synced, refused>>,
           \A n \in found' : n \in found \/ outbox[n].status # "none"
    PROVE  Quiet
<1>1. \A n \in Entry : QuietEntry(n)
  BY SameEntryQuiet
<1>2. \A j \in Job : QuietJob(j)
  BY DEF QuietJob
<1>3. \A w \in Worker : QuietWorker(w)
  BY SameWorkerQuiet
<1> QED BY <1>1, <1>2, <1>3 DEF Quiet

-----------------------------------------------------------------------------
(* Quiet actions *)

LEMMA CacheQuiet ==
    ASSUME IndexingInv,
           \/ \E e \in Entity : InvalidateCache(e) \/ InvalidateFails(e)
           \/ Readers
           \/ Poll \/ PollFails
    PROVE  Quiet
<1>1. UNCHANGED <<catalog, outbox, index, jobs, work, raced, synced, refused>>
  BY DEF InvalidateCache, InvalidateFails, Readers, ReadMiss, ReadLoad, ReadStore, CacheExpires,
         Poll, PollFails
<1>2. found' \subseteq found \cup Pending
  BY DEF InvalidateCache, InvalidateFails, Readers, ReadMiss, ReadLoad, ReadStore, CacheExpires,
         Poll, PollFails
<1>3. \A n \in Pending : outbox[n].status # "none"
  BY DEF Pending
<1> QED BY <1>1, <1>2, <1>3, AsideQuiet

LEMMA PollAddQuiet ==
    ASSUME IndexingInv, NEW n \in Entry, PollAdd(n)
    PROVE  Quiet
<1>1. \A j \in Job : QuietJob(j)
  BY DEF PollAdd, QuietJob, FreeJob, IndexingInv, TypeOK
<1>2. \A w \in Worker : QuietWorker(w)
  BY SameWorkerQuiet DEF PollAdd
<1>3. \A m \in Entry : QuietEntry(m)
  BY SameEntryQuiet DEF PollAdd
<1> QED BY <1>1, <1>2, <1>3 DEF PollAdd, Quiet

LEMMA StartQuiet ==
    ASSUME IndexingInv, NEW w \in Worker, NEW j \in Job, Start(w, j)
    PROVE  Quiet
<1>1. \A i \in Job : QuietJob(i)
  BY DEF Start, QuietJob, IndexingInv, TypeOK, JobRecord
<1>2. ASSUME NEW u \in Worker
      PROVE  QuietWorker(u)
  <2>1. CASE u = w
    <3>1. work'[w].pc = "mark" /\ work'[w].entry = jobs[j].entry
      BY DEF Start, IndexingInv, TypeOK, IdleWork
    <3> QED BY <2>1, <3>1 DEF QuietWorker
  <2>2. CASE u # w
    <3>1. work'[u] = work[u]
      BY <2>2 DEF Start, IndexingInv, TypeOK
    <3> QED BY <3>1, SameWorkerQuiet DEF Start
  <2> QED BY <2>1, <2>2
<1>3. \A m \in Entry : QuietEntry(m)
  BY SameEntryQuiet DEF Start
<1> QED BY <1>1, <1>2, <1>3 DEF Start, Quiet

LEMMA MarkProcessingQuiet ==
    ASSUME IndexingInv, NEW w \in Worker, MarkProcessing(w)
    PROVE  Quiet
<1>1. PICK n \in work[w].entry :
        /\ outbox' = [outbox EXCEPT ![n] = [outbox[n] EXCEPT !.status = "PROCESSING", !.due = FALSE]]
        /\ work' = [work EXCEPT ![w] = [work[w] EXCEPT !.retries = outbox[n].retries,
                                        !.pc = IF HasService(n[1]) THEN "get" ELSE "ack"]]
  BY DEF MarkProcessing
<1>2. work[w] \in WorkRecord /\ n \in Entry /\ outbox[n] \in EntryRecord
  BY DEF IndexingInv, TypeOK, WorkRecord
<1>3. outbox[n].status # "none"
  BY <1>1, <1>2 DEF IndexingInv, ChangesRecorded
<1>4. ASSUME NEW m \in Entry
      PROVE  QuietEntry(m)
  <2>1. CASE m = n
    <3>1. outbox'[n].status = "PROCESSING"
      BY <1>1, <1>2 DEF EntryRecord, IndexingInv, TypeOK
    <3> QED BY <1>3, <2>1, <3>1 DEF QuietEntry
  <2>2. CASE m # n
    <3>1. outbox'[m] = outbox[m]
      BY <1>1, <2>2 DEF IndexingInv, TypeOK
    <3> QED BY <3>1, SameEntryQuiet
  <2> QED BY <2>1, <2>2
<1>5. \A u \in Worker : QuietWorker(u)
  <2> DEFINE held == [work[w] EXCEPT !.retries = outbox[n].retries,
                                     !.pc = IF HasService(n[1]) THEN "get" ELSE "ack"]
  <2>1. held \in WorkRecord /\ held.entry = work[w].entry
        /\ held.pc = (IF HasService(n[1]) THEN "get" ELSE "ack")
    BY <1>2 DEF WorkRecord, EntryRecord
  <2>2. \A m \in held.entry : m = n
    BY <2>1 DEF IndexingInv, OneEntryEach
  <2>3. work' = [work EXCEPT ![w] = held] /\ UNCHANGED <<raced, refused>>
    BY <1>1 DEF MarkProcessing
  <2> HIDE DEF held
  <2> QED BY <2>1, <2>2, <2>3, OneWorkerQuiet
<1>6. \A j \in Job : QuietJob(j)
  BY DEF MarkProcessing, QuietJob
<1> QED BY <1>4, <1>5, <1>6 DEF MarkProcessing, Quiet

\* A hit that is not current flags the race; any other answer is the current revision.
LEMMA SyncGetQuiet ==
    ASSUME IndexingInv, NEW w \in Worker, SyncGet(w)
    PROVE  Quiet
<1>1. work[w] \in WorkRecord /\ work[w].entry \subseteq Entry
  BY DEF IndexingInv, TypeOK, WorkRecord
<1>2. PICK n \in work[w].entry :
        \/ work' = [work EXCEPT ![w] = [work[w] EXCEPT !.pc = "load"]] /\ raced' = raced
        \/ /\ work' = [work EXCEPT ![w] = [work[w] EXCEPT !.pc = "write", !.rev = cache[n[1]]]]
           /\ raced' = IF cache[n[1]] = Current(n[1]) THEN raced ELSE raced \cup {n[1]}
  BY DEF SyncGet
<1>3. \A m \in work[w].entry : m = n
  BY DEF IndexingInv, OneEntryEach
<1>4. \A u \in Worker : QuietWorker(u)
  <2> refused' = refused
    BY DEF SyncGet
  <2>1. CASE work' = [work EXCEPT ![w] = [work[w] EXCEPT !.pc = "load"]] /\ raced' = raced
    <3> DEFINE held == [work[w] EXCEPT !.pc = "load"]
    <3>1. held \in WorkRecord /\ held.entry = work[w].entry /\ held.pc = "load"
      BY <1>1 DEF WorkRecord
    <3>2. work' = [work EXCEPT ![w] = held]
      BY <2>1
    <3> HIDE DEF held
    <3> QED BY <2>1, <3>1, <3>2, OneWorkerQuiet
  <2>2. CASE /\ work' = [work EXCEPT ![w] = [work[w] EXCEPT !.pc = "write", !.rev = cache[n[1]]]]
             /\ raced' = IF cache[n[1]] = Current(n[1]) THEN raced ELSE raced \cup {n[1]}
    <3> DEFINE held == [work[w] EXCEPT !.pc = "write", !.rev = cache[n[1]]]
    <3>1. cache[n[1]] \in Rev
      BY <1>1, EntryParts DEF IndexingInv, TypeOK
    <3>2. /\ held \in WorkRecord /\ held.entry = work[w].entry
          /\ held.pc = "write" /\ held.rev = cache[n[1]]
      BY <1>1, <3>1 DEF WorkRecord
    <3>3. work' = [work EXCEPT ![w] = held]
      BY <2>2
    <3>4. \A m \in held.entry : m[1] \notin raced' => held.rev = Current(m[1])
      BY <1>3, <2>2, <3>2
    <3>5. raced \subseteq raced'
      BY <2>2
    <3> HIDE DEF held
    <3> QED BY <3>2, <3>3, <3>4, <3>5, OneWorkerQuiet
  <2> QED BY <1>2, <2>1, <2>2
<1>5. \A m \in Entry : QuietEntry(m)
  BY SameEntryQuiet DEF SyncGet
<1>6. \A j \in Job : QuietJob(j)
  BY DEF SyncGet, QuietJob
<1>7. raced \subseteq raced'
  BY <1>2
<1> QED BY <1>4, <1>5, <1>6, <1>7 DEF SyncGet, Quiet

LEMMA SyncLoadQuiet ==
    ASSUME IndexingInv, NEW w \in Worker, SyncLoad(w)
    PROVE  Quiet
<1>1. work[w] \in WorkRecord /\ work[w].entry \subseteq Entry
  BY DEF IndexingInv, TypeOK, WorkRecord
<1>2. PICK n \in work[w].entry :
        work' = [work EXCEPT ![w] = [work[w] EXCEPT !.rev = Current(n[1]),
                                     !.pc = IF Current(n[1]) = 0 THEN "write" ELSE "store"]]
  BY DEF SyncLoad
<1>3. \A m \in work[w].entry : m = n
  BY DEF IndexingInv, OneEntryEach
<1>4. \A u \in Worker : QuietWorker(u)
  <2> DEFINE held == [work[w] EXCEPT !.rev = Current(n[1]),
                                     !.pc = IF Current(n[1]) = 0 THEN "write" ELSE "store"]
  <2>1. Current(n[1]) \in Rev
    BY <1>1, EntryParts, CurrentType DEF IndexingInv
  <2>2. /\ held \in WorkRecord /\ held.entry = work[w].entry
        /\ held.pc # "ack" /\ held.rev = Current(n[1])
    BY <1>1, <2>1 DEF WorkRecord
  <2>3. work' = [work EXCEPT ![w] = held] /\ UNCHANGED <<raced, refused>>
    BY <1>2 DEF SyncLoad
  <2>4. \A m \in held.entry : held.rev = Current(m[1])
    BY <1>3, <2>2
  <2> HIDE DEF held
  <2> QED BY <2>2, <2>3, <2>4, OneWorkerQuiet
<1>5. \A m \in Entry : QuietEntry(m)
  BY SameEntryQuiet DEF SyncLoad
<1>6. \A j \in Job : QuietJob(j)
  BY DEF SyncLoad, QuietJob
<1> QED BY <1>4, <1>5, <1>6 DEF SyncLoad, Quiet

LEMMA SyncStoreQuiet ==
    ASSUME IndexingInv, NEW w \in Worker, SyncStore(w)
    PROVE  Quiet
<1>1. work[w] \in WorkRecord
  BY DEF IndexingInv, TypeOK
<1>2. \A u \in Worker : QuietWorker(u)
  <2> DEFINE held == [work[w] EXCEPT !.pc = "write"]
  <2>1. /\ held \in WorkRecord /\ held.entry = work[w].entry
        /\ held.pc = "write" /\ held.rev = work[w].rev
    BY <1>1 DEF WorkRecord
  <2>2. work' = [work EXCEPT ![w] = held] /\ UNCHANGED <<raced, refused>> /\ work[w].pc = "store"
    BY DEF SyncStore
  <2>3. \A n \in held.entry :
          n[1] \notin raced /\ (n = Latest(n[1]) \/ Latest(n[1]) \in synced)
          => held.rev = Current(n[1])
    BY <2>1, <2>2 DEF IndexingInv, AnswersCurrent
  <2> HIDE DEF held
  <2> QED BY <2>1, <2>2, <2>3, OneWorkerQuiet
<1>3. \A m \in Entry : QuietEntry(m)
  BY SameEntryQuiet DEF SyncStore
<1>4. \A j \in Job : QuietJob(j)
  BY DEF SyncStore, QuietJob
<1> QED BY <1>2, <1>3, <1>4 DEF SyncStore, Quiet

LEMMA SyncFailsQuiet ==
    ASSUME IndexingInv, NEW w \in Worker, SyncFails(w)
    PROVE  Quiet
<1>1. work[w] \in WorkRecord /\ 0 \in Rev
  BY BoundAssumption DEF IndexingInv, TypeOK, Rev
<1>2. \A u \in Worker : QuietWorker(u)
  <2> DEFINE held == [work[w] EXCEPT !.pc = "record", !.rev = 0]
  <2>1. held \in WorkRecord /\ held.entry = work[w].entry /\ held.pc = "record"
    BY <1>1 DEF WorkRecord
  <2>2. work' = [work EXCEPT ![w] = held] /\ UNCHANGED <<raced, refused>>
    BY DEF SyncFails
  <2> HIDE DEF held
  <2> QED BY <2>1, <2>2, OneWorkerQuiet
<1>3. \A m \in Entry : QuietEntry(m)
  BY SameEntryQuiet DEF SyncFails
<1>4. \A j \in Job : QuietJob(j)
  BY DEF SyncFails, QuietJob
<1> QED BY <1>2, <1>3, <1>4 DEF SyncFails, Quiet

\* An entry whose task failed goes on to be acknowledged, and is refused from then on.
LEMMA SyncRefusedQuiet ==
    ASSUME IndexingInv, NEW w \in Worker, SyncRefused(w)
    PROVE  Quiet
<1>1. work[w] \in WorkRecord
  BY DEF IndexingInv, TypeOK
<1>2. \A u \in Worker : QuietWorker(u)
  <2> DEFINE held == [work[w] EXCEPT !.pc = "ack"]
  <2>1. held \in WorkRecord /\ held.entry = work[w].entry /\ held.pc = "ack"
    BY <1>1 DEF WorkRecord
  <2>2. /\ work' = [work EXCEPT ![w] = held]
        /\ raced' = raced /\ refused' = refused \cup work[w].entry
    BY DEF SyncRefused
  <2>3. \A n \in held.entry : n \in synced \cup refused'
    BY <2>1, <2>2
  <2> HIDE DEF held
  <2> QED BY <2>1, <2>2, <2>3, OneWorkerQuiet
<1>3. \A m \in Entry : QuietEntry(m)
  BY SameEntryQuiet DEF SyncRefused
<1>4. \A j \in Job : QuietJob(j)
  BY DEF SyncRefused, QuietJob
<1>5. \A n \in refused' : n \in refused \/ outbox[n].status # "none"
  <2>1. \A n \in work[w].entry : n \in Entry /\ outbox[n].status # "none"
    BY <1>1 DEF IndexingInv, ChangesRecorded, WorkRecord
  <2> QED BY <2>1 DEF SyncRefused
<1> QED BY <1>2, <1>3, <1>4, <1>5 DEF SyncRefused, Quiet

\* The entry acknowledged was synced or refused, or has no search service.
LEMMA MarkProcessedQuiet ==
    ASSUME IndexingInv, NEW w \in Worker, MarkProcessed(w)
    PROVE  Quiet
<1>1. (\A j \in Job : QuietJob(j)) /\ \A u \in Worker : QuietWorker(u)
  BY FinishQuiet DEF MarkProcessed
<1>2. ASSUME NEW m \in Entry
      PROVE  QuietEntry(m)
  <2>1. CASE m \in work[w].entry
    <3>1. ~HasService(m[1]) \/ m \in synced \cup refused
      BY <2>1 DEF MarkProcessed, IndexingInv, AcknowledgesSynced
    <3>2. outbox[m].status # "none"
      BY <2>1 DEF IndexingInv, ChangesRecorded
    <3>3. outbox'[m] = [outbox[m] EXCEPT !.status = "PROCESSED"] /\ outbox[m] \in EntryRecord
      BY <2>1 DEF MarkProcessed, IndexingInv, TypeOK
    <3>4. outbox'[m].status = "PROCESSED"
      BY <3>3 DEF EntryRecord
    <3> QED BY <3>1, <3>2, <3>4 DEF QuietEntry
  <2>2. CASE m \notin work[w].entry
    <3>1. outbox'[m] = outbox[m]
      BY <2>2 DEF MarkProcessed
    <3> QED BY <3>1, SameEntryQuiet
  <2> QED BY <2>1, <2>2
<1> QED BY <1>1, <1>2 DEF MarkProcessed, Quiet

LEMMA RecordFailureQuiet ==
    ASSUME IndexingInv, NEW w \in Worker, RecordFailure(w)
    PROVE  Quiet
<1>1. PICK n \in work[w].entry :
        \/ /\ outbox' = [outbox EXCEPT ![n] = [status |-> "PENDING", due |-> FALSE,
                                               retries |-> work[w].retries + 1]]
           /\ Retry(w)
        \/ /\ outbox' = [outbox EXCEPT ![n] =
                           [status |-> "FAILED", due |-> FALSE,
                            retries |-> Least(MaxRetries, outbox[n].retries + 1)]]
           /\ Complete(w)
  BY DEF RecordFailure
<1>2. (\A j \in Job : QuietJob(j)) /\ \A u \in Worker : QuietWorker(u)
  BY <1>1, FinishQuiet DEF RecordFailure
<1>3. n \in Entry
  BY DEF IndexingInv, TypeOK, WorkRecord
<1>4. outbox'[n].status \in {"PENDING", "FAILED"} /\ \A m \in Entry : m # n => outbox'[m] = outbox[m]
  BY <1>1, <1>3 DEF IndexingInv, TypeOK
<1>5. ASSUME NEW m \in Entry
      PROVE  QuietEntry(m)
  <2>1. CASE m = n
    <3>1. outbox[n].status # "none"
      BY <1>3 DEF IndexingInv, ChangesRecorded
    <3> QED BY <1>4, <2>1, <3>1 DEF QuietEntry
  <2>2. CASE m # n
    BY <1>4, <2>2, SameEntryQuiet
  <2> QED BY <2>1, <2>2
<1> QED BY <1>2, <1>5 DEF RecordFailure, Quiet

LEMMA ThrownQuiet ==
    ASSUME IndexingInv, NEW w \in Worker, MarkFails(w) \/ RecordFails(w)
    PROVE  Quiet
<1>1. Retry(w) /\ UNCHANGED <<catalog, outbox, index, found, raced, synced, refused>>
  BY DEF MarkFails, RecordFails
<1>2. (\A j \in Job : QuietJob(j)) /\ \A u \in Worker : QuietWorker(u)
  BY <1>1, FinishQuiet
<1>3. \A m \in Entry : QuietEntry(m)
  BY <1>1, SameEntryQuiet
<1> QED BY <1>1, <1>2, <1>3 DEF Quiet

LEMMA RedeliveryQuiet ==
    ASSUME IndexingInv, NEW j \in Job, JobReady(j) \/ LockLost(j)
    PROVE  Quiet
<1>1. UNCHANGED <<catalog, outbox, index, found, work, raced, synced, refused>>
  BY DEF JobReady, LockLost
<1>2. \A i \in Job : QuietJob(i)
  <2>1. jobs[j] \in JobRecord /\ jobs \in [Job -> JobRecord]
    BY DEF IndexingInv, TypeOK
  <2>2. /\ [jobs[j] EXCEPT !.status = "waiting"].entry = jobs[j].entry
        /\ [jobs[j] EXCEPT !.status = "waiting", !.holder = NoWorker].entry = jobs[j].entry
    BY <2>1 DEF JobRecord
  <2>3. jobs'[j].entry = jobs[j].entry
    BY <2>1, <2>2 DEF JobReady, LockLost
  <2>4. \A i \in Job : i # j => jobs'[i] = jobs[i]
    BY <2>1 DEF JobReady, LockLost
  <2> QED BY <2>3, <2>4 DEF QuietJob
<1>3. \A w \in Worker : QuietWorker(w)
  BY <1>1, SameWorkerQuiet
<1>4. \A m \in Entry : QuietEntry(m)
  BY <1>1, SameEntryQuiet
<1> QED BY <1>1, <1>2, <1>3, <1>4 DEF Quiet

LEMMA CrashQuiet ==
    ASSUME IndexingInv, Crash
    PROVE  Quiet
<1>1. \A j \in Job : QuietJob(j)
  BY DEF Crash, QuietJob, IndexingInv, TypeOK, JobRecord
<1>2. ASSUME NEW w \in Worker
      PROVE  QuietWorker(w)
  <2>1. work'[w].entry = {}
    BY DEF Crash, IdleWork
  <2> QED BY <2>1, SameWorkerQuiet DEF Crash
<1>3. \A m \in Entry : QuietEntry(m)
  BY SameEntryQuiet DEF Crash
<1> QED BY <1>1, <1>2, <1>3 DEF Crash, Quiet

LEMMA RetryTimeQuiet ==
    ASSUME IndexingInv, NEW n \in Entry, RetryTime(n)
    PROVE  Quiet
<1>1. ASSUME NEW m \in Entry
      PROVE  QuietEntry(m)
  <2>1. outbox[m] \in EntryRecord
    BY DEF IndexingInv, TypeOK
  <2>2. outbox'[m].status = outbox[m].status
    BY <2>1 DEF RetryTime, IndexingInv, TypeOK, EntryRecord
  <2> QED BY <2>2 DEF QuietEntry
<1>2. \A w \in Worker : QuietWorker(w)
  BY SameWorkerQuiet DEF RetryTime
<1>3. \A j \in Job : QuietJob(j)
  BY DEF RetryTime, QuietJob
<1> QED BY <1>1, <1>2, <1>3 DEF RetryTime, Quiet

-----------------------------------------------------------------------------
(* The two actions that are not quiet *)

\* The entry of a change is new: nobody works on it and nobody has written it.
LEMMA ChangeKeeps ==
    ASSUME IndexingInv, TypeOK', NEW e \in Entity, NEW alive \in BOOLEAN, Change(e, alive)
    PROVE  IndexingInv'
<1> DEFINE new == <<e, catalog[e].rev + 1>>
<1>1. catalog[e].rev \in Nat /\ new \in Entry /\ new[1] = e /\ new[2] = catalog[e].rev + 1
  BY BoundAssumption DEF IndexingInv, TypeOK, Rev, Change, Entry
<1>2. /\ catalog'[e].rev = catalog[e].rev + 1
      /\ \A o \in Entity : o # e => catalog'[o] = catalog[o]
  BY DEF Change, IndexingInv, TypeOK
<1>3. /\ outbox'[new] = NewEntry
      /\ \A n \in Entry : n # new => outbox'[n] = outbox[n]
  BY <1>1 DEF Change, IndexingInv, TypeOK
<1>4. Latest(e)' = new /\ \A o \in Entity : o # e => Latest(o)' = Latest(o) /\ Current(o)' = Current(o)
  BY <1>2 DEF Latest, Current
<1>5. ~Recorded(new)
  BY <1>1 DEF Recorded
<1>6. ASSUME NEW n \in Entry
      PROVE  Recorded(n)' <=> Recorded(n) \/ n = new
  <2>1. CASE n[1] # e
    BY <1>1, <1>2, <2>1, EntryParts DEF Recorded
  <2>2. CASE n[1] = e
    <3>1. n = new <=> n[2] = catalog[e].rev + 1
      BY <1>1, <2>2, EntryParts
    <3>2. Recorded(n)' <=> n[2] <= catalog[e].rev + 1
      BY <1>2, <2>2 DEF Recorded
    <3>3. Recorded(n) <=> n[2] <= catalog[e].rev
      BY <2>2 DEF Recorded
    <3> QED BY <1>1, <3>1, <3>2, <3>3, EntryParts
  <2> QED BY <2>1, <2>2
<1>7. new \notin synced \cup refused /\ \A w \in Worker : new \notin work[w].entry
  BY <1>5 DEF IndexingInv, ChangesRecorded
<1>8. UNCHANGED <<index, jobs, found, work, synced, refused>> /\ raced' = raced \ {e}
  BY DEF Change
<1> HIDE DEF new
<1>9. ChangesRecorded'
  <2>1. \A n \in Entry : outbox'[n].status # "none" <=> Recorded(n)'
    BY <1>3, <1>6 DEF IndexingInv, ChangesRecorded, NewEntry
  <2>2. \A j \in Job : \A n \in jobs[j].entry : n \in Entry
    BY DEF IndexingInv, TypeOK, JobRecord
  <2>3. \A w \in Worker : \A n \in work[w].entry : n \in Entry
    BY DEF IndexingInv, TypeOK, WorkRecord
  <2>4. \A n \in found \cup synced \cup refused : n \in Entry
    BY DEF IndexingInv, TypeOK
  <2> QED BY <1>6, <1>8, <2>1, <2>2, <2>3, <2>4 DEF IndexingInv, ChangesRecorded
<1>10. OneEntryEach'
  BY <1>8 DEF IndexingInv, OneEntryEach
<1>11. AcknowledgedWasSynced'
  BY <1>3, <1>8 DEF IndexingInv, AcknowledgedWasSynced, NewEntry, HasService
<1>12. AcknowledgesSynced'
  BY <1>8 DEF IndexingInv, AcknowledgesSynced, HasService
<1>13. AnswersCurrent'
  <2> SUFFICES ASSUME NEW w \in Worker, NEW n \in work[w].entry,
                      work[w].pc \in {"store", "write"}, n[1] \notin raced',
                      n = Latest(n[1])' \/ Latest(n[1])' \in synced
               PROVE  work[w].rev = Current(n[1])'
    BY <1>8 DEF AnswersCurrent
  <2>1. n[1] \in Entity
    BY EntryParts DEF IndexingInv, TypeOK, WorkRecord
  <2>2. n[1] # e
    BY <1>4, <1>7
  <2> QED BY <1>4, <1>8, <2>1, <2>2 DEF IndexingInv, AnswersCurrent
<1>14. LatestIndexed'
  <2> SUFFICES ASSUME NEW o \in Entity
               PROVE  /\ catalog'[o].rev = 0 => ~catalog'[o].alive /\ index[o] = 0
                      /\ o \notin raced' /\ Latest(o)' \in synced => index[o] = Current(o)'
    BY <1>8 DEF LatestIndexed
  <2>1. CASE o = e
    BY <1>1, <1>2, <1>4, <1>7, <2>1
  <2>2. CASE o # e
    BY <1>2, <1>4, <1>8, <2>2 DEF IndexingInv, LatestIndexed
  <2> QED BY <2>1, <2>2
<1> QED BY <1>9, <1>10, <1>11, <1>12, <1>13, <1>14 DEF IndexingInv

\* A write that nobody else's answer can undo is current if it is made for the last change.
LEMMA SyncWriteKeeps ==
    ASSUME IndexingInv, TypeOK', NEW w \in Worker, SyncWrite(w)
    PROVE  IndexingInv'
<1>1. work[w] \in WorkRecord /\ work[w].entry \subseteq Entry
  BY DEF IndexingInv, TypeOK, WorkRecord
<1>2. /\ work'[w].entry = work[w].entry /\ work'[w].pc = "ack"
      /\ \A u \in Worker : u # w => work'[u] = work[u]
  BY <1>1 DEF SyncWrite, IndexingInv, TypeOK, WorkRecord
<1>3. \A u \in Worker : work'[u].entry = work[u].entry
  BY <1>2
<1>4. UNCHANGED <<catalog, outbox, jobs, found, refused>> /\ synced' = synced \cup work[w].entry
  BY DEF SyncWrite
<1>5. /\ \A n : Recorded(n)' <=> Recorded(n)
      /\ \A e : Latest(e)' = Latest(e) /\ Current(e)' = Current(e)
  BY <1>4 DEF Recorded, Latest, Current
<1>6. \A e \in Entity : e \in raced' <=> e \in raced \/ (About(w, e) /\ Overtaken(w, e))
  BY DEF SyncWrite
<1>7. ASSUME NEW e \in Entity, Latest(e) \in synced', ~About(w, e)
      PROVE  Latest(e) \in synced
  BY <1>4, <1>7 DEF About, Latest
<1>8. ChangesRecorded'
  BY <1>3, <1>4, <1>5 DEF IndexingInv, ChangesRecorded
<1>9. OneEntryEach'
  BY <1>3, <1>4 DEF IndexingInv, OneEntryEach
<1>10. AcknowledgedWasSynced'
  BY <1>4 DEF IndexingInv, AcknowledgedWasSynced, HasService
<1>11. AcknowledgesSynced'
  BY <1>2, <1>4 DEF IndexingInv, AcknowledgesSynced, HasService
<1>12. AnswersCurrent'
  <2> SUFFICES ASSUME NEW u \in Worker, NEW n \in work[u].entry,
                      work'[u].pc \in {"store", "write"}, n[1] \notin raced',
                      n = Latest(n[1]) \/ Latest(n[1]) \in synced'
               PROVE  work'[u].rev = Current(n[1])
    BY <1>3, <1>5 DEF AnswersCurrent
  <2>1. u # w /\ work'[u] = work[u]
    BY <1>2
  <2>2. n[1] \in Entity
    BY EntryParts DEF IndexingInv, TypeOK, WorkRecord
  <2>3. Overtaken(w, n[1])
    BY <2>1 DEF Overtaken, About
  <2>4. ~About(w, n[1]) /\ n[1] \notin raced
    BY <1>6, <2>2, <2>3
  <2>5. n = Latest(n[1]) \/ Latest(n[1]) \in synced
    BY <1>7, <2>2, <2>4
  <2> QED BY <2>1, <2>4, <2>5 DEF IndexingInv, AnswersCurrent
<1>13. LatestIndexed'
  <2> SUFFICES ASSUME NEW e \in Entity
               PROVE  /\ catalog[e].rev = 0 => ~catalog[e].alive /\ index'[e] = 0
                      /\ e \notin raced' /\ Latest(e) \in synced' => index'[e] = Current(e)
    BY <1>4, <1>5 DEF LatestIndexed
  <2>1. CASE ~About(w, e)
    <3>1. index'[e] = index[e]
      BY <2>1 DEF SyncWrite
    <3> QED BY <1>6, <1>7, <2>1, <3>1 DEF IndexingInv, LatestIndexed
  <2>2. CASE About(w, e)
    <3>1. PICK n \in work[w].entry : n[1] = e
      BY <2>2 DEF About
    <3>2. catalog[e].rev # 0
      <4>1. Recorded(n) /\ n \in Entry
        BY <1>1, <3>1 DEF IndexingInv, ChangesRecorded
      <4>2. n[2] <= catalog[e].rev /\ n[2] \in 1..MaxRev
        BY <3>1, <4>1, EntryParts DEF Recorded
      <4> QED BY <4>2, BoundAssumption DEF IndexingInv, TypeOK, Rev
    <3>3. index'[e] = work[w].rev
      BY <2>2 DEF SyncWrite
    <3>4. ASSUME e \notin raced', Latest(e) \in synced'
          PROVE  work[w].rev = Current(e)
      <4>1. n = Latest(e) \/ Latest(e) \in synced
        BY <1>4, <3>1, <3>4 DEF IndexingInv, OneEntryEach
      <4>2. e \notin raced /\ work[w].pc = "write"
        BY <1>6, <3>4 DEF SyncWrite
      <4> QED BY <3>1, <4>1, <4>2 DEF IndexingInv, AnswersCurrent
    <3> QED BY <3>2, <3>3, <3>4
  <2> QED BY <2>1, <2>2
<1> QED BY <1>8, <1>9, <1>10, <1>11, <1>12, <1>13 DEF IndexingInv

-----------------------------------------------------------------------------
(* The invariant and what follows from it *)

LEMMA IndexingInit == Init => IndexingInv
<1> SUFFICES ASSUME Init PROVE IndexingInv
  OBVIOUS
<1>1. TypeOK
  BY TypeInit
<1>2. \A n \in Entry : ~Recorded(n)
  <2> TAKE n \in Entry
  <2>1. n[1] \in Entity /\ n[2] \in 1..MaxRev /\ catalog[n[1]].rev = 0
    BY EntryParts DEF Init
  <2> QED BY <2>1, BoundAssumption DEF Recorded
<1>3. ChangesRecorded
  BY <1>2 DEF Init, ChangesRecorded, NoEntry, FreeJob, IdleWork
<1>4. OneEntryEach
  BY DEF Init, OneEntryEach, FreeJob, IdleWork
<1>5. AcknowledgedWasSynced /\ AcknowledgesSynced /\ AnswersCurrent
  BY DEF Init, AcknowledgedWasSynced, AcknowledgesSynced, AnswersCurrent, NoEntry, IdleWork
<1>6. LatestIndexed
  BY DEF Init, LatestIndexed
<1> QED BY <1>1, <1>3, <1>4, <1>5, <1>6 DEF IndexingInv

LEMMA IndexingStep == IndexingInv /\ [Next]_vars => IndexingInv'
<1> SUFFICES ASSUME IndexingInv, [Next]_vars PROVE IndexingInv'
  OBVIOUS
<1>1. TypeOK'
  BY TypeStep DEF IndexingInv
<1>2. CASE UNCHANGED vars
  <2>1. Quiet
    BY <1>2, AsideQuiet DEF vars
  <2> QED BY <1>1, <2>1, QuietKeeps
<1>3. CASE Writers
  <2> PICK e \in Entity :
        Create(e) \/ Update(e) \/ Delete(e) \/ InvalidateCache(e) \/ InvalidateFails(e)
    BY <1>3 DEF Writers
  <2>1. CASE Create(e)
    BY <1>1, <2>1, ChangeKeeps DEF Create
  <2>2. CASE Update(e)
    BY <1>1, <2>2, ChangeKeeps DEF Update
  <2>3. CASE Delete(e)
    BY <1>1, <2>3, ChangeKeeps DEF Delete
  <2>4. CASE InvalidateCache(e) \/ InvalidateFails(e)
    BY <1>1, <2>4, CacheQuiet, QuietKeeps
  <2> QED BY <2>1, <2>2, <2>3, <2>4
<1>4. CASE Readers
  BY <1>1, <1>4, CacheQuiet, QuietKeeps
<1>5. CASE Poller
  BY <1>1, <1>5, CacheQuiet, PollAddQuiet, QuietKeeps DEF Poller
<1>6. CASE Workers
  <2>1. ASSUME NEW w \in Worker, SyncWrite(w)
        PROVE  IndexingInv'
    BY <1>1, <2>1, SyncWriteKeeps
  <2>2. ASSUME NEW w \in Worker, WorkStep(w), ~SyncWrite(w)
        PROVE  Quiet
    BY <2>2, MarkProcessingQuiet, SyncGetQuiet, SyncLoadQuiet, SyncStoreQuiet, MarkProcessedQuiet,
       RecordFailureQuiet DEF WorkStep
  <2>3. ASSUME NEW w \in Worker, NEW j \in Job,
               Start(w, j)
        PROVE  Quiet
    BY <2>3, StartQuiet
  <2>4. ASSUME NEW w \in Worker, MarkFails(w) \/ SyncFails(w) \/ SyncRefused(w) \/ RecordFails(w)
        PROVE  Quiet
    BY <2>4, ThrownQuiet, SyncFailsQuiet, SyncRefusedQuiet
  <2>5. ASSUME NEW j \in Job, JobReady(j) \/ LockLost(j)
        PROVE  Quiet
    BY <2>5, RedeliveryQuiet
  <2>6. ASSUME NEW n \in Entry, RetryTime(n)
        PROVE  Quiet
    BY <2>6, RetryTimeQuiet
  <2>7. IndexingInv' \/ Quiet
    BY <1>6, <2>1, <2>2, <2>3, <2>4, <2>5, <2>6, CrashQuiet DEF Workers
  <2> QED BY <1>1, <2>7, QuietKeeps
<1> QED BY <1>2, <1>3, <1>4, <1>5, <1>6 DEF Next

\* Every change has an entry, workers go on with current answers unless a race is flagged, and
\* without a race the index is current once the last change was written: a task that ends failed
\* is no write.
THEOREM IndexingInvAlways == Spec => []IndexingInv
<1>1. Init => IndexingInv
  BY IndexingInit
<1>2. IndexingInv /\ [Next]_vars => IndexingInv'
  BY IndexingStep
<1> QED BY <1>1, <1>2, PTL DEF Spec

\* An entry of an aggregate with a search service is acknowledged only if some worker wrote the
\* aggregate to the index on its behalf, or ended a task for it that had failed: a crash, a lost
\* job, a second delivery or a call that throws is never taken for a success (processEntry).
THEOREM AcknowledgedWasSyncedAlways == Spec => []AcknowledgedWasSynced
<1>1. IndexingInv => AcknowledgedWasSynced
  BY DEF IndexingInv
<1> QED BY <1>1, IndexingInvAlways, PTL

\* The last change of a settled entity has been acknowledged, so it was written or refused.
LEMMA CausesOnly == IndexingInv => StaleHasCause
<1> SUFFICES ASSUME IndexingInv, NEW e \in Entity, Settled(e), HasService(e), e \notin raced,
                    Latest(e) \notin refused \ synced
             PROVE  index[e] = Current(e)
  BY DEF StaleHasCause
<1>1. catalog[e].rev \in Rev
  BY DEF IndexingInv, TypeOK
<1>2. CASE catalog[e].rev = 0
  BY <1>2 DEF IndexingInv, LatestIndexed, Current
<1>3. CASE catalog[e].rev # 0
  <2>1. Latest(e) \in Entry /\ Latest(e)[1] = e /\ Recorded(Latest(e))
    <3>1. catalog[e].rev \in 1..MaxRev
      BY <1>1, <1>3, BoundAssumption DEF Rev
    <3> QED BY <3>1 DEF Latest, Recorded, Entry
  <2>2. outbox[Latest(e)].status = "PROCESSED"
    BY <2>1 DEF Settled, IndexingInv, ChangesRecorded
  <2>3. Latest(e) \in synced \cup refused
    BY <2>1, <2>2 DEF IndexingInv, AcknowledgedWasSynced
  <2> QED BY <2>3 DEF IndexingInv, LatestIndexed
<1> QED BY <1>2, <1>3

\* The index is stale only after one of the two races that raced records, or when every task for
\* the last change that Meilisearch ended, ended failed: nothing else that crashes, fails, is lost
\* or is delivered twice can leave an acknowledged change out of it.
THEOREM StaleHasCauseAlways == Spec => []StaleHasCause
<1> QED BY CausesOnly, IndexingInvAlways, PTL
====
