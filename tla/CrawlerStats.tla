---- MODULE CrawlerStats ----
(***************************************************************************)
(* The statistics of the crawler processes. Each counts what it does in    *)
(* buckets of a minute, and every few seconds stores those that changed;   *)
(* one process at a time adds the stored minutes of an hour up; a report   *)
(* over a long window is made of whole hours and of minutes.               *)
(*                                                                         *)
(*   now        the minute                                                 *)
(*   process    the collector of each process, and its flush               *)
(*   buckets    what it holds of each minute                               *)
(*   stored     crawler_stats_minute                                       *)
(*   covered    crawler_stats_instance.covered_to                          *)
(*   pending    crawler_stats_hour_pending: the generation, 0 for no row   *)
(*   hours      crawler_stats_hour                                         *)
(*   rollup     the hourly rollup under way                                *)
(*   report     a report under way                                         *)
(*   recorded   history: the events of each process and minute             *)
(*   overtaken  history: the minutes that had an event while the first     *)
(*              flush of the process waited for the metrics to be marked   *)
(*   faults     counts the faults                                          *)
(***************************************************************************)
EXTENDS Integers, FiniteSets, FiniteSetsExt

CONSTANTS
    Instance,           \* processes: each has an id of its own
    HourLength,         \* minutes of an hour
    MemoryRetention,    \* PERSISTED_MEMORY_RETENTION_MS
    PendingLimit,       \* entries of a rollup
    MaxTime,            \* bound: time
    MaxRecords,         \* bound: events
    LastRecord,         \* bound: the last minute with events
    MaxUp,              \* bound: processes that are up together
    MaxFaults,          \* bound: failed writes and crashes
    MaxGeneration,      \* bound: writes to an hour between two rollups
    NoBucket, NoRow, NoEntry

ASSUME InstanceAssumption == IsFiniteSet(Instance)

Minute == 0..MaxTime
Hour == 0..(MaxTime \div HourLength)
HourOf(m) == m \div HourLength

ASSUME NumberAssumption == /\ {MaxTime, MaxRecords, LastRecord, MaxUp, MaxFaults, MaxGeneration} \subseteq Nat
                           /\ MemoryRetention \in Nat
                           /\ {HourLength, PendingLimit} \subseteq Nat \ {0}

VARIABLES now, process, buckets, stored, covered, pending, hours, rollup, report, recorded, overtaken, faults

memory == <<process, buckets>>
database == <<stored, covered, pending, hours>>
history == <<recorded, overtaken, faults>>
vars == <<now, memory, database, rollup, report, history>>

-----------------------------------------------------------------------------
(* Metrics: a number of events and the latencies sampled with them. *)

Row == [count : Nat, samples : Nat]

ASSUME RowAssumption == NoRow \notin Row

\* The sum of a function.
SumOf(w) == MapThenSumSet(LAMBDA x : w[x], DOMAIN w)

\* Of pairs of a key and a row.
Sum(rows) == [count |-> SumOf([r \in rows |-> r[2].count]), samples |-> SumOf([r \in rows |-> r[2].samples])]

\* live: the sketch, ahead of the samples serialized; generation: counts the changes.
Bucket == [count : Nat, samples : Nat, live : Nat, dirty : BOOLEAN, generation : Nat]

ASSUME BucketAssumption == NoBucket \notin Bucket

EmptyBucket == [count |-> 0, samples |-> 0, live |-> 0, dirty |-> FALSE, generation |-> 0]

MarkDirty(b) == [b EXCEPT !.dirty = TRUE, !.generation = @ + 1]

Materialize(bs) == [m \in Minute |-> IF bs[m] # NoBucket /\ bs[m].dirty THEN [bs[m] EXCEPT !.samples = bs[m].live]
                                                                      ELSE bs[m]]

\* Buckets of minutes that are over and stored lose their sketches, and go some time later.
Evict(bs, current) ==
    [m \in Minute |->
        IF bs[m] = NoBucket \/ bs[m].dirty \/ m >= current THEN bs[m]
        ELSE IF m < current - MemoryRetention THEN NoBucket
        ELSE [bs[m] EXCEPT !.live = bs[m].samples]]

\* Minutes without an event get an empty bucket.
FillGaps(bs, from, current) ==
    [m \in Minute |-> IF m \in from..(current - 1) /\ bs[m] = NoBucket THEN MarkDirty(EmptyBucket) ELSE bs[m]]

-----------------------------------------------------------------------------
(* The collector. *)

Captured == [minute : Minute, generation : Nat, row : Row]

Process == [status : {"new", "up", "closing", "down"},
            started : Minute, heartbeatAt : Minute, coveredTo : Minute,
            marked : BOOLEAN,       \* availabilityMarked
            saved : BOOLEAN,        \* some write has succeeded
            pc : {"idle", "heartbeat", "mark", "save", "saved", "exit"},
            at : Minute,            \* of the flush under way
            captured : SUBSET Captured]

NewProcess == [status |-> "new", started |-> 0, heartbeatAt |-> 0, coveredTo |-> 0, marked |-> FALSE, saved |-> FALSE,
               pc |-> "idle", at |-> 0, captured |-> {}]

NoBuckets == [m \in Minute |-> NoBucket]

Down(i) == /\ process' = [process EXCEPT ![i] = [NewProcess EXCEPT !.status = "down", !.started = process[i].started]]
           /\ buckets' = [buckets EXCEPT ![i] = NoBuckets]

Start(i) ==
    /\ process[i].status = "new"
    /\ Cardinality({j \in Instance : process[j].status \in {"up", "closing"}}) < MaxUp
    /\ process' = [process EXCEPT ![i] = [NewProcess EXCEPT !.status = "up", !.started = now,
                                                           !.heartbeatAt = now, !.coveredTo = now]]
    /\ UNCHANGED <<now, buckets, database, rollup, report, history>>

Events == SumOf([x \in Instance \X Minute |-> recorded[x[1]][x[2]]])

\* An event, counted and sampled.
Record(i) ==
    LET b == IF buckets[i][now] = NoBucket THEN EmptyBucket ELSE buckets[i][now] IN
    /\ process[i].status \in {"up", "closing"}
    /\ Events < MaxRecords /\ now <= LastRecord
    /\ buckets' = [buckets EXCEPT ![i][now] = MarkDirty([b EXCEPT !.count = @ + 1, !.live = @ + 1])]
    /\ recorded' = [recorded EXCEPT ![i][now] = @ + 1]
    /\ overtaken' = IF process[i].pc = "mark" THEN overtaken \cup {<<i, now>>} ELSE overtaken
    /\ UNCHANGED <<now, process, database, rollup, report, faults>>

\* persist, up to its first await.
Begin(i, at, p) ==
    /\ process' = [process EXCEPT ![i] = [p EXCEPT !.pc = "heartbeat", !.at = at,
                                                   !.heartbeatAt = Max({p.heartbeatAt, at})]]
    /\ buckets' = [buckets EXCEPT ![i] = Evict(FillGaps(buckets[i], p.heartbeatAt, at), at)]

\* flush, by the timer: it waits for a flush that is under way.
Flush(i) ==
    /\ process[i].status = "up" /\ process[i].pc = "idle"
    /\ Begin(i, now, process[i])
    /\ UNCHANGED <<now, database, rollup, report, history>>

\* close stops the timers and flushes once more.
Close(i) ==
    /\ process[i].status = "up" /\ process[i].pc = "idle"
    /\ Begin(i, now, [process[i] EXCEPT !.status = "closing"])
    /\ UNCHANGED <<now, database, rollup, report, history>>

\* The flush is over, and with it a process that closes.
End(p) == [p EXCEPT !.pc = IF p.status = "closing" THEN "exit" ELSE "idle", !.captured = {}, !.at = 0]

Fault == faults < MaxFaults /\ faults' = faults + 1

\* upsertInstance, which may fail.
TouchInstance(i) ==
    \/ covered' = [covered EXCEPT ![i] = process[i].coveredTo] /\ UNCHANGED faults
    \/ UNCHANGED covered /\ Fault

\* The dirty buckets as they are now. A process that has never written anything has at least its instance row.
Capture(i, p, bs) ==
    LET dirty == {m \in Minute : bs[m] # NoBucket /\ bs[m].dirty}
        captured == {[minute |-> m, generation |-> bs[m].generation,
                      row |-> [count |-> bs[m].count, samples |-> bs[m].samples]] : m \in dirty}
    IN  \/ /\ dirty # {}
           /\ process' = [process EXCEPT ![i] = [p EXCEPT !.pc = "save", !.captured = captured]]
           /\ buckets' = [buckets EXCEPT ![i] = bs]
           /\ UNCHANGED <<covered, faults>>
        \/ /\ dirty = {}
           /\ process' = [process EXCEPT ![i] = End(p)]
           /\ buckets' = [buckets EXCEPT ![i] = Evict(bs, p.at)]
           /\ IF p.saved THEN UNCHANGED <<covered, faults>> ELSE TouchInstance(i)

\* The heartbeat is written, or not. The first flush goes on to mark the metrics as available.
Heartbeat(i) ==
    LET p == process[i]
        bs == Materialize(buckets[i])
    IN  /\ p.pc = "heartbeat"
        /\ IF p.marked THEN Capture(i, p, bs)
           ELSE /\ process' = [process EXCEPT ![i] = [p EXCEPT !.pc = "mark", !.marked = TRUE]]
                /\ buckets' = [buckets EXCEPT ![i] = bs]
                /\ UNCHANGED <<covered, faults>>
        /\ UNCHANGED <<now, stored, pending, hours, rollup, report, recorded, overtaken>>

Marked(i) ==
    /\ process[i].pc = "mark"
    /\ Capture(i, process[i], buckets[i])
    /\ UNCHANGED <<now, stored, pending, hours, rollup, report, recorded, overtaken>>

NextCoveredWithCurrent(p) == Max({p.coveredTo, p.at + 1})

\* What is covered: the minutes that were over when the flush was called.
NextCovered(p) == Max({p.coveredTo} \cup {Min({c.minute + 1, p.at}) : c \in p.captured})

\* saveMinutes: one transaction.
SaveCommits(i) ==
    LET p == process[i]
        at(m) == CHOOSE c \in p.captured : c.minute = m
        minutes == {c.minute : c \in p.captured}
    IN  /\ p.pc = "save"
        /\ \A m \in minutes : pending[i][HourOf(m)] < MaxGeneration
        /\ stored' = [stored EXCEPT ![i] = [m \in Minute |-> IF m \in minutes THEN at(m).row ELSE @[m]]]
        /\ covered' = [covered EXCEPT ![i] = NextCovered(p)]
        /\ pending' = [pending EXCEPT ![i] = [h \in Hour |-> IF \E m \in minutes : HourOf(m) = h THEN @[h] + 1
                                                                                               ELSE @[h]]]
        /\ process' = [process EXCEPT ![i].pc = "saved"]
        /\ UNCHANGED <<now, buckets, hours, rollup, report, history>>

SettledAlways(p, bs) ==
    [m \in Minute |-> IF \E c \in p.captured : c.minute = m THEN [bs[m] EXCEPT !.dirty = FALSE] ELSE bs[m]]

\* A bucket that has changed meanwhile stays dirty.
Settled(p, bs) ==
    [m \in Minute |-> IF \E c \in p.captured : c.minute = m /\ c.generation = bs[m].generation
                      THEN [bs[m] EXCEPT !.dirty = FALSE] ELSE bs[m]]

SaveReturns(i) ==
    LET p == process[i] IN
    /\ p.pc = "saved"
    /\ process' = [process EXCEPT ![i] = End([p EXCEPT !.coveredTo = NextCovered(p), !.saved = TRUE])]
    /\ buckets' = [buckets EXCEPT ![i] = Evict(Settled(p, buckets[i]), p.at)]
    /\ UNCHANGED <<now, database, rollup, report, history>>

\* Also when the transaction was committed.
SaveFails(i) ==
    LET p == process[i] IN
    /\ p.pc \in {"save", "saved"}
    /\ process' = [process EXCEPT ![i] = End(p)]
    /\ buckets' = [buckets EXCEPT ![i] = Evict(buckets[i], p.at)]
    /\ Fault
    /\ covered' \in IF p.saved THEN {covered} ELSE {covered, [covered EXCEPT ![i] = p.coveredTo]}
    /\ UNCHANGED <<now, stored, pending, hours, rollup, report, recorded, overtaken>>

\* close writes the instance row once more, unless the flush has failed.
Exit(i) ==
    /\ process[i].pc = "exit"
    /\ Down(i)
    /\ covered' \in {covered, [covered EXCEPT ![i] = process[i].coveredTo]}
    /\ UNCHANGED <<now, stored, pending, hours, rollup, report, history>>

\* The process dies.
Crash(i) ==
    /\ process[i].status \in {"up", "closing"}
    /\ Down(i)
    /\ Fault
    /\ UNCHANGED <<now, database, rollup, report, recorded, overtaken>>

-----------------------------------------------------------------------------
(* The rollup: by one process at a time, which holds a lock in the database until it is through or dies. *)

Entry == [hour : Hour, source : Instance, generation : Nat]

ASSUME EntryAssumption == NoEntry \notin Entry

Rollup == [on : BOOLEAN, todo : SUBSET Entry, entry : Entry \cup {NoEntry}, row : Row]
NoRollup == [on |-> FALSE, todo |-> {}, entry |-> NoEntry, row |-> [count |-> 0, samples |-> 0]]

Pending == {[hour |-> x[2], source |-> x[1], generation |-> pending[x[1]][x[2]]] :
                x \in {x \in Instance \X Hour : pending[x[1]][x[2]] # 0}}

\* The earliest hours come first.
RollupBegin ==
    /\ ~rollup.on /\ Pending # {}
    /\ \E todo \in kSubset(Min({PendingLimit, Cardinality(Pending)}), Pending) :
          /\ \A e \in todo, f \in Pending \ todo : e.hour <= f.hour
          /\ rollup' = [NoRollup EXCEPT !.on = TRUE, !.todo = todo]
    /\ UNCHANGED <<now, memory, database, report, history>>

StoredOf(i, h) == {<<m, stored[i][m]>> : m \in {m \in Minute : HourOf(m) = h /\ stored[i][m] # NoRow}}

RollupRead ==
    /\ rollup.entry = NoEntry
    /\ \E e \in rollup.todo :
          /\ \A f \in rollup.todo : e.hour <= f.hour
          /\ rollup' = [rollup EXCEPT !.todo = @ \ {e}, !.entry = e, !.row = Sum(StoredOf(e.source, e.hour))]
    /\ UNCHANGED <<now, memory, database, report, history>>

WithoutAlways(e) == [pending EXCEPT ![e.source][e.hour] = 0]

\* The entry goes unless minutes were stored since it was listed.
Without(e) == [pending EXCEPT ![e.source][e.hour] = IF @ = e.generation THEN 0 ELSE @]

\* saveHour: one transaction.
RollupSave ==
    LET e == rollup.entry IN
    /\ e # NoEntry
    /\ hours' = [hours EXCEPT ![e.source][e.hour] = rollup.row]
    /\ pending' = Without(e)
    /\ rollup' = IF rollup.todo = {} THEN NoRollup ELSE [rollup EXCEPT !.entry = NoEntry, !.row = NoRollup.row]
    /\ UNCHANGED <<now, memory, stored, covered, report, history>>

RollupFails ==
    /\ rollup.on
    /\ rollup' = NoRollup
    /\ UNCHANGED <<now, memory, database, report, history>>

-----------------------------------------------------------------------------
(* A report over the minutes from..(to - 1): selects that each see the rows of their own moment. (Without a  *)
(* whole hour there is one select, of minutes.) *)

Report == [pc : {"idle", "hours", "minutes"}, from : Minute, to : Minute, floor : Nat,
           unrolled : SUBSET Hour, clean : SUBSET Hour, sum : Nat]
NoReport == [pc |-> "idle", from |-> 0, to |-> 0, floor |-> 0, unrolled |-> {}, clean |-> {}, sum |-> 0]

StoredIn(minutes) == SumOf([x \in {x \in Instance \X minutes : stored[x[1]][x[2]] # NoRow} |-> stored[x[1]][x[2]].count])

WholeHours(from, to) == {h \in Hour : from <= h * HourLength /\ (h + 1) * HourLength <= to}

\* First the entries that are pending ...
ReportBegin(from) ==
    /\ report.pc = "idle" /\ WholeHours(from, now) # {}
    /\ report' = [NoReport EXCEPT !.pc = "hours", !.from = from, !.to = now, !.floor = StoredIn(from..(now - 1)),
                                  !.unrolled = {h \in Hour : \E i \in Instance : pending[i][h] # 0}]
    /\ UNCHANGED <<now, memory, database, rollup, history>>

RolledRows(h) == {i \in Instance : hours[i][h] # NoRow}

CleanHoursAnyway(r) == {h \in WholeHours(r.from, r.to) : RolledRows(h) # {}}

CleanHours(r) == {h \in WholeHours(r.from, r.to) \ r.unrolled : RolledRows(h) # {}}

\* ... then the hours that stand for their minutes: whole, rolled up, nothing pending ...
ReportHours ==
    LET clean == CleanHours(report) IN
    /\ report.pc = "hours"
    /\ report' = [report EXCEPT !.pc = "minutes", !.unrolled = {}, !.clean = clean,
                                !.sum = SumOf([x \in {x \in Instance \X clean : x[1] \in RolledRows(x[2])} |->
                                                  hours[x[1]][x[2]].count])]
    /\ UNCHANGED <<now, memory, database, rollup, history>>

Rest(r) == {m \in r.from..(r.to - 1) : HourOf(m) \notin r.clean}

Total(r) == r.sum + StoredIn(Rest(r))

\* ... and the minutes of the rest.
ReportMinutes ==
    /\ report.pc = "minutes"
    /\ report' = NoReport
    /\ UNCHANGED <<now, memory, database, rollup, history>>

-----------------------------------------------------------------------------
Tick ==
    /\ now < MaxTime
    /\ now' = now + 1
    /\ UNCHANGED <<memory, database, rollup, report, history>>

Init ==
    /\ now = 0
    /\ process = [i \in Instance |-> NewProcess]
    /\ buckets = [i \in Instance |-> NoBuckets]
    /\ stored = [i \in Instance |-> [m \in Minute |-> NoRow]]
    /\ covered = [i \in Instance |-> 0]
    /\ pending = [i \in Instance |-> [h \in Hour |-> 0]]
    /\ hours = [i \in Instance |-> [h \in Hour |-> NoRow]]
    /\ rollup = NoRollup
    /\ report = NoReport
    /\ recorded = [i \in Instance |-> [m \in Minute |-> 0]]
    /\ overtaken = {}
    /\ faults = 0

Next ==
    \/ \E i \in Instance :
          \/ Start(i) \/ Record(i) \/ Flush(i) \/ Close(i)
          \/ Heartbeat(i) \/ Marked(i) \/ SaveCommits(i) \/ SaveReturns(i) \/ SaveFails(i) \/ Exit(i) \/ Crash(i)
    \/ RollupBegin \/ RollupRead \/ RollupSave \/ RollupFails
    \/ \E from \in Minute : ReportBegin(from)
    \/ ReportHours \/ ReportMinutes
    \/ Tick

Spec == Init /\ [][Next]_vars

-----------------------------------------------------------------------------
TypeOK ==
    /\ now \in Minute
    /\ process \in [Instance -> Process]
    /\ buckets \in [Instance -> [Minute -> Bucket \cup {NoBucket}]]
    /\ stored \in [Instance -> [Minute -> Row \cup {NoRow}]]
    /\ covered \in [Instance -> Minute]
    /\ pending \in [Instance -> [Hour -> Nat]]
    /\ hours \in [Instance -> [Hour -> Row \cup {NoRow}]]
    /\ rollup \in Rollup /\ report \in Report
    /\ recorded \in [Instance -> [Minute -> Nat]]
    /\ overtaken \subseteq Instance \X Minute
    /\ faults \in 0..MaxFaults

Count(i, m) == IF stored[i][m] = NoRow THEN 0 ELSE stored[i][m].count

\* What a process no longer holds as dirty is stored in full, whatever happened while it was written; so are the
\* latencies, but for what comes while the first flush is marking the metrics: it has been counted in the row and
\* not serialized.
CleanIsStored ==
    \A i \in Instance, m \in Minute :
        process[i].status \in {"up", "closing"} /\ ~(buckets[i][m] # NoBucket /\ buckets[i][m].dirty) =>
            /\ Count(i, m) = recorded[i][m]
            /\ buckets[i][m] # NoBucket /\ <<i, m>> \notin overtaken
                   => stored[i][m] # NoRow /\ stored[i][m].samples = recorded[i][m]

\* The minutes a process is said to have covered have their rows, final and complete, also after it has died.
CoveredIsStored ==
    \A i \in Instance, m \in Minute :
        m \in process[i].started..(covered[i] - 1) => stored[i][m] # NoRow /\ stored[i][m].count = recorded[i][m]

\* An hour without a pending entry adds up to its minutes, as they are stored now.
RolledIsExact ==
    \A i \in Instance, h \in Hour :
        pending[i][h] = 0 /\ StoredOf(i, h) # {} => hours[i][h] = Sum(StoredOf(i, h))

\* A report counts each event once: it has at least what was stored when it began and at most what is stored when
\* it reads the last rows.
ReportExact ==
    report.pc = "minutes" => Total(report) \in report.floor..StoredIn(report.from..(report.to - 1))
====
