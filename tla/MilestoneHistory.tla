---- MODULE MilestoneHistory ----
(***************************************************************************)
(* When videos reached their milestones. Every committed sample is         *)
(* observed ("live" rows of video_milestone), and a recovery job walks     *)
(* through the stored samples in batches ("history" rows): it saves a      *)
(* cursor after every batch and starts a batch over when it dies before.   *)
(*                                                                         *)
(*   now         the time                                                  *)
(*   samples     video_snapshot                                            *)
(*   rows        video_milestone                                           *)
(*   answers     statistics answered and not yet committed, one per worker *)
(*   jobs        the recovery jobs                                         *)
(*   candidates  milestone_recovery_candidate                              *)
(*   scope       history: the samples each recovery is to go through       *)
(***************************************************************************)
EXTENDS Integers, FiniteSets, FiniteSetsExt

CONSTANTS
    Video,          \* numbered: recovery goes by increasing aid
    Worker,
    Recovery,
    Threshold,
    Views,          \* what tells the thresholds apart
    MinimumViews,
    BatchSize,
    MaxAttempts,    \* attempts of a recovery job
    MaxTime,        \* bound: time
    MaxSamples,     \* bound: samples stored and under way
    NoSample,
    NoVideo

Time == 0..MaxTime
Sample == [at : Time, views : Views]

ASSUME NumberAssumption == /\ Video \subseteq Nat /\ Threshold \subseteq Nat /\ Views \subseteq Nat
                           /\ {BatchSize, MaxAttempts} \subseteq Nat \ {0}
                           /\ {MaxTime, MaxSamples, MinimumViews} \subseteq Nat
ASSUME NoneAssumption == NoSample \notin Sample /\ NoVideo \notin Video

VARIABLES now, samples, rows, answers, jobs, candidates, scope

vars == <<now, samples, rows, answers, jobs, candidates, scope>>

-----------------------------------------------------------------------------
(* Rows of video_milestone. The primary key holds all but the previous sample: an insertion that meets a row *)
(* changes nothing. *)

Row == [video : Video, threshold : Threshold, source : {"live", "history"}, at : Time,
        previous : Sample \cup {NoSample}]

Reached(views) == {t \in Threshold : t <= views}      \* milestoneThresholds

Below(previous, t) == IF previous # NoSample /\ previous.views < t THEN previous ELSE NoSample

RowFor(v, t, source, sample, previous) ==
    [video |-> v, threshold |-> t, source |-> source, at |-> sample.at, previous |-> Below(previous, t)]

Insert(known, new) ==
    known \cup {r \in new : ~\E k \in known :
                   <<k.video, k.threshold, k.source, k.at>> = <<r.video, r.threshold, r.source, r.at>>}

RowsOf(v, t, source) == {r \in rows : r.video = v /\ r.threshold = t /\ r.source = source}

\* A row of the same source is not later than the sample.
Known(v, t, source, at) == \E r \in RowsOf(v, t, source) : r.at <= at

ObservedEver(v, t, at) == RowsOf(v, t, "live") # {}

\* Whether a sample needs no row: observe looks for any earlier row, a recovery at the latest one.
ObservedBefore(v, t, at) == Known(v, t, "live", at)
RecoveredBefore(v, t, at) == /\ RowsOf(v, t, "history") # {}
                             /\ \A r \in RowsOf(v, t, "history") : r.at <= at

-----------------------------------------------------------------------------
(* Samples of the snapshot workers. *)

Answer == [video : Video, sample : Sample]
NoAnswer == [video |-> NoVideo, sample |-> NoSample]

Stored == Cardinality(UNION {{v} \X samples[v] : v \in Video})

\* The statistics are as old as the answer; the transaction comes later.
Respond(w, v, views) ==
    /\ answers[w] = NoAnswer
    /\ Stored + Cardinality({x \in Worker : answers[x] # NoAnswer}) < MaxSamples
    /\ answers' = [answers EXCEPT ![w] = [video |-> v, sample |-> [at |-> now, views |-> views]]]
    /\ UNCHANGED <<now, samples, rows, jobs, candidates, scope>>

\* createSnapshots and observe, in one transaction, also by a worker that has lost its lease. (What a live row
\* gives as the sample before is that of the tracking row, which is left out.)
Commit(w) ==
    LET v == answers[w].video
        s == answers[w].sample
    IN  /\ answers[w] # NoAnswer
        /\ samples' = [samples EXCEPT ![v] = IF \E p \in @ : p.at = s.at THEN @ ELSE @ \cup {s}]
        /\ rows' = Insert(rows, {RowFor(v, t, "live", s, NoSample) :
                                     t \in {t \in Reached(s.views) : ~ObservedBefore(v, t, s.at)}})
        /\ answers' = [answers EXCEPT ![w] = NoAnswer]
        /\ UNCHANGED <<now, jobs, candidates, scope>>

\* The worker dies, or its transaction is rolled back.
Discard(w) ==
    /\ answers[w] # NoAnswer
    /\ answers' = [answers EXCEPT ![w] = NoAnswer]
    /\ UNCHANGED <<now, samples, rows, jobs, candidates, scope>>

-----------------------------------------------------------------------------
(* The recovery job: what is saved with it ... *)

Data == [prepared  : BOOLEAN,
         through   : Time,
         afterAid  : Int,
         current   : Video \cup {NoVideo},      \* currentAid
         afterTime : Int,                       \* -1 for a video not begun
         previous  : Sample \cup {NoSample}]

\* ... and how far its attempt is: the next data, to be saved.
Job == [pc : {"idle", "waiting", "save"}, data : Data, next : Data, ends : BOOLEAN,
        attempts : 0..MaxAttempts]

FreshData(through) == [prepared |-> FALSE, through |-> through, afterAid |-> -1, current |-> NoVideo,
                       afterTime |-> -1, previous |-> NoSample]
IdleJob == [pc |-> "idle", data |-> FreshData(0), next |-> FreshData(0), ends |-> FALSE, attempts |-> 0]

NextVideoAfter(data, v) == [FreshData(data.through) EXCEPT !.prepared = TRUE, !.afterAid = v + 1]

NextVideoFirst(data, v) == [FreshData(data.through) EXCEPT !.prepared = TRUE, !.afterAid = data.afterAid]

NextVideo(data, v) == [FreshData(data.through) EXCEPT !.prepared = TRUE, !.afterAid = v]

SameVideoForgets(data, v, s) == [data EXCEPT !.current = v, !.afterTime = s.at, !.previous = NoSample]

SameVideo(data, v, s) == [data EXCEPT !.current = v, !.afterTime = s.at, !.previous = s]

Enqueue(r) ==
    /\ jobs[r].pc = "idle"
    /\ jobs' = [jobs EXCEPT ![r] = [IdleJob EXCEPT !.pc = "waiting", !.data = FreshData(now)]]
    /\ UNCHANGED <<now, samples, rows, answers, candidates, scope>>

Save(r, next, ends) ==
    jobs' = [jobs EXCEPT ![r].pc = "save", ![r].next = next, ![r].ends = ends]

Latest(v) == CHOOSE s \in samples[v] : \A p \in samples[v] : p.at <= s.at
Until(v, through) == {s \in samples[v] : s.at <= through}

\* The first attempt lists the videos to go through, by their latest sample.
Prepare(r) ==
    LET through == jobs[r].data.through
        found == {v \in Video : /\ samples[v] # {}
                                /\ Latest(v).views >= MinimumViews
                                /\ Latest(v).at <= through}
    IN  /\ jobs[r].pc = "waiting" /\ ~jobs[r].data.prepared
        /\ candidates' = [candidates EXCEPT ![r] = @ \cup found]
        /\ scope' = [scope EXCEPT ![r] = [v \in Video |-> IF v \in found THEN Until(v, through) ELSE @[v]]]
        /\ Save(r, [jobs[r].data EXCEPT !.prepared = TRUE], FALSE)
        /\ UNCHANGED <<now, samples, rows, answers>>

Left(r) == {v \in candidates[r] : v > jobs[r].data.afterAid}

\* nextCandidate, unless a video is under way.
Current(r) == IF jobs[r].data.current # NoVideo THEN jobs[r].data.current ELSE Min(Left(r))

BatchTo(v, after, through) ==
    LET rest == {s \in Until(v, through) : s.at > after}
    IN  {s \in rest : Cardinality({p \in rest : p.at < s.at}) < BatchSize}

First(batch, t) == CHOOSE s \in batch : /\ s.views >= t
                                        /\ \A p \in batch : p.views >= t => s.at <= p.at

\* The sample before s: in the batch, or saved with the job by the batch before.
Before(batch, s, previous) ==
    LET earlier == {p \in batch : p.at < s.at}
    IN  IF earlier = {} THEN previous ELSE CHOOSE p \in earlier : \A q \in earlier : q.at <= p.at

\* One batch of one video: a row for every threshold first reached in it.
Batch(r) ==
    LET data == jobs[r].data
        v == Current(r)
        batch == BatchTo(v, data.afterTime, data.through)
        new == {t \in Threshold : /\ \E s \in batch : s.views >= t
                                  /\ ~RecoveredBefore(v, t, First(batch, t).at)}
        newest == CHOOSE s \in batch : \A p \in batch : p.at <= s.at
    IN  /\ jobs[r].pc = "waiting" /\ data.prepared
        /\ data.current # NoVideo \/ Left(r) # {}
        /\ rows' = Insert(rows, {RowFor(v, t, "history", First(batch, t),
                                        Before(batch, First(batch, t), data.previous)) : t \in new})
        /\ Save(r, IF Cardinality(batch) < BatchSize THEN NextVideo(data, v) ELSE SameVideo(data, v, newest),
                FALSE)
        /\ UNCHANGED <<now, samples, answers, candidates, scope>>

\* No video is left: the list goes.
Finish(r) ==
    /\ jobs[r].pc = "waiting" /\ jobs[r].data.prepared
    /\ jobs[r].data.current = NoVideo /\ Left(r) = {}
    /\ candidates' = [candidates EXCEPT ![r] = {}]
    /\ Save(r, jobs[r].data, TRUE)
    /\ UNCHANGED <<now, samples, rows, answers, scope>>

\* updateData: the job is over, or comes again at once.
SaveData(r) ==
    /\ jobs[r].pc = "save"
    /\ jobs' = [jobs EXCEPT ![r] = IF @.ends THEN IdleJob
                                   ELSE [IdleJob EXCEPT !.pc = "waiting", !.data = jobs[r].next,
                                                      !.attempts = jobs[r].attempts]]
    /\ scope' = IF jobs[r].ends THEN [scope EXCEPT ![r] = [v \in Video |-> {}]] ELSE scope
    /\ UNCHANGED <<now, samples, rows, answers, candidates>>

FailUncounted(r) ==
    /\ jobs[r].pc \in {"waiting", "save"}
    /\ jobs' = [jobs EXCEPT ![r] = [IdleJob EXCEPT !.pc = "waiting", !.data = jobs[r].data,
                                                  !.attempts = jobs[r].attempts + 1]]
    /\ UNCHANGED <<now, samples, rows, answers, scope, candidates>>

\* An attempt fails, or its worker dies, before its data are saved. (The list of a recovery that fails for good
\* stays, under an id that no other recovery uses.)
Fail(r) ==
    LET isLast == jobs[r].attempts + 1 >= MaxAttempts IN
    /\ jobs[r].pc \in {"waiting", "save"}
    /\ jobs' = [jobs EXCEPT ![r] = IF isLast THEN IdleJob
                                   ELSE [IdleJob EXCEPT !.pc = "waiting", !.data = jobs[r].data,
                                                      !.attempts = jobs[r].attempts + 1]]
    /\ scope' = IF isLast THEN [scope EXCEPT ![r] = [v \in Video |-> {}]] ELSE scope
    /\ candidates' = IF isLast THEN [candidates EXCEPT ![r] = {}] ELSE candidates
    /\ UNCHANGED <<now, samples, rows, answers>>

-----------------------------------------------------------------------------
Tick ==
    /\ now < MaxTime
    /\ now' = now + 1
    /\ UNCHANGED <<samples, rows, answers, jobs, candidates, scope>>

Init ==
    /\ now = 0
    /\ samples = [v \in Video |-> {}]
    /\ rows = {}
    /\ answers = [w \in Worker |-> NoAnswer]
    /\ jobs = [r \in Recovery |-> IdleJob]
    /\ candidates = [r \in Recovery |-> {}]
    /\ scope = [r \in Recovery |-> [v \in Video |-> {}]]

Recover(r) == Prepare(r) \/ Batch(r) \/ Finish(r) \/ SaveData(r)

Next ==
    \/ \E w \in Worker : \/ \E v \in Video, views \in Views : Respond(w, v, views)
                         \/ Commit(w)
                         \/ Discard(w)
    \/ \E r \in Recovery : Enqueue(r) \/ Recover(r) \/ Fail(r)
    \/ Tick

Spec == Init /\ [][Next]_vars

\* The maintenance worker takes up the jobs that are waiting.
FairSpec == Spec /\ \A r \in Recovery : WF_vars(Recover(r))

-----------------------------------------------------------------------------
TypeOK ==
    /\ now \in Time
    /\ samples \in [Video -> SUBSET Sample]
    /\ rows \subseteq Row
    /\ answers \in [Worker -> Answer \cup {NoAnswer}]
    /\ jobs \in [Recovery -> Job]
    /\ candidates \in [Recovery -> SUBSET Video]
    /\ scope \in [Recovery -> [Video -> SUBSET Sample]]

\* A milestone is known by the first sample that shows it, in whatever order the workers commit.
FirstObserved ==
    \A v \in Video : \A s \in samples[v] : \A t \in Reached(s.views) : Known(v, t, "live", s.at)

\* A recovery that is about to end has found when the stored samples first show each milestone, whatever died on the
\* way and was done again.
RecoveryComplete ==
    \A r \in Recovery : jobs[r].ends =>
        \A v \in Video : \A s \in scope[r][v] : \A t \in Reached(s.views) : Known(v, t, "history", s.at)

\* A row of a recovery brackets the moment: it gives the sample that came right before of those the recovery is to go
\* through, or a later one, if that was below the threshold, also when it was in another batch or the batch is done
\* again. (A sample between the two that was committed late may have been above it.)
BracketedIn(r, m) ==
    LET before == {s \in scope[r][m.video] : s.at < m.at}
        s == CHOOSE p \in before : \A q \in before : q.at <= p.at
        above == {p \in samples[m.video] : s.at <= p.at /\ p.at < m.at /\ p.views >= m.threshold}
    IN  before # {} /\ above = {} => m.previous # NoSample /\ m.previous.at >= s.at

Bracketed ==
    [][\A r \in Recovery : jobs'[r] # jobs[r] =>
           \A m \in rows' \ rows : m.source = "history" => BracketedIn(r, m)]_vars

\* Every recovery comes to its end, though others and the workers add rows and samples all the time.
RecoveryEnds == \A r \in Recovery : jobs[r].pc = "waiting" ~> jobs[r].pc = "idle"

-----------------------------------------------------------------------------
(* Why recoveries end: what remains of one, in the order of the tuple its attempts, the list, the videos left, the *)
(* time of the video left and the saving, is less after every step. Proved in MilestoneHistoryProofs.             *)

Remains(r) ==
    LET data == jobs[r].data
    IN  <<MaxAttempts - jobs[r].attempts,
          IF data.prepared THEN 0 ELSE 1,
          IF data.prepared THEN Cardinality(Left(r)) ELSE 0,
          MaxTime - data.afterTime,
          IF jobs[r].pc = "waiting" THEN 1 ELSE 0>>

Less(p, q) == \E i \in 1..5 : p[i] < q[i] /\ \A j \in 1..(i - 1) : p[j] = q[j]

\* A recovery that is not over is closer to its end, whatever samples are added meanwhile and also when a batch is
\* done again: a saved batch never leaves the cursor where it was, and never puts it back.
RecoveryAdvances ==
    [][\A r \in Recovery : jobs[r].pc # "idle" /\ jobs'[r].pc # "idle" /\ jobs'[r] # jobs[r] =>
           /\ Remains(r)' \in Nat \X Nat \X Nat \X Nat \X Nat
           /\ Less(Remains(r)', Remains(r))]_vars
====
