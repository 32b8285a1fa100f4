---- MODULE DiscoveryLabels ----
(***************************************************************************)
(* Who decides whether a video is tracked: evaluations of discovered       *)
(* candidates, which take a network call between what they read and what   *)
(* they write, human labels, and the control plane's manual additions, all *)
(* concurrent and none in a transaction.                                   *)
(*                                                                         *)
(*   sample    the rows of discovery_sample with their human label         *)
(*   metadata  the videos that have a row in bilibili_video_metadata       *)
(*   tracking  the videos that have a row in video_tracking; what is in    *)
(*             the row is SnapshotPipeline's                               *)
(*   tasks     the evaluations and control plane calls in flight           *)
(*   word      history: the last label a human has recorded                *)
(*   late      history: tasks about to write what a later label forbids    *)
(*   excused   history: the videos whose row was last decided by something *)
(*             else than the last label, see LastWordStands                *)
(*   bare      history: videos that were added without a sample            *)
(*                                                                         *)
(* An await in the source is a boundary between two actions here.  Reads   *)
(* that are only reported, and reads of the publication date, are left out.*)
(***************************************************************************)
EXTENDS Naturals

CONSTANTS Video, Task, NoVideo

ASSUME NoVideoAssumption == NoVideo \notin Video

VARIABLES sample, metadata, tracking, tasks, word, late, excused, bare

vars == <<sample, metadata, tracking, tasks, word, late, excused, bare>>

-----------------------------------------------------------------------------
Label == {"rejected", "kept"}        \* humanLabel 0 and 1

\* untrack is a reject that first asks for the row.
Manual == {"ingest", "register", "snapshot", "promote"}
Kind == {"evaluation", "reject", "untrack", "keep"} \cup Manual

\* What a task is about to do, named after the call it awaits next.
Step == {"known", "fetch", "metadata", "ensure", "sample", "recheck", "track", "discard", "record",
         "gone", "restatus", "park", "archive", "find", "lookup", "label", "look", "delete"}

\* The steps that each kind of task may come to.
StepsOf(kind) ==
    CASE kind = "evaluation" -> {"known", "fetch", "metadata", "sample", "recheck", "track", "discard",
                                 "record", "gone", "restatus", "park", "archive"}
      [] kind = "reject" -> {"label", "delete"}
      [] kind = "untrack" -> {"find", "label", "delete"}
      [] kind = "keep" -> {"label", "look", "track"}
      [] kind = "ingest" -> {"metadata", "ensure", "sample", "track"}
      [] kind = "register" -> {"track", "lookup", "ensure", "sample"}
      [] kind = "snapshot" -> {"find", "lookup", "track"}
      [] kind = "promote" -> {"find", "track"}

TaskRecord == [kind : Kind, pc : Step \cup {"idle"}, video : Video \cup {NoVideo}]

Idle == [kind |-> "evaluation", pc |-> "idle", video |-> NoVideo]

TypeOK ==
    /\ sample \in [Video -> {"none", "unlabelled"} \cup Label]
    /\ metadata \subseteq Video
    /\ tracking \subseteq Video
    /\ tasks \in [Task -> TaskRecord]
    /\ \A t \in Task : tasks[t].pc \in StepsOf(tasks[t].kind) \cup {"idle"}
    /\ word \in [Video -> {"none"} \cup Label]
    /\ late \subseteq Task
    /\ excused \subseteq Video
    /\ bare \subseteq Video

Init ==
    /\ sample = [v \in Video |-> "none"]
    /\ metadata = {}
    /\ tracking = {}
    /\ tasks = [t \in Task |-> Idle]
    /\ word = [v \in Video |-> "none"]
    /\ late = {} /\ excused = {} /\ bare = {}

At(t, v, step) == tasks[t].pc = step /\ tasks[t].video = v
Is(t, kinds) == tasks[t].kind \in kinds

Goto(t, step) == tasks' = [tasks EXCEPT ![t].pc = step] /\ UNCHANGED late
Finish(t) == tasks' = [tasks EXCEPT ![t] = Idle] /\ late' = late \ {t}

\* Only reads, or writes of something else than the sample, the row and the histories.
KeepSample == UNCHANGED <<sample, word>>
KeepRow == UNCHANGED <<tracking, excused>>

\* upsertSample never touches the human label of a row it finds.
\* Mutant: it resets it.
UpsertSampleAnew(v) == sample' = [sample EXCEPT ![v] = "unlabelled"]
UpsertSample(v) == sample' = [sample EXCEPT ![v] = IF @ = "none" THEN "unlabelled" ELSE @]

-----------------------------------------------------------------------------
(* How tasks begin *)

FirstStep(kind) ==
    CASE kind \in {"reject", "keep"} -> "label"
      [] kind \in {"untrack", "snapshot", "promote"} -> "find"
      [] kind = "ingest" -> "metadata"
      [] kind = "register" -> "track"
      [] kind = "evaluation" -> "known"

\* An evaluation first reads the sample: a rejected video is skipped.
Begin(t, kind, v) ==
    /\ tasks[t].pc = "idle"
    /\ kind = "evaluation" => sample[v] # "rejected"
    /\ tasks' = [tasks EXCEPT ![t] = [kind |-> kind, pc |-> FirstStep(kind), video |-> v]]
    /\ KeepSample /\ KeepRow /\ UNCHANGED <<metadata, late, bare>>

-----------------------------------------------------------------------------
(* DiscoveryCandidateEvaluator.evaluate *)

\* A video that is tracked already is skipped.
EvalKnown(t, v) ==
    /\ At(t, v, "known")
    /\ IF v \in tracking THEN Finish(t) ELSE Goto(t, "fetch")
    /\ KeepSample /\ KeepRow /\ UNCHANGED <<metadata, bare>>

\* The details arrive and are accepted or rejected, or the video is gone.  (A fetch that fails or
\* is deferred is CutShort.)
EvalFetch(t, v) ==
    /\ At(t, v, "fetch")
    /\ \E step \in {"metadata", "discard", "gone"} : Goto(t, step)
    /\ KeepSample /\ KeepRow /\ UNCHANGED <<metadata, bare>>

\* Mutant: the label is not read again.
EvalRecheckBlind(t, v) ==
    /\ At(t, v, "recheck")
    /\ Goto(t, "track")
    /\ KeepSample /\ KeepRow /\ UNCHANGED <<metadata, bare>>

\* The label is read again before the video is added.
EvalRecheck(t, v) ==
    /\ At(t, v, "recheck")
    /\ IF sample[v] = "rejected" THEN Finish(t) ELSE Goto(t, "track")
    /\ KeepSample /\ KeepRow /\ UNCHANGED <<metadata, bare>>

EvalDiscard(t, v) ==
    /\ At(t, v, "discard")
    /\ metadata' = metadata \ {v}
    /\ Goto(t, "record") \/ Finish(t)                         \* decision.sampled, or not
    /\ KeepSample /\ KeepRow /\ UNCHANGED bare

EvalRecord(t, v) ==
    /\ At(t, v, "record")
    /\ UpsertSample(v)
    /\ Finish(t)
    /\ KeepRow /\ UNCHANGED <<word, metadata, bare>>

\* handleFetchFailure: the status of the metadata, if there is any ...
EvalGone(t, v) ==
    /\ At(t, v, "gone")
    /\ Goto(t, IF v \in metadata THEN "restatus" ELSE "park")
    /\ KeepSample /\ KeepRow /\ UNCHANGED <<metadata, bare>>

EvalRestatus(t, v) ==
    /\ At(t, v, "restatus")
    /\ metadata' = metadata \cup {v}
    /\ Goto(t, "park")
    /\ KeepSample /\ KeepRow /\ UNCHANGED bare

\* ... and the row, if there is one.
EvalPark(t, v) ==
    /\ At(t, v, "park")
    /\ IF v \in tracking THEN Goto(t, "archive") ELSE Finish(t)
    /\ KeepSample /\ KeepRow /\ UNCHANGED <<metadata, bare>>

\* (What it does to a row is Archive of SnapshotPipeline; a row deleted meanwhile stays away.)
EvalArchive(t, v) ==
    /\ At(t, v, "archive")
    /\ Finish(t)
    /\ KeepSample /\ KeepRow /\ UNCHANGED <<metadata, bare>>

-----------------------------------------------------------------------------
(* Steps that several kinds of task take *)

\* Mutant: an ingested video gets no sample.
WriteMetadataOnly(t, v) ==
    /\ At(t, v, "metadata")
    /\ metadata' = metadata \cup {v}
    /\ Goto(t, IF Is(t, {"evaluation"}) THEN "sample" ELSE "track")
    /\ KeepSample /\ KeepRow /\ UNCHANGED bare

WriteMetadata(t, v) ==
    /\ At(t, v, "metadata")
    /\ metadata' = metadata \cup {v}
    /\ Goto(t, IF Is(t, {"evaluation"}) THEN "sample" ELSE "ensure")
    /\ KeepSample /\ KeepRow /\ UNCHANGED bare

WriteSample(t, v) ==
    /\ At(t, v, "sample")
    /\ UpsertSample(v)
    /\ \/ Is(t, {"evaluation"}) /\ Goto(t, "recheck")
       \/ Is(t, {"ingest"}) /\ Goto(t, "track")
       \/ Is(t, {"register"}) /\ Finish(t)
    /\ KeepRow /\ UNCHANGED <<word, metadata, bare>>

\* ensureManualSample
EnsureSample(t, v) ==
    /\ At(t, v, "ensure")
    /\ IF sample[v] = "none" THEN Goto(t, "sample")
       ELSE IF Is(t, {"ingest"}) THEN Goto(t, "track") ELSE Finish(t)
    /\ KeepSample /\ KeepRow /\ UNCHANGED <<metadata, bare>>

\* upsertTracking.  A late task overrules the last word, a manual addition ignores it.
Track(t, v) ==
    /\ At(t, v, "track")
    /\ tracking' = tracking \cup {v}
    /\ excused' = IF t \in late \/ Is(t, Manual) THEN excused \cup {v}
                  ELSE IF Is(t, {"keep"}) THEN excused \ {v} ELSE excused
    /\ bare' = IF Is(t, {"snapshot"}) THEN bare \cup {v} ELSE bare
    /\ IF Is(t, {"register"}) THEN Goto(t, "lookup") ELSE Finish(t)
    /\ KeepSample /\ UNCHANGED metadata

\* getTracking of untrack and promote, which answer 404 without a row, and of a snapshot request,
\* which goes on as SnapshotPipeline models it if there is one.
Find(t, v) ==
    /\ At(t, v, "find")
    /\ \/ Is(t, {"promote"}) /\ IF v \in tracking THEN Goto(t, "track") ELSE Finish(t)
       \/ Is(t, {"untrack"}) /\ IF v \in tracking THEN Goto(t, "label") ELSE Finish(t)
       \/ Is(t, {"snapshot"}) /\ IF v \in tracking THEN Finish(t) ELSE Goto(t, "lookup")
    /\ KeepSample /\ KeepRow /\ UNCHANGED <<metadata, bare>>

\* getMetadata: without it a snapshot request adds nothing, and a registration no sample.
Lookup(t, v) ==
    /\ At(t, v, "lookup")
    /\ IF v \notin metadata THEN Finish(t)
       ELSE Goto(t, IF Is(t, {"snapshot"}) THEN "track" ELSE "ensure")
    /\ bare' = IF v \notin metadata /\ Is(t, {"register"}) THEN bare \cup {v} ELSE bare
    /\ KeepSample /\ KeepRow /\ UNCHANGED metadata

-----------------------------------------------------------------------------
(* DiscoveryAdminService.label *)

\* What a task is about to do to the row is contrary to the label.
Contrary(t, v, label) ==
    IF label = "rejected" THEN At(t, v, "track") \/ At(t, v, "look") ELSE At(t, v, "delete")

\* Mutant: a label 0 looks for the row and a label 1 deletes it.
RecordLabelSwapped(t, v) ==
    /\ At(t, v, "label")
    /\ sample[v] # "none"
    /\ LET label == IF Is(t, {"keep"}) THEN "kept" ELSE "rejected" IN
       /\ sample' = [sample EXCEPT ![v] = label]
       /\ word' = [word EXCEPT ![v] = label]
       /\ tasks' = [tasks EXCEPT ![t].pc = IF Is(t, {"keep"}) THEN "delete" ELSE "look"]
       /\ late' = late \cup {u \in Task : Contrary(u, v, label)}
    /\ KeepRow /\ UNCHANGED <<metadata, bare>>

\* labelSample updates a row: without one the answer is 404.
RecordLabel(t, v) ==
    /\ At(t, v, "label")
    /\ LET label == IF Is(t, {"keep"}) THEN "kept" ELSE "rejected" IN
       IF sample[v] = "none"
       THEN Finish(t) /\ KeepSample
       ELSE /\ sample' = [sample EXCEPT ![v] = label]
            /\ word' = [word EXCEPT ![v] = label]
            /\ tasks' = [tasks EXCEPT ![t].pc = IF Is(t, {"keep"}) THEN "look" ELSE "delete"]
            /\ late' = late \cup {u \in Task : Contrary(u, v, label)}
    /\ KeepRow /\ UNCHANGED <<metadata, bare>>

Delete(t, v) ==
    /\ At(t, v, "delete")
    /\ tracking' = tracking \ {v}
    /\ excused' = IF t \in late THEN excused \cup {v} ELSE excused \ {v}
    /\ Finish(t)
    /\ KeepSample /\ UNCHANGED <<metadata, bare>>

Look(t, v) ==
    /\ At(t, v, "look")
    /\ IF v \in tracking
       THEN Finish(t) /\ excused' = IF t \in late THEN excused ELSE excused \ {v}
       ELSE Goto(t, "track") /\ UNCHANGED excused
    /\ KeepSample /\ UNCHANGED <<metadata, tracking, bare>>

-----------------------------------------------------------------------------
(* The environment *)

\* A task that carries out the label it has recorded.
Deciding(t, v) == Is(t, {"reject", "untrack", "keep"})
                  /\ (At(t, v, "delete") \/ At(t, v, "look") \/ At(t, v, "track"))

Registering(t, v) == Is(t, {"register"})
                     /\ (At(t, v, "lookup") \/ At(t, v, "ensure") \/ At(t, v, "sample"))

\* A call of a task fails, is deferred to a later job, or dies with the process.
CutShort(t, v) ==
    /\ tasks[t].pc # "idle" /\ tasks[t].video = v
    /\ excused' = IF Deciding(t, v) /\ t \notin late THEN excused \cup {v} ELSE excused
    /\ bare' = IF Registering(t, v) THEN bare \cup {v} ELSE bare
    /\ Finish(t)
    /\ KeepSample /\ UNCHANGED <<metadata, tracking>>

\* The metadata refresh and the seed of the recommendation graph write metadata too.
OtherMetadata(v) ==
    /\ v \notin metadata
    /\ metadata' = metadata \cup {v}
    /\ KeepSample /\ KeepRow /\ UNCHANGED <<tasks, late, bare>>

Next ==
    \/ \E t \in Task, v \in Video :
         \/ \E kind \in Kind : Begin(t, kind, v)
         \/ EvalKnown(t, v) \/ EvalFetch(t, v) \/ EvalRecheck(t, v)
         \/ EvalDiscard(t, v) \/ EvalRecord(t, v)
         \/ EvalGone(t, v) \/ EvalRestatus(t, v) \/ EvalPark(t, v) \/ EvalArchive(t, v)
         \/ WriteMetadata(t, v) \/ WriteSample(t, v) \/ EnsureSample(t, v)
         \/ Track(t, v) \/ Find(t, v) \/ Lookup(t, v)
         \/ RecordLabel(t, v) \/ Delete(t, v) \/ Look(t, v)
         \/ CutShort(t, v)
    \/ \E v \in Video : OtherMetadata(v)

Spec == Init /\ [][Next]_vars

-----------------------------------------------------------------------------
(* Properties *)

\* A label whose effect on the row is still to come.
Pending(v) == \E t \in Task \ late : Deciding(t, v)

\* Human labels decide: a rejected video is not tracked and a kept one is.  The only rows that
\* differ were added by hand, left behind by a call that was cut short, or written by a task that
\* a later label overtook in its last step: the two reads of the label stop every other evaluation.
LastWordStands ==
    \A v \in Video : v \notin excused /\ ~Pending(v) =>
        /\ word[v] = "rejected" => v \notin tracking
        /\ word[v] = "kept" => v \in tracking

\* No evaluation, registration or import forgets a label that a human has given.
LabelsKept ==
    [][\A v \in Video : sample'[v] # sample[v] => word'[v] = sample'[v] \/ word'[v] = "none"]_vars

\* A tracked video has a sample, so that untracking it can record the rejection instead of
\* answering 404: except for registrations without metadata and videos added by snapshot requests.
TrackedHasSample ==
    \A v \in Video : v \in tracking /\ v \notin bare =>
        sample[v] # "none" \/ \E t \in Task : Registering(t, v)

\* "A human may have untracked the video while the detail fetch was in flight; never let that
\* evaluation add it back": an evaluation adds a rejected video only if its deletion is yet to come.
EvaluationNeverRestores ==
    [][\A t \in Task, v \in Video :
          Track(t, v) /\ Is(t, {"evaluation"}) /\ sample[v] = "rejected" =>
              \E u \in Task : At(u, v, "delete")]_vars

-----------------------------------------------------------------------------
(* Why they hold: an inductive invariant, checked here and proved in TrackingDecisionProofs *)

\* The sample holds the last word.
SampleHoldsWord == \A v \in Video, label \in Label : word[v] = label <=> sample[v] = label

\* A task about to decide about the row that is not late obeys the last word.
DecidersObey ==
    \A t \in Task \ late, v \in Video :
        /\ At(t, v, "delete") => word[v] = "rejected"
        /\ At(t, v, "look") \/ (At(t, v, "track") /\ Is(t, {"keep"})) => word[v] = "kept"
        /\ At(t, v, "track") /\ Is(t, {"evaluation"}) => word[v] # "rejected"

\* Only a task in its last step is late, or a registration that still sees to the sample.
LateSteps ==
    \A t \in late : tasks[t].pc \in {"delete", "look", "track"}
                    \/ (Is(t, {"register"}) /\ tasks[t].pc \in {"lookup", "ensure", "sample"})

\* Who is about to add a row has seen to the sample before, or found a row there.
SampleBeforeRow ==
    \A t \in Task, v \in Video :
        At(t, v, "recheck") \/ At(t, v, "look")
        \/ (At(t, v, "track") /\ Is(t, {"evaluation", "keep", "ingest"}))
        => sample[v] # "none"

PromotesRow ==
    \A t \in Task, v \in Video :
        At(t, v, "track") /\ Is(t, {"promote"}) /\ v \notin bare =>
            sample[v] # "none" \/ \E u \in Task : Registering(u, v)

DiscoveryInv ==
    /\ TypeOK /\ SampleHoldsWord /\ DecidersObey /\ LateSteps
    /\ SampleBeforeRow /\ PromotesRow
    /\ LastWordStands /\ TrackedHasSample
====
