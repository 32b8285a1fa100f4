---- MODULE TrackingDecisionProofs ----
(***************************************************************************)
(* Theorems about the two decisions taken on a video, whatever the videos, *)
(* the tasks, the policy and the course of the view count.                 *)
(*                                                                         *)
(* Whether it is tracked (DiscoveryLabels): human labels decide, they are  *)
(* never forgotten, and a tracked video has a sample.  Most actions are    *)
(* Passing: they bring a task to its next step, allowed by what it has     *)
(* read, and decide nothing about the row.  The four that decide, Track,   *)
(* RecordLabel, Delete and Look, have proofs of their own.                 *)
(*                                                                         *)
(* When it is sampled next (TrackingSchedule): every branch of the         *)
(* evaluation Sprints or Waits, and while the pace has not risen every     *)
(* sample tells no less than the present pace: the milestone is never      *)
(* nearer than a branch takes it to be.                                    *)
(***************************************************************************)
EXTENDS DiscoveryLabels, TrackingSchedule, FiniteSetTheorems, TLAPS

-----------------------------------------------------------------------------
(* How a step changes the tasks *)

Others(t) == \A u \in Task \ {t} : tasks'[u] = tasks[u]

Moves(t, step) ==
    /\ tasks'[t].pc = step /\ tasks'[t].kind = tasks[t].kind /\ tasks'[t].video = tasks[t].video
    /\ Others(t)

TasksOK ==
    /\ tasks \in [Task -> TaskRecord]
    /\ \A t \in Task : tasks[t].pc \in StepsOf(tasks[t].kind) \cup {"idle"}

\* A task that goes on stays of its kind, and well typed if the step is one of its kind.
LEMMA SetStep ==
    ASSUME TypeOK, NEW t \in Task, NEW step, tasks' = [tasks EXCEPT ![t].pc = step]
    PROVE  /\ Moves(t, step)
           /\ step \in StepsOf(tasks[t].kind) /\ step \in Step => TasksOK'
<1>1. tasks \in [Task -> TaskRecord]
  BY DEF TypeOK
<1>2. tasks[t] \in TaskRecord
  BY <1>1
<1> DEFINE next == [tasks[t] EXCEPT !.pc = step]
<1>3. next.pc = step /\ next.kind = tasks[t].kind /\ next.video = tasks[t].video
  BY <1>2 DEF TaskRecord
<1>4. step \in Step => next \in TaskRecord
  BY <1>2 DEF TaskRecord
<1>5. tasks' = [tasks EXCEPT ![t] = next]
  BY <1>1
<1> HIDE DEF next
<1>6. tasks'[t] = next /\ Others(t)
  BY <1>1, <1>5 DEF Others
<1>7. step \in Step => tasks' \in [Task -> TaskRecord]
  BY <1>1, <1>4, <1>5
<1>8. ASSUME step \in StepsOf(tasks[t].kind), NEW u \in Task
      PROVE  tasks'[u].pc \in StepsOf(tasks'[u].kind) \cup {"idle"}
  <2>1. CASE u = t
    BY <1>3, <1>6, <1>8, <2>1
  <2>2. CASE u # t
    BY <1>6, <2>2 DEF TypeOK, Others
  <2> QED BY <2>1, <2>2
<1> QED BY <1>3, <1>6, <1>7, <1>8 DEF Moves, TasksOK

LEMMA SetTask ==
    ASSUME TypeOK, NEW t \in Task, NEW next \in TaskRecord, tasks' = [tasks EXCEPT ![t] = next]
    PROVE  /\ tasks'[t] = next /\ Others(t)
           /\ next.pc \in StepsOf(next.kind) \cup {"idle"} => TasksOK'
<1>1. tasks \in [Task -> TaskRecord]
  BY DEF TypeOK
<1>2. tasks'[t] = next /\ Others(t) /\ tasks' \in [Task -> TaskRecord]
  BY <1>1 DEF Others
<1>3. ASSUME next.pc \in StepsOf(next.kind) \cup {"idle"}, NEW u \in Task
      PROVE  tasks'[u].pc \in StepsOf(tasks'[u].kind) \cup {"idle"}
  <2>1. CASE u = t
    BY <1>2, <1>3, <2>1
  <2>2. CASE u # t
    BY <1>2, <2>2 DEF TypeOK, Others
  <2> QED BY <2>1, <2>2
<1> QED BY <1>2, <1>3 DEF TasksOK

LEMMA IdleTask == Idle \in TaskRecord /\ Idle.pc = "idle" /\ Idle.video = NoVideo
BY DEF Idle, TaskRecord, Kind

LEMMA Finishes ==
    ASSUME TypeOK, NEW t \in Task, Finish(t)
    PROVE  tasks'[t].pc = "idle" /\ Others(t) /\ TasksOK' /\ late' = late \ {t}
BY SetTask, IdleTask DEF Finish

LEMMA GoesTo ==
    ASSUME TypeOK, NEW t \in Task, NEW step \in Step, Goto(t, step), step \in StepsOf(tasks[t].kind)
    PROVE  Moves(t, step) /\ TasksOK' /\ late' = late
BY SetStep DEF Goto

-----------------------------------------------------------------------------
(* Passing steps *)

\* The step that task t comes to with video v is one it may take, judging by what it has read.
Allowed(t, v) ==
    /\ tasks'[t].pc \notin {"delete", "look"}
    /\ tasks'[t].pc = "recheck" => sample'[v] # "none"
    /\ tasks'[t].pc = "track" =>
         /\ tasks'[t].kind # "keep"
         /\ tasks'[t].kind = "evaluation" => word[v] # "rejected"
         /\ tasks'[t].kind \in {"evaluation", "ingest"} => sample'[v] # "none"
         /\ tasks'[t].kind = "promote" => v \in tracking

\* Neither the row nor a label changes, and nothing that t still had to do is lost unexcused.
Passing(t, v) ==
    /\ TypeOK' /\ Others(t) /\ Allowed(t, v)
    /\ tasks'[t].pc # "idle" => tasks'[t].video = v
    /\ \A w \in Video : sample'[w] # sample[w] => sample[w] = "none" /\ sample'[w] = "unlabelled"
    /\ UNCHANGED <<word, tracking>>
    /\ excused \subseteq excused' /\ bare \subseteq bare' /\ late' \subseteq late /\ late \ {t} \subseteq late'
    /\ t \in late' => Registering(t, v)'
    /\ \A w \in Video : Deciding(t, w) /\ t \notin late => w \in excused'
    /\ \A w \in Video : Registering(t, w) =>
         Registering(t, w)' \/ w \in bare' \/ sample'[w] # "none"

LEMMA PassingInv ==
    ASSUME DiscoveryInv, NEW t \in Task, NEW v \in Video, Passing(t, v)
    PROVE  DiscoveryInv'
<1>1. SampleHoldsWord'
  BY DEF DiscoveryInv, SampleHoldsWord, Passing, Label
<1>2. DecidersObey'
  <2> SUFFICES ASSUME NEW u \in Task \ late', NEW w \in Video
               PROVE  /\ At(u, w, "delete")' => word'[w] = "rejected"
                      /\ At(u, w, "look")' \/ (At(u, w, "track")' /\ Is(u, {"keep"})') => word'[w] = "kept"
                      /\ At(u, w, "track")' /\ Is(u, {"evaluation"})' => word'[w] # "rejected"
    BY DEF DecidersObey
  <2>1. CASE u = t
    BY <2>1 DEF Passing, Allowed, At, Is
  <2>2. CASE u # t
    BY <2>2 DEF DiscoveryInv, DecidersObey, Passing, Others, At, Is
  <2> QED BY <2>1, <2>2
<1>3. LateSteps'
  BY DEF DiscoveryInv, LateSteps, Passing, Others, At, Is, Registering, TypeOK
<1>4. SampleBeforeRow'
  BY DEF DiscoveryInv, SampleBeforeRow, Passing, Others, Allowed, At, Is
<1>5. PromotesRow'
  BY DEF DiscoveryInv, PromotesRow, TrackedHasSample, Passing, Others, Allowed, At, Is, Registering
<1>6. LastWordStands'
  BY DEF DiscoveryInv, LastWordStands, Pending, Passing, Others, At, Is, Deciding
<1>7. TrackedHasSample'
  BY DEF DiscoveryInv, TrackedHasSample, Passing, Others, At, Is, Registering
<1> QED BY <1>1, <1>2, <1>3, <1>4, <1>5, <1>6, <1>7 DEF DiscoveryInv, Passing

-----------------------------------------------------------------------------
(* The passing actions *)

LEMMA BeginPasses ==
    ASSUME DiscoveryInv, NEW t \in Task, NEW v \in Video, NEW kind \in Kind, Begin(t, kind, v)
    PROVE  Passing(t, v)
<1> DEFINE next == [kind |-> kind, pc |-> FirstStep(kind), video |-> v]
<1>1. FirstStep(kind) \in Step /\ FirstStep(kind) \in StepsOf(kind)
  BY DEF FirstStep, StepsOf, Step, Kind, Manual
<1>2. next \in TaskRecord
  BY <1>1 DEF TaskRecord
<1>3. tasks'[t] = next /\ Others(t) /\ TasksOK'
  BY <1>1, <1>2, SetTask DEF Begin, DiscoveryInv
<1>4. FirstStep(kind) \notin {"delete", "look", "recheck", "idle"}
      /\ (FirstStep(kind) = "track" => kind = "register")
  BY DEF FirstStep, Kind, Manual
<1>5. Allowed(t, v)
  BY <1>3, <1>4 DEF Allowed
<1>6. t \notin late /\ tasks[t].pc = "idle"
  BY DEF Begin, DiscoveryInv, LateSteps
<1>7. TypeOK'
  BY <1>3 DEF Begin, DiscoveryInv, TypeOK, TasksOK, KeepSample, KeepRow
<1>8. \A w \in Video : ~Deciding(t, w) /\ ~Registering(t, w)
  BY <1>6 DEF Deciding, Registering, At
<1> QED BY <1>3, <1>5, <1>6, <1>7, <1>8 DEF Passing, Begin, KeepSample, KeepRow

LEMMA EvaluationPasses ==
    ASSUME DiscoveryInv, NEW t \in Task, NEW v \in Video,
           \/ EvalKnown(t, v) \/ EvalFetch(t, v) \/ EvalRecheck(t, v)
           \/ EvalDiscard(t, v) \/ EvalGone(t, v) \/ EvalRestatus(t, v)
           \/ EvalPark(t, v) \/ EvalArchive(t, v)
    PROVE  Passing(t, v)
<1>1. /\ tasks[t].video = v /\ tasks[t].kind = "evaluation" /\ t \notin late
      /\ tasks[t].pc \in {"known", "fetch", "recheck", "discard", "gone", "restatus", "park", "archive"}
  <2>1. tasks[t].video = v
        /\ tasks[t].pc \in {"known", "fetch", "recheck", "discard", "gone", "restatus", "park", "archive"}
    BY DEF At, EvalKnown, EvalFetch, EvalRecheck, EvalDiscard, EvalGone, EvalRestatus, EvalPark,
           EvalArchive
  <2>2. tasks[t].kind \in Kind /\ tasks[t].pc \in StepsOf(tasks[t].kind) \cup {"idle"}
    BY DEF DiscoveryInv, TypeOK, TaskRecord
  <2> QED BY <2>1, <2>2 DEF StepsOf, Kind, Manual, DiscoveryInv, LateSteps
<1>2. \/ Finish(t)
      \/ \E step \in {"fetch", "metadata", "discard", "gone", "record", "restatus", "park", "archive"} :
           Goto(t, step)
      \/ Goto(t, "track") /\ sample[v] # "rejected" /\ tasks[t].pc = "recheck"
  BY DEF EvalKnown, EvalFetch, EvalRecheck, EvalDiscard, EvalGone, EvalRestatus, EvalPark,
         EvalArchive, At
<1>3. /\ UNCHANGED <<sample, word, tracking, excused, bare>>
      /\ metadata' \subseteq Video
  BY DEF EvalKnown, EvalFetch, EvalRecheck, EvalDiscard, EvalGone, EvalRestatus, EvalPark,
         EvalArchive, KeepSample, KeepRow, DiscoveryInv, TypeOK
<1>4. \A w \in Video : ~Deciding(t, w) /\ ~Registering(t, w)
  BY <1>1 DEF Deciding, Registering, Is
<1>5. /\ Others(t) /\ TasksOK' /\ late' = late /\ Allowed(t, v)
      /\ tasks'[t].pc # "idle" => tasks'[t].video = v
  <2>1. CASE Finish(t)
    BY <1>1, <2>1, Finishes DEF DiscoveryInv, Allowed
  <2>2. ASSUME NEW step \in {"fetch", "metadata", "discard", "gone", "record", "restatus", "park",
                             "archive"},
               Goto(t, step)
        PROVE  /\ Others(t) /\ TasksOK' /\ late' = late /\ Allowed(t, v)
               /\ tasks'[t].pc # "idle" => tasks'[t].video = v
    <3>1. step \in Step /\ step \in StepsOf(tasks[t].kind)
      BY <1>1 DEF Step, StepsOf
    <3> QED BY <1>1, <2>2, <3>1, GoesTo DEF DiscoveryInv, Allowed, Moves
  <2>3. CASE Goto(t, "track") /\ sample[v] # "rejected" /\ tasks[t].pc = "recheck"
    <3>1. "track" \in Step /\ "track" \in StepsOf(tasks[t].kind)
      BY <1>1 DEF Step, StepsOf
    <3>2. sample[v] # "none" /\ word[v] # "rejected"
      BY <1>1, <2>3 DEF DiscoveryInv, SampleBeforeRow, At, SampleHoldsWord, Label
    <3> QED BY <1>1, <1>3, <2>3, <3>1, <3>2, GoesTo DEF DiscoveryInv, Allowed, Moves
  <2> QED BY <1>2, <2>1, <2>2, <2>3
<1>6. TypeOK'
  BY <1>3, <1>5 DEF TasksOK, TypeOK, DiscoveryInv
<1> QED BY <1>1, <1>3, <1>4, <1>5, <1>6 DEF Passing

\* Which kinds of task come to a step, and whether they can be late there.
LEMMA Kinds ==
    ASSUME DiscoveryInv, NEW t \in Task, NEW v \in Video, NEW step \in Step, At(t, v, step)
    PROVE  /\ step \in StepsOf(tasks[t].kind) /\ tasks[t].kind \in Kind /\ tasks[t].video = v
           /\ \/ t \notin late
              \/ step \in {"delete", "look", "track"}
              \/ Is(t, {"register"}) /\ step \in {"lookup", "ensure", "sample"}
<1>1. tasks[t].kind \in Kind /\ tasks[t].pc \in StepsOf(tasks[t].kind) \cup {"idle"}
  BY DEF DiscoveryInv, TypeOK, TaskRecord
<1>2. tasks[t].pc = step /\ tasks[t].video = v /\ step # "idle"
  BY DEF At, Step
<1> QED BY <1>1, <1>2 DEF DiscoveryInv, LateSteps

LEMMA UpsertKeepsLabels ==
    ASSUME TypeOK, NEW v \in Video, UpsertSample(v)
    PROVE  /\ \A w \in Video : sample'[w] # sample[w] => sample[w] = "none" /\ sample'[w] = "unlabelled"
           /\ sample'[v] # "none" /\ sample' \in [Video -> {"none", "unlabelled"} \cup Label]
BY DEF TypeOK, UpsertSample

LEMMA MetadataPasses ==
    ASSUME DiscoveryInv, NEW t \in Task, NEW v \in Video, WriteMetadata(t, v)
    PROVE  Passing(t, v)
<1>1. At(t, v, "metadata") /\ "metadata" \in Step
  BY DEF WriteMetadata, Step
<1>2. tasks[t].kind \in {"evaluation", "ingest"} /\ t \notin late /\ tasks[t].video = v
  BY <1>1, Kinds DEF StepsOf, Kind, Manual
<1> DEFINE step == IF Is(t, {"evaluation"}) THEN "sample" ELSE "ensure"
<1>3. step \in {"sample", "ensure"} /\ step \in Step /\ step \in StepsOf(tasks[t].kind)
  BY <1>2 DEF Step, StepsOf, Is
<1>4. Goto(t, step)
  BY DEF WriteMetadata
<1> HIDE DEF step
<1>5. Moves(t, step) /\ TasksOK' /\ late' = late
  BY <1>3, <1>4, GoesTo DEF DiscoveryInv
<1>6. Allowed(t, v)
  BY <1>3, <1>5 DEF Allowed, Moves
<1>7. UNCHANGED <<sample, word, tracking, excused, bare>> /\ metadata' = metadata \cup {v}
  BY DEF WriteMetadata, KeepSample, KeepRow
<1>8. TypeOK'
  BY <1>5, <1>7 DEF TasksOK, TypeOK, DiscoveryInv
<1>9. \A w \in Video : ~Deciding(t, w) /\ ~Registering(t, w)
  BY <1>2 DEF Deciding, Registering, Is
<1> QED BY <1>2, <1>5, <1>6, <1>7, <1>8, <1>9 DEF Passing, Moves

LEMMA RecordPasses ==
    ASSUME DiscoveryInv, NEW t \in Task, NEW v \in Video, EvalRecord(t, v)
    PROVE  Passing(t, v)
<1>1. At(t, v, "record") /\ "record" \in Step /\ Finish(t) /\ UpsertSample(v)
  BY DEF EvalRecord, Step
<1>2. tasks[t].kind = "evaluation" /\ t \notin late
  BY <1>1, Kinds DEF StepsOf, Kind, Manual
<1>3. tasks'[t].pc = "idle" /\ Others(t) /\ TasksOK' /\ late' = late \ {t}
  BY <1>1, Finishes DEF DiscoveryInv
<1>4. UNCHANGED <<word, tracking, excused, bare, metadata>>
  BY DEF EvalRecord, KeepRow
<1>5. TypeOK'
  BY <1>1, <1>3, <1>4, UpsertKeepsLabels DEF TasksOK, TypeOK, DiscoveryInv
<1>6. \A w \in Video : ~Deciding(t, w) /\ ~Registering(t, w)
  BY <1>2 DEF Deciding, Registering, Is
<1> QED BY <1>1, <1>2, <1>3, <1>4, <1>5, <1>6, UpsertKeepsLabels DEF Passing, Allowed, DiscoveryInv

LEMMA SamplePasses ==
    ASSUME DiscoveryInv, NEW t \in Task, NEW v \in Video, WriteSample(t, v)
    PROVE  Passing(t, v)
<1>1. At(t, v, "sample") /\ "sample" \in Step /\ UpsertSample(v)
  BY DEF WriteSample, Step
<1>2. /\ tasks[t].kind \in {"evaluation", "ingest", "register"} /\ tasks[t].video = v
      /\ t \in late => tasks[t].kind = "register"
  BY <1>1, Kinds DEF StepsOf, Kind, Manual, Is
<1>3. /\ Others(t) /\ TasksOK' /\ late' \subseteq late /\ late \ {t} \subseteq late'
      /\ \/ Moves(t, "recheck") /\ tasks[t].kind = "evaluation"
         \/ Moves(t, "track") /\ tasks[t].kind = "ingest"
         \/ tasks'[t].pc = "idle" /\ tasks[t].kind = "register" /\ t \notin late'
  <2>1. CASE tasks[t].kind = "evaluation"
    <3>1. Goto(t, "recheck") /\ "recheck" \in Step /\ "recheck" \in StepsOf(tasks[t].kind)
      BY <2>1 DEF WriteSample, Is, Step, StepsOf
    <3> QED BY <2>1, <3>1, GoesTo DEF DiscoveryInv, Moves
  <2>2. CASE tasks[t].kind = "ingest"
    <3>1. Goto(t, "track") /\ "track" \in Step /\ "track" \in StepsOf(tasks[t].kind)
      BY <2>2 DEF WriteSample, Is, Step, StepsOf
    <3> QED BY <2>2, <3>1, GoesTo DEF DiscoveryInv, Moves
  <2>3. CASE tasks[t].kind = "register"
    BY <2>3, Finishes DEF WriteSample, Is, DiscoveryInv
  <2> QED BY <1>2, <2>1, <2>2, <2>3
<1>4. sample'[v] # "none" /\ UNCHANGED <<word, tracking, excused, bare, metadata>>
  BY <1>1, UpsertKeepsLabels DEF WriteSample, KeepRow, DiscoveryInv
<1>5. Allowed(t, v) /\ (tasks'[t].pc # "idle" => tasks'[t].video = v)
  <2>1. CASE Moves(t, "track") /\ tasks[t].kind = "ingest"
    BY <1>2, <1>4, <2>1 DEF Allowed, Moves
  <2>2. CASE Moves(t, "recheck") /\ tasks[t].kind = "evaluation"
    BY <1>2, <1>4, <2>2 DEF Allowed, Moves
  <2>3. CASE tasks'[t].pc = "idle"
    BY <2>3 DEF Allowed
  <2> QED BY <1>3, <2>1, <2>2, <2>3
<1>6. TypeOK'
  BY <1>1, <1>3, <1>4, UpsertKeepsLabels DEF TasksOK, TypeOK, DiscoveryInv
<1>7. \A w \in Video : ~Deciding(t, w) /\ (Registering(t, w) => w = v)
  BY <1>1, <1>2 DEF Deciding, Registering, Is, At
<1>8. t \notin late'
  BY <1>2, <1>3
<1> QED BY <1>1, <1>3, <1>4, <1>5, <1>6, <1>7, <1>8, UpsertKeepsLabels DEF Passing, DiscoveryInv

LEMMA EnsurePasses ==
    ASSUME DiscoveryInv, NEW t \in Task, NEW v \in Video, EnsureSample(t, v)
    PROVE  Passing(t, v)
<1>1. At(t, v, "ensure") /\ "ensure" \in Step
  BY DEF EnsureSample, Step
<1>2. /\ tasks[t].kind \in {"ingest", "register"} /\ tasks[t].video = v
      /\ t \in late => tasks[t].kind = "register"
  BY <1>1, Kinds DEF StepsOf, Kind, Manual, Is
<1>3. /\ Others(t) /\ TasksOK' /\ late' \subseteq late /\ late \ {t} \subseteq late'
      /\ \/ Moves(t, "sample") /\ late' = late
         \/ Moves(t, "track") /\ tasks[t].kind = "ingest" /\ sample[v] # "none" /\ late' = late
         \/ tasks'[t].pc = "idle" /\ sample[v] # "none" /\ t \notin late'
  <2>1. CASE sample[v] = "none"
    <3>1. Goto(t, "sample") /\ "sample" \in Step /\ "sample" \in StepsOf(tasks[t].kind)
      BY <1>2, <2>1 DEF EnsureSample, Step, StepsOf
    <3> QED BY <2>1, <3>1, GoesTo DEF DiscoveryInv, Moves
  <2>2. CASE sample[v] # "none" /\ tasks[t].kind = "ingest"
    <3>1. Goto(t, "track") /\ "track" \in Step /\ "track" \in StepsOf(tasks[t].kind)
      BY <2>2 DEF EnsureSample, Is, Step, StepsOf
    <3> QED BY <2>2, <3>1, GoesTo DEF DiscoveryInv, Moves
  <2>3. CASE sample[v] # "none" /\ tasks[t].kind = "register"
    BY <2>3, Finishes DEF EnsureSample, Is, DiscoveryInv
  <2> QED BY <1>2, <2>1, <2>2, <2>3
<1>4. UNCHANGED <<sample, word, tracking, excused, bare, metadata>>
  BY DEF EnsureSample, KeepSample, KeepRow
<1>5. Allowed(t, v) /\ (tasks'[t].pc # "idle" => tasks'[t].video = v)
  BY <1>2, <1>3, <1>4 DEF Allowed, Moves
<1>6. TypeOK'
  BY <1>3, <1>4 DEF TasksOK, TypeOK, DiscoveryInv
<1>7. \A w \in Video : ~Deciding(t, w) /\ (Registering(t, w) => w = v)
  BY <1>1, <1>2 DEF Deciding, Registering, Is, At
<1>8. Registering(t, v) => Registering(t, v)' \/ sample'[v] # "none"
  BY <1>2, <1>3, <1>4 DEF Registering, Moves, Is, At
<1>9. t \in late' => Registering(t, v)'
  BY <1>2, <1>3 DEF Registering, Moves, Is, At
<1> QED BY <1>3, <1>4, <1>5, <1>6, <1>7, <1>8, <1>9 DEF Passing

LEMMA FindPasses ==
    ASSUME DiscoveryInv, NEW t \in Task, NEW v \in Video, Find(t, v)
    PROVE  Passing(t, v)
<1>1. At(t, v, "find") /\ "find" \in Step
  BY DEF Find, Step
<1>2. /\ tasks[t].kind \in {"untrack", "snapshot", "promote"} /\ tasks[t].video = v /\ t \notin late
  BY <1>1, Kinds DEF StepsOf, Kind, Manual, Is
<1>3. /\ Others(t) /\ TasksOK' /\ late' = late
      /\ \/ \E step \in {"label", "lookup"} : Moves(t, step)
         \/ Moves(t, "track") /\ tasks[t].kind = "promote" /\ v \in tracking
         \/ tasks'[t].pc = "idle"
  <2>1. CASE Finish(t)
    BY <1>2, <2>1, Finishes DEF DiscoveryInv
  <2>2. CASE tasks[t].kind = "promote" /\ v \in tracking /\ Goto(t, "track")
    <3>1. "track" \in Step /\ "track" \in StepsOf(tasks[t].kind)
      BY <2>2 DEF Step, StepsOf
    <3> QED BY <2>2, <3>1, GoesTo DEF DiscoveryInv, Moves
  <2>3. CASE tasks[t].kind = "untrack" /\ Goto(t, "label")
    <3>1. "label" \in Step /\ "label" \in StepsOf(tasks[t].kind)
      BY <2>3 DEF Step, StepsOf
    <3> QED BY <2>3, <3>1, GoesTo DEF DiscoveryInv, Moves
  <2>4. CASE tasks[t].kind = "snapshot" /\ Goto(t, "lookup")
    <3>1. "lookup" \in Step /\ "lookup" \in StepsOf(tasks[t].kind)
      BY <2>4 DEF Step, StepsOf
    <3> QED BY <2>4, <3>1, GoesTo DEF DiscoveryInv, Moves
  <2> QED BY <2>1, <2>2, <2>3, <2>4 DEF Find, Is
<1>4. UNCHANGED <<sample, word, tracking, excused, bare, metadata>>
  BY DEF Find, KeepSample, KeepRow
<1>5. Allowed(t, v) /\ (tasks'[t].pc # "idle" => tasks'[t].video = v)
  BY <1>2, <1>3, <1>4 DEF Allowed, Moves
<1>6. TypeOK'
  BY <1>3, <1>4 DEF TasksOK, TypeOK, DiscoveryInv
<1>7. \A w \in Video : ~Deciding(t, w) /\ ~Registering(t, w)
  BY <1>1 DEF Deciding, Registering, At
<1> QED BY <1>2, <1>3, <1>4, <1>5, <1>6, <1>7 DEF Passing

LEMMA LookupPasses ==
    ASSUME DiscoveryInv, NEW t \in Task, NEW v \in Video, Lookup(t, v)
    PROVE  Passing(t, v)
<1>1. At(t, v, "lookup") /\ "lookup" \in Step
  BY DEF Lookup, Step
<1>2. /\ tasks[t].kind \in {"register", "snapshot"} /\ tasks[t].video = v
      /\ t \in late => tasks[t].kind = "register"
  BY <1>1, Kinds DEF StepsOf, Kind, Manual, Is
<1>3. /\ Others(t) /\ TasksOK' /\ late' \subseteq late /\ late \ {t} \subseteq late'
      /\ \/ Moves(t, "ensure") /\ tasks[t].kind = "register"
         \/ Moves(t, "track") /\ tasks[t].kind = "snapshot"
         \/ tasks'[t].pc = "idle" /\ t \notin late' /\ v \notin metadata
  <2>1. CASE v \notin metadata
    BY <2>1, Finishes DEF Lookup, DiscoveryInv
  <2>2. CASE v \in metadata /\ tasks[t].kind = "snapshot"
    <3>1. Goto(t, "track") /\ "track" \in Step /\ "track" \in StepsOf(tasks[t].kind)
      BY <2>2 DEF Lookup, Is, Step, StepsOf
    <3> QED BY <2>2, <3>1, GoesTo DEF DiscoveryInv, Moves
  <2>3. CASE v \in metadata /\ tasks[t].kind = "register"
    <3>1. Goto(t, "ensure") /\ "ensure" \in Step /\ "ensure" \in StepsOf(tasks[t].kind)
      BY <2>3 DEF Lookup, Is, Step, StepsOf
    <3> QED BY <2>3, <3>1, GoesTo DEF DiscoveryInv, Moves
  <2> QED BY <1>2, <2>1, <2>2, <2>3
<1>4. /\ UNCHANGED <<sample, word, tracking, excused, metadata>>
      /\ bare \subseteq bare' /\ bare' \subseteq Video
      /\ v \notin metadata /\ tasks[t].kind = "register" => v \in bare'
  BY DEF Lookup, KeepSample, KeepRow, Is, DiscoveryInv, TypeOK
<1>5. Allowed(t, v) /\ (tasks'[t].pc # "idle" => tasks'[t].video = v)
  BY <1>2, <1>3, <1>4 DEF Allowed, Moves
<1>6. TypeOK'
  BY <1>3, <1>4 DEF TasksOK, TypeOK, DiscoveryInv
<1>7. \A w \in Video : ~Deciding(t, w) /\ (Registering(t, w) => w = v /\ tasks[t].kind = "register")
  BY <1>1, <1>2 DEF Deciding, Registering, Is, At
<1>8. Registering(t, v) => Registering(t, v)' \/ v \in bare'
  BY <1>2, <1>3, <1>4, <1>7 DEF Registering, Moves, Is, At
<1>9. t \in late' => Registering(t, v)'
  BY <1>2, <1>3 DEF Registering, Moves, Is, At
<1> QED BY <1>3, <1>4, <1>5, <1>6, <1>7, <1>8, <1>9 DEF Passing

LEMMA CutShortPasses ==
    ASSUME DiscoveryInv, NEW t \in Task, NEW v \in Video, CutShort(t, v)
    PROVE  Passing(t, v)
<1>1. tasks'[t].pc = "idle" /\ Others(t) /\ TasksOK' /\ late' = late \ {t}
  BY Finishes DEF CutShort, DiscoveryInv
<1>2. /\ UNCHANGED <<sample, word, tracking, metadata>>
      /\ excused \subseteq excused' /\ excused' \subseteq Video
      /\ bare \subseteq bare' /\ bare' \subseteq Video
      /\ Deciding(t, v) /\ t \notin late => v \in excused'
      /\ Registering(t, v) => v \in bare'
  BY DEF CutShort, KeepSample, DiscoveryInv, TypeOK
<1>3. \A w \in Video : Deciding(t, w) \/ Registering(t, w) => w = v
  BY DEF Deciding, Registering, At, CutShort
<1>4. TypeOK'
  BY <1>1, <1>2 DEF TasksOK, TypeOK, DiscoveryInv
<1> QED BY <1>1, <1>2, <1>3, <1>4 DEF Passing, Allowed

-----------------------------------------------------------------------------
(* The deciding actions *)

LEMMA TrackInv ==
    ASSUME DiscoveryInv, NEW t \in Task, NEW v \in Video, Track(t, v)
    PROVE  DiscoveryInv'
<1>1. At(t, v, "track") /\ "track" \in Step /\ tracking' = tracking \cup {v}
  BY DEF Track, Step
<1>2. tasks[t].kind \in {"evaluation", "keep"} \cup Manual /\ tasks[t].video = v
  BY <1>1, Kinds DEF StepsOf, Kind, Manual
<1>3. /\ Others(t) /\ TasksOK' /\ late' \subseteq late /\ late \ {t} \subseteq late'
      /\ \/ Moves(t, "lookup") /\ tasks[t].kind = "register"
         \/ tasks'[t].pc = "idle" /\ tasks[t].kind # "register" /\ t \notin late'
  <2>1. CASE tasks[t].kind = "register"
    <3>1. Goto(t, "lookup") /\ "lookup" \in Step /\ "lookup" \in StepsOf(tasks[t].kind)
      BY <2>1 DEF Track, Is, Step, StepsOf
    <3> QED BY <2>1, <3>1, GoesTo DEF DiscoveryInv, Moves
  <2>2. CASE tasks[t].kind # "register"
    BY <2>2, Finishes DEF Track, Is, DiscoveryInv
  <2> QED BY <2>1, <2>2
<1>4. UNCHANGED <<sample, word, metadata>>
  BY DEF Track, KeepSample
<1>5. /\ bare \subseteq bare' /\ bare' \subseteq Video
      /\ tasks[t].kind = "snapshot" => v \in bare'
  BY DEF Track, Is, DiscoveryInv, TypeOK
<1>6. /\ excused' \subseteq Video /\ \A w \in Video \ {v} : w \in excused' <=> w \in excused
      /\ tasks[t].kind \in Manual \/ t \in late => v \in excused'
      /\ v \in excused /\ v \notin excused' => tasks[t].kind = "keep" /\ t \notin late
  BY DEF Track, Is, DiscoveryInv, TypeOK
<1>7. TypeOK'
  BY <1>1, <1>3, <1>4, <1>5, <1>6 DEF TasksOK, TypeOK, DiscoveryInv
<1>8. SampleHoldsWord'
  BY <1>4 DEF SampleHoldsWord, DiscoveryInv
<1>9. DecidersObey'
  BY <1>3, <1>4 DEF DecidersObey, DiscoveryInv, Others, Moves, At, Is
<1>10. LateSteps'
  BY <1>3, <1>7 DEF LateSteps, DiscoveryInv, Others, Moves, Is, TypeOK
<1>11. SampleBeforeRow'
  BY <1>3, <1>4 DEF SampleBeforeRow, DiscoveryInv, Others, Moves, At, Is
<1>12. \A u \in Task, w \in Video : Registering(u, w) => Registering(u, w)'
  BY <1>1, <1>3 DEF Registering, Others, Moves, At, Is
<1>13. PromotesRow'
  <2> SUFFICES ASSUME NEW u \in Task, NEW w \in Video,
                      At(u, w, "track")', Is(u, {"promote"})', w \notin bare'
               PROVE  sample'[w] # "none" \/ \E q \in Task : Registering(q, w)'
    BY DEF PromotesRow
  <2>1. At(u, w, "track") /\ Is(u, {"promote"})
    BY <1>3 DEF Others, Moves, At, Is
  <2> QED BY <1>4, <1>5, <1>12, <2>1 DEF PromotesRow, DiscoveryInv
<1>14. TrackedHasSample'
  <2> SUFFICES ASSUME NEW w \in Video, w \in tracking', w \notin bare'
               PROVE  sample'[w] # "none" \/ \E q \in Task : Registering(q, w)'
    BY DEF TrackedHasSample
  <2>1. CASE w \in tracking
    BY <1>4, <1>5, <1>12, <2>1 DEF TrackedHasSample, DiscoveryInv
  <2>2. CASE w = v
    <3>1. CASE tasks[t].kind \in {"evaluation", "keep", "ingest"}
      BY <1>1, <1>4, <2>2, <3>1 DEF SampleBeforeRow, DiscoveryInv, Is
    <3>2. CASE tasks[t].kind = "promote"
      BY <1>1, <1>4, <1>5, <1>12, <2>2, <3>2 DEF PromotesRow, DiscoveryInv, Is
    <3>3. CASE tasks[t].kind = "register"
      BY <1>2, <1>3, <2>2, <3>3 DEF Registering, Moves, At, Is
    <3> QED BY <1>2, <1>5, <2>2, <3>1, <3>2, <3>3 DEF Manual
  <2> QED BY <1>1, <2>1, <2>2
<1>15. LastWordStands'
  <2> SUFFICES ASSUME NEW w \in Video, w \notin excused', ~Pending(w)'
               PROVE  /\ word'[w] = "rejected" => w \notin tracking'
                      /\ word'[w] = "kept" => w \in tracking'
    BY DEF LastWordStands
  <2>1. CASE w = v
    <3>1. t \notin late /\ tasks[t].kind \in {"evaluation", "keep"}
      BY <1>2, <1>6, <2>1
    <3>2. word[v] # "rejected"
      BY <1>1, <3>1 DEF DecidersObey, DiscoveryInv, Is
    <3> QED BY <1>1, <1>4, <2>1, <3>2
  <2>2. CASE w # v
    <3>1. ~Pending(w)
      BY <1>1, <1>3, <2>2 DEF Pending, Deciding, Others, At, Is
    <3> QED BY <1>1, <1>4, <1>6, <2>2, <3>1 DEF LastWordStands, DiscoveryInv
  <2> QED BY <2>1, <2>2
<1> QED BY <1>7, <1>8, <1>9, <1>10, <1>11, <1>13, <1>14, <1>15 DEF DiscoveryInv

LEMMA DeleteInv ==
    ASSUME DiscoveryInv, NEW t \in Task, NEW v \in Video, Delete(t, v)
    PROVE  DiscoveryInv'
<1>1. At(t, v, "delete") /\ "delete" \in Step /\ tracking' = tracking \ {v}
  BY DEF Delete, Step
<1>2. tasks'[t].pc = "idle" /\ Others(t) /\ TasksOK' /\ late' = late \ {t}
  BY Finishes DEF Delete, DiscoveryInv
<1>3. UNCHANGED <<sample, word, metadata, bare>>
  BY DEF Delete, KeepSample
<1>4. /\ excused' \subseteq Video /\ \A w \in Video \ {v} : w \in excused' <=> w \in excused
      /\ t \in late => v \in excused'
  BY DEF Delete, DiscoveryInv, TypeOK
<1>5. \A u \in Task, w \in Video : Registering(u, w) => Registering(u, w)'
  BY <1>1, <1>2, Kinds DEF Registering, Others, At, Is
<1>6. TypeOK'
  BY <1>1, <1>2, <1>3, <1>4 DEF TasksOK, TypeOK, DiscoveryInv
<1>7. SampleHoldsWord'
  BY <1>3 DEF SampleHoldsWord, DiscoveryInv
<1>8. DecidersObey'
  BY <1>2, <1>3 DEF DecidersObey, DiscoveryInv, Others, At, Is
<1>9. LateSteps'
  BY <1>2, <1>6 DEF LateSteps, DiscoveryInv, Others, Is, TypeOK
<1>10. SampleBeforeRow'
  BY <1>2, <1>3 DEF SampleBeforeRow, DiscoveryInv, Others, At, Is
<1>11. PromotesRow'
  BY <1>2, <1>3, <1>5 DEF PromotesRow, DiscoveryInv, Others, At, Is
<1>12. TrackedHasSample'
  BY <1>1, <1>3, <1>5 DEF TrackedHasSample, DiscoveryInv
<1>13. LastWordStands'
  <2> SUFFICES ASSUME NEW w \in Video, w \notin excused', ~Pending(w)'
               PROVE  /\ word'[w] = "rejected" => w \notin tracking'
                      /\ word'[w] = "kept" => w \in tracking'
    BY DEF LastWordStands
  <2>1. CASE w = v
    <3>1. word[v] = "rejected"
      BY <1>1, <1>4, <2>1 DEF DecidersObey, DiscoveryInv
    <3> QED BY <1>1, <1>3, <2>1, <3>1
  <2>2. CASE w # v
    <3>1. ~Pending(w)
      BY <1>1, <1>2, <2>2 DEF Pending, Deciding, Others, At, Is
    <3> QED BY <1>1, <1>3, <1>4, <2>2, <3>1 DEF LastWordStands, DiscoveryInv
  <2> QED BY <2>1, <2>2
<1> QED BY <1>6, <1>7, <1>8, <1>9, <1>10, <1>11, <1>12, <1>13 DEF DiscoveryInv

LEMMA LookInv ==
    ASSUME DiscoveryInv, NEW t \in Task, NEW v \in Video, Look(t, v)
    PROVE  DiscoveryInv'
<1>1. At(t, v, "look") /\ "look" \in Step
  BY DEF Look, Step
<1>2. tasks[t].kind = "keep" /\ tasks[t].video = v
  BY <1>1, Kinds DEF StepsOf, Kind, Manual
<1>3. /\ Others(t) /\ TasksOK' /\ late' \subseteq late /\ late \ {t} \subseteq late'
      /\ \/ Moves(t, "track") /\ late' = late /\ excused' = excused /\ v \notin tracking
         \/ tasks'[t].pc = "idle" /\ t \notin late' /\ v \in tracking
  <2>1. CASE v \in tracking
    BY <2>1, Finishes DEF Look, DiscoveryInv
  <2>2. CASE v \notin tracking
    <3>1. Goto(t, "track") /\ "track" \in Step /\ "track" \in StepsOf(tasks[t].kind)
      BY <1>2, <2>2 DEF Look, Step, StepsOf
    <3> QED BY <2>2, <3>1, GoesTo DEF Look, DiscoveryInv, Moves
  <2> QED BY <2>1, <2>2
<1>4. UNCHANGED <<sample, word, metadata, bare, tracking>>
  BY DEF Look, KeepSample
<1>5. /\ excused' \subseteq Video /\ \A w \in Video \ {v} : w \in excused' <=> w \in excused
      /\ v \in excused /\ v \notin excused' => t \notin late
  BY DEF Look, DiscoveryInv, TypeOK
<1>6. \A u \in Task, w \in Video : Registering(u, w) => Registering(u, w)'
  BY <1>1, <1>3 DEF Registering, Others, At, Is
<1>7. t \notin late => word[v] = "kept"
  BY <1>1 DEF DecidersObey, DiscoveryInv
<1>8. sample[v] # "none"
  BY <1>1 DEF SampleBeforeRow, DiscoveryInv
<1>9. TypeOK'
  BY <1>3, <1>4, <1>5 DEF TasksOK, TypeOK, DiscoveryInv
<1>10. SampleHoldsWord'
  BY <1>4 DEF SampleHoldsWord, DiscoveryInv
<1>11. DecidersObey'
  BY <1>2, <1>3, <1>4, <1>7 DEF DecidersObey, DiscoveryInv, Others, Moves, At, Is
<1>12. LateSteps'
  BY <1>3, <1>9 DEF LateSteps, DiscoveryInv, Others, Moves, Is, TypeOK
<1>13. SampleBeforeRow'
  BY <1>2, <1>3, <1>4, <1>8 DEF SampleBeforeRow, DiscoveryInv, Others, Moves, At, Is
<1>14. PromotesRow'
  BY <1>2, <1>3, <1>4, <1>6 DEF PromotesRow, DiscoveryInv, Others, Moves, At, Is
<1>15. TrackedHasSample'
  BY <1>4, <1>6 DEF TrackedHasSample, DiscoveryInv
<1>16. LastWordStands'
  <2> SUFFICES ASSUME NEW w \in Video, w \notin excused', ~Pending(w)'
               PROVE  /\ word'[w] = "rejected" => w \notin tracking'
                      /\ word'[w] = "kept" => w \in tracking'
    BY DEF LastWordStands
  <2>1. CASE w = v /\ t \notin late
    <3>1. v \in tracking
      BY <1>2, <1>3, <2>1 DEF Pending, Deciding, Moves, At, Is
    <3> QED BY <1>4, <1>7, <2>1, <3>1
  <2>2. CASE w # v \/ t \in late
    <3>1. w \notin excused
      BY <1>5, <2>2
    <3>2. ~Pending(w)
      BY <1>1, <1>3, <2>2 DEF Pending, Deciding, Others, At, Is
    <3> QED BY <1>4, <3>1, <3>2 DEF LastWordStands, DiscoveryInv
  <2> QED BY <2>1, <2>2
<1> QED BY <1>9, <1>10, <1>11, <1>12, <1>13, <1>14, <1>15, <1>16 DEF DiscoveryInv

\* A label that finds no sample ends the task, any other makes the word.
LEMMA RecordLabelCases ==
    ASSUME DiscoveryInv, NEW t \in Task, NEW v \in Video, RecordLabel(t, v)
    PROVE  \/ Passing(t, v)
           \/ \E label \in Label :
                /\ sample[v] # "none" /\ TypeOK' /\ t \notin late'
                /\ \/ label = "kept" /\ Moves(t, "look") /\ tasks[t].kind = "keep"
                   \/ label = "rejected" /\ Moves(t, "delete") /\ tasks[t].kind \in {"reject", "untrack"}
                /\ sample' = [sample EXCEPT ![v] = label] /\ word' = [word EXCEPT ![v] = label]
                /\ late' = late \cup {u \in Task : Contrary(u, v, label)}
<1>1. At(t, v, "label") /\ "label" \in Step
  BY DEF RecordLabel, Step
<1>2. tasks[t].kind \in {"reject", "untrack", "keep"} /\ tasks[t].video = v /\ t \notin late
  BY <1>1, Kinds DEF StepsOf, Kind, Manual
<1>3. UNCHANGED <<tracking, excused, metadata, bare>>
  BY DEF RecordLabel, KeepRow
<1>4. CASE sample[v] = "none"
  <2>1. Finish(t) /\ UNCHANGED <<sample, word>>
    BY <1>4 DEF RecordLabel, KeepSample
  <2>2. tasks'[t].pc = "idle" /\ Others(t) /\ TasksOK' /\ late' = late
    BY <1>2, <2>1, Finishes DEF DiscoveryInv
  <2>3. TypeOK'
    BY <1>3, <2>1, <2>2 DEF TasksOK, TypeOK, DiscoveryInv
  <2>4. \A w \in Video : ~Deciding(t, w) /\ ~Registering(t, w)
    BY <1>1 DEF Deciding, Registering, At
  <2> QED BY <1>2, <1>3, <2>1, <2>2, <2>3, <2>4 DEF Passing, Allowed
<1>5. CASE sample[v] # "none"
  <2> DEFINE label == IF Is(t, {"keep"}) THEN "kept" ELSE "rejected"
             next == IF Is(t, {"keep"}) THEN "look" ELSE "delete"
  <2>1. /\ sample' = [sample EXCEPT ![v] = label] /\ word' = [word EXCEPT ![v] = label]
        /\ tasks' = [tasks EXCEPT ![t].pc = next]
        /\ late' = late \cup {u \in Task : Contrary(u, v, label)}
    BY <1>5 DEF RecordLabel
  <2>2. /\ label \in Label /\ next \in Step /\ next \in StepsOf(tasks[t].kind)
        /\ \/ label = "kept" /\ next = "look" /\ tasks[t].kind = "keep"
           \/ label = "rejected" /\ next = "delete" /\ tasks[t].kind \in {"reject", "untrack"}
    BY <1>2 DEF Is, Label, Step, StepsOf
  <2> HIDE DEF label, next
  <2>3. Moves(t, next) /\ TasksOK'
    BY <2>1, <2>2, SetStep DEF DiscoveryInv
  <2>4. TypeOK'
    BY <1>3, <2>1, <2>2, <2>3 DEF TasksOK, TypeOK, DiscoveryInv
  <2>5. t \notin late'
    BY <1>1, <1>2, <2>1, <2>2 DEF Contrary, At
  <2> QED BY <1>5, <2>1, <2>2, <2>3, <2>4, <2>5
<1> QED BY <1>4, <1>5

LEMMA RecordLabelInv ==
    ASSUME DiscoveryInv, NEW t \in Task, NEW v \in Video, RecordLabel(t, v)
    PROVE  DiscoveryInv'
<1>1. CASE Passing(t, v)
  BY <1>1, PassingInv
<1>2. ASSUME NEW label \in Label,
             sample[v] # "none" /\ TypeOK' /\ t \notin late',
             \/ label = "kept" /\ Moves(t, "look") /\ tasks[t].kind = "keep"
             \/ label = "rejected" /\ Moves(t, "delete") /\ tasks[t].kind \in {"reject", "untrack"},
             sample' = [sample EXCEPT ![v] = label] /\ word' = [word EXCEPT ![v] = label],
             late' = late \cup {u \in Task : Contrary(u, v, label)}
      PROVE  DiscoveryInv'
  <2>1. At(t, v, "label") /\ tasks[t].video = v /\ UNCHANGED <<tracking, excused, metadata, bare>>
    BY DEF RecordLabel, KeepRow, At
  <2>2. /\ sample'[v] = label /\ word'[v] = label
        /\ \A w \in Video \ {v} : sample'[w] = sample[w] /\ word'[w] = word[w]
    BY <1>2 DEF DiscoveryInv, TypeOK
  <2>3. Others(t) /\ tasks'[t].kind = tasks[t].kind /\ tasks'[t].video = v
        /\ tasks'[t].pc = IF label = "kept" THEN "look" ELSE "delete"
    BY <1>2, <2>1 DEF Moves
  <2>4. SampleHoldsWord'
    BY <2>2 DEF SampleHoldsWord, DiscoveryInv
  <2>5. DecidersObey'
    <3> SUFFICES ASSUME NEW u \in Task \ late', NEW w \in Video
                 PROVE  /\ At(u, w, "delete")' => word'[w] = "rejected"
                        /\ At(u, w, "look")' \/ (At(u, w, "track")' /\ Is(u, {"keep"})') => word'[w] = "kept"
                        /\ At(u, w, "track")' /\ Is(u, {"evaluation"})' => word'[w] # "rejected"
      BY DEF DecidersObey
    <3>1. CASE u = t
      BY <1>2, <2>2, <2>3, <3>1 DEF At, Is
    <3>2. CASE u # t /\ w # v
      BY <1>2, <2>2, <2>3, <3>2 DEF DecidersObey, DiscoveryInv, Others, At, Is
    <3>3. CASE u # t /\ w = v
      <4>1. ~Contrary(u, v, label) /\ tasks'[u] = tasks[u]
        BY <1>2, <2>3, <3>3 DEF Others
      <4> QED BY <1>2, <2>2, <3>3, <4>1 DEF Contrary, Label, At, Is
    <3> QED BY <3>1, <3>2, <3>3
  <2>6. LateSteps'
    BY <1>2, <2>3 DEF LateSteps, DiscoveryInv, Others, Contrary, At, Is, TypeOK
  <2>7. SampleBeforeRow'
    BY <1>2, <2>2, <2>3 DEF SampleBeforeRow, DiscoveryInv, Others, At, Is, Label
  <2>8. \A u \in Task, w \in Video : Registering(u, w) => Registering(u, w)'
    BY <2>1, <2>3 DEF Registering, Others, At, Is
  <2>9. \A w \in Video : sample[w] # "none" => sample'[w] # "none"
    BY <2>2 DEF Label
  <2>10. PromotesRow'
    BY <2>1, <2>3, <2>8, <2>9 DEF PromotesRow, DiscoveryInv, Others, At, Is
  <2>11. TrackedHasSample'
    BY <2>1, <2>8, <2>9 DEF TrackedHasSample, DiscoveryInv
  <2>12. LastWordStands'
    <3> SUFFICES ASSUME NEW w \in Video, w \notin excused', ~Pending(w)'
                 PROVE  /\ word'[w] = "rejected" => w \notin tracking'
                        /\ word'[w] = "kept" => w \in tracking'
      BY DEF LastWordStands
    <3>1. w # v
      BY <1>2, <2>3 DEF Pending, Deciding, At, Is
    <3>2. ~Pending(w)
      BY <1>2, <2>1, <2>3, <3>1 DEF Pending, Deciding, Others, Contrary, At, Is
    <3> QED BY <2>1, <2>2, <3>1, <3>2 DEF LastWordStands, DiscoveryInv
  <2> QED BY <1>2, <2>4, <2>5, <2>6, <2>7, <2>10, <2>11, <2>12 DEF DiscoveryInv
<1> QED BY <1>1, <1>2, RecordLabelCases

-----------------------------------------------------------------------------
(* The theorems *)

LEMMA InvInit == Init => DiscoveryInv
<1> SUFFICES ASSUME Init PROVE DiscoveryInv
  OBVIOUS
<1>1. \A t \in Task : tasks[t] = Idle
  BY DEF Init
<1>2. \A t \in Task : tasks[t].pc = "idle"
  BY <1>1, IdleTask
<1>3. TypeOK
  BY <1>1, <1>2, IdleTask DEF Init, TypeOK
<1>4. SampleHoldsWord /\ LateSteps /\ LastWordStands /\ TrackedHasSample
  BY DEF Init, SampleHoldsWord, Label, LateSteps, LastWordStands, TrackedHasSample
<1>5. DecidersObey /\ SampleBeforeRow /\ PromotesRow
  BY <1>2 DEF DecidersObey, SampleBeforeRow, PromotesRow, At
<1> QED BY <1>3, <1>4, <1>5 DEF DiscoveryInv

\* Every step of the system passes, decides, or only writes metadata.
LEMMA StepCases ==
    ASSUME DiscoveryInv, Next
    PROVE  \/ \E t \in Task, v \in Video :
                \/ Passing(t, v) \/ Track(t, v) \/ RecordLabel(t, v) \/ Delete(t, v) \/ Look(t, v)
           \/ \E v \in Video : OtherMetadata(v)
<1>1. ASSUME NEW t \in Task, NEW v \in Video, NEW kind \in Kind, Begin(t, kind, v)
      PROVE  Passing(t, v)
  BY <1>1, BeginPasses
<1>2. ASSUME NEW t \in Task, NEW v \in Video,
             \/ EvalKnown(t, v) \/ EvalFetch(t, v) \/ EvalRecheck(t, v)
             \/ EvalDiscard(t, v) \/ EvalGone(t, v) \/ EvalRestatus(t, v)
             \/ EvalPark(t, v) \/ EvalArchive(t, v)
      PROVE  Passing(t, v)
  BY <1>2, EvaluationPasses
<1>3. ASSUME NEW t \in Task, NEW v \in Video,
             \/ EvalRecord(t, v) \/ WriteMetadata(t, v) \/ WriteSample(t, v) \/ EnsureSample(t, v)
             \/ Find(t, v) \/ Lookup(t, v) \/ CutShort(t, v)
      PROVE  Passing(t, v)
  BY <1>3, RecordPasses, MetadataPasses, SamplePasses, EnsurePasses, FindPasses, LookupPasses,
     CutShortPasses
<1> QED BY <1>1, <1>2, <1>3 DEF Next

LEMMA InvStep == DiscoveryInv /\ [Next]_vars => DiscoveryInv'
<1> SUFFICES ASSUME DiscoveryInv, [Next]_vars PROVE DiscoveryInv'
  OBVIOUS
<1>1. CASE Next
  <2>1. ASSUME NEW v \in Video, OtherMetadata(v) PROVE DiscoveryInv'
    <3>1. UNCHANGED <<sample, tracking, tasks, word, late, excused, bare>> /\ metadata' \subseteq Video
      BY <2>1 DEF OtherMetadata, KeepSample, KeepRow, DiscoveryInv, TypeOK
    <3> QED BY <3>1 DEF DiscoveryInv, TypeOK, SampleHoldsWord, DecidersObey, LateSteps, SampleBeforeRow,
                        PromotesRow, LastWordStands, TrackedHasSample, Pending, Deciding, Registering,
                        At, Is
  <2> QED BY <1>1, <2>1, StepCases, PassingInv, TrackInv, RecordLabelInv, DeleteInv, LookInv
<1>2. CASE UNCHANGED vars
  BY <1>2 DEF vars, DiscoveryInv, TypeOK, SampleHoldsWord, DecidersObey, LateSteps, SampleBeforeRow,
              PromotesRow, LastWordStands, TrackedHasSample, Pending, Deciding, Registering, At, Is
<1> QED BY <1>1, <1>2

\* The inductive invariant holds in every reachable state.
THEOREM DiscoveryInvAlways == Spec => []DiscoveryInv
<1> QED BY InvInit, InvStep, PTL DEF Spec

\* Every task only comes to the steps of its kind, whatever runs beside it.
THEOREM TypeCorrect == Spec => []TypeOK
<1>1. DiscoveryInv => TypeOK
  BY DEF DiscoveryInv
<1> QED BY <1>1, DiscoveryInvAlways, PTL

\* label, evaluate and untrack together: a rejected video is untracked and a kept one tracked, but
\* for rows that were added by hand, left behind by a failure or raced in the last step.
THEOREM LastWordStandsAlways == Spec => []LastWordStands
<1>1. DiscoveryInv => LastWordStands
  BY DEF DiscoveryInv
<1> QED BY <1>1, DiscoveryInvAlways, PTL

\* ensureManualSample and the evaluator: a tracked video has a sample to be labelled.
THEOREM TrackedHasSampleAlways == Spec => []TrackedHasSample
<1>1. DiscoveryInv => TrackedHasSample
  BY DEF DiscoveryInv
<1> QED BY <1>1, DiscoveryInvAlways, PTL

\* upsertSample: a label that a human has given is replaced by another label alone.
THEOREM LabelsKeptAlways == Spec => LabelsKept
<1>1. ASSUME DiscoveryInv, [Next]_vars, NEW v \in Video, sample'[v] # sample[v]
      PROVE  word'[v] = sample'[v] \/ word'[v] = "none"
  <2>1. Next
    BY <1>1 DEF vars
  <2>2. ASSUME NEW t \in Task, NEW w \in Video, Passing(t, w)
        PROVE  word'[v] = "none"
    BY <1>1, <2>2 DEF Passing, DiscoveryInv, SampleHoldsWord, TypeOK, Label
  <2>3. ASSUME NEW t \in Task, NEW w \in Video, RecordLabel(t, w), ~Passing(t, w)
        PROVE  word'[v] = sample'[v]
    <3>1. PICK label \in Label :
            sample' = [sample EXCEPT ![w] = label] /\ word' = [word EXCEPT ![w] = label]
      BY <1>1, <2>3, RecordLabelCases
    <3> QED BY <1>1, <3>1 DEF DiscoveryInv, TypeOK
  <2>4. ASSUME NEW t \in Task, NEW w \in Video, Track(t, w) \/ Delete(t, w) \/ Look(t, w)
        PROVE  FALSE
    BY <1>1, <2>4 DEF Track, Delete, Look, KeepSample
  <2>5. ASSUME NEW w \in Video, OtherMetadata(w)
        PROVE  FALSE
    BY <1>1, <2>5 DEF OtherMetadata, KeepSample
  <2> QED BY <1>1, <2>1, <2>2, <2>3, <2>4, <2>5, StepCases
<1>2. DiscoveryInv /\ [Next]_vars =>
        [\A v \in Video : sample'[v] # sample[v] => word'[v] = sample'[v] \/ word'[v] = "none"]_vars
  BY <1>1
<1> QED BY <1>2, DiscoveryInvAlways, PTL DEF LabelsKept, Spec

-----------------------------------------------------------------------------
(*                        The schedule                                     *)

-----------------------------------------------------------------------------
(* Numbers: products, quotients, and extreme elements. *)

LEMMA Products ==
    ASSUME NEW a \in Int, NEW b \in Int, NEW c \in Int
    PROVE  /\ a * c \in Int
           /\ a <= b /\ 0 <= c => a * c <= b * c
           /\ a * c < b * c /\ 0 <= c => a < b
OBVIOUS

\* An order on a finite set has a first element.
LEMMA First ==
    ASSUME NEW S, IsFiniteSet(S), S # {}, NEW R,
           \A x, y \in S : <<x, y>> \in R \/ <<y, x>> \in R,
           \A x, y, z \in S : <<x, y>> \in R /\ <<y, z>> \in R => <<x, z>> \in R
    PROVE  \E x \in S : \A y \in S : <<x, y>> \in R
<1> DEFINE Has(U) == \E x \in U : \A y \in U : <<x, y>> \in R
           T == {U \in SUBSET S : U # {} /\ ~Has(U)}
<1>1. IsWellFoundedOn(StrictSubsetOrdering(S), SUBSET S)
  BY FS_StrictSubsetOrderingWellFounded, FS_FiniteSubsetsOfFinite
<1>2. ASSUME T # {}
      PROVE  FALSE
  <2>1. \E U \in T : \A V \in T : <<V, U>> \notin StrictSubsetOrdering(S)
    <3> HIDE DEF Has
    <3>1. T \subseteq SUBSET S
      OBVIOUS
    <3> HIDE DEF T
    <3> QED
      BY <1>1, <1>2, <3>1, WFMin
  <2>2. PICK U \in T : \A V \in T : <<V, U>> \notin StrictSubsetOrdering(S)
    BY <2>1
  <2>3. PICK x \in U : TRUE
    OBVIOUS
  <2>4. U \ {x} \notin T
    <3>1. U \subseteq S
      OBVIOUS
    <3>2. <<U \ {x}, U>> \in StrictSubsetOrdering(S)
      BY <2>3, <3>1 DEF StrictSubsetOrdering
    <3> HIDE DEF T
    <3> QED
      BY <2>2, <3>2
  <2>5. CASE U \ {x} = {}
    <3>1. \A y \in U : y = x
      BY <2>5
    <3> QED
      BY <2>3, <3>1
  <2>6. CASE Has(U \ {x})
    <3>1. PICK z \in U \ {x} : \A y \in U \ {x} : <<z, y>> \in R
      BY <2>6
    <3>2. \A y \in U : y = x \/ <<z, y>> \in R
      BY <3>1
    <3>3. <<x, x>> \in R
      BY <2>3
    <3> QED
      BY <2>3, <3>1, <3>2, <3>3
  <2> QED
    BY <2>4, <2>5, <2>6
<1> QED
  BY <1>2

LEMMA MinOf ==
    ASSUME NEW S \in SUBSET Nat, S # {}
    PROVE  Min(S) \in S /\ \A x \in S : Min(S) <= x
<1>1. PICK n \in S : TRUE
  OBVIOUS
<1> DEFINE U == {i \in S : i <= n}
           R == {p \in Nat \X Nat : p[1] <= p[2]}
<1>2. IsFiniteSet(U)
  <2>1. n \in Nat /\ U \in SUBSET Nat /\ \A i \in U : i <= n
    BY <1>1
  <2> HIDE DEF U
  <2> QED
    BY <2>1, FS_BoundedSetOfNaturals
<1>3. n \in U /\ U \subseteq Nat
  <2>1. n \in Nat
    BY <1>1
  <2>2. n <= n
    BY <2>1
  <2> QED
    BY <1>1, <2>2
<1>4. \A x, y \in Nat : <<x, y>> \in R <=> x <= y
  OBVIOUS
<1>5. PICK i \in U : \A j \in U : <<i, j>> \in R
  <2> HIDE DEF U, R
  <2>1. ASSUME NEW x \in U, NEW y \in U
        PROVE  <<x, y>> \in R \/ <<y, x>> \in R
    <3>1. x \in Nat /\ y \in Nat
      BY <1>3
    <3>2. x <= y \/ y <= x
      BY <3>1
    <3> QED
      BY <1>4, <3>1, <3>2
  <2>2. ASSUME NEW x \in U, NEW y \in U, NEW z \in U, <<x, y>> \in R, <<y, z>> \in R
        PROVE  <<x, z>> \in R
    <3>1. x \in Nat /\ y \in Nat /\ z \in Nat
      BY <1>3
    <3>2. x <= y /\ y <= z
      BY <1>4, <2>2, <3>1
    <3>3. x <= z
      BY <3>1, <3>2
    <3> QED
      BY <1>4, <3>1, <3>3
  <2> QED
    BY <1>2, <1>3, <2>1, <2>2, First
<1>6. \A j \in U : i <= j
  BY <1>3, <1>4, <1>5
<1>7. i \in S /\ \A j \in S : i <= j
  BY <1>1, <1>6
<1> QED
  BY <1>7 DEF Min

LEMMA OfTwo ==
    ASSUME NEW a \in Int, NEW b \in Int
    PROVE  /\ Max({a, b}) = IF a >= b THEN a ELSE b
           /\ Min({a, b}) = IF a <= b THEN a ELSE b
<1>1. \E x \in {a, b} : \A y \in {a, b} : x >= y
  OBVIOUS
<1>2. \E x \in {a, b} : \A y \in {a, b} : x <= y
  OBVIOUS
<1>3. Max({a, b}) \in {a, b} /\ \A y \in {a, b} : Max({a, b}) >= y
  BY <1>1 DEF Max
<1>4. Min({a, b}) \in {a, b} /\ \A y \in {a, b} : Min({a, b}) <= y
  BY <1>2 DEF Min
<1> QED
  BY <1>3, <1>4

-----------------------------------------------------------------------------
(* What the sample at hand tells. *)

Typed == ScheduleTypeOK /\ IsFiniteSet(samples) /\ views <= MaxPace * now + 2

LEMMA Numbers ==
    /\ MaxTime \in Nat /\ MaxPace \in Nat \ {0} /\ MaxEvents \in Nat /\ Retention \in Nat
    /\ Time \subseteq Nat /\ (\A t \in Nat : t \in Time <=> t <= MaxTime)
    /\ Window \subseteq Nat \ {0} /\ Window # {} /\ IsFiniteSet(Window)
    /\ None \notin Int /\ None \notin Time /\ None \notin Milestone /\ Milestone \subseteq Nat
<1>1. /\ MaxTime \in Nat /\ MaxPace \in Nat \ {0} /\ MaxEvents \in Nat /\ Retention \in Nat
      /\ Window \subseteq Nat \ {0} /\ Window # {} /\ IsFiniteSet(Window)
      /\ None \notin Int /\ Milestone \subseteq Nat
  BY BoundAssumption, NoneAssumption, WindowAssumption, MilestoneAssumption
<1>2. Time \subseteq Nat /\ \A t \in Nat : t \in Time <=> t <= MaxTime
  BY <1>1 DEF Time
<1>3. \A n \in Nat : n \in Int
  OBVIOUS
<1>4. None \notin Time /\ None \notin Milestone
  BY <1>1, <1>2, <1>3
<1> QED
  BY <1>1, <1>2, <1>4

LEMMA Delays ==
    /\ Policy.initialSampling \subseteq Nat \ {0}
    /\ Policy.minRegularInterval \in Nat /\ Policy.archiveInterval \in Nat /\ Policy.zeroTier \in Nat
    /\ Policy.milestoneMaxEta \in Nat /\ Policy.captureLead \in Nat /\ Policy.captureInterval \in Nat
    /\ Fixed.minimumDelay \in Nat \ {0}
    /\ Fixed.longDelay \in Nat /\ Fixed.achieved \in Nat /\ Fixed.left \in Nat /\ Fixed.expired \in Nat
    /\ Fixed.cold \in Nat /\ Fixed.revived \in Nat /\ Fixed.slow \in Nat /\ Fixed.fastest \in Nat
BY PolicyAssumption, FixedAssumption

LEMMA ClosestType ==
    ASSUME NEW v \in Nat, v <= MaxPace * now + 2, now \in Time
    PROVE  ClosestMilestone(v) \in Milestone /\ ClosestMilestone(v) > v
<1>1. now \in Nat /\ MaxTime \in Nat /\ now <= MaxTime /\ MaxPace \in Nat /\ MaxPace >= 1
  BY Numbers
<1>2. MaxPace * now <= MaxPace * MaxTime /\ MaxPace * (MaxTime + 2) = MaxPace * MaxTime + MaxPace * 2
  BY <1>1
<1>3. v \in 0..(MaxPace * (MaxTime + 2))
  BY <1>1, <1>2
<1>4. \E m \in Milestone : m > v
  BY <1>3, MilestoneAssumption
<1> DEFINE S == {m \in Milestone : m > v}
<1>5. S \in SUBSET Nat /\ S # {}
  BY <1>4, Numbers
<1>6. Min(S) \in S
  BY <1>5, MinOf
<1> QED
  BY <1>6 DEF ClosestMilestone

Past == \A s \in samples : s.at <= now

LEMMA HistoryType ==
    ASSUME Typed, Past
    PROVE  /\ History \subseteq samples /\ IsFiniteSet(History)
           /\ \A s \in History : /\ s \in Sample /\ s.at \in Nat /\ s.views \in Nat
                                 /\ s.at < now /\ now - Retention <= s.at /\ s.views <= views
<1>1. now \in Nat /\ views \in Nat /\ samples \subseteq Sample /\ IsFiniteSet(samples)
  BY Numbers DEF Typed, ScheduleTypeOK
<1>2. \A s \in Sample : s.at \in Nat /\ s.views \in Nat
  BY Numbers DEF Sample
<1>3. ASSUME NEW s \in History
      PROVE  /\ s \in samples /\ s.at < now /\ now - Retention <= s.at /\ s.views <= views
  <2>1. s.views <= views /\ \E w \in Window : s \in Latest(now - w)
    BY DEF History
  <2>2. PICK w \in Window : s \in Latest(now - w)
    BY <2>1
  <2>3. s \in samples /\ s.at <= now - w /\ now - Retention <= s.at
    BY <2>2 DEF Latest
  <2>4. w \in Nat \ {0}
    BY Numbers
  <2> QED
    BY <1>1, <1>2, <2>1, <2>3, <2>4
<1>4. History \subseteq samples
  BY <1>3
<1>5. IsFiniteSet(History)
  BY <1>1, <1>4, FS_Subset
<1> QED
  BY <1>1, <1>2, <1>3, <1>4, <1>5

LEMMA NearestIn ==
    ASSUME Typed, Past, History # {}, NEW w \in Window
    PROVE  Nearest(w) \in History
<1>1. w \in Nat /\ now \in Nat
  BY Numbers DEF Typed, ScheduleTypeOK
<1> DEFINE from(u) == Max({u.at - (now - w), (now - w) - u.at})
           sooner(s, t) == from(s) < from(t) \/ (from(s) = from(t) /\ t.at <= s.at)
           R == {p \in History \X History : sooner(p[1], p[2])}
<1>2. \A s \in History : s.at \in Nat
  BY HistoryType
<1>3. \A s \in History : from(s) \in Int
  <2>1. ASSUME NEW s \in History
        PROVE  from(s) \in Int
    <3>1. s.at - (now - w) \in Int /\ (now - w) - s.at \in Int
      BY <1>1, <1>2
    <3> QED
      BY <3>1, OfTwo
  <2> QED
    BY <2>1
<1>4. \A s, t \in History : <<s, t>> \in R <=> sooner(s, t)
  OBVIOUS
<1> HIDE DEF R, from
<1>5. ASSUME NEW x \in History, NEW y \in History
      PROVE  <<x, y>> \in R \/ <<y, x>> \in R
  <2>1. from(x) \in Int /\ from(y) \in Int /\ x.at \in Nat /\ y.at \in Nat
    BY <1>2, <1>3
  <2>2. sooner(x, y) \/ sooner(y, x)
    BY <2>1
  <2> QED
    BY <1>4, <2>2
<1>6. ASSUME NEW x \in History, NEW y \in History, NEW z \in History, <<x, y>> \in R, <<y, z>> \in R
      PROVE  <<x, z>> \in R
  <2>1. /\ from(x) \in Int /\ from(y) \in Int /\ from(z) \in Int
        /\ x.at \in Nat /\ y.at \in Nat /\ z.at \in Nat
    BY <1>2, <1>3
  <2>2. sooner(x, y) /\ sooner(y, z)
    BY <1>4, <1>6
  <2>3. sooner(x, z)
    BY <2>1, <2>2
  <2> QED
    BY <1>4, <2>3
<1>7. PICK s \in History : \A t \in History : <<s, t>> \in R
  <2> HIDE DEF sooner
  <2> QED
    BY <1>5, <1>6, HistoryType, First
<1>8. \A t \in History : sooner(s, t)
  BY <1>4, <1>7
<1> QED
  BY <1>8 DEF Nearest, from

LEMMA AimType ==
    ASSUME Typed
    PROVE  /\ Aim \in Milestone /\ Aim \in Nat /\ views \in Nat /\ now \in Nat
           /\ Remaining \in Int /\ Remaining = Aim - views
           /\ Remaining > 0 => Factor[Remaining] \in Nat /\ Factor[Remaining] >= 2
<1>1. views \in Nat /\ now \in Time /\ now \in Nat /\ row \in Row
  BY Numbers DEF Typed, ScheduleTypeOK
<1>2. ClosestMilestone(views) \in Milestone
  BY <1>1, ClosestType DEF Typed
<1>3. row.target \in Milestone \cup {None}
  BY <1>1 DEF Row
<1>4. Aim \in Milestone
  BY <1>2, <1>3 DEF Aim, Or
<1>5. Aim \in Nat
  BY <1>4, Numbers
<1>6. Remaining \in Int /\ Remaining = Aim - views
  BY <1>1, <1>5 DEF Remaining
<1>7. Remaining > 0 => Remaining \in 1..Aim
  BY <1>1, <1>5, <1>6
<1> QED
  BY <1>1, <1>4, <1>5, <1>6, <1>7, FactorAssumption

Speed == [views : Nat \ {0}, time : Nat \ {0}]

LEMMA SpeedsType ==
    ASSUME Typed, Past
    PROVE  /\ Speeds \subseteq Speed /\ IsFiniteSet(Speeds)
           /\ Speeds # {} => row.state # "archive" /\ Remaining > 0 /\ History # {}
           /\ \A g \in Speeds : \E s \in History : g.views = views - s.views /\ g.time = now - s.at
<1>1. views \in Nat /\ now \in Nat /\ Remaining \in Int
  BY AimType
<1>2. Speeds # {} => row.state # "archive" /\ Remaining > 0 /\ History # {}
  BY <1>1 DEF Speeds
<1>3. ASSUME NEW g \in Speeds
      PROVE  /\ g \in Speed
             /\ \E s \in History : g.views = views - s.views /\ g.time = now - s.at
  <2>1. /\ row.state # "archive" /\ Remaining > 0 /\ History # {}
    BY <1>2
  <2>2. /\ g \in {[views |-> views - s.views, time |-> now - s.at] : s \in {Nearest(w) : w \in Window}}
        /\ g.views > 0
    BY <2>1, <1>1 DEF Speeds
  <2>3. PICK w \in Window : g = [views |-> views - Nearest(w).views, time |-> now - Nearest(w).at]
    BY <2>2
  <2>4. PICK s \in History : s = Nearest(w)
    BY <2>1, NearestIn
  <2>5. g = [views |-> views - s.views, time |-> now - s.at]
    BY <2>3, <2>4
  <2>6. s.at \in Nat /\ s.views \in Nat /\ s.at < now /\ s.views <= views
    BY HistoryType
  <2>7. views - s.views > 0
    BY <2>2, <2>5
  <2>8. views - s.views \in Nat \ {0} /\ now - s.at \in Nat \ {0}
    BY <1>1, <2>6, <2>7
  <2> QED
    BY <2>5, <2>8 DEF Speed
<1>4. IsFiniteSet(Speeds)
  <2> DEFINE speed(w) == [views |-> views - Nearest(w).views, time |-> now - Nearest(w).at]
             f == [w \in Window |-> speed(w)]
             G == {f[w] : w \in Window}
  <2>1. Speeds \subseteq G
    <3>1. \A g \in Speeds : \E w \in Window : g = speed(w)
      BY DEF Speeds
    <3> QED
      BY <3>1
  <2>2. f \in Surjection(Window, G)
    <3> HIDE DEF f
    <3>1. f = [w \in Window |-> f[w]]
      BY DEF f
    <3> QED
      BY <3>1 DEF Surjection
  <2> HIDE DEF f, G
  <2>3. IsFiniteSet(G)
    BY <2>2, Numbers, FS_Surjection
  <2> QED
    BY <2>1, <2>3, FS_Subset
<1> QED
  BY <1>2, <1>3, <1>4

LEMMA FasterTransitive ==
    ASSUME NEW g \in Speed, NEW h \in Speed, NEW k \in Speed, Faster(g, h), Faster(h, k)
    PROVE  Faster(g, k)
<1>1. PICK gv, gt, hv, ht, kv, kt \in Nat \ {0} :
          gv = g.views /\ gt = g.time /\ hv = h.views /\ ht = h.time /\ kv = k.views /\ kt = k.time
  BY DEF Speed
<1>2. gv * ht >= hv * gt /\ hv * kt >= kv * ht
  BY <1>1 DEF Faster
<1>3. gv * kt >= kv * gt
  BY <1>2
<1> QED
  BY <1>1, <1>3 DEF Faster

LEMMA FastestIn ==
    ASSUME Typed, Past, Speeds # {}
    PROVE  Fastest \in Speeds
<1> DEFINE R == {p \in Speeds \X Speeds : Faster(p[1], p[2])}
<1>1. \A g, h \in Speeds : <<g, h>> \in R <=> Faster(g, h)
  OBVIOUS
<1> HIDE DEF R
<1>2. Speeds \subseteq Speed /\ IsFiniteSet(Speeds)
  BY SpeedsType
<1>3. ASSUME NEW g \in Speeds, NEW h \in Speeds
      PROVE  <<g, h>> \in R \/ <<h, g>> \in R
  <2>1. g.views \in Nat /\ g.time \in Nat /\ h.views \in Nat /\ h.time \in Nat
    BY <1>2 DEF Speed
  <2>2. g.views * h.time \in Nat /\ h.views * g.time \in Nat
    BY <2>1
  <2>3. Faster(g, h) \/ Faster(h, g)
    BY <2>2 DEF Faster
  <2> QED
    BY <1>1, <2>3
<1>4. ASSUME NEW g \in Speeds, NEW h \in Speeds, NEW k \in Speeds, <<g, h>> \in R, <<h, k>> \in R
      PROVE  <<g, k>> \in R
  <2>1. g \in Speed /\ h \in Speed /\ k \in Speed
    BY <1>2
  <2>2. Faster(g, h) /\ Faster(h, k)
    BY <1>1, <1>4
  <2> QED
    BY <1>1, <2>1, <2>2, FasterTransitive
<1>5. PICK g \in Speeds : \A h \in Speeds : <<g, h>> \in R
  BY <1>2, <1>3, <1>4, First
<1>6. \A h \in Speeds : Faster(g, h)
  BY <1>1, <1>5
<1> QED
  BY <1>6 DEF Fastest

\* Beyond the shortest delay, a sprint waits no longer than its adjusted ETA, rounded.
LEMMA SprintDelayType ==
    ASSUME Typed, Past, WithinReach
    PROVE  /\ SprintDelay \in Nat
           /\ Remaining > 0 /\ Fastest \in Speeds
           /\ \/ SprintDelay <= Fixed.minimumDelay
              \/ SprintDelay * (2 * (Factor[Remaining] * Fastest.views))
                   <= 2 * (Remaining * Fastest.time) + Factor[Remaining] * Fastest.views
<1>1. Speeds # {}
  BY DEF WithinReach
<1>2. Fastest \in Speeds /\ Fastest \in Speed /\ Remaining > 0
  BY <1>1, FastestIn, SpeedsType
<1>3. PICK r, f, v, t \in Nat :
          /\ r = Remaining /\ f = Factor[Remaining] /\ v = Fastest.views /\ t = Fastest.time
          /\ f >= 2 /\ v > 0 /\ t > 0 /\ r > 0
  BY <1>2, AimType DEF Speed
<1>4. PICK eta, scale \in Nat : eta = r * t /\ scale = f * v /\ scale > 0
  BY <1>3
<1>5. PICK rounded \in Int : /\ rounded = (2 * eta + scale) \div (2 * scale)
                             /\ rounded * (2 * scale) <= 2 * eta + scale
  BY <1>4
<1> DEFINE cap == IF eta <= Policy.captureLead * scale THEN Policy.captureInterval ELSE Fixed.longDelay
<1>6. SprintDelay = Max({Fixed.minimumDelay, Min({cap, rounded})})
  BY <1>3, <1>4, <1>5 DEF SprintDelay
<1>7. cap \in Nat /\ Fixed.minimumDelay \in Nat
  BY Delays
<1> HIDE DEF cap
<1>8. Min({cap, rounded}) \in Int /\ Min({cap, rounded}) <= rounded
  <2>1. PICK c \in Int : c = cap
    BY <1>7
  <2>2. Min({c, rounded}) = IF c <= rounded THEN c ELSE rounded
    BY OfTwo
  <2> QED
    BY <2>1, <2>2
<1>9. PICK m \in Int : m = Min({cap, rounded}) /\ m <= rounded
  BY <1>8
<1>10. SprintDelay = IF Fixed.minimumDelay >= m THEN Fixed.minimumDelay ELSE m
  BY <1>6, <1>7, <1>9, OfTwo
<1>11. PICK d \in Nat : d = SprintDelay /\ (d <= Fixed.minimumDelay \/ d <= rounded)
  BY <1>7, <1>9, <1>10
<1>12. d <= rounded => d * (2 * scale) <= 2 * eta + scale
  <2>1. d <= rounded => d * (2 * scale) <= rounded * (2 * scale)
    BY <1>4, <1>5, <1>11, Products
  <2>2. d * (2 * scale) \in Int /\ rounded * (2 * scale) \in Int
    BY <1>4, <1>5, <1>11
  <2> QED
    BY <1>4, <1>5, <2>1, <2>2
<1> QED
  BY <1>2, <1>3, <1>4, <1>11, <1>12

-----------------------------------------------------------------------------
(* What is settled. *)

LEMMA MeasuredSpeed ==
    ASSUME Typed, Measured
    PROVE  /\ row.lastAt \in Nat /\ row.lastAt < now /\ row.lastViews \in Nat /\ row.lastViews <= views
           /\ SinceLast.views = views - row.lastViews /\ SinceLast.time = now - row.lastAt
BY Numbers DEF Typed, ScheduleTypeOK, Row, Measured, SinceLast

LEMMA RegularIntervalType ==
    ASSUME Typed, Measured
    PROVE  /\ RegularInterval \in Nat
           /\ views # row.lastViews => RegularInterval \in {Fixed.fastest} \cup {t.interval : t \in Policy.regularTiers}
<1> DEFINE above == {t \in Policy.regularTiers : SinceLast.views < t.below * SinceLast.time}
           lowest == {u \in above : \A v \in above : u.below <= v.below}
           choices == {t.interval : t \in lowest} \cup (IF above = {} THEN {Fixed.fastest} ELSE {})
<1>1. CASE views = row.lastViews
  BY <1>1, Delays DEF RegularInterval
<1>2. CASE views # row.lastViews
  <2>1. RegularInterval = Min(choices)
    BY <1>2 DEF RegularInterval
  <2>2. choices \subseteq {Fixed.fastest} \cup {t.interval : t \in Policy.regularTiers}
    OBVIOUS
  <2>3. choices \subseteq Nat
    BY PolicyAssumption, Delays
  <2>4. choices # {}
    <3>1. CASE above = {}
      BY <3>1
    <3>2. CASE above # {}
      <4> DEFINE B == {t.below : t \in above}
      <4>1. B # {}
        BY <3>2
      <4>2. B \in SUBSET Nat
        BY PolicyAssumption
      <4>3. Min(B) \in B /\ \A b \in B : Min(B) <= b
        <5> HIDE DEF B
        <5> QED
          BY <4>1, <4>2, MinOf
      <4>4. PICK u \in above : u.below = Min(B)
        BY <4>3
      <4>5. \A v \in above : u.below <= v.below
        BY <4>3, <4>4
      <4>6. u \in lowest
        BY <4>5
      <4> QED
        BY <4>6
    <3> QED
      BY <3>1, <3>2
  <2> HIDE DEF choices
  <2>5. Min(choices) \in choices
    BY <2>3, <2>4, MinOf
  <2> QED
    BY <1>2, <2>1, <2>2, <2>3, <2>5
<1> QED
  BY <1>1, <1>2

LEMMA FirstAtType ==
    ASSUME Typed, Past, LastIsSample
    PROVE  FirstAt \in Time /\ FirstAt \in Nat /\ FirstAt <= now
<1>1. now \in Time /\ now \in Nat /\ row.lastAt \in Time \cup {None} /\ row.firstAt \in Time \cup {None}
  BY Numbers DEF Typed, ScheduleTypeOK, Row
<1>2. row.lastAt # None => row.lastAt <= now
  BY DEF LastIsSample, Past
<1>3. FirstAt \in Time /\ FirstAt <= now
  BY <1>1, <1>2, Numbers DEF FirstAt, Or, LastIsSample
<1> QED
  BY <1>3, Numbers

LEMMA InitialSampleType ==
    ASSUME Typed, Past, LastIsSample, InitialSamples # {}
    PROVE  /\ Min(InitialSamples) \in Nat /\ Min(InitialSamples) > now
           /\ \E i \in Policy.initialSampling : Min(InitialSamples) <= now + i
<1>1. now \in Nat
  BY AimType
<1>2. \A i \in Policy.initialSampling : i \in Nat
  BY Delays
<1>3. InitialSamples \in SUBSET Nat
  BY <1>1, <1>2, FirstAtType DEF InitialSamples
<1>4. Min(InitialSamples) \in InitialSamples
  BY <1>3, MinOf
<1>5. PICK i \in Policy.initialSampling : Min(InitialSamples) = FirstAt + i /\ FirstAt + i > now
  BY <1>4 DEF InitialSamples
<1> QED
  BY <1>1, <1>2, <1>3, <1>4, <1>5, FirstAtType

\* The interval at which a new video is kept.
NewInterval ==
    LET exceeded == {t \in Fixed.newTiers : VelocityAbove(t.above)}
    IN Min({Fixed.slow} \cup {t.interval : t \in exceeded})

LEMMA NewIntervalType == NewInterval \in Nat /\ NewInterval <= Fixed.slow
<1> DEFINE S == {Fixed.slow} \cup {t.interval : t \in {u \in Fixed.newTiers : VelocityAbove(u.above)}}
<1>1. S \in SUBSET Nat /\ Fixed.slow \in S
  BY FixedAssumption, Delays
<1>2. NewInterval = Min(S)
  BY DEF NewInterval
<1> HIDE DEF S
<1>3. Min(S) \in S /\ \A x \in S : Min(S) <= x
  BY <1>1, MinOf
<1> QED
  BY <1>1, <1>2, <1>3

\* How long a regular video waits at the least.
Regularly(i) == IF i >= Policy.minRegularInterval THEN i ELSE Policy.minRegularInterval

LEMMA RegularlyMax ==
    ASSUME NEW i \in Nat
    PROVE  Regularly(i) = Max({i, Policy.minRegularInterval}) /\ Regularly(i) \in Nat
BY Delays, OfTwo DEF Regularly

\* What a sample leaves: a state, a time, a target.
Settled(state, i, target) ==
    /\ row'.state = state /\ row'.next = now + i /\ row'.target = target /\ row'.eligible = now
    /\ row'.lastViews = views /\ row'.lastAt = now /\ row'.firstAt = FirstAt
    /\ row'.published = row.published
    /\ samples' = samples \cup {[at |-> now, views |-> views]}
    /\ watched' = (row.state # "archive" /\ History # {} /\ Aim = ClosestMilestone(views))

LEMMA SettleGives ==
    ASSUME Typed, NEW state, NEW i, NEW target, Settle(state, now + i, target)
    PROVE  Settled(state, i, target)
<1>1. row \in Row
  BY DEF Typed, ScheduleTypeOK
<1>2. row' = [row EXCEPT !.state = state, !.next = now + i, !.target = target, !.eligible = now,
                         !.lastViews = views, !.lastAt = now, !.firstAt = FirstAt]
  BY DEF Settle
<1>3. /\ row'.state = state /\ row'.next = now + i /\ row'.target = target /\ row'.eligible = now
      /\ row'.lastViews = views /\ row'.lastAt = now /\ row'.firstAt = FirstAt
      /\ row'.published = row.published
  BY <1>1, <1>2 DEF Row
<1> QED
  BY <1>3 DEF Settled, Settle

LEMMA SettleType ==
    ASSUME Typed, Past, LastIsSample, NEW state \in State, NEW i \in Nat,
           NEW target \in Milestone \cup {None}, Settle(state, now + i, target)
    PROVE  row' \in Row
<1>1. row \in Row /\ now \in Time /\ now \in Nat /\ views \in Nat /\ now + i \in Nat
  BY Numbers DEF Typed, ScheduleTypeOK
<1>2. FirstAt \in Time
  BY FirstAtType
<1>3. row' = [row EXCEPT !.state = state, !.next = now + i, !.target = target, !.eligible = now,
                         !.lastViews = views, !.lastAt = now, !.firstAt = FirstAt]
  BY DEF Settle
<1> QED
  BY <1>1, <1>2, <1>3 DEF Row

LEMMA SettleRegularGives ==
    ASSUME Typed, NEW i \in Nat, NEW target, SettleRegular(i, target)
    PROVE  Settle("regular", now + Regularly(i), target)
BY RegularlyMax DEF SettleRegular

\* Every sample settles a row, of one of these kinds.
Sprints == WithinReach /\ Settle("milestone", now + SprintDelay, Aim)

Waits ==
    \E state \in State, i \in Nat, target \in Milestone \cup {None} :
        /\ ~WithinReach /\ state # "milestone"
        /\ Settle(state, now + i, target)
        /\ \/ row.state = "milestone" /\ Remaining <= 0
           \/ row.state = "archive"
           \/ Measured /\ views = row.lastViews
           \/ /\ row.state = "milestone" => Remaining > 0
              /\ \E j \in {Fixed.left, Fixed.expired, Fixed.cold, Fixed.slow, Fixed.fastest,
                           Policy.minRegularInterval}
                        \cup Policy.initialSampling
                        \cup {t.interval : t \in Policy.regularTiers} : i <= j

LEMMA RegularWait ==
    ASSUME Typed, ~WithinReach, NEW i \in Nat, NEW target \in Milestone \cup {None}, SettleRegular(i, target),
           \/ row.state = "milestone" /\ Remaining <= 0
           \/ row.state = "archive"
           \/ Measured /\ views = row.lastViews
           \/ /\ row.state = "milestone" => Remaining > 0
              /\ i \in {0, Fixed.left, Fixed.expired, Fixed.cold, Fixed.fastest}
                         \cup {t.interval : t \in Policy.regularTiers}
    PROVE  Waits
<1>1. Settle("regular", now + Regularly(i), target) /\ Regularly(i) \in Nat
  BY SettleRegularGives, RegularlyMax
<1>2. "regular" \in State /\ "regular" # "milestone"
  BY DEF State
<1> DEFINE J == {Fixed.left, Fixed.expired, Fixed.cold, Fixed.slow, Fixed.fastest, Policy.minRegularInterval}
                   \cup Policy.initialSampling \cup {t.interval : t \in Policy.regularTiers}
<1>3. i \in {0, Fixed.left, Fixed.expired, Fixed.cold, Fixed.fastest} \cup {t.interval : t \in Policy.regularTiers}
      => \E j \in J : Regularly(i) <= j
  <2>1. Policy.minRegularInterval \in J /\ Policy.minRegularInterval \in Nat
    BY Delays
  <2>2. i \in {0, Fixed.left, Fixed.expired, Fixed.cold, Fixed.fastest} \cup {t.interval : t \in Policy.regularTiers}
        => i = 0 \/ i \in J
    OBVIOUS
  <2>3. Regularly(i) = i \/ Regularly(i) = Policy.minRegularInterval
    BY DEF Regularly
  <2>4. i = 0 => Regularly(i) <= Policy.minRegularInterval
    BY <2>1 DEF Regularly
  <2> HIDE DEF J
  <2> QED
    BY <2>1, <2>2, <2>3, <2>4
<1> QED
  BY <1>1, <1>2, <1>3 DEF Waits

LEMMA Evaluations ==
    ASSUME Typed, Past, LastIsSample, Evaluate
    PROVE  Sprints \/ Waits
<1>1. row.target \in Milestone \cup {None} /\ now \in Nat
  BY Numbers DEF Typed, ScheduleTypeOK, Row
<1>r. WithinReach => Remaining > 0 /\ row.state # "archive"
  BY SpeedsType DEF WithinReach
<1>rm. Remaining \in Int
  BY AimType
<1>s. State = {"new", "regular", "milestone", "archive"}
  BY DEF State
<1>2. CASE Sprint
  BY <1>2 DEF Sprint, Sprints
<1>3. CASE Achieve
  <2>1. row.state = "milestone" /\ Remaining <= 0 /\ SettleRegular(Fixed.achieved, None)
    BY <1>3 DEF Achieve
  <2>2. ~WithinReach
    BY <1>r, <1>rm, <2>1
  <2> QED
    BY <2>1, <2>2, RegularWait, Delays
<1>4. CASE LeaveSprint
  BY <1>4, RegularWait, Delays DEF LeaveSprint
<1>5. CASE SampleInitially
  <2>1. /\ row.state = "new" /\ ~WithinReach /\ InitialSamples # {}
        /\ Settle("new", Min(InitialSamples), row.target)
    BY <1>5 DEF SampleInitially, New
  <2>2. PICK n \in Nat : n = Min(InitialSamples)
    BY <2>1, InitialSampleType
  <2>3. n > now /\ \E i \in Policy.initialSampling : n <= now + i
    BY <2>1, <2>2, InitialSampleType
  <2>4. PICK i \in Nat : n = now + i
    <3>1. n - now \in Nat /\ n = now + (n - now)
      BY <1>1, <2>3
    <3> QED
      BY <3>1
  <2>5. PICK j \in Policy.initialSampling : n <= now + j
    BY <2>3
  <2>6. i <= j
    BY <1>1, <2>4, <2>5, Delays
  <2>7. Settle("new", now + i, row.target)
    BY <2>1, <2>2, <2>4
  <2> QED
    BY <1>1, <1>s, <2>1, <2>5, <2>6, <2>7 DEF Waits
<1>6. CASE Expire
  BY <1>1, <1>6, RegularWait, Delays DEF Expire, Aged, New
<1>7. CASE Cool
  BY <1>1, <1>7, RegularWait, Delays DEF Cool, Aged, New
<1>8. CASE KeepNew
  <2>1. row.state = "new" /\ ~WithinReach /\ Settle("new", now + NewInterval, row.target)
    BY <1>8 DEF KeepNew, Aged, New, NewInterval
  <2>2. NewInterval \in Nat /\ NewInterval <= Fixed.slow
    BY NewIntervalType
  <2> QED
    BY <1>1, <1>s, <2>1, <2>2 DEF Waits
<1>9. CASE Revive
  <2>1. row.state = "archive" /\ SettleRegular(Fixed.revived, row.target)
    BY <1>9 DEF Revive
  <2> QED
    BY <1>1, <1>r, <2>1, RegularWait, Delays
<1>10. CASE StayArchived
  <2>1. row.state = "archive" /\ Settle("archive", now + Policy.archiveInterval, row.target)
    BY <1>10 DEF StayArchived
  <2> QED
    BY <1>1, <1>r, <1>s, <2>1, Delays DEF Waits
<1>11. CASE TakeBaseline
  BY <1>1, <1>11, RegularWait DEF TakeBaseline, Regular
<1>12. CASE Demote
  <2>1. /\ row.state = "regular" /\ ~WithinReach /\ Measured /\ views = row.lastViews
        /\ Settle("archive", now + Policy.archiveInterval, row.target)
    BY <1>12 DEF Demote, Regular, Dormant
  <2> QED
    BY <1>1, <1>s, <2>1, Delays DEF Waits
<1>13. CASE KeepRegular
  <2>1. /\ row.state = "regular" /\ ~WithinReach /\ Measured /\ SettleRegular(RegularInterval, row.target)
    BY <1>13 DEF KeepRegular, Regular
  <2>2. /\ RegularInterval \in Nat
        /\ views # row.lastViews => RegularInterval \in {Fixed.fastest} \cup {t.interval : t \in Policy.regularTiers}
    BY <2>1, RegularIntervalType
  <2>3. CASE views = row.lastViews
    BY <1>1, <2>1, <2>2, <2>3, RegularWait
  <2>4. CASE views # row.lastViews
    BY <1>1, <2>1, <2>2, <2>4, RegularWait
  <2> QED
    BY <2>3, <2>4
<1> QED
  BY <1>2, <1>3, <1>4, <1>5, <1>6, <1>7, <1>8, <1>9, <1>10, <1>11, <1>12, <1>13 DEF Evaluate

-----------------------------------------------------------------------------
(* A sample foresees the milestone. *)

\* Parts of the invariant as the lemmas above need them.
LEMMA InvGives ==
    ASSUME ScheduleInv
    PROVE  /\ Typed /\ Past /\ Slowing /\ LastIsSample
           /\ now \in Nat /\ views \in Nat /\ pace \in Nat
           /\ \A s \in samples : s \in Sample /\ s.at \in Nat /\ s.views \in Nat
<1>1. Typed /\ Past /\ Slowing /\ LastIsSample
  BY DEF ScheduleInv, Typed, Slowing, Past
<1>2. now \in Nat /\ views \in Nat /\ pace \in Nat
  BY <1>1, Numbers DEF Typed, ScheduleTypeOK
<1>3. \A s \in samples : s \in Sample /\ s.at \in Nat /\ s.views \in Nat
  BY <1>1, Numbers DEF Typed, ScheduleTypeOK, Sample
<1> QED
  BY <1>1, <1>2, <1>3

\* What grows at most by pace, and is sampled again within the reach, does not arrive in between.
LEMMA SprintIsShort ==
    ASSUME NEW p \in Nat, NEW r \in Nat, r > 0, NEW f \in Nat, f >= 2, NEW v \in Nat, v > 0,
           NEW t \in Nat, p * t <= v, NEW d \in Nat, d >= 2,
           d * (2 * (f * v)) <= 2 * (r * t) + f * v
    PROVE  p * d < r
<1>1. d * (2 * f * v) <= 2 * r * t + f * v
  OBVIOUS
<1> QED
  BY <1>1

LEMMA WaitIsShort ==
    ASSUME NEW p \in Nat, NEW r \in Nat, NEW e \in Nat, NEW v \in Nat, v > 0,
           NEW t \in Nat, t > 0, p * t <= v, e * v < r * t, NEW i \in Nat, i <= e
    PROVE  p * i < r
<1>1. e * (p * t) <= e * v
  BY Products
<1>2. (e * p) * t < r * t
  BY <1>1
<1>3. e * p < r
  BY <1>2, Products
<1>4. p * i <= p * e
  BY Products
<1> QED
  BY <1>3, <1>4

\* The next sample of a video that is watched and does not accelerate.
LEMMA NoRush ==
    ASSUME ScheduleInv, Foresighted, Evaluate, steady,
           row.state # "archive", History # {}, Aim = ClosestMilestone(views)
    PROVE  /\ row'.lastViews = views /\ row'.lastAt = now
           /\ row'.next \in Nat /\ row'.next >= now
           /\ \/ row'.next - now <= Fixed.minimumDelay
              \/ views + pace * (row'.next - now) < ClosestMilestone(views)
<1>1. /\ Typed /\ Past /\ Slowing /\ LastIsSample
      /\ now \in Nat /\ views \in Nat /\ pace \in Nat
  BY InvGives
<1>2. /\ Aim \in Milestone /\ Aim \in Nat /\ Remaining = Aim - views /\ Remaining \in Int
      /\ (Remaining > 0 => Factor[Remaining] \in Nat /\ Factor[Remaining] >= 2)
  BY <1>1, AimType
<1>3. Aim > views
  BY <1>1, ClosestType DEF Typed, ScheduleTypeOK
<1>4. PICK p, r \in Nat : p = pace /\ r = Remaining /\ r > 0
  BY <1>1, <1>2, <1>3
<1>5. ASSUME NEW i \in Nat, NEW state, NEW target, Settle(state, now + i, target),
             i <= Fixed.minimumDelay \/ p * i < r
      PROVE  /\ row'.lastViews = views /\ row'.lastAt = now
             /\ row'.next \in Nat /\ row'.next >= now
             /\ \/ row'.next - now <= Fixed.minimumDelay
                \/ views + pace * (row'.next - now) < ClosestMilestone(views)
  <2>1. row'.lastViews = views /\ row'.lastAt = now /\ row'.next = now + i
    BY <1>1, <1>5, SettleGives DEF Settled
  <2>2. row'.next - now = i /\ now + i \in Nat /\ now + i >= now
    BY <1>1, <2>1
  <2>3. p * i < r => views + p * i < Aim
    <3>1. PICK k \in Nat : k = p * i
      OBVIOUS
    <3> QED
      BY <1>1, <1>2, <1>4, <3>1
  <2> QED
    BY <1>4, <1>5, <2>1, <2>2, <2>3
<1>6. ASSUME NEW s \in samples
      PROVE  p * (now - s.at) <= views - s.views
  BY <1>1, <1>4 DEF Slowing
<1>7. CASE Sprints
  <2>1. WithinReach /\ Settle("milestone", now + SprintDelay, Aim)
    BY <1>7 DEF Sprints
  <2>2. SprintDelay \in Nat /\ Fastest \in Speeds
    BY <1>1, <2>1, SprintDelayType
  <2>3. PICK s \in History : Fastest.views = views - s.views /\ Fastest.time = now - s.at
    BY <1>1, <2>2, SpeedsType
  <2>4. PICK f, v, t, d, q \in Nat :
            /\ f = Factor[Remaining] /\ f >= 2 /\ v = Fastest.views /\ v > 0 /\ t = Fastest.time
            /\ d = SprintDelay /\ q = Fixed.minimumDelay /\ q > 0
    <3>1. Fastest.views \in Nat /\ Fastest.views > 0 /\ Fastest.time \in Nat
      BY <1>1, <2>2, SpeedsType DEF Speed
    <3>2. Fixed.minimumDelay \in Nat /\ Fixed.minimumDelay > 0
      BY Delays
    <3> QED
      BY <1>2, <1>4, <2>2, <3>1, <3>2
  <2>5. p * t <= v
    BY <1>1, <1>6, <2>3, <2>4, HistoryType
  <2>6. d <= q \/ d * (2 * (f * v)) <= 2 * (r * t) + f * v
    BY <1>1, <1>4, <2>1, <2>4, SprintDelayType
  <2>7. d <= q \/ p * d < r
    <3>1. CASE d <= q
      BY <3>1
    <3>2. CASE d > q
      <4>1. d >= 2 /\ ~(d <= q)
        BY <2>4, <3>2
      <4> QED
        BY <1>4, <2>4, <2>5, <2>6, <4>1, SprintIsShort
    <3> QED
      BY <2>4, <3>1, <3>2
  <2> QED
    BY <1>5, <2>1, <2>2, <2>4, <2>7
<1>8. CASE Waits
  <2>1. PICK state \in State, i \in Nat, target \in Milestone \cup {None} :
            /\ ~WithinReach /\ Settle(state, now + i, target)
            /\ \/ row.state = "milestone" /\ Remaining <= 0
               \/ row.state = "archive"
               \/ Measured /\ views = row.lastViews
               \/ \E j \in {Fixed.left, Fixed.expired, Fixed.cold, Fixed.slow, Fixed.fastest,
                            Policy.minRegularInterval}
                           \cup Policy.initialSampling \cup {t.interval : t \in Policy.regularTiers} :
                      i <= j
    BY <1>8 DEF Waits
  <2>2. ~(Remaining <= 0)
    BY <1>4
  <2>3. p = 0 => p * i < r
    BY <1>4
  <2>4. CASE Measured /\ views = row.lastViews
    <3>1. row.lastAt \in Nat /\ row.lastAt < now
      BY <1>1, <2>4, MeasuredSpeed
    <3>2. [at |-> row.lastAt, views |-> row.lastViews] \in samples
      BY <1>1, <3>1, Numbers DEF LastIsSample
    <3>3. p * (now - row.lastAt) <= views - views
      BY <1>6, <2>4, <3>2
    <3>4. PICK t \in Nat : t = now - row.lastAt /\ t > 0
      BY <1>1, <3>1
    <3>5. p * t <= 0
      BY <1>1, <3>3, <3>4
    <3>6. p = 0
      BY <3>4, <3>5
    <3> QED
      BY <1>5, <2>1, <2>3, <3>6
  <2>5. ASSUME NEW j \in {Fixed.left, Fixed.expired, Fixed.cold, Fixed.slow, Fixed.fastest,
                          Policy.minRegularInterval}
                         \cup Policy.initialSampling \cup {t.interval : t \in Policy.regularTiers},
               i <= j
        PROVE  p * i < r
    <3>1. PICK e \in Nat : e = Policy.milestoneMaxEta * Factor[Remaining]
      BY <1>2, <1>4, Delays
    <3>2. Remaining \in 1..Aim
      BY <1>1, <1>2, <1>4
    <3>3. j <= e /\ j \in Nat
      <4>1. j \in Nat
        BY Delays, PolicyAssumption
      <4> QED
        BY <1>2, <3>1, <3>2, <4>1 DEF Foresighted
    <3>4. i <= e
      BY <2>5, <3>3
    <3>5. PICK w \in Window : TRUE
      BY Numbers
    <3>6. PICK s \in History : s = Nearest(w)
      BY <1>1, NearestIn
    <3>7. /\ s \in samples /\ s.at \in Nat /\ s.views \in Nat /\ s.at < now /\ s.views <= views
      BY <1>1, HistoryType
    <3>8. PICK v, t \in Nat : v = views - s.views /\ t = now - s.at /\ t > 0
      BY <1>1, <3>7
    <3>9. p * t <= v
      BY <1>6, <3>7, <3>8
    <3>10. CASE v = 0
      <4>1. p = 0
        BY <3>8, <3>9, <3>10
      <4> QED
        BY <2>3, <4>1
    <3>11. CASE v > 0
      <4> DEFINE g == [views |-> v, time |-> t]
      <4>1. g \in {[views |-> views - u.views, time |-> now - u.at] : u \in {Nearest(x) : x \in Window}}
        BY <3>6, <3>8
      <4>2. g \in Speeds
        <5>1. ~(row.state = "archive" \/ Remaining <= 0 \/ History = {})
          BY <1>4
        <5>2. g.views > 0
          BY <3>11
        <5> HIDE DEF g
        <5> QED
          BY <4>1, <5>1, <5>2, Zenon DEF Speeds
      <4>3. ~(Remaining * g.time <= Policy.milestoneMaxEta * Factor[Remaining] * g.views)
        BY <2>1, <4>2 DEF WithinReach
      <4>4. ~(r * t <= e * v)
        BY <1>4, <3>1, <4>3
      <4>5. e * v < r * t
        BY <4>4
      <4> QED
        BY <3>4, <3>8, <3>9, <3>11, <4>5, WaitIsShort
    <3> QED
      BY <3>10, <3>11
  <2> QED
    BY <1>5, <2>1, <2>2, <2>4, <2>5
<1> QED
  BY <1>1, <1>7, <1>8, Evaluations

-----------------------------------------------------------------------------
(* The invariant *)

LEMMA ScheduleInitInv == ScheduleInit => ScheduleInv
<1> SUFFICES ASSUME ScheduleInit PROVE ScheduleInv
  OBVIOUS
<1>1. /\ now = 0 /\ views \in {0, 2} /\ pace \in 0..MaxPace /\ samples = {} /\ steady = TRUE
      /\ watched = FALSE /\ events = 0
  BY DEF ScheduleInit
<1>2. PICK state \in {"new", "regular"}, published \in Publication :
          row = [state |-> state, next |-> 0, eligible |-> 0, lastViews |-> 0, lastAt |-> None,
                 firstAt |-> None, target |-> None, published |-> published]
  BY DEF ScheduleInit
<1>3. published \in Int \cup {None}
  BY FixedAssumption DEF Publication
<1>4. row \in Row /\ row.lastAt = None /\ row.firstAt = None
  BY <1>2, <1>3 DEF Row, State
<1>5. 0 \in Time /\ 0 \in 0..MaxEvents
  BY Numbers
<1>6. ScheduleTypeOK
  <2>1. now \in Time /\ views \in Nat /\ samples \subseteq Sample /\ events \in 0..MaxEvents
    BY <1>1, <1>5
  <2>2. steady \in BOOLEAN /\ watched \in BOOLEAN
    BY <1>1
  <2> QED
    BY <1>1, <1>4, <2>1, <2>2 DEF ScheduleTypeOK
<1>7. IsFiniteSet(samples) /\ views <= MaxPace * now + 2
  <2>1. MaxPace * 0 = 0
    BY Numbers
  <2> QED
    BY <1>1, <2>1, FS_EmptySet
<1>8. Slowing /\ LastIsSample /\ Foreseen
  BY <1>1, <1>4 DEF Slowing, LastIsSample, Foreseen
<1> QED
  BY <1>6, <1>7, <1>8 DEF ScheduleInv

LEMMA SampleInv ==
    ASSUME ScheduleInv, Evaluate, UNCHANGED <<now, views, pace, steady>>, events' \in 0..MaxEvents
    PROVE  ScheduleInv'
<1>1. /\ Typed /\ Past /\ Slowing /\ LastIsSample
      /\ now \in Nat /\ views \in Nat /\ pace \in Nat
      /\ \A s \in samples : s \in Sample /\ s.at \in Nat /\ s.views \in Nat
  BY InvGives
<1>2. PICK state \in State, i \in Nat, target \in Milestone \cup {None} :
          /\ Settle(state, now + i, target)
          /\ state = "milestone" => target = Aim
  <2>1. CASE Sprints
    <3>1. SprintDelay \in Nat /\ Aim \in Milestone /\ "milestone" \in State
      BY <1>1, <2>1, SprintDelayType, AimType DEF Sprints, State
    <3> QED
      BY <2>1, <3>1 DEF Sprints
  <2>2. CASE Waits
    BY <2>2 DEF Waits
  <2> QED
    BY <1>1, <2>1, <2>2, Evaluations
<1>3. row' \in Row
  BY <1>1, <1>2, SettleType
<1>4. Settled(state, i, target)
  BY <1>1, <1>2, SettleGives
<1> DEFINE new == [at |-> now, views |-> views]
<1>5. new \in Sample /\ new.at = now /\ new.views = views
  BY <1>1 DEF Typed, ScheduleTypeOK, Sample
<1>6. samples' = samples \cup {new} /\ row'.lastAt = now /\ row'.lastViews = views /\ row'.firstAt = FirstAt
  BY <1>4 DEF Settled
<1> HIDE DEF new
<1>7. ScheduleTypeOK'
  <2>1. watched' \in BOOLEAN
    BY <1>4 DEF Settled
  <2> QED
    BY <1>1, <1>3, <1>5, <1>6, <2>1 DEF Typed, ScheduleTypeOK
<1>8. (IsFiniteSet(samples) /\ views <= MaxPace * now + 2)'
  <2>1. IsFiniteSet(samples')
    BY <1>1, <1>6, FS_AddElement DEF Typed
  <2> QED
    BY <1>1, <2>1 DEF Typed
<1>9. Slowing'
  <2>1. \A s \in samples' : s \in samples \/ s = new
    BY <1>6
  <2>2. \A s \in samples' : s.at <= now
    BY <1>1, <1>5, <2>1 DEF Past
  <2>3. pace * (now - new.at) <= views - new.views
    <3>1. now - new.at = 0 /\ views - new.views = 0 /\ pace * 0 = 0
      BY <1>1, <1>5
    <3> QED
      BY <3>1
  <2>4. steady => \A s \in samples' : pace * (now - s.at) <= views - s.views
    BY <1>1, <2>1, <2>3 DEF Slowing
  <2> QED
    BY <2>2, <2>4 DEF Slowing
<1>10. LastIsSample'
  <2>1. [at |-> row'.lastAt, views |-> row'.lastViews] \in samples'
    BY <1>6 DEF new
  <2>2. row'.firstAt <= now
    BY <1>1, <1>6, FirstAtType
  <2> QED
    BY <2>1, <2>2 DEF LastIsSample
<1>11. ASSUME Foresighted, watched'
       PROVE  Foreseen'
  <2>1. row.state # "archive" /\ History # {} /\ Aim = ClosestMilestone(views)
    BY <1>4, <1>11 DEF Settled
  <2>2. row'.state = "milestone" => row'.target = ClosestMilestone(row'.lastViews)
    BY <1>2, <1>4, <1>6, <2>1 DEF Settled
  <2>3. row'.lastAt # None
    BY <1>1, <1>6, Numbers
  <2>4. steady => \/ row'.next - now <= Fixed.minimumDelay
                  \/ views + pace * (row'.next - now) < ClosestMilestone(views)
    BY <1>11, <2>1, NoRush
  <2> QED
    BY <1>6, <2>2, <2>3, <2>4 DEF Foreseen, ClosestMilestone
<1>12. (Foresighted => Foreseen)'
  BY <1>11 DEF Foreseen, Foresighted
<1> QED
  BY <1>7, <1>8, <1>9, <1>10, <1>12 DEF ScheduleInv

\* Nobody but a sample touches what the row remembers of it.
LEMMA WriteInv ==
    ASSUME ScheduleInv, row' \in Row, row'.lastAt = row.lastAt, row'.lastViews = row.lastViews,
           row'.firstAt = row.firstAt, watched' = FALSE,
           UNCHANGED <<now, views, pace, samples, steady>>, events' \in 0..MaxEvents
    PROVE  ScheduleInv'
<1>1. ScheduleTypeOK'
  BY DEF ScheduleInv, ScheduleTypeOK
<1>2. (IsFiniteSet(samples) /\ views <= MaxPace * now + 2)'
  BY DEF ScheduleInv
<1>3. Slowing' /\ LastIsSample'
  BY DEF ScheduleInv, Slowing, LastIsSample
<1>4. Foreseen'
  BY DEF Foreseen
<1> QED
  BY <1>1, <1>2, <1>3, <1>4 DEF ScheduleInv

LEMMA EventType ==
    ASSUME ScheduleTypeOK, Event
    PROVE  events' \in 0..MaxEvents
BY Numbers DEF ScheduleTypeOK, Event

LEMMA RetryInv == ASSUME ScheduleInv, Retry PROVE ScheduleInv'
<1>1. row \in Row /\ now \in Nat
  BY InvGives DEF ScheduleInv, ScheduleTypeOK
<1>2. Policy.retry[row.state] \in Nat
  BY <1>1, PolicyAssumption DEF Row
<1>3. row' = [row EXCEPT !.eligible = now + Policy.retry[row.state]]
  BY DEF Retry, Write
<1>4. /\ row' \in Row /\ row'.lastAt = row.lastAt /\ row'.lastViews = row.lastViews
      /\ row'.firstAt = row.firstAt
  BY <1>1, <1>2, <1>3 DEF Row
<1>5. events' \in 0..MaxEvents
  BY EventType DEF Retry, ScheduleInv
<1> QED
  BY <1>4, <1>5, WriteInv DEF Retry, Write

LEMMA VanishInv == ASSUME ScheduleInv, Vanish PROVE ScheduleInv'
<1>1. row \in Row /\ now \in Nat
  BY InvGives DEF ScheduleInv, ScheduleTypeOK
<1>2. row' = [row EXCEPT !.state = "archive", !.next = now + Policy.archiveInterval, !.eligible = now]
  BY DEF Vanish, Write
<1>3. now + Policy.archiveInterval \in Nat /\ "archive" \in State
  BY <1>1, Delays DEF State
<1>4. /\ row' \in Row /\ row'.lastAt = row.lastAt /\ row'.lastViews = row.lastViews
      /\ row'.firstAt = row.firstAt
  BY <1>1, <1>2, <1>3 DEF Row
<1>5. events' \in 0..MaxEvents
  BY EventType DEF Vanish, ScheduleInv
<1> QED
  BY <1>4, <1>5, WriteInv DEF Vanish, Write

LEMMA RegisterInv ==
    ASSUME ScheduleInv, NEW state \in State, NEW published \in Publication, Register(state, published)
    PROVE  ScheduleInv'
<1>1. row \in Row /\ now \in Nat
  BY InvGives DEF ScheduleInv, ScheduleTypeOK
<1>2. row' = [row EXCEPT !.state = state, !.next = now, !.published = published]
  BY DEF Register, Write
<1>3. published \in Int \cup {None}
  BY FixedAssumption DEF Publication
<1>4. /\ row' \in Row /\ row'.lastAt = row.lastAt /\ row'.lastViews = row.lastViews
      /\ row'.firstAt = row.firstAt
  BY <1>1, <1>2, <1>3 DEF Row
<1>5. events' \in 0..MaxEvents
  BY EventType DEF Register, ScheduleInv
<1> QED
  BY <1>4, <1>5, WriteInv DEF Register, Write

LEMMA PromoteInv ==
    ASSUME ScheduleInv, NEW target \in Milestone \cup {None}, Promote(target)
    PROVE  ScheduleInv'
<1>1. row \in Row /\ now \in Nat
  BY InvGives DEF ScheduleInv, ScheduleTypeOK
<1>2. row' = [row EXCEPT !.state = "milestone", !.next = now, !.eligible = 0,
                         !.target = Or(target, row.target)]
  BY DEF Promote, Write
<1>3. Or(target, row.target) \in Milestone \cup {None} /\ "milestone" \in State
  BY <1>1 DEF Row, Or, State
<1>4. /\ row' \in Row /\ row'.lastAt = row.lastAt /\ row'.lastViews = row.lastViews
      /\ row'.firstAt = row.firstAt
  BY <1>1, <1>2, <1>3 DEF Row
<1>5. events' \in 0..MaxEvents
  BY EventType DEF Promote, ScheduleInv
<1> QED
  BY <1>4, <1>5, WriteInv DEF Promote, Write

LEMMA TickInv == ASSUME ScheduleInv, Tick PROVE ScheduleInv'
<1>1. /\ now' = now + 1 /\ views' = views + pace /\ now < MaxTime
      /\ UNCHANGED <<pace, row, samples, steady, watched>>
  BY DEF Tick
<1>2. /\ Typed /\ Past /\ Slowing /\ LastIsSample
      /\ now \in Nat /\ views \in Nat /\ pace \in Nat
      /\ \A s \in samples : s \in Sample /\ s.at \in Nat /\ s.views \in Nat
  BY InvGives
<1>3. pace <= MaxPace /\ row.next \in Nat
  BY Numbers DEF ScheduleInv, ScheduleTypeOK, Row
<1>4. events' \in 0..MaxEvents
  BY EventType DEF Tick, ScheduleInv, ScheduleTypeOK
<1>5. ScheduleTypeOK'
  <2>1. now' \in Time /\ views' \in Nat
    BY <1>1, <1>2, Numbers
  <2> QED
    BY <1>1, <1>4, <2>1 DEF ScheduleInv, ScheduleTypeOK
<1>6. (IsFiniteSet(samples) /\ views <= MaxPace * now + 2)'
  <2>1. MaxPace * (now + 1) = MaxPace * now + MaxPace /\ MaxPace * now \in Nat
    BY <1>2, Numbers
  <2>2. views + pace <= MaxPace * (now + 1) + 2
    BY <1>2, <1>3, <2>1, Numbers DEF Typed
  <2> QED
    BY <1>1, <1>2, <2>2 DEF Typed
<1>7. Slowing'
  <2>1. ASSUME NEW s \in samples
        PROVE  s.at <= now + 1
    BY <1>2 DEF Past
  <2>2. ASSUME steady, NEW s \in samples
        PROVE  pace * ((now + 1) - s.at) <= (views + pace) - s.views
    <3>1. pace * (now - s.at) <= views - s.views
      BY <1>2, <2>2 DEF Slowing
    <3>2. pace * ((now + 1) - s.at) = pace * (now - s.at) + pace /\ pace * (now - s.at) \in Int
      <4>1. PICK p, n, k \in Int : p = pace /\ n = now /\ k = s.at
        BY <1>2
      <4>2. p * ((n + 1) - k) = p * (n - k) + p /\ p * (n - k) \in Int
        OBVIOUS
      <4> QED
        BY <4>1, <4>2
    <3> QED
      BY <1>2, <3>1, <3>2
  <2>3. \A s \in samples : s.at <= now'
    BY <1>1, <2>1
  <2>4. ASSUME steady, NEW s \in samples
        PROVE  pace * (now' - s.at) <= views' - s.views
    <3>1. pace * ((now + 1) - s.at) <= (views + pace) - s.views
      BY <2>2, <2>4
    <3>2. PICK n, v \in Nat : n = now' /\ v = views' /\ n = now + 1 /\ v = views + pace
      BY <1>1, <1>2
    <3>3. now + 1 = n /\ views + pace = v
      BY <3>2
    <3>4. pace * (n - s.at) <= v - s.views
      BY <3>1, <3>3, Zenon
    <3> QED
      BY <3>2, <3>4, Zenon
  <2> QED
    BY <1>1, <2>3, <2>4 DEF Slowing
<1>8. LastIsSample'
  <2>1. row.firstAt # None => row.firstAt <= now + 1
    <3>1. row.firstAt \in Time \cup {None}
      BY DEF ScheduleInv, ScheduleTypeOK, Row
    <3>2. ASSUME row.firstAt # None
          PROVE  row.firstAt \in Nat /\ row.firstAt <= now
      BY <1>2, <3>1, <3>2, Numbers DEF LastIsSample
    <3> QED
      BY <1>2, <3>2
  <2> QED
    BY <1>1, <1>2, <2>1 DEF LastIsSample
<1>9. ASSUME Foreseen
      PROVE  Foreseen'
  <2>1. now + 1 <= row.next => now <= row.next
    BY <1>2, <1>3
  <2>2. views + pace + pace * (row.next - (now + 1)) = views + pace * (row.next - now)
    <3>1. PICK p, n, k \in Int : p = pace /\ n = now /\ k = row.next
      BY <1>2, <1>3
    <3>2. PICK a, b \in Int : a = p * (k - n) /\ b = p * (k - (n + 1)) /\ b + p = a
      OBVIOUS
    <3> QED
      BY <1>2, <3>1, <3>2
  <2> QED
    BY <1>1, <1>9, <2>1, <2>2 DEF Foreseen, ClosestMilestone
<1>10. (Foresighted => Foreseen)'
  BY <1>9 DEF ScheduleInv, Foresighted
<1> QED
  BY <1>5, <1>6, <1>7, <1>8, <1>10 DEF ScheduleInv

\* A video that did not accelerate has lost no views.
LEMMA LastBelow ==
    ASSUME ScheduleInv, steady, row.lastAt # None
    PROVE  /\ row.lastAt \in Nat /\ row.lastAt <= now /\ row.lastViews \in Nat /\ row.lastViews <= views
           /\ ClosestMilestone(row.lastViews) \in Milestone /\ ClosestMilestone(row.lastViews) \in Nat
<1>1. /\ Typed /\ Past /\ Slowing /\ LastIsSample
      /\ now \in Nat /\ now \in Time /\ views \in Nat /\ pace \in Nat
  BY InvGives DEF ScheduleInv, ScheduleTypeOK
<1>2. row.lastAt \in Nat /\ row.lastViews \in Nat
  BY Numbers DEF ScheduleInv, ScheduleTypeOK, Row
<1>3. row.lastAt <= now /\ pace * (now - row.lastAt) <= views - row.lastViews
  <2>1. [at |-> row.lastAt, views |-> row.lastViews] \in samples
    BY <1>1 DEF LastIsSample
  <2> QED
    BY <1>1, <2>1 DEF Slowing, Past
<1>4. row.lastViews <= views
  <2>1. PICK t \in Nat : t = now - row.lastAt
    BY <1>1, <1>2, <1>3
  <2>2. PICK k \in Nat : k = pace * t
    BY <1>1
  <2> QED
    BY <1>1, <1>2, <1>3, <2>1, <2>2
<1>5. row.lastViews <= MaxPace * now + 2
  <2>1. PICK k \in Nat : k = MaxPace * now
    BY <1>1, Numbers
  <2> QED
    BY <1>1, <1>2, <1>4, <2>1 DEF Typed
<1> QED
  BY <1>1, <1>2, <1>3, <1>4, <1>5, ClosestType, Numbers

LEMMA ChangePaceInv == ASSUME ScheduleInv, NEW p \in 0..MaxPace, ChangePace(p) PROVE ScheduleInv'
<1>1. /\ pace' = p /\ steady' = (steady /\ p < pace) /\ UNCHANGED <<now, views, row, samples, watched>>
  BY DEF ChangePace
<1>2. /\ Typed /\ Past /\ Slowing /\ LastIsSample
      /\ now \in Nat /\ views \in Nat /\ pace \in Nat
      /\ \A s \in samples : s \in Sample /\ s.at \in Nat /\ s.views \in Nat /\ s.at <= now
  BY InvGives DEF Past
<1>3. p \in Nat /\ row.next \in Nat
  BY Numbers DEF ScheduleInv, ScheduleTypeOK, Row
<1>4. events' \in 0..MaxEvents
  BY EventType DEF ChangePace, ScheduleInv
<1>5. ScheduleTypeOK'
  BY <1>1, <1>4 DEF ScheduleInv, ScheduleTypeOK
<1>6. (IsFiniteSet(samples) /\ views <= MaxPace * now + 2)'
  BY <1>1, <1>2 DEF Typed
<1>7. ASSUME p < pace, NEW n \in Int, n >= 0
      PROVE  p * n <= pace * n /\ p * n \in Int /\ pace * n \in Int
  BY <1>2, <1>3, <1>7, Products
<1>8. Slowing'
  <2>1. ASSUME steady, p < pace, NEW s \in samples
        PROVE  p * (now - s.at) <= views - s.views
    <3>1. pace * (now - s.at) <= views - s.views
      BY <1>2, <2>1 DEF Slowing
    <3>2. now - s.at \in Int /\ now - s.at >= 0 /\ views - s.views \in Int
      BY <1>2
    <3> QED
      BY <1>7, <2>1, <3>1, <3>2
  <2> QED
    BY <1>1, <1>2, <2>1 DEF Slowing, Past
<1>9. LastIsSample'
  BY <1>1, <1>2 DEF LastIsSample
<1>10. ASSUME Foreseen
       PROVE  Foreseen'
  <2>1. ASSUME p < pace, now <= row.next, NEW m \in Nat, views + pace * (row.next - now) < m
        PROVE  views + p * (row.next - now) < m
    <3>1. row.next - now \in Int /\ row.next - now >= 0
      BY <1>2, <1>3, <2>1
    <3>2. PICK a, b \in Int : a = p * (row.next - now) /\ b = pace * (row.next - now) /\ a <= b
      BY <1>7, <2>1, <3>1
    <3> QED
      BY <1>2, <2>1, <3>2
  <2>2. watched /\ steady => ClosestMilestone(row.lastViews) \in Nat
    BY <1>10, LastBelow DEF Foreseen
  <2>3. watched => row.lastAt # None /\ (row.state = "milestone" => row.target = ClosestMilestone(row.lastViews))
    BY <1>10 DEF Foreseen
  <2>4. ASSUME watched, steady, p < pace, now <= row.next
        PROVE  \/ row.next - row.lastAt <= Fixed.minimumDelay
               \/ views + p * (row.next - now) < ClosestMilestone(row.lastViews)
    BY <1>10, <2>1, <2>2, <2>4 DEF Foreseen
  <2> QED
    BY <1>1, <2>3, <2>4 DEF Foreseen, ClosestMilestone
<1>11. (Foresighted => Foreseen)'
  BY <1>10 DEF ScheduleInv, Foresighted
<1> QED
  BY <1>5, <1>6, <1>8, <1>9, <1>11 DEF ScheduleInv

LEMMA RecountInv == ASSUME ScheduleInv, Recount PROVE ScheduleInv'
<1>1. /\ views > 0 /\ views' = views - 1 /\ steady' = FALSE
      /\ UNCHANGED <<now, pace, row, samples, watched>>
  BY DEF Recount
<1>2. /\ Typed /\ Past /\ LastIsSample /\ now \in Nat /\ views \in Nat
  BY InvGives
<1>3. events' \in 0..MaxEvents
  BY EventType DEF Recount, ScheduleInv
<1>4. ScheduleTypeOK'
  <2>1. views' \in Nat
    BY <1>1, <1>2
  <2>2. steady' \in BOOLEAN
    BY <1>1
  <2> QED
    BY <1>1, <1>3, <2>1, <2>2 DEF ScheduleInv, ScheduleTypeOK
<1>5. (IsFiniteSet(samples) /\ views <= MaxPace * now + 2)'
  <2>1. PICK k \in Nat : k = MaxPace * now
    BY <1>2, Numbers
  <2>2. views - 1 <= MaxPace * now + 2
    BY <1>2, <2>1 DEF Typed
  <2> QED
    BY <1>1, <1>2, <2>2 DEF Typed
<1>6. Slowing' /\ LastIsSample'
  BY <1>1, <1>2 DEF Slowing, LastIsSample, Past
<1>7. Foreseen => Foreseen'
  BY <1>1 DEF Foreseen, ClosestMilestone
<1>8. (Foresighted => Foreseen)'
  BY <1>7 DEF ScheduleInv, Foresighted
<1> QED
  BY <1>4, <1>5, <1>6, <1>8 DEF ScheduleInv

\* The steps that commit a sample.
LEMMA Samplings ==
    ASSUME ScheduleNext
    PROVE  \/ Evaluate /\ UNCHANGED <<now, views, pace, steady>> /\ (UNCHANGED events \/ Event)
           \/ samples' = samples
BY DEF ScheduleNext, TakeSample, ForceSample, Retry, Vanish, Tick, Recount, Register, Promote, ChangePace

LEMMA ScheduleStep ==
    ASSUME ScheduleInv, [ScheduleNext]_scheduleVars
    PROVE  ScheduleInv'
<1>1. CASE TakeSample \/ ForceSample
  <2>1. Evaluate /\ UNCHANGED <<now, views, pace, steady>> /\ (UNCHANGED events \/ Event)
    BY <1>1 DEF TakeSample, ForceSample
  <2>2. events' \in 0..MaxEvents
    BY <2>1, EventType DEF ScheduleInv, ScheduleTypeOK
  <2> QED
    BY <2>1, <2>2, SampleInv
<1>2. CASE Retry \/ Vanish \/ Tick \/ Recount
  BY <1>2, RetryInv, VanishInv, TickInv, RecountInv
<1>3. ASSUME NEW state \in State, NEW published \in Publication, Register(state, published)
      PROVE  ScheduleInv'
  BY <1>3, RegisterInv
<1>4. ASSUME NEW target \in Milestone \cup {None}, Promote(target)
      PROVE  ScheduleInv'
  BY <1>4, PromoteInv
<1>5. ASSUME NEW p \in 0..MaxPace, ChangePace(p)
      PROVE  ScheduleInv'
  BY <1>5, ChangePaceInv
<1>6. CASE UNCHANGED scheduleVars
  <2>1. UNCHANGED <<now, views, pace, row, samples, steady, watched, events>>
    BY <1>6 DEF scheduleVars
  <2>2. (Foresighted => Foreseen)'
    BY <2>1 DEF ScheduleInv, Foreseen, Foresighted, ClosestMilestone
  <2> QED
    BY <2>1, <2>2 DEF ScheduleInv, ScheduleTypeOK, Slowing, LastIsSample
<1> QED
  BY <1>1, <1>2, <1>3, <1>4, <1>5, <1>6 DEF ScheduleNext

\* The inductive invariant of the schedule holds in every reachable state, for any policy.
THEOREM ScheduleInvAlways == ScheduleSpec => []ScheduleInv
<1>1. ScheduleInit => ScheduleInv
  BY ScheduleInitInv
<1>2. ScheduleInv /\ [ScheduleNext]_scheduleVars => ScheduleInv'
  BY ScheduleStep
<1> QED
  BY <1>1, <1>2, PTL DEF ScheduleSpec

\* The row, its samples and the clock keep their types.
THEOREM ScheduleTypeCorrect == ScheduleSpec => []ScheduleTypeOK
<1>1. ScheduleInv => ScheduleTypeOK
  BY DEF ScheduleInv
<1> QED
  BY <1>1, ScheduleInvAlways, PTL

\* A sprint is for a target ahead of a video that has grown within the retention.
THEOREM SprintIsAliveAlways == ScheduleSpec => SprintIsAlive
<1>1. ScheduleInv /\ [ScheduleNext]_scheduleVars =>
        [(Sampled /\ row'.state = "milestone")
           => /\ row'.target > views
              /\ \E s \in samples : now - Retention <= s.at /\ s.views < views]_scheduleVars
  <2> SUFFICES ASSUME ScheduleInv, ScheduleNext, Sampled, row'.state = "milestone"
               PROVE  /\ row'.target > views
                      /\ \E s \in samples : now - Retention <= s.at /\ s.views < views
    OBVIOUS
  <2>1. Evaluate
    BY Samplings DEF Sampled
  <2>2. Typed /\ Past /\ LastIsSample
    BY InvGives
  <2>3. Sprints
    <3>1. ASSUME Waits
          PROVE  FALSE
      <4>1. PICK state \in State, i \in Nat, target \in Milestone \cup {None} :
                Settle(state, now + i, target) /\ state # "milestone"
        BY <3>1 DEF Waits
      <4> QED
        BY <2>2, <4>1, SettleGives DEF Settled
    <3> QED
      BY <2>1, <2>2, <3>1, Evaluations
  <2>4. WithinReach /\ row'.target = Aim
    BY <2>2, <2>3, SettleGives DEF Sprints, Settled
  <2>5. Remaining > 0 /\ Fastest \in Speeds
    BY <2>2, <2>4, SprintDelayType
  <2>6. row'.target > views
    BY <2>2, <2>4, <2>5, AimType
  <2>7. PICK s \in History : Fastest.views = views - s.views
    BY <2>2, <2>5, SpeedsType
  <2>8. Fastest.views \in Nat /\ Fastest.views > 0
    BY <2>2, <2>5, SpeedsType DEF Speed
  <2>9. s \in samples /\ s.views \in Nat /\ now - Retention <= s.at
    BY <2>2, HistoryType
  <2>10. s.views < views
    BY <2>2, <2>7, <2>8, <2>9, AimType
  <2> QED
    BY <2>6, <2>9, <2>10
<1> QED
  BY <1>1, ScheduleInvAlways, PTL DEF ScheduleSpec, SprintIsAlive

\* A watched video that does not accelerate is sampled when it reaches its milestone, under any policy
\* whose other intervals stay within its reach.
THEOREM CrossingIsCaughtAlways == Foresighted => (ScheduleSpec => CrossingIsCaught)
<1> SUFFICES ASSUME Foresighted PROVE ScheduleSpec => CrossingIsCaught
  OBVIOUS
<1>1. ScheduleInv =>
        ((Sampled /\ watched /\ steady /\ now <= row.next /\ row.lastViews < Ahead /\ views >= Ahead)
           => now - row.lastAt <= Fixed.minimumDelay)
  <2> SUFFICES ASSUME ScheduleInv, watched, steady, now <= row.next, views >= Ahead
               PROVE  now - row.lastAt <= Fixed.minimumDelay
    OBVIOUS
  <2>1. /\ row.lastAt # None
        /\ row.state = "milestone" => row.target = ClosestMilestone(row.lastViews)
        /\ \/ row.next - row.lastAt <= Fixed.minimumDelay
           \/ views + pace * (row.next - now) < ClosestMilestone(row.lastViews)
    BY DEF ScheduleInv, Foreseen
  <2>2. Ahead = ClosestMilestone(row.lastViews)
    BY <2>1 DEF Ahead
  <2>3. PICK m, last \in Nat : m = ClosestMilestone(row.lastViews) /\ last = row.lastAt
    BY <2>1, LastBelow
  <2>4. PICK n, k, v, p \in Nat : n = now /\ k = row.next /\ v = views /\ p = pace /\ n <= k
    BY InvGives DEF ScheduleInv, ScheduleTypeOK, Row
  <2>5. ~(v + p * (k - n) < m)
    <3>1. PICK d \in Nat : d = k - n
      BY <2>4
    <3>2. PICK q \in Nat : q = p * d
      OBVIOUS
    <3>3. v >= m
      BY <2>2, <2>3, <2>4
    <3> QED
      BY <3>1, <3>2, <3>3
  <2>6. k - last <= Fixed.minimumDelay
    BY <2>1, <2>3, <2>4, <2>5
  <2> QED
    BY <2>3, <2>4, <2>6, Delays
<1>2. ScheduleInv /\ [ScheduleNext]_scheduleVars =>
        [(Sampled /\ watched /\ steady /\ now <= row.next /\ row.lastViews < Ahead /\ views >= Ahead)
           => now - row.lastAt <= Fixed.minimumDelay]_scheduleVars
  BY <1>1
<1> QED
  BY <1>2, ScheduleInvAlways, PTL DEF ScheduleSpec, CrossingIsCaught
====
