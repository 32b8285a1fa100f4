---- MODULE TrackingSchedule ----
(***************************************************************************)
(* When a video is sampled next (apps/crawler/src/crawler/tracking/        *)
(* scheduler.ts, policy.ts, milestone.ts): the life of one row of          *)
(* video_tracking while its video gains views.  Every branch of            *)
(* evaluateNextSchedule is an action; a committed sample takes exactly one *)
(* (snapshot/service.ts:179-280).  Whose sample is committed, leases and   *)
(* jobs are SnapshotPipeline's; here a sample is one step.                 *)
(*                                                                         *)
(* Time and views are integers of a coarse unit.  A speed is a record of   *)
(* views gained and time passed, and quotients are compared by             *)
(* multiplying out, so that nothing is rounded but what the code rounds.   *)
(***************************************************************************)
EXTENDS Integers, FiniteSetsExt

CONSTANTS
    None,           \* null
    Milestone,      \* the view counts of getClosetMilestone
    Factor,         \* getMilestoneEtaFactor, by the views that remain
    Policy,         \* the TrackingPolicyConfig in force
    Fixed,          \* the numbers scheduler.ts and policy.ts hold: intervals and thresholds
    Window,         \* MILESTONE_HISTORY_WINDOWS_MS
    Retention,      \* the age beyond which getSchedulingHistories reads no snapshot
    MaxPace,        \* bound: views gained in a unit of time
    MaxTime,        \* bound: the last moment
    MaxEvents       \* bound: what disturbs the plain course: faults, commands, delays, changes of pace

State == {"new", "regular", "milestone", "archive"}

ASSUME BoundAssumption == MaxPace \in Nat \ {0} /\ MaxTime \in Nat /\ MaxEvents \in Nat
ASSUME NoneAssumption == None \notin Int
ASSUME WindowAssumption ==
    Window \subseteq Nat \ {0} /\ Window # {} /\ IsFiniteSet(Window) /\ Retention \in Nat
ASSUME MilestoneAssumption ==
    Milestone \subseteq Nat /\ \A v \in 0..(MaxPace * (MaxTime + 2)) : \E m \in Milestone : m > v
\* The code's factor is never below 4.5.
ASSUME FactorAssumption ==
    \A m \in Milestone : \A r \in 1..m : Factor[r] \in Nat /\ Factor[r] >= 2
ASSUME PolicyAssumption ==
    /\ Policy.initialSampling \subseteq Nat \ {0}
    /\ {Policy.minRegularInterval, Policy.archiveInterval, Policy.zeroTier, Policy.milestoneMaxEta,
        Policy.captureLead, Policy.captureInterval} \subseteq Nat
    /\ \A t \in Policy.regularTiers : t.below \in Nat /\ t.interval \in Nat
    /\ \A s \in State : Policy.retry[s] \in Nat
ASSUME FixedAssumption ==
    /\ Fixed.minimumDelay \in Nat \ {0}
    /\ {Fixed.longDelay, Fixed.achieved, Fixed.left, Fixed.expired, Fixed.cold, Fixed.revived,
        Fixed.slow, Fixed.fastest, Fixed.dormancy} \subseteq Nat
    /\ \A t \in Fixed.newTiers : t.interval \in Nat

VARIABLES
    now,
    views,      \* what Bilibili would answer
    pace,       \* the views it gains in the coming unit of time
    row,        \* the row of video_tracking
    samples,    \* its rows of video_snapshot
    steady,     \* history: the pace has never risen
    watched,    \* history: the last write was by a sample that judged the next milestone by a history
    events

scheduleVars == <<now, views, pace, row, samples, steady, watched, events>>

Time == 0..MaxTime
Sample == [at : Time, views : Nat]

\* next_snapshot_at and eligible_at are times, published may lie before the beginning.
Row == [state : State, next : Nat, eligible : Nat, lastViews : Nat, lastAt : Time \cup {None},
        firstAt : Time \cup {None}, target : Milestone \cup {None}, published : Int \cup {None}]

ScheduleTypeOK ==
    /\ now \in Time
    /\ views \in Nat
    /\ pace \in 0..MaxPace
    /\ row \in Row
    /\ samples \subseteq Sample
    /\ steady \in BOOLEAN
    /\ watched \in BOOLEAN
    /\ events \in 0..MaxEvents

\* The dates of publication: unknown, recent, long ago.
Publication == {None, 0, 0 - Fixed.dormancy}

\* Added by discovery as new, or by the control plane as regular without a publication date.
ScheduleInit ==
    /\ now = 0
    /\ views \in {0, 2}
    /\ pace \in 0..MaxPace
    /\ \E state \in {"new", "regular"}, published \in Publication :
          /\ state = "regular" => published = None
          /\ row = [state |-> state, next |-> 0, eligible |-> 0, lastViews |-> 0, lastAt |-> None,
                    firstAt |-> None, target |-> None, published |-> published]
    /\ samples = {}
    /\ steady = TRUE
    /\ watched = FALSE
    /\ events = 0

----------------------------------------------------------------------------
(* What the sample at hand tells.                                          *)

\* The first non-null of two.
Or(x, y) == IF x # None THEN x ELSE y

\* Mutant: the steps above the largest named milestone are taken from the beginning.
ClosestMilestoneByStep(v) ==
    LET step == Min(Milestone) IN (v \div step + 1) * step

ClosestMilestone(v) == Min({m \in Milestone : m > v})

\* Mutant: the history is not cut off.
LatestEver(cutoff) ==
    LET upTo == {s \in samples : s.at <= cutoff}
    IN {s \in upTo : \A t \in upTo : t.at <= s.at}

\* The last snapshot before a window's start, if it is recent enough to be read.
Latest(cutoff) ==
    LET upTo == {s \in samples : s.at <= cutoff /\ now - Retention <= s.at}
    IN {s \in upTo : \A t \in upTo : t.at <= s.at}

History == {s \in UNION {Latest(now - w) : w \in Window} : s.views <= views}

\* The snapshot nearest to the start of a window, the later one of two.
Nearest(w) ==
    CHOOSE s \in History : \A t \in History :
        LET from(u) == Max({u.at - (now - w), (now - w) - u.at})
        IN from(s) < from(t) \/ (from(s) = from(t) /\ t.at <= s.at)

Aim == IF row.state = "milestone" THEN Or(row.target, ClosestMilestone(views))
       ELSE ClosestMilestone(views)

Remaining == Aim - views

\* The speeds of the windows; an archived video's are not looked at.
Speeds ==
    IF row.state = "archive" \/ Remaining <= 0 \/ History = {} THEN {}
    ELSE {g \in {[views |-> views - s.views, time |-> now - s.at] : s \in {Nearest(w) : w \in Window}} :
              g.views > 0}

Faster(g, h) == g.views * h.time >= h.views * g.time

Fastest == CHOOSE g \in Speeds : \A h \in Speeds : Faster(g, h)

\* Mutant: a new video is not judged by its milestone.
WithinReachUnlessNew ==
    /\ row.state # "new"
    /\ \E g \in Speeds : Remaining * g.time <= Policy.milestoneMaxEta * Factor[Remaining] * g.views

\* The adjusted ETA of the fastest window is within milestoneMaxEtaHours.
WithinReach ==
    \E g \in Speeds : Remaining * g.time <= Policy.milestoneMaxEta * Factor[Remaining] * g.views

\* milestoneDelayMs of the adjusted ETA, eta / scale.
SprintDelay ==
    LET eta == Remaining * Fastest.time
        scale == Factor[Remaining] * Fastest.views
        rounded == (2 * eta + scale) \div (2 * scale)
        cap == IF eta <= Policy.captureLead * scale THEN Policy.captureInterval ELSE Fixed.longDelay
    IN Max({Fixed.minimumDelay, Min({cap, rounded})})

\* A previous sample to measure against: earlier, and not of more views.
Measured == row.lastAt # None /\ row.lastAt < now /\ row.lastViews <= views

SinceLast == [views |-> views - row.lastViews, time |-> now - row.lastAt]

\* A new video without a measured speed is given its average since publication.
SincePublished == [views |-> views, time |-> now - row.published]

Velocities ==
    (IF Measured THEN {SinceLast} ELSE {})
    \cup (IF /\ row.state = "new" /\ row.published # None
             /\ ~(Measured /\ views > row.lastViews)
          THEN {g \in {SincePublished} : g.time > 0} ELSE {})
    \cup Speeds

\* velocity > speed, and velocity >= speed.
VelocityAbove(speed) == \E g \in Velocities : g.views > speed * g.time
VelocityAtLeast(speed) == \E g \in Velocities : g.views >= speed * g.time

Age == now - row.published

----------------------------------------------------------------------------
(* evaluateNextSchedule, one branch an action.                             *)

\* acceptedAt, and the first_captured_at that is stored.
FirstAt == Or(row.firstAt, Or(row.lastAt, now))

\* The transaction's writes.  A branch that does not speak of the target keeps it.
Settle(state, next, target) ==
    /\ row' = [row EXCEPT !.state = state, !.next = next, !.target = target, !.eligible = now,
                          !.lastViews = views, !.lastAt = now, !.firstAt = FirstAt]
    /\ samples' = samples \cup {[at |-> now, views |-> views]}
    /\ watched' = (row.state # "archive" /\ History # {} /\ Aim = ClosestMilestone(views))

\* getRegularNextSnapshotAt
SettleRegular(interval, target) ==
    Settle("regular", now + Max({interval, Policy.minRegularInterval}), target)

\* Both the sprint that goes on and the promotion of a new or regular video.
Sprint == WithinReach /\ Settle("milestone", now + SprintDelay, Aim)

Achieve == row.state = "milestone" /\ Remaining <= 0 /\ SettleRegular(Fixed.achieved, None)

LeaveSprint ==
    /\ row.state = "milestone" /\ Remaining > 0 /\ ~WithinReach
    /\ SettleRegular(Fixed.left, None)

New == row.state = "new" /\ ~WithinReach

\* getNextInitialSampleAt
InitialSamples == {t \in {FirstAt + i : i \in Policy.initialSampling} : t > now}

SampleInitially ==
    /\ New /\ InitialSamples # {}
    /\ Settle("new", Min(InitialSamples), row.target)

Aged == New /\ InitialSamples = {}

Expired == row.published # None /\ Age > Policy.newMaxAge
Cold == row.published # None /\ Age > Fixed.coldAge /\ ~VelocityAtLeast(Policy.newMinVelocity)

Expire == Aged /\ Expired /\ SettleRegular(Fixed.expired, row.target)

Cool == Aged /\ ~Expired /\ Cold /\ SettleRegular(Fixed.cold, row.target)

\* The interval of the fastest tier of Fixed.newTiers the video exceeds.
KeepNew ==
    /\ Aged /\ ~Expired /\ ~Cold
    /\ LET exceeded == {t \in Fixed.newTiers : VelocityAbove(t.above)}
       IN Settle("new", now + Min({Fixed.slow} \cup {t.interval : t \in exceeded}), row.target)

Revive ==
    /\ row.state = "archive" /\ VelocityAbove(Fixed.reviveVelocity)
    /\ SettleRegular(Fixed.revived, row.target)

StayArchived ==
    /\ row.state = "archive" /\ ~VelocityAbove(Fixed.reviveVelocity)
    /\ Settle("archive", now + Policy.archiveInterval, row.target)

Regular == row.state = "regular" /\ ~WithinReach

TakeBaseline == Regular /\ ~Measured /\ SettleRegular(0, row.target)

Dormant ==
    /\ Measured /\ views = row.lastViews
    /\ row.published # None /\ Age > Fixed.dormancy

Demote == Regular /\ Dormant /\ Settle("archive", now + Policy.archiveInterval, row.target)

\* getRegularSnapshotIntervalHours: the first tier above the gain, or the one of no gain.
RegularInterval ==
    LET above == {t \in Policy.regularTiers : SinceLast.views < t.below * SinceLast.time}
    IN IF views = row.lastViews THEN Policy.zeroTier
       ELSE Min({t.interval : t \in {u \in above : \A v \in above : u.below <= v.below}}
                \cup (IF above = {} THEN {Fixed.fastest} ELSE {}))

KeepRegular == Regular /\ Measured /\ ~Dormant /\ SettleRegular(RegularInterval, row.target)

Evaluate ==
    \/ Sprint \/ Achieve \/ LeaveSprint
    \/ SampleInitially \/ Expire \/ Cool \/ KeepNew
    \/ Revive \/ StayArchived
    \/ TakeBaseline \/ Demote \/ KeepRegular

----------------------------------------------------------------------------
(* What happens to the row and the video.                                  *)

Due == row.next <= now /\ row.eligible <= now

Event == events < MaxEvents /\ events' = events + 1

\* Two samples of one moment have one key, and the second is not stored.
Fresh == row.lastAt # now

TakeSample == Due /\ Fresh /\ Evaluate /\ UNCHANGED <<now, views, pace, steady, events>>

\* A manual snapshot does not wait for the row to be due.
ForceSample == ~Due /\ Event /\ Fresh /\ Evaluate /\ UNCHANGED <<now, views, pace, steady>>

Write(new) == row' = new /\ watched' = FALSE

\* retryBatch: the row stays as it is until eligible_at.
Retry ==
    /\ Due /\ Event
    /\ Write([row EXCEPT !.eligible = now + Policy.retry[row.state]])
    /\ UNCHANGED <<now, views, pace, samples, steady>>

\* The video is found to be gone, by a sample (evaluateNextSchedule with failureKind unavailable)
\* or by a discovery.
Vanish ==
    /\ Event
    /\ Write([row EXCEPT !.state = "archive", !.next = now + Policy.archiveInterval, !.eligible = now])
    /\ UNCHANGED <<now, views, pace, samples, steady>>

\* upsertTracking of a video that is tracked: by the control plane, which knows no date of
\* publication, or as new by discovery.
Register(state, published) ==
    /\ state = "new" \/ published = row.published
    /\ Event
    /\ Write([row EXCEPT !.state = state, !.next = now, !.published = published])
    /\ UNCHANGED <<now, views, pace, samples, steady>>

Promote(target) ==
    /\ Event
    /\ Write([row EXCEPT !.state = "milestone", !.next = now, !.eligible = 0,
                         !.target = Or(target, row.target)])
    /\ UNCHANGED <<now, views, pace, samples, steady>>

\* A moment passes.  That a due row waits for its sample is an event.
Tick ==
    /\ now < MaxTime
    /\ now' = now + 1
    /\ views' = views + pace
    /\ IF Due /\ Fresh THEN Event ELSE UNCHANGED events
    /\ UNCHANGED <<pace, row, samples, steady, watched>>

ChangePace(p) ==
    /\ p # pace /\ Event
    /\ pace' = p
    /\ steady' = (steady /\ p < pace)
    /\ UNCHANGED <<now, views, row, samples, watched>>

\* Bilibili takes views back.
Recount ==
    /\ views > 0 /\ Event
    /\ views' = views - 1
    /\ steady' = FALSE
    /\ UNCHANGED <<now, pace, row, samples, watched>>

ScheduleNext ==
    \/ TakeSample \/ ForceSample \/ Retry \/ Vanish \/ Tick \/ Recount
    \/ \E state \in State, published \in Publication : Register(state, published)
    \/ \E target \in Milestone \cup {None} : Promote(target)
    \/ \E p \in 0..MaxPace : ChangePace(p)

ScheduleSpec == ScheduleInit /\ [][ScheduleNext]_scheduleVars

----------------------------------------------------------------------------
(* Properties.                                                             *)

Sampled == samples' # samples

\* The milestone ahead when the last sample was taken.
Ahead == IF row.state = "milestone" THEN row.target ELSE ClosestMilestone(row.lastViews)

\* A video that does not accelerate is sampled when it reaches its milestone, no longer than the
\* shortest delay after it was last seen below: the sprint begins before it is too late and every delay
\* of it stays short of the milestone (provided nobody interferes and the sample is on time).
CrossingIsCaught ==
    [][(Sampled /\ watched /\ steady /\ now <= row.next /\ row.lastViews < Ahead /\ views >= Ahead)
         => now - row.lastAt <= Fixed.minimumDelay]_scheduleVars

\* A sprint is for a target that is ahead of a video that has grown within the retention: neither a
\* reached target nor a video that stands still keeps the frequent samples.
SprintIsAlive ==
    [][(Sampled /\ row'.state = "milestone")
         => /\ row'.target > views
            /\ \E s \in samples : now - Retention <= s.at /\ s.views < views]_scheduleVars

----------------------------------------------------------------------------
(* Why these hold: an inductive invariant, proved in TrackingDecisionProofs.                       *)

\* What the policy must keep to: whoever is not sampled as in a sprint is sampled again before the
\* milestone that was out of reach can come.  With the defaults the longest interval is 48 hours, and
\* the reach is 144 hours times a factor of at least 4.5.
Foresighted ==
    \A m \in Milestone : \A r \in 1..m :
        \A i \in {Fixed.left, Fixed.expired, Fixed.cold, Fixed.slow, Fixed.fastest,
                  Policy.minRegularInterval}
                 \cup Policy.initialSampling \cup {t.interval : t \in Policy.regularTiers} :
            i <= Policy.milestoneMaxEta * Factor[r]

\* What was sampled tells no less than the present pace, as long as that has never risen.
Slowing ==
    /\ \A s \in samples : s.at <= now
    /\ steady => \A s \in samples : pace * (now - s.at) <= views - s.views

\* The row remembers its last sample, and the first was no later.
LastIsSample ==
    /\ row.lastAt # None => [at |-> row.lastAt, views |-> row.lastViews] \in samples
    /\ row.firstAt # None => row.firstAt <= now

\* A watched video has no time to reach its milestone until it is due.
Foreseen ==
    watched =>
        /\ row.lastAt # None
        /\ row.state = "milestone" => row.target = ClosestMilestone(row.lastViews)
        /\ steady /\ now <= row.next
             => \/ row.next - row.lastAt <= Fixed.minimumDelay
                \/ views + pace * (row.next - now) < ClosestMilestone(row.lastViews)

ScheduleInv ==
    /\ ScheduleTypeOK
    /\ IsFiniteSet(samples) /\ views <= MaxPace * now + 2
    /\ Slowing /\ LastIsSample
    /\ Foresighted => Foreseen

====
