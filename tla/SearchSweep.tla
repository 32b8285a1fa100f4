---- MODULE SearchSweep ----
(***************************************************************************)
(* Incremental search sweeps of one keyword: each reads the newest videos  *)
(* first, page by page, queues those that are not tracked, and records in  *)
(* a ledger which windows of publication time are explored, so that later  *)
(* sweeps start at the earliest gap. Sweeps of the schedule and manual     *)
(* ones overlap, fail, are deferred and start over.                        *)
(*                                                                         *)
(*   now        the time                                                   *)
(*   published  when each video was published, Never before                *)
(*   listed     the videos the upstream search finds                       *)
(*   found      videos that are tracked or were queued for their details   *)
(*              (what becomes of those is modelled in DiscoveryLabels)     *)
(*   explored   discovery_search_window: starts of explored windows        *)
(*   sweeps     the sweep jobs                                             *)
(*   covered    history: videos the windows marked so far were to contain: *)
(*              those published before the sweep was taken up              *)
(*   displaced  history: videos that moved to a page already read          *)
(***************************************************************************)
EXTENDS Integers, FiniteSets, FiniteSetsExt, Functions

CONSTANTS
    Video,          \* numbered in the order they are published
    Sweep,          \* sweep jobs that may be in the queue at once
    CategoryOf,     \* the category of each video
    AnyCategory,
    Never,
    Request,        \* what sweeps may be asked for
    Window,         \* WINDOW_SIZE_SECONDS
    Lookback,       \* timeWindowDays
    PageSize,
    MaxAttempts,    \* the retry policy
    MaxTime         \* bound: time

Time == 0..MaxTime

\* from and to are Never unless the operator gives them; the schedule gives nothing.
RequestRecord == [from : Time \cup {Never}, to : Time \cup {Never}, category : Range(CategoryOf) \cup {AnyCategory},
                  pages : Nat \ {0}]

ASSUME SizeAssumption == /\ {Window, Lookback, PageSize, MaxAttempts} \subseteq Nat \ {0}
                         /\ MaxTime \in Nat
ASSUME RequestAssumption == Request \subseteq RequestRecord
ASSUME VideoAssumption == Video \subseteq Nat
ASSUME NoneAssumption == Never \notin Int /\ AnyCategory \notin Range(CategoryOf)

VARIABLES now, published, listed, found, explored, sweeps, covered, displaced

vars == <<now, published, listed, found, explored, sweeps, covered, displaced>>

-----------------------------------------------------------------------------
(* What the upstream answers. *)

\* The listed videos of a range and category.
Results(from, to, category) ==
    {v \in listed : published[v] \in from..to /\ category \in {CategoryOf[v], AnyCategory}}

\* The place of a video in its results, newest first.
Place(results, v) == Cardinality({u \in results : u >= v})

NumPages(results) == (Cardinality(results) + PageSize - 1) \div PageSize
Page(results, n) == {v \in results : Place(results, v) \in ((n - 1) * PageSize + 1)..(n * PageSize)}

-----------------------------------------------------------------------------
(* Windows and the ledger. *)

FloorSlot(t) == (t \div Window) * Window
CeilSlot(t) == ((t + Window - 1) \div Window) * Window
Slots(first, last) == {s \in first..last : s % Window = 0}

WholeSlotsRoundedOut(from, to) == Slots(FloorSlot(from), FloorSlot(to))

\* markSlotsExplored: only the windows that lie within the range as a whole.
WholeSlots(from, to) == Slots(CeilSlot(from), FloorSlot(to) - Window)

Mark(s, from, to) ==
    LET marked == WholeSlots(from, to) IN
    /\ explored' = explored \cup marked
    /\ covered' = covered \cup
           {v \in listed : /\ FloorSlot(published[v]) \in marked
                           /\ sweeps[s].ask.category \in {CategoryOf[v], AnyCategory}
                           /\ published[v] < sweeps[s].asOf}

-----------------------------------------------------------------------------
(* The sweep jobs. *)

NoRequest == [from |-> Never, to |-> Never, category |-> AnyCategory, pages |-> 1]

SweepRecord == [pc       : {"idle", "waiting", "look", "query", "offer", "mark"},
                ask      : RequestRecord,
                asOf     : Time \cup {Never},    \* saved with the job by its first attempt
                failures : 0..MaxAttempts,
                from     : Time,                 \* startFrom
                to       : Int,                  \* currentTo
                page     : Nat,
                inHand   : SUBSET Video,         \* the page just read
                isLast   : BOOLEAN,              \* page >= numPages
                oldest   : Int,                  \* batchOldestTime
                end      : BOOLEAN]              \* reachedEnd

IdleSweep == [pc |-> "idle", ask |-> NoRequest, asOf |-> Never, failures |-> 0, from |-> 0, to |-> 0,
              page |-> 0, inHand |-> {}, isLast |-> FALSE, oldest |-> 0, end |-> FALSE]

\* The job is back in the queue with what was saved: the time of its first attempt and its failures.
Requeued(w, failures) ==
    [IdleSweep EXCEPT !.pc = "waiting", !.ask = w.ask, !.asOf = w.asOf, !.failures = failures]

\* A batch: the pages from the newest video up to some time backwards.
Batch(w, to) == [w EXCEPT !.pc = "query", !.to = to, !.page = 1, !.oldest = to, !.end = FALSE]

Trigger(s, ask) ==
    /\ sweeps[s].pc = "idle"
    /\ sweeps' = [sweeps EXCEPT ![s] = [IdleSweep EXCEPT !.pc = "waiting", !.ask = ask]]
    /\ UNCHANGED <<now, published, listed, found, explored, covered, displaced>>

\* The worker takes the job; the time of the first attempt is the time of all.
Start(s) ==
    /\ sweeps[s].pc = "waiting"
    /\ sweeps' = [sweeps EXCEPT ![s].pc = "look", ![s].asOf = IF @ = Never THEN now ELSE @]
    /\ UNCHANGED <<now, published, listed, found, explored, covered, displaced>>

\* The sweep starts at the earliest window of its range that is not explored.
Look(s) ==
    LET w == sweeps[s]
        from == IF w.ask.from # Never THEN w.ask.from
                ELSE IF w.asOf > Lookback THEN w.asOf - Lookback ELSE 0
        to == IF w.ask.to # Never THEN w.ask.to ELSE w.asOf
        gaps == Slots(FloorSlot(from), FloorSlot(to)) \ explored
    IN  /\ w.pc = "look"
        /\ sweeps' = [sweeps EXCEPT ![s] =
               IF gaps = {} \/ to <= Min(gaps) THEN IdleSweep
               ELSE Batch([w EXCEPT !.from = Min(gaps)], to)]
        /\ UNCHANGED <<now, published, listed, found, explored, covered, displaced>>

\* A page is read. An empty page is the end of the results, and so is the last one if their number is told.
Query(s, isTold) ==
    LET w == sweeps[s]
        results == Results(w.from, w.to, w.ask.category)
        inHand == Page(results, w.page)
    IN  /\ w.pc = "query"
        /\ sweeps' = [sweeps EXCEPT ![s] =
               IF inHand = {} THEN [w EXCEPT !.pc = "mark", !.end = TRUE]
               ELSE [w EXCEPT !.pc = "offer", !.inHand = inHand, !.isLast = isTold /\ w.page >= NumPages(results)]]
        /\ UNCHANGED <<now, published, listed, found, explored, covered, displaced>>

\* onPage: the videos of the page that are not tracked are queued, once each.
Offer(s) ==
    LET w == sweeps[s]
        seen == [w EXCEPT !.inHand = {}, !.isLast = FALSE,
                          !.oldest = Min({@} \cup {published[v] : v \in w.inHand})]
    IN  /\ w.pc = "offer"
        /\ found' = found \cup w.inHand
        /\ sweeps' = [sweeps EXCEPT ![s] =
               IF w.isLast \/ w.page >= w.ask.pages THEN [seen EXCEPT !.pc = "mark", !.end = w.isLast]
               ELSE [seen EXCEPT !.pc = "query", !.page = @ + 1]]
        /\ UNCHANGED <<now, published, listed, explored, covered, displaced>>

SlideByPages(w) == w.oldest

\* The next batch ends where this one has come to, or a window earlier if it has not moved.
Slide(w) == IF w.oldest < w.to THEN w.oldest ELSE w.to - Window

\* The batch is over: all of the range is explored, or what the pages that may be read reached back to.
MarkExplored(s) ==
    LET w == sweeps[s]
        reached == w.end \/ w.oldest <= w.from
    IN  /\ w.pc = "mark"
        /\ Mark(s, IF reached THEN w.from ELSE w.oldest, w.to)
        /\ sweeps' = [sweeps EXCEPT ![s] =
               IF reached \/ Slide(w) <= w.from THEN IdleSweep ELSE Batch(w, Slide(w))]
        /\ UNCHANGED <<now, published, listed, found, displaced>>

\* The attempt ends with part of the page queued.
Interrupted(s, part) ==
    /\ sweeps[s].pc \in {"look", "query", "offer", "mark"}
    /\ part \subseteq sweeps[s].inHand
    /\ found' = found \cup part
    /\ UNCHANGED <<now, published, listed, explored, covered, displaced>>

RetryForever(w) == Requeued(w, w.failures + 1)

\* A failure is counted and the job is put off, or given up when that was its last attempt.
Retry(w) == IF w.failures + 1 >= MaxAttempts THEN IdleSweep ELSE Requeued(w, w.failures + 1)

Fail(s, part) ==
    /\ Interrupted(s, part)
    /\ sweeps' = [sweeps EXCEPT ![s] = Retry(@)]

\* Throttled, out of budget, or the worker is gone: the job comes back without a failure.
Defer(s, part) ==
    /\ Interrupted(s, part)
    /\ sweeps' = [sweeps EXCEPT ![s] = Requeued(@, @.failures)]

\* The task deadline is over: the job has failed for good.
Expire(s, part) ==
    /\ Interrupted(s, part)
    /\ sweeps' = [sweeps EXCEPT ![s] = IdleSweep]

-----------------------------------------------------------------------------
(* The videos. *)

Publish(v) ==
    /\ published[v] = Never
    /\ \A w \in Video : w < v => published[w] # Never
    /\ published' = [published EXCEPT ![v] = now]
    /\ listed' = listed \cup {v}
    /\ UNCHANGED <<now, found, explored, sweeps, covered, displaced>>

PagesRead(w) == CASE w.pc = "query" -> w.page - 1 [] w.pc = "offer" -> w.page [] OTHER -> 0

\* The video behind v that moves to a page the sweep has read when v is withdrawn.
Behind(w, v) ==
    LET results == Results(w.from, w.to, w.ask.category) IN
    {u \in results : v \in results /\ u < v /\ Place(results, u) = PagesRead(w) * PageSize + 1}

Withdraw(v) ==
    /\ v \in listed
    /\ listed' = listed \ {v}
    /\ displaced' = displaced \cup UNION {Behind(sweeps[s], v) : s \in {t \in Sweep : PagesRead(sweeps[t]) > 0}}
    /\ UNCHANGED <<now, published, found, explored, sweeps, covered>>

Tick ==
    /\ now < MaxTime
    /\ now' = now + 1
    /\ UNCHANGED <<published, listed, found, explored, sweeps, covered, displaced>>

Init ==
    /\ now = 0
    /\ published = [v \in Video |-> Never]
    /\ listed = {}
    /\ found = {}
    /\ explored = {}
    /\ sweeps = [s \in Sweep |-> IdleSweep]
    /\ covered = {}
    /\ displaced = {}

Attempt(s) == Start(s) \/ Look(s) \/ (\E isTold \in BOOLEAN : Query(s, isTold)) \/ Offer(s) \/ MarkExplored(s)
Interrupt(s) == \E part \in SUBSET sweeps[s].inHand : Fail(s, part) \/ Defer(s, part) \/ Expire(s, part)

Next ==
    \/ \E s \in Sweep : \/ \E ask \in Request : Trigger(s, ask)
                        \/ Attempt(s)
                        \/ Interrupt(s)
    \/ \E v \in Video : Publish(v) \/ Withdraw(v)
    \/ Tick

Spec == Init /\ [][Next]_vars

\* Workers go on with their jobs. Nothing is assumed of the schedule, the upstream or the operators.
FairSpec == Spec /\ \A s \in Sweep : WF_vars(Attempt(s))

-----------------------------------------------------------------------------
TypeOK ==
    /\ now \in Time
    /\ published \in [Video -> Time \cup {Never}]
    /\ {listed, found, covered, displaced} \subseteq SUBSET Video
    /\ explored \subseteq Slots(0, MaxTime)
    /\ sweeps \in [Sweep -> SweepRecord]

\* A window is marked only after all that the sweep was to find in it is queued, but for a video that moves to
\* a page already read while others are withdrawn, and one published in the second at which the pages end.
CoveredIsFound ==
    \A v \in covered \ (found \cup displaced) : \E w \in found : published[w] = published[v]

\* "Presence means explored": the videos listed in an explored window have been found.
ExploredIsFound ==
    \A v \in listed : FloorSlot(published[v]) \in explored => v \in found \cup displaced

\* A sweep that is not interrupted comes to its end, however few pages it may read.
SweepsEnd == \A s \in Sweep :
    sweeps[s].pc = "look" ~> sweeps[s].pc \in {"idle", "waiting"}

-----------------------------------------------------------------------------
(* Why an attempt ends: what remains of it, in the order of the tuple the time that batches have to go back, the  *)
(* pages of the batch and the steps of the page, is less after every step. Proved in SearchSweepProofs.           *)

UnderWay(w) == w.pc \in {"look", "query", "offer", "mark"}

Remains(w) ==
    LET batch(step) == <<0, w.to - w.from, w.ask.pages - w.page, step>>
    IN  CASE w.pc = "look"  -> <<1, 0, 0, 0>>
          [] w.pc = "query" -> batch(2)
          [] w.pc = "offer" -> batch(1)
          [] w.pc = "mark"  -> batch(0)

Less(p, q) == \E i \in 1..4 : p[i] < q[i] /\ \A j \in 1..(i - 1) : p[j] = q[j]

\* An attempt that goes on is closer to its end, whatever the upstream answers: no batch covers the range of the one
\* before again, and no page of it is read twice.
SweepAdvances ==
    [][\A s \in Sweep : UnderWay(sweeps[s]) /\ UnderWay(sweeps'[s]) /\ sweeps'[s] # sweeps[s] =>
           /\ Remains(sweeps'[s]) \in Nat \X Nat \X Nat \X Nat
           /\ Less(Remains(sweeps'[s]), Remains(sweeps[s]))]_vars
====
