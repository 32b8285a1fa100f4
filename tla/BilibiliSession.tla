---- MODULE BilibiliSession ----
(***************************************************************************)
(* The credentials all requests to Bilibili share. Requests that need      *)
(* fresh ones, a timer, the start and requests that were rejected join one *)
(* refresh; an invalidation may come at any time; a bundle that was stored *)
(* outlives the session.                                                   *)
(*                                                                         *)
(*   life, bundle, generation, allowCached, backoff, timer, refresh        *)
(*                  the fields of BilibiliSession                          *)
(*   calls          the requests under way and what they wait for          *)
(*   invalidations  the calls of invalidate                                *)
(*   stored         the bundle in the cache (BUNDLE_KEY)                   *)
(*   wire           the commands under way to the cache, which executes    *)
(*                  and answers them in order                              *)
(*   fresh          the bundles that are not due yet                       *)
(*   born, era      history: the bundles obtained, and how many            *)
(*                  invalidations had been asked for when their refresh    *)
(*                  began                                                  *)
(*   epoch, revoked history: the invalidations asked for, and the last     *)
(*                  of those that have returned                            *)
(***************************************************************************)
EXTENDS Integers, Sequences, FiniteSets, SequencesExt

CONSTANTS
    Call,
    Invalidation,
    Refresher,          \* the refresh, as one that waits for the cache
    Nobody,             \* who waits no more
    RecoveryAttempts,   \* config.recoveryAttempts
    MaxBundles,         \* bound: bundles obtained
    MaxInvalidations    \* bound: invalidations

ASSUME BoundAssumption == {RecoveryAttempts, MaxBundles, MaxInvalidations} \subseteq Nat /\ MaxBundles > 0
ASSUME WaiterAssumption ==
    /\ Refresher \notin Call \cup Invalidation
    /\ Nobody \notin Call \cup Invalidation \cup {Refresher}
    /\ Call \cap Invalidation = {}
    /\ IsFiniteSet(Invalidation)

VARIABLES life, bundle, generation, allowCached, backoff, timer, refresh, calls, invalidations,
          stored, wire, fresh, born, era, epoch, revoked

fields == <<life, generation, allowCached>>
cache == <<stored, wire>>
bundles == <<fresh, born, era>>
history == <<epoch, revoked>>
vars == <<fields, bundle, backoff, timer, refresh, calls, invalidations, cache, bundles, history>>

-----------------------------------------------------------------------------
None == 0
Bundle == 1..MaxBundles

\* A bundle is taken to expire when it is due.
Usable(b) == b \in fresh
Cookie(b) == IF b \in fresh THEN b ELSE None

\* The timer, with the time for which it was set: when the backoff ends, or a bundle is due, or at once.
Timer == [at : {"off", "backoff", "now"}, of : {None}] \cup [at : {"due"}, of : Bundle]
Off == [at |-> "off", of |-> None]

\* Mutant: without a bundle nothing is due.
ScheduleForBundle(b, wait) ==
    IF life # "started" THEN Off
    ELSE IF wait # "none" THEN [at |-> "backoff", of |-> None]
    ELSE IF b # None THEN [at |-> "due", of |-> b]
    ELSE Off

Schedule(b, wait) ==
    IF life # "started" THEN Off
    ELSE IF wait # "none" THEN [at |-> "backoff", of |-> None]
    ELSE IF b # None THEN [at |-> "due", of |-> b]
    ELSE [at |-> "now", of |-> None]

Refresh == [pc : {"none", "handshake", "store"}, era : Nat, aborted : BOOLEAN, of : Bundle \cup {None}]
NoRefresh == [pc |-> "none", era |-> 0, aborted |-> FALSE, of |-> None]

\* refreshCredentials: one refresh at a time, which whoever asks for another one joins.
JoinRefresh ==
    refresh' = IF refresh = NoRefresh THEN [NoRefresh EXCEPT !.pc = "handshake", !.era = epoch] ELSE refresh

Aborted == IF refresh = NoRefresh THEN NoRefresh ELSE [refresh EXCEPT !.aborted = TRUE]

\* A command takes effect when it is executed, also if nobody waits for the answer any more.
Command == [op : {"get", "set", "del"}, by : Call \cup Invalidation \cup {Refresher, Nobody}, of : Bundle \cup {None}]

Send(queue, op, by, of) == Append(queue, [op |-> op, by |-> by, of |-> of])

\* The deletions of the stored bundle by some of those that invalidate.
Deletions(order) == [k \in 1..Len(order) |-> [op |-> "del", by |-> order[k], of |-> None]]

Answers(x) == wire # <<>> /\ Head(wire).by = x

Abandoned(x) == [k \in DOMAIN wire |-> IF wire[k].by = x THEN [wire[k] EXCEPT !.by = Nobody] ELSE wire[k]]

\* All commands have the same time limit: one that is later is not given up before.
First(x) == \E k \in DOMAIN wire : wire[k].by = x /\ \A n \in 1..(k - 1) : wire[n].by = Nobody

-----------------------------------------------------------------------------
(* Requests. A signed one takes the keys of the bundle, once before and once in each turn of recover. *)

CallRecord ==
    [pc : {"idle", "keys", "reading", "waiting", "refreshed", "refused", "sent"}, signed : BOOLEAN,
     looping : BOOLEAN, recovering : BOOLEAN, generation : Nat, attempts : Nat, used : Bundle \cup {None}]

Idle == [pc |-> "idle", signed |-> FALSE, looping |-> FALSE, recovering |-> FALSE, generation |-> 0,
         attempts |-> 0, used |-> None]

\* A turn of recover notes the generation; an unsigned request is sent with what there is.
Turn(call, b) ==
    [call EXCEPT !.looping = TRUE, !.recovering = FALSE, !.generation = generation,
                 !.pc = IF call.signed THEN "keys" ELSE "sent",
                 !.used = IF call.signed THEN None ELSE Cookie(b)]

\* The request goes on with the keys of b.
WithKeys(call, b) ==
    IF call.looping THEN [call EXCEPT !.pc = "sent", !.used = b]
    ELSE Turn(call, b)

Ask(c, signed) ==
    /\ calls[c].pc = "idle"
    /\ calls' = [calls EXCEPT ![c] = IF signed THEN [Idle EXCEPT !.pc = "keys", !.signed = TRUE]
                                     ELSE Turn(Idle, bundle)]
    /\ UNCHANGED <<fields, bundle, backoff, timer, refresh, invalidations, cache, bundles, history>>

\* getWbiKeys looks into the cache as long as there is no bundle, nobody refreshes and nothing was invalidated.
LooksIntoCache == allowCached /\ bundle = None /\ refresh = NoRefresh

ReadCache(c) ==
    /\ calls[c].pc = "keys" /\ LooksIntoCache
    /\ calls' = [calls EXCEPT ![c].pc = "reading"]
    /\ wire' = Send(wire, "get", c, None)
    /\ UNCHANGED <<fields, bundle, backoff, timer, refresh, invalidations, stored, bundles, history>>

\* The rest of getWbiKeys, with bundle b: it is used, or the call is put off, or it joins a refresh.
TakeKeys(c, b) ==
    /\ bundle' = b
    /\ \/ /\ Usable(b)
          /\ calls' = [calls EXCEPT ![c] = WithKeys(@, b)]
          /\ UNCHANGED refresh
       \/ /\ ~Usable(b) /\ backoff = "waiting"
          /\ calls' = [calls EXCEPT ![c] = Idle]
          /\ UNCHANGED refresh
       \/ /\ ~Usable(b) /\ backoff # "waiting"
          /\ calls' = [calls EXCEPT ![c].pc = "waiting"]
          /\ JoinRefresh
    /\ UNCHANGED <<fields, backoff, timer, invalidations, stored, bundles, history>>

KeysAtHand(c) ==
    /\ calls[c].pc = "keys" /\ ~LooksIntoCache
    /\ TakeKeys(c, bundle)
    /\ UNCHANGED wire

\* What was read (the cache forgets an expired bundle) replaces the bundle whatever has happened since.
CacheAnswers(c) ==
    /\ Answers(c)
    /\ TakeKeys(c, IF stored \in fresh THEN stored ELSE bundle)
    /\ wire' = Tail(wire)

\* A read that nobody waits for does nothing.
CacheTimesOut(c) ==
    /\ calls[c].pc = "reading"
    /\ calls' = [calls EXCEPT ![c] = Idle]
    /\ \E k \in DOMAIN wire : wire[k].by = c /\ wire' = RemoveAt(wire, k)
    /\ UNCHANGED <<fields, bundle, backoff, timer, refresh, invalidations, stored, bundles, history>>

\* The refresh that getWbiKeys joined has succeeded; an invalidation may have come in between.
KeysRefreshed(c) ==
    /\ calls[c].pc = "refreshed" /\ ~calls[c].recovering
    /\ calls' = [calls EXCEPT ![c] = IF bundle = None THEN Idle ELSE WithKeys(@, bundle)]
    /\ UNCHANGED <<fields, bundle, backoff, timer, refresh, invalidations, cache, bundles, history>>

\* The request ends: it is answered, fails, is rejected once too often, or its refresh has failed.
End(c) ==
    /\ calls[c].pc \in {"sent", "refused"}
    /\ calls' = [calls EXCEPT ![c] = Idle]
    /\ UNCHANGED <<fields, bundle, backoff, timer, refresh, invalidations, cache, bundles, history>>

\* Bilibili rejects the credentials, or the handshake of a refresh that was needed to sign.
Eligible(c) ==
    \/ calls[c].pc = "sent"
    \/ calls[c].pc = "refused" /\ calls[c].looping /\ ~calls[c].recovering

Recovering(call) == [call EXCEPT !.pc = "waiting", !.recovering = TRUE, !.generation = 0, !.used = None]

\* Mutant: once more than configured.
RejectedOnceMore(c) ==
    /\ Eligible(c) /\ calls[c].attempts <= RecoveryAttempts
    /\ LET call == [calls[c] EXCEPT !.attempts = @ + 1]
       IN  \/ /\ call.generation = generation
              /\ calls' = [calls EXCEPT ![c] = Recovering(call)]
              /\ JoinRefresh
           \/ /\ call.generation # generation
              /\ calls' = [calls EXCEPT ![c] = Turn(call, bundle)]
              /\ UNCHANGED refresh
    /\ UNCHANGED <<fields, bundle, backoff, timer, invalidations, cache, bundles, history>>

\* Mutant: whatever has happened meanwhile, a rejection starts a refresh.
RejectedBlindly(c) ==
    /\ Eligible(c) /\ calls[c].attempts < RecoveryAttempts
    /\ calls' = [calls EXCEPT ![c] = Recovering([calls[c] EXCEPT !.attempts = @ + 1])]
    /\ JoinRefresh
    /\ UNCHANGED <<fields, bundle, backoff, timer, invalidations, cache, bundles, history>>

\* They are refreshed, unless that has happened since this turn began.
Rejected(c) ==
    /\ Eligible(c) /\ calls[c].attempts < RecoveryAttempts
    /\ LET call == [calls[c] EXCEPT !.attempts = @ + 1]
       IN  \/ /\ call.generation = generation
              /\ calls' = [calls EXCEPT ![c] = Recovering(call)]
              /\ JoinRefresh
           \/ /\ call.generation # generation
              /\ calls' = [calls EXCEPT ![c] = Turn(call, bundle)]
              /\ UNCHANGED refresh
    /\ UNCHANGED <<fields, bundle, backoff, timer, invalidations, cache, bundles, history>>

Recovered(c) ==
    /\ calls[c].pc = "refreshed" /\ calls[c].recovering
    /\ calls' = [calls EXCEPT ![c] = Turn(@, bundle)]
    /\ UNCHANGED <<fields, bundle, backoff, timer, refresh, invalidations, cache, bundles, history>>

-----------------------------------------------------------------------------
(* The refresh. *)

\* Whoever waits for the refresh goes on with its outcome.
Told(outcome) ==
    calls' = [c \in Call |-> IF calls[c].pc = "waiting" THEN [calls[c] EXCEPT !.pc = outcome] ELSE calls[c]]

\* The invalidations that waited for its end delete the stored bundle.
Draining == {i \in Invalidation : invalidations[i].pc = "draining"}

Drained(queue) ==
    /\ \E order \in SetToSeqs(Draining) : wire' = queue \o Deletions(order)
    /\ invalidations' = [i \in Invalidation |-> IF i \in Draining THEN [invalidations[i] EXCEPT !.pc = "deleting"]
                                                ELSE invalidations[i]]

\* The handshake (device, home page, ticket) has been answered; the bundle is stored before it is used.
Handshake ==
    /\ refresh.pc = "handshake" /\ ~refresh.aborted /\ born < MaxBundles
    /\ LET b == born + 1
       IN  /\ born' = b
           /\ fresh' = fresh \cup {b}
           /\ era' = [era EXCEPT ![b] = refresh.era]
           /\ refresh' = [refresh EXCEPT !.pc = "store", !.of = b]
           /\ wire' = Send(wire, "set", Refresher, b)
    /\ UNCHANGED <<fields, bundle, backoff, timer, calls, invalidations, stored, history>>

Publish ==
    /\ Answers(Refresher) /\ ~refresh.aborted
    /\ stored' = refresh.of
    /\ bundle' = refresh.of
    /\ generation' = generation + 1
    /\ backoff' = "none"
    /\ timer' = Schedule(refresh.of, "none")
    /\ refresh' = NoRefresh
    /\ Told("refreshed")
    /\ Drained(Tail(wire))
    /\ UNCHANGED <<life, allowCached, bundles, history>>

\* A request of the handshake or the cache fails or is too slow, or the refresh was aborted.
RefreshFails ==
    /\ refresh # NoRefresh
    /\ refresh.pc = "store" /\ ~refresh.aborted => First(Refresher)
    /\ backoff' = "waiting"
    /\ timer' = Schedule(bundle, "waiting")
    /\ refresh' = NoRefresh
    /\ Told("refused")
    /\ Drained(Abandoned(Refresher))
    /\ UNCHANGED <<fields, bundle, stored, bundles, history>>

TimerFires ==
    /\ \/ timer.at = "now"
       \/ timer.at = "backoff" /\ backoff # "waiting"
       \/ timer.at = "due" /\ timer.of \notin fresh
    /\ timer' = Off
    /\ JoinRefresh
    /\ UNCHANGED <<fields, bundle, backoff, calls, invalidations, cache, bundles, history>>

-----------------------------------------------------------------------------
(* The session as a whole. *)

Start ==
    /\ life = "new"
    /\ life' = "started"
    /\ JoinRefresh
    /\ UNCHANGED <<generation, allowCached, bundle, backoff, timer, calls, invalidations, cache, bundles, history>>

Stop ==
    /\ life = "started"
    /\ life' = "stopped"
    /\ timer' = Off
    /\ refresh' = Aborted
    /\ UNCHANGED <<generation, allowCached, bundle, backoff, calls, invalidations, cache, bundles, history>>

Configure ==
    /\ backoff' = "none"
    /\ timer' = Schedule(bundle, "none")
    /\ UNCHANGED <<fields, bundle, refresh, calls, invalidations, cache, bundles, history>>

Invalidations == [pc : {"idle", "draining", "deleting"}, era : 0..MaxInvalidations]

\* invalidate: the bundle is dropped, a refresh under way aborted and, when that has failed, the stored bundle
\* deleted; ...
Invalidate(i) ==
    /\ invalidations[i].pc = "idle" /\ epoch < MaxInvalidations
    /\ epoch' = epoch + 1
    /\ allowCached' = FALSE
    /\ bundle' = None
    /\ generation' = generation + 1
    /\ refresh' = Aborted
    /\ \/ /\ refresh # NoRefresh
          /\ invalidations' = [invalidations EXCEPT ![i] = [pc |-> "draining", era |-> epoch + 1]]
          /\ UNCHANGED wire
       \/ /\ refresh = NoRefresh
          /\ invalidations' = [invalidations EXCEPT ![i] = [pc |-> "deleting", era |-> epoch + 1]]
          /\ wire' = Send(wire, "del", i, None)
    /\ UNCHANGED <<life, backoff, timer, calls, stored, bundles, revoked>>

\* Mutant: ... and that is all.
InvalidatedOnce(i) ==
    /\ Answers(i)
    /\ stored' = None
    /\ backoff' = "none"
    /\ timer' = Schedule(None, "none")
    /\ wire' = Tail(wire)
    /\ invalidations' = [invalidations EXCEPT ![i].pc = "idle"]
    /\ revoked' = IF invalidations[i].era > revoked THEN invalidations[i].era ELSE revoked
    /\ UNCHANGED <<fields, bundle, refresh, calls, bundles, epoch>>

\* ... and what has come back meanwhile is dropped once more.
Invalidated(i) ==
    /\ Answers(i)
    /\ stored' = None
    /\ bundle' = None
    /\ backoff' = "none"
    /\ timer' = Schedule(None, "none")
    /\ wire' = Tail(wire)
    /\ invalidations' = [invalidations EXCEPT ![i].pc = "idle"]
    /\ revoked' = IF invalidations[i].era > revoked THEN invalidations[i].era ELSE revoked
    /\ UNCHANGED <<fields, refresh, calls, bundles, epoch>>

DeleteTimesOut(i) ==
    /\ invalidations[i].pc = "deleting" /\ First(i)
    /\ wire' = Abandoned(i)
    /\ invalidations' = [invalidations EXCEPT ![i].pc = "idle"]
    /\ UNCHANGED <<fields, bundle, backoff, timer, refresh, calls, stored, bundles, history>>

\* A command that nobody waits for is executed.
LateCommand ==
    /\ Answers(Nobody)
    /\ stored' = IF Head(wire).op = "get" THEN stored ELSE Head(wire).of
    /\ wire' = Tail(wire)
    /\ UNCHANGED <<fields, bundle, backoff, timer, refresh, calls, invalidations, bundles, history>>

BackoffEnds ==
    /\ backoff = "waiting"
    /\ backoff' = "over"
    /\ UNCHANGED <<fields, bundle, timer, refresh, calls, invalidations, cache, bundles, history>>

BecomesDue(b) ==
    /\ b \in fresh
    /\ fresh' = fresh \ {b}
    /\ UNCHANGED <<fields, bundle, backoff, timer, refresh, calls, invalidations, cache, born, era, history>>

-----------------------------------------------------------------------------
\* An earlier session has left its bundle in the cache, or has not.
Init ==
    /\ life = "new" /\ bundle = None /\ generation = 0 /\ allowCached = TRUE
    /\ backoff = "none" /\ timer = Off /\ refresh = NoRefresh
    /\ calls = [c \in Call |-> Idle]
    /\ invalidations = [i \in Invalidation |-> [pc |-> "idle", era |-> 0]]
    /\ stored \in {None, 1} /\ wire = <<>>
    /\ born = stored /\ fresh = 1..born /\ era = [b \in Bundle |-> 0]
    /\ epoch = 0 /\ revoked = 0

Next ==
    \/ \E c \in Call :
           \/ \E signed \in BOOLEAN : Ask(c, signed)
           \/ ReadCache(c) \/ KeysAtHand(c) \/ CacheAnswers(c) \/ CacheTimesOut(c) \/ KeysRefreshed(c)
           \/ End(c) \/ Rejected(c) \/ Recovered(c)
    \/ Handshake \/ Publish \/ RefreshFails \/ TimerFires
    \/ Start \/ Stop \/ Configure
    \/ \E i \in Invalidation : Invalidate(i) \/ Invalidated(i) \/ DeleteTimesOut(i)
    \/ LateCommand \/ BackoffEnds
    \/ \E b \in Bundle : BecomesDue(b)

Spec == Init /\ [][Next]_vars

-----------------------------------------------------------------------------
TypeOK ==
    /\ life \in {"new", "started", "stopped"}
    /\ bundle \in 0..born /\ stored \in 0..born /\ born \in 0..MaxBundles
    /\ generation \in Nat /\ allowCached \in BOOLEAN
    /\ backoff \in {"none", "waiting", "over"}
    /\ timer \in Timer
    /\ refresh \in Refresh
    /\ calls \in [Call -> CallRecord] /\ \A c \in Call : calls[c].attempts <= RecoveryAttempts
    /\ invalidations \in [Invalidation -> Invalidations]
    /\ wire \in Seq(Command)
    /\ fresh \subseteq 1..born
    /\ era \in [Bundle -> 0..MaxInvalidations]
    /\ epoch \in 0..MaxInvalidations /\ revoked \in 0..epoch

\* What was invalidated does not come back: once invalidate has returned, neither a refresh that was under way, nor a
\* read of the cache, nor the next session brings back credentials that were asked for before.
InvalidatedStaysOut ==
    /\ bundle # None => era[bundle] >= revoked
    /\ stored # None => era[stored] >= revoked

\* However many requests are rejected at once, they replace the bundle that was rejected and spare the one that has
\* replaced it: a refresh is started for a request that was sent with the present bundle, or with none.
RecoverySparesFresh ==
    [][\A c \in Call : calls[c].pc = "sent" /\ calls'[c].pc = "waiting" /\ refresh = NoRefresh
           /\ life # "stopped" => calls[c].used \in {None, bundle} \/ bundle = None]_vars

\* A running session refreshes of its own accord, whatever failed, was invalidated or configured before: a refresh is
\* under way, or the timer is set, in a backoff for its end and otherwise not for a bundle that has been replaced.
RefreshIsPlanned ==
    life = "started" /\ refresh = NoRefresh =>
        /\ timer # Off
        /\ backoff = "waiting" => timer.at = "backoff"
        /\ timer.at = "due" /\ bundle # None => timer.of = bundle

\* "refresh failure backs off rather than starting a handshake for each queued request" (sessionLifecycle.test.ts).
FailureBacksOff ==
    [][\A c \in Call : calls'[c].pc = "waiting" /\ refresh = NoRefresh => backoff # "waiting"]_vars
====
