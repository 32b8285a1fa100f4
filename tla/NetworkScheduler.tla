---- MODULE NetworkScheduler ----
(***************************************************************************)
(* The crawler's way out: revisions of the network configuration are       *)
(* stored by operators and polled by the crawler, requests are routed to   *)
(* the adapters of the revision in use, and every attempt is charged to    *)
(* token buckets in Redis, which outlive the process.                      *)
(*                                                                         *)
(*   now       the time, in ticks                                          *)
(*   stored    the revision in the database, 0 when there is no row        *)
(*   revision  the revision the crawler uses, NoRevision before the first  *)
(*   polls     loads under way: what each has read                         *)
(*   puts      operators' replacements under way                           *)
(*   buckets   the token buckets (Redis)                                   *)
(*   calls     requests on their way through the scheduler                 *)
(*   admitted  history: when requests were charged to each budget          *)
(*   restarts  how much of the bound on restarts is used                   *)
(*                                                                         *)
(* Tokens are counted in units of 1/duration, so that a bucket refills by  *)
(* maxRequests units a tick and amounts are integers.                      *)
(***************************************************************************)
EXTENDS Integers, Sequences, SequencesExt, FiniteSets

CONSTANTS
    Adapter,
    Key,            \* the budgets: a bucket in Redis each
    MaxOf,          \* maxRequests of a budget
    DurationOf,     \* its durationSeconds, in ticks
    Config,         \* the configuration of each revision
    Request,        \* requests that may be under way at once
    Poll,           \* loads that may be under way at once
    Put,            \* replacements that may be under way at once
    NoRevision,
    NoAdapter,
    MaxRev,         \* bound: revisions stored
    MaxTime,        \* bound: ticks
    MaxRestarts     \* bound: restarts of the crawler

Revision == 0..MaxRev
Binding == Seq(Adapter)

ConfigRecord == [binding : Binding,                     \* adapterIds of the request's type, those that are enabled
                 weight  : [Adapter -> Nat \ {0}],      \* baseWeight, at least 0.1
                 budgets : [Adapter -> SUBSET Key]]     \* requestsPerSecond and rateLimits

ASSUME BudgetAssumption == /\ MaxOf \in [Key -> Nat \ {0}]
                           /\ DurationOf \in [Key -> Nat \ {0}]
ASSUME ConfigAssumption == Config \in [Revision -> ConfigRecord]
\* The key of a bucket in Redis ends with the adapter's id; a configuration lists its budgets.
ASSUME ScopeAssumption ==
    /\ IsFiniteSet(Key)
    /\ \A r, s \in Revision, a, b \in Adapter : a # b => Config[r].budgets[a] \cap Config[s].budgets[b] = {}
ASSUME NoneAssumption == NoRevision \notin Revision /\ NoAdapter \notin Adapter
ASSUME BoundAssumption == MaxRev \in Nat /\ MaxTime \in Nat /\ MaxRestarts \in Nat

VARIABLES now, stored, revision, polls, puts, buckets, calls, admitted, restarts

vars == <<now, stored, revision, polls, puts, buckets, calls, admitted, restarts>>

-----------------------------------------------------------------------------
(* The token buckets. *)

Bucket == [units : Nat, last : Nat, expires : Nat]

Capacity(k) == MaxOf[k] * DurationOf[k]     \* maxRequests tokens
Token(k) == DurationOf[k]

CeilDiv(a, b) == (a + b - 1) \div b

\* Twice the time an empty bucket takes to fill.
TimeToLiveOfToken(k) == CeilDiv(2 * Token(k), MaxOf[k]) \div 2
TimeToLive(k) == CeilDiv(2 * Capacity(k), MaxOf[k])

NoBucket == [units |-> 0, last |-> 0, expires |-> 0]

\* What the script finds in the bucket: an expired key is a full bucket.
Level(k) ==
    LET filled == buckets[k].units + (now - buckets[k].last) * MaxOf[k]
    IN  IF now >= buckets[k].expires \/ filled > Capacity(k) THEN Capacity(k) ELSE filled

LackingNone(ks) == {}
Lacking(ks) == {k \in ks : Level(k) < Token(k)}

WaitOfFirst(ks) ==
    LET wait(k) == CeilDiv(Token(k) - Level(k), MaxOf[k])
    IN  CHOOSE w \in {wait(k) : k \in Lacking(ks)} : \A k \in Lacking(ks) : wait(k) >= w

\* retryAfterMs: until the last of the budgets that lack a token has one.
Wait(ks) ==
    LET wait(k) == CeilDiv(Token(k) - Level(k), MaxOf[k])
    IN  CHOOSE w \in {wait(k) : k \in Lacking(ks)} : \A k \in Lacking(ks) : wait(k) <= w

\* The script charges all the budgets ...
Charge(ks) ==
    /\ buckets' = [k \in Key |->
           IF k \in ks THEN [units |-> Level(k) - Token(k), last |-> now, expires |-> now + TimeToLive(k)]
           ELSE buckets[k]]
    /\ admitted' = [k \in Key |-> IF k \in ks THEN Append(admitted[k], now) ELSE admitted[k]]

-----------------------------------------------------------------------------
(* The revisions of the configuration. *)

PollRecord == [pc : {"idle", "read"}, read : Revision]
IdlePoll == [pc |-> "idle", read |-> 0]

PutRecord == [pc       : {"idle", "write", "apply", "saved"},
              expected : Revision,      \* the revision the operator edits
              found    : BOOLEAN]       \* whether replace has found a row
IdlePut == [pc |-> "idle", expected |-> 0, found |-> FALSE]

NewerAlways(r) == TRUE

\* apply: only a newer revision is taken over, and all of it.
Newer(r) == revision = NoRevision \/ r > revision
Apply(r) == revision' = IF Newer(r) THEN r ELSE revision

\* load: the row is read, revision 0 and the default configuration without one ...
LoadRead(p) ==
    /\ polls[p].pc = "idle"
    /\ polls' = [polls EXCEPT ![p] = [pc |-> "read", read |-> stored]]
    /\ UNCHANGED <<now, stored, revision, puts, buckets, calls, admitted, restarts>>

\* ... and applied, or the read has failed.
LoadApply(p) ==
    /\ polls[p].pc = "read"
    /\ polls' = [polls EXCEPT ![p] = IdlePoll]
    /\ Apply(polls[p].read) \/ UNCHANGED revision
    /\ UNCHANGED <<now, stored, puts, buckets, calls, admitted, restarts>>

\* replace: the row is read, for the credentials to restore; without a row only revision 0 is expected.
PutRead(u, expected) ==
    /\ puts[u].pc \in {"idle", "saved"}
    /\ puts' = [puts EXCEPT ![u] =
           IF stored = 0 /\ expected # 0 THEN IdlePut     \* 409
           ELSE [pc |-> "write", expected |-> expected, found |-> stored # 0]]
    /\ UNCHANGED <<now, stored, revision, polls, buckets, calls, admitted, restarts>>

\* The write is accepted: create inserts the row, replace updates the row that still is at the revision expected.
Accepted(put) == IF put.found THEN stored = put.expected ELSE stored = 0

PutWrite(u) ==
    /\ puts[u].pc = "write"
    /\ Accepted(puts[u]) => puts[u].expected < MaxRev
    /\ IF Accepted(puts[u])
       THEN /\ stored' = puts[u].expected + 1
            /\ puts' = [puts EXCEPT ![u].pc = "apply"]
       ELSE /\ puts' = [puts EXCEPT ![u] = IdlePut]      \* 409
            /\ UNCHANGED stored
    /\ UNCHANGED <<now, revision, polls, buckets, calls, admitted, restarts>>

PutApplyLater(u) ==
    /\ puts[u].pc = "apply"
    /\ puts' = [puts EXCEPT ![u].pc = "saved"]
    /\ UNCHANGED <<now, stored, revision, polls, buckets, calls, admitted, restarts>>

\* replaceAndApply: what was saved is applied at once, without waiting for the poll.
PutApply(u) ==
    LET saved == puts[u].expected + 1 IN
    /\ puts[u].pc = "apply"
    /\ Apply(saved)
    /\ puts' = [puts EXCEPT ![u] =
           IF Newer(saved) \/ revision = saved THEN [@ EXCEPT !.pc = "saved"]
           ELSE IdlePut]                                  \* 503: saved, but a newer one is in use
    /\ UNCHANGED <<now, stored, polls, buckets, calls, admitted, restarts>>

-----------------------------------------------------------------------------
(* Requests. *)

CallRecord == [pc        : {"idle", "asking", "sending", "limited"},
               config    : Revision,            \* the revision its candidates come from
               left      : Binding,             \* the candidates not tried yet
               safe      : BOOLEAN,             \* GET, HEAD or replaySafe
               sends     : Nat,
               refused   : SUBSET Adapter,      \* adapters whose budgets had no room
               delay     : Nat,                 \* the shortest of their waits
               retryAt   : Nat,                 \* when a limited call may come again
               overtaken : SUBSET Adapter]      \* history: refused, then charged by another request

\* No call, or one that is over and was answered otherwise than RATE_LIMITED.
IdleCall == [pc |-> "idle", config |-> 0, left |-> <<>>, safe |-> FALSE, sends |-> 0,
             refused |-> {}, delay |-> 0, retryAt |-> 0, overtaken |-> {}]

\* The adapters bound, or of those the one that is asked for, as often as it is bound.
Candidates(pinned) ==
    LET bound == Config[revision].binding
    IN  IF pinned = NoAdapter THEN bound
        ELSE [i \in 1..Cardinality({n \in DOMAIN bound : bound[n] = pinned}) |-> pinned]

\* takeWeightedCandidate: the first candidate at which the weights reach the target, else the last. The
\* random target is rounded up to a unit of weight.
WeightUpTo(c, i) == FoldLeft(LAMBDA sum, a : sum + Config[c.config].weight[a], 0, SubSeq(c.left, 1, i))
Selected(c, target) ==
    LET reached == {i \in 1..Len(c.left) : target <= WeightUpTo(c, i)}
    IN  IF reached = {} THEN Len(c.left) ELSE CHOOSE i \in reached : \A j \in reached : i <= j

\* A request arrives, for the adapters bound to its type or for one of them (diagnostics).
Begin(q, pinned, safe) ==
    /\ calls[q].pc \in {"idle", "limited"}
    /\ calls' = [calls EXCEPT ![q] =
           IF revision = NoRevision \/ Candidates(pinned) = <<>> THEN IdleCall      \* 503
           ELSE [IdleCall EXCEPT !.pc = "asking", !.config = revision, !.left = Candidates(pinned),
                                 !.safe = safe]]
    /\ UNCHANGED <<now, stored, revision, polls, puts, buckets, admitted, restarts>>

\* The candidate has no room: the next one is asked, or the call is over.
Refuse(c, a, rest, wait) ==
    LET next == [c EXCEPT !.left = rest, !.refused = @ \cup {a},
                          !.delay = IF c.refused = {} \/ wait < @ THEN wait ELSE @]
    IN  CASE rest # <<>>  -> next
          [] rest = <<>> /\ c.sends > 0 -> IdleCall       \* the last response
          [] OTHER        -> [next EXCEPT !.pc = "limited", !.delay = 0, !.retryAt = now + next.delay]

\* One candidate is drawn, and its budgets are charged by the script.
Ask(q, target) ==
    LET c == calls[q]
        i == Selected(c, target)
        a == c.left[i]
        ks == Config[c.config].budgets[a]
    IN  /\ c.pc = "asking"
        /\ target \in 1..WeightUpTo(c, Len(c.left))
        /\ IF Lacking(ks) # {}
           THEN /\ calls' = [calls EXCEPT ![q] = Refuse(c, a, RemoveAt(c.left, i), Wait(ks))]
                /\ UNCHANGED <<buckets, admitted>>
           ELSE /\ calls' = [p \in Request |->
                       IF p = q THEN [c EXCEPT !.pc = "sending", !.left = RemoveAt(@, i), !.sends = @ + 1]
                       ELSE IF a \in calls[p].refused THEN [calls[p] EXCEPT !.overtaken = @ \cup {a}]
                       ELSE calls[p]]
                /\ Charge(ks)
        /\ UNCHANGED <<now, stored, revision, polls, puts, restarts>>

RepeatsAny(c, outcome) == outcome = "transport error" /\ c.left # <<>>

\* A transport error of a request that may be repeated goes to the next candidate.
Repeats(c, outcome) == outcome = "transport error" /\ c.safe /\ c.left # <<>>

Receive(q, outcome) ==
    LET c == calls[q] IN
    /\ c.pc = "sending"
    /\ calls' = [calls EXCEPT ![q] = IF Repeats(c, outcome) THEN [c EXCEPT !.pc = "asking"] ELSE IdleCall]
    /\ UNCHANGED <<now, stored, revision, polls, puts, buckets, admitted, restarts>>

\* The caller aborts: the call ends at its next look at the signal, before an attempt or with its response.
Abort(q) ==
    /\ calls[q].pc \in {"asking", "sending"}
    /\ calls' = [calls EXCEPT ![q] = IdleCall]
    /\ UNCHANGED <<now, stored, revision, polls, puts, buckets, admitted, restarts>>

-----------------------------------------------------------------------------
Tick ==
    /\ now < MaxTime
    /\ now' = now + 1
    /\ UNCHANGED <<stored, revision, polls, puts, buckets, calls, admitted, restarts>>

\* The crawler restarts: what it had in memory is gone, Redis and the database stay.
Restart ==
    /\ restarts < MaxRestarts
    /\ restarts' = restarts + 1
    /\ revision' = NoRevision
    /\ polls' = [p \in Poll |-> IdlePoll]
    /\ puts' = [u \in Put |-> IdlePut]
    /\ calls' = [q \in Request |-> IdleCall]
    /\ UNCHANGED <<now, stored, buckets, admitted>>

Init ==
    /\ now = 0
    /\ stored = 0
    /\ revision = NoRevision
    /\ polls = [p \in Poll |-> IdlePoll]
    /\ puts = [u \in Put |-> IdlePut]
    /\ buckets = [k \in Key |-> NoBucket]
    /\ calls = [q \in Request |-> IdleCall]
    /\ admitted = [k \in Key |-> <<>>]
    /\ restarts = 0

Next ==
    \/ \E p \in Poll : LoadRead(p) \/ LoadApply(p)
    \/ \E u \in Put : \/ \E expected \in Revision : PutRead(u, expected)
                      \/ PutWrite(u)
                      \/ PutApply(u)
    \/ \E q \in Request : \/ \E safe \in BOOLEAN : Begin(q, NoAdapter, safe)
                          \/ \E pinned \in Adapter : Begin(q, pinned, TRUE)
                          \/ \E target \in 1..WeightUpTo(calls[q], Len(calls[q].left)) : Ask(q, target)
                          \/ \E outcome \in {"transport error", "response"} : Receive(q, outcome)
                          \/ Abort(q)
    \/ Tick
    \/ Restart

Spec == Init /\ [][Next]_vars

-----------------------------------------------------------------------------
TypeOK ==
    /\ now \in 0..MaxTime
    /\ stored \in Revision
    /\ revision \in Revision \cup {NoRevision}
    /\ polls \in [Poll -> PollRecord]
    /\ puts \in [Put -> PutRecord]
    /\ buckets \in [Key -> Bucket]
    /\ calls \in [Request -> CallRecord]
    /\ \A k \in Key : admitted[k] \in Seq(0..MaxTime)
    /\ restarts \in 0..MaxRestarts

\* The limiter implements the budgets it is configured with: however requests, retries, reloads, expiring
\* keys and restarts are interleaved, no stretch of time admits more than a bucket and its refill.
Budget == INSTANCE RequestBudget WITH clock <- now
KeepsBudgets == Budget!Spec

\* A request that is not safe to repeat reaches the upstream once at most: it goes through one adapter, and "no local
\* capacity", after which its job is put off and asks again, is only said of a request that was not sent.
SentOnce == \A q \in Request :
    /\ ~calls[q].safe => calls[q].sends <= 1
    /\ calls[q].pc = "limited" => calls[q].sends = 0

\* The delay given with that answer is enough: once it is over, one of the adapters that had no room has room, unless
\* another request was charged to it in between.
DelaySuffices ==
    \A q \in Request :
        calls[q].pc = "limited" /\ now >= calls[q].retryAt =>
            \E a \in calls[q].refused : \/ a \in calls[q].overtaken
                                        \/ Lacking(Config[calls[q].config].budgets[a]) = {}

\* A crawler never goes back to an older configuration, though loads overlap each other and replacements.
NeverOlder == [][revision' # NoRevision /\ revision # NoRevision => revision' >= revision]_vars

\* A replacement that is answered as saved is in use, and stays so until a newer one, or a restart, comes.
SavedIsUsed == \A u \in Put :
    puts[u].pc = "saved" => revision # NoRevision /\ revision > puts[u].expected
====
