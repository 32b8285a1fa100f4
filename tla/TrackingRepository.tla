---- MODULE TrackingRepository ----
(***************************************************************************)
(* The rows of video_tracking and the statements the crawler issues on     *)
(* them (apps/crawler/src/crawler/tracking/repository.ts).  Every operator *)
(* here is one SQL statement: a function from the whole table to the table *)
(* it leaves, so that callers decide how statements interleave.            *)
(*                                                                         *)
(* Time is abstracted to what the statements compare.  `due` stands for    *)
(* next_snapshot_at <= now, `eligible` for eligible_at being NULL or past, *)
(* `live` for lease_until > now.  The value of lease_until, a millisecond  *)
(* timestamp that jobs carry and that fenced statements compare for        *)
(* equality, is a member of Lease.                                         *)
(***************************************************************************)
EXTENDS Naturals, FiniteSets

CONSTANTS
    Video,      \* the aids that may be tracked
    Lease,      \* the values lease_until may hold
    NoLease,    \* lease_until IS NULL
    Priority    \* the priorities a row may hold; a smaller one is more urgent

ASSUME NoLeaseAssumption == NoLease \notin Lease
ASSUME PriorityAssumption == Priority \subseteq Nat /\ {1, 2} \subseteq Priority

Row == [tracked  : BOOLEAN,             \* the row exists
        due      : BOOLEAN,
        eligible : BOOLEAN,
        lease    : Lease \cup {NoLease},
        live     : BOOLEAN,
        missing  : BOOLEAN,             \* last_error = 'video_missing_from_stats_response'
        priority : Priority]

Untracked == [tracked |-> FALSE, due |-> FALSE, eligible |-> FALSE, lease |-> NoLease,
              live |-> FALSE, missing |-> FALSE, priority |-> 2]

\* A row inserted with next_snapshot_at = now and every other column defaulted.
NewRow(p) == [tracked |-> TRUE, due |-> TRUE, eligible |-> TRUE, lease |-> NoLease,
              live |-> FALSE, missing |-> FALSE, priority |-> p]

\* Mutant: the lease is never taken to have run out.
ClaimableUnleased(row) == row.tracked /\ row.due /\ row.eligible /\ row.lease = NoLease

\* The predicate findDueVideos and leaseVideos share.
Claimable(row) == row.tracked /\ row.due /\ row.eligible /\ ~row.live

ClaimableVideos(rows) == {v \in Video : Claimable(rows[v])}

\* The possible results of findDueVideos(limit): ordered by priority, then by age, which is
\* left open.
FindDueVideos(rows, limit) ==
    LET due == ClaimableVideos(rows)
    IN {found \in SUBSET due :
          /\ Cardinality(found) <= limit
          /\ found = due \/ Cardinality(found) = limit
          /\ \A v \in found, u \in due \ found : rows[v].priority <= rows[u].priority}

\* The rows of vs whose lease_until equals lease: what a fenced statement touches.
Owned(rows, vs, lease) == {v \in vs : rows[v].lease = lease}

\* leaseVideos: the compare-and-set UPDATE, and the rows it RETURNs.
LeaseVideos(rows, vs, lease) ==
    [v \in Video |-> IF v \in vs /\ Claimable(rows[v])
                     THEN [rows[v] EXCEPT !.lease = lease, !.live = TRUE]
                     ELSE rows[v]]
Claimed(rows, vs) == {v \in vs : Claimable(rows[v])}

\* releaseLeases(aids): every row of vs, whoever leased it.
ReleaseLeases(rows, vs) ==
    [v \in Video |-> IF v \in vs
                     THEN [rows[v] EXCEPT !.lease = NoLease, !.live = FALSE]
                     ELSE rows[v]]

\* releaseLeases(aids, expectedLeaseUntil): only the rows that still hold that lease.
ReleaseOwned(rows, vs, lease) == ReleaseLeases(rows, Owned(rows, vs, lease))

\* upsertTracking without eligibleAt and leaseUntil: an existing row keeps both.
UpsertDue(row, p) ==
    IF row.tracked THEN [row EXCEPT !.due = TRUE, !.priority = p] ELSE NewRow(p)

\* updateSchedule({nextSnapshotAt: now, eligibleAt: null}), not fenced.
ForceDue(row) ==
    IF row.tracked THEN [row EXCEPT !.due = TRUE, !.eligible = TRUE] ELSE row

\* Mutant: without expectedLeaseUntil.
SettleUnfenced(rows, vs, lease, priority) ==
    [v \in Video |-> IF v \in vs
                     THEN [rows[v] EXCEPT !.due = FALSE, !.eligible = TRUE,
                                          !.lease = NoLease, !.live = FALSE,
                                          !.missing = FALSE, !.priority = priority]
                     ELSE rows[v]]

\* updateSchedules after a committed sample: the schedule moves on, the lease and the error are
\* cleared, and the next priority is whatever evaluateNextSchedule returns.
Settle(rows, vs, lease, priority) ==
    [v \in Video |-> IF v \in Owned(rows, vs, lease)
                     THEN [rows[v] EXCEPT !.due = FALSE, !.eligible = TRUE,
                                          !.lease = NoLease, !.live = FALSE,
                                          !.missing = FALSE, !.priority = priority]
                     ELSE rows[v]]

\* updateSchedules of retryBatch: a fresh lease that covers the delay, and the reason unless the
\* work never left the process (local_capacity).
Renew(rows, vs, lease, new, why) ==
    [v \in Video |-> IF v \in Owned(rows, vs, lease)
                     THEN [rows[v] EXCEPT !.lease = new, !.live = TRUE, !.eligible = FALSE,
                                          !.missing = IF why = "capacity" THEN @
                                                      ELSE why = "missing"]
                     ELSE rows[v]]
====
