---- MODULE RequestBudget ----
(***************************************************************************)
(* What the rate limiter promises, whatever it keeps in Redis: of every    *)
(* budget [max, duration] of an adapter, over any stretch of time, no more *)
(* requests are admitted than one full bucket and what flows into it       *)
(* during the stretch.                                                     *)
(*                                                                         *)
(*   clock     the time, in ticks                                          *)
(*   admitted  the times at which requests were charged to each budget     *)
(***************************************************************************)
EXTENDS Integers, Sequences, SequencesExt

CONSTANTS Key,          \* the budgets of all adapters and revisions
          MaxOf,        \* maxRequests of each
          DurationOf    \* durationSeconds of each, in ticks

VARIABLES clock, admitted

\* Between the i-th and the j-th admission, both counted.
Within(k, times) ==
    \A i, j \in 1..Len(times) : i <= j =>
        (j - i + 1 - MaxOf[k]) * DurationOf[k] <= MaxOf[k] * (times[j] - times[i])

Init == clock = 0 /\ admitted = [k \in Key |-> <<>>]

Advance == clock' = clock + 1 /\ UNCHANGED admitted

\* One request is charged to all the budgets of an adapter, or to none.
Charge(ks) ==
    /\ admitted' = [k \in Key |-> IF k \in ks THEN Append(admitted[k], clock) ELSE admitted[k]]
    /\ \A k \in ks : Within(k, admitted'[k])
    /\ UNCHANGED clock

Next == Advance \/ \E ks \in SUBSET Key : Charge(ks)

Spec == Init /\ [][Next]_<<clock, admitted>>
====
