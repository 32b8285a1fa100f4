---- MODULE MCSearchSweep ----
EXTENDS SearchSweep, TLC

Categories == [v \in Video |-> v % 2]

Scheduled == [from |-> Never, to |-> Never, category |-> AnyCategory, pages |-> 2]
OnePage == [Scheduled EXCEPT !.pages = 1]
OneCategory == [Scheduled EXCEPT !.category = 1]
Requests == {Scheduled, OnePage}
Ahead == {Scheduled, [OnePage EXCEPT !.to = MaxTime]}
Narrow == {Scheduled, OneCategory}

Symmetry == Permutations(Sweep)
====
