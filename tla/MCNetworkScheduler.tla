---- MODULE MCNetworkScheduler ----
EXTENDS NetworkScheduler, TLC

CONSTANTS a1, a2

\* <<adapter, maxRequests, duration>>
Budgets == {<<a1, 2, 1>>, <<a1, 2, 3>>, <<a2, 1, 2>>}
BudgetMax == [k \in Key |-> k[2]]
BudgetDuration == [k \in Key |-> k[3]]

Both(enabled) ==
    [binding |-> SelectSeq(<<a1, a2>>, LAMBDA a : a \in enabled),
     weight  |-> [a \in Adapter |-> 1],
     budgets |-> [a \in Adapter |-> {k \in Key : k[1] = a}]]

\* The default uses one adapter, revision 1 both, revision 2 the other one with another budget.
Configs == [r \in Revision |-> CASE r = 0 -> Both({a1}) [] r = 1 -> Both({a1, a2}) [] OTHER -> Both({a2})]

Symmetry == Permutations(Request) \cup Permutations(Poll) \cup Permutations(Put)
====
