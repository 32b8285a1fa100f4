SPECIFICATION Spec
CONSTANTS
  a1 = a1
  a2 = a2
  Adapter = {a1, a2}
  Key <- Budgets
  MaxOf <- BudgetMax
  DurationOf <- BudgetDuration
  Config <- Configs
  Request = {q1, q2}
  Poll = {p1}
  Put = {u1}
  NoRevision = NoRevision
  NoAdapter = NoAdapter
  MaxRev = 1
  MaxTime = 2
  MaxRestarts = 1
SYMMETRY Symmetry
INVARIANT TypeOK
INVARIANT SentOnce
INVARIANT DelaySuffices
INVARIANT SavedIsUsed
PROPERTY NeverOlder
PROPERTY KeepsBudgets
