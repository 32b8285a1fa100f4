---- MODULE MCDiscoveryLabels ----
EXTENDS DiscoveryLabels, TLC

Symmetry == Permutations(Task)
====
