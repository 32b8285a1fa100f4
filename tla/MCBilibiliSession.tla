---- MODULE MCBilibiliSession ----
EXTENDS BilibiliSession, TLC

Symmetry == Permutations(Call) \cup Permutations(Invalidation)
====
