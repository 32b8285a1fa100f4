---- MODULE MCSnapshotPipeline ----
EXTENDS SnapshotPipeline, TLC

Symmetry == Permutations(Video) \cup Permutations(Job) \cup Permutations(Worker)

\* One fault and one command, and after them at most the retry of a failed job; or a manual request alone.
OneDisturbance ==
    /\ requests > 0 => UNCHANGED <<faults, commands>>
    /\ manual'.pc # "idle" => faults' + commands' = 0
====
