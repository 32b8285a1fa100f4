---- MODULE MCTrackingSchedule ----
EXTENDS TrackingSchedule

MCMilestone == {8, 20, 60}

\* Larger close to the milestone, as the code's is.
MCFactor == [r \in 1..60 |-> IF r <= 2 THEN 3 ELSE 2]

MCPolicy ==
    [initialSampling |-> {1, 2}, newMaxAge |-> 7, newMinVelocity |-> 1,
     zeroTier |-> 6, regularTiers |-> {[below |-> 1, interval |-> 4]}, minRegularInterval |-> 2,
     milestoneMaxEta |-> 4, captureLead |-> 3, captureInterval |-> 2, archiveInterval |-> 6,
     retry |-> [s \in State |-> 1]]

MCFixed ==
    [minimumDelay |-> 1, longDelay |-> 4, dormancy |-> 5, reviveVelocity |-> 1, achieved |-> 1,
     left |-> 3, expired |-> 2, cold |-> 4, coldAge |-> 4, revived |-> 2, slow |-> 5,
     newTiers |-> {[above |-> 1, interval |-> 3]}, fastest |-> 2]

ASSUME Foresighted

====
