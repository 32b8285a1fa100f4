SPECIFICATION FairSpec
CONSTANTS
  Video = {1, 2}
  Worker = {w1, w2}
  Recovery = {r1}
  Threshold = {1}
  Views = {0, 1}
  MinimumViews = 1
  BatchSize = 1
  MaxAttempts = 2
  MaxTime = 2
  MaxSamples = 3
  NoSample = NoSample
  NoVideo = NoVideo
INVARIANT TypeOK
INVARIANT FirstObserved
INVARIANT RecoveryComplete
PROPERTY Bracketed
PROPERTY RecoveryEnds
