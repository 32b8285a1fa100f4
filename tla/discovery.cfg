SPECIFICATION Spec
CONSTANTS
  Video = {v1}
  Task = {t1, t2, t3}
  NoVideo = NoVideo
SYMMETRY Symmetry
INVARIANT TypeOK
INVARIANT LastWordStands
INVARIANT TrackedHasSample
PROPERTY LabelsKept
