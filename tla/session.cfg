SPECIFICATION Spec
CONSTANTS
  Call = {c1, c2}
  Invalidation = {i1}
  Refresher = Refresher
  Nobody = Nobody
  RecoveryAttempts = 1
  MaxBundles = 2
  MaxInvalidations = 1
SYMMETRY Symmetry
INVARIANT TypeOK
INVARIANT InvalidatedStaysOut
INVARIANT RefreshIsPlanned
PROPERTY RecoverySparesFresh
