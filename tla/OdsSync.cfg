\* Two overlapping scripts, two rows, two stamps, two batches, one crash.
SPECIFICATION Spec
CONSTANTS
  MaxId = 2
  Syncs = {s1, s2}
  MaxClock = 2
  MaxBatches = 2
  MaxCrashes = 1
INVARIANTS
  NothingSkipped
  SucceededIsClean
SYMMETRY Scripts
CHECK_DEADLOCK FALSE
