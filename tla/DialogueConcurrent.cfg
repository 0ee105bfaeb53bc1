\* Two workers race on one session, with enough confirmations for it to be
\* dragged back after its image.
SPECIFICATION FairSpec
CONSTANTS
  Workers = {w1, w2}
  Turns = {t1, t2}
  Decisions = {d1, d2, d3, d4, d5, d6}
  None = None
  RevisionLimit = 1
  MaxCrashes = 0
INVARIANTS
  ConfirmableContent
  OneGenerationLog
  OneCallPerConfirmation
PROPERTY StagesEnd
CHECK_DEADLOCK FALSE
