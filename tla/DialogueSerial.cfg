\* One worker: the documented single uvicorn process.
SPECIFICATION Spec
CONSTANTS
  Workers = {w1}
  Turns = {t1, t2, t3}
  Decisions = {d1, d2, d3, d4}
  None = None
  RevisionLimit = 2
  MaxCrashes = 1
INVARIANTS
  OneImageCall
  ImageMatchesText
  NoImageLost
  NoOrphanedStage
SYMMETRY Identifiers
CHECK_DEADLOCK FALSE
