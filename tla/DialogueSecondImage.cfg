\* The same race, asked for at most one provider call per session.
SPECIFICATION Spec
CONSTANTS
  Workers = {w1, w2}
  Turns = {t1, t2}
  Decisions = {d1, d2, d3, d4, d5, d6}
  None = None
  RevisionLimit = 0
  MaxCrashes = 0
SYMMETRY Identifiers
INVARIANT OneImageCall
CHECK_DEADLOCK FALSE
