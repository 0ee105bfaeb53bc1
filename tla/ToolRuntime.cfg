\* Three ids; a read-only, a low-risk, a high-risk and a forbidden tool and one
\* that the agent may not use; three requests of two calls.
SPECIFICATION Spec
CONSTANTS
  Ids = {i1, i2, i3}
  Tools = {read, write, risky, banned, foreign}
  Registered = {read, write, risky, banned, foreign}
  Allowed = {read, write, risky, banned}
  ReadOnly = {read}
  HighRisk = {risky}
  Forbidden = {banned}
  Args = {good, bad}
  ValidArgs = {good}
  MaxTotal = 2
  MaxPerTool = 2
  MaxByTool <- MCMaxByTool
  MaxPerRun <- MCMaxPerRun
  MaxRequests = 3
  MaxBatch = 2
SYMMETRY Identifiers
INVARIANTS
  BudgetsHold
  NoUnapprovedEffect
  ImageNotPassedOver
CHECK_DEADLOCK FALSE
