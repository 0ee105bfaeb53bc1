\* Two processes, two requests with one key or none, three faults.
SPECIFICATION FairSpec
CONSTANTS
  Requests = {r1, r2}
  Keys = {k1}
  None = None
  Processes = 2
  Retries = 2
  MaxFaults = 3
INVARIANTS
  OneGenerationPerKey
  SuccessIsDurable
  SucceededIsComplete
PROPERTY AttemptsEnd
CHECK_DEADLOCK FALSE
