\* Two logins at once over two accounts, two failed writes, two restarts.
SPECIFICATION Spec
CONSTANTS
  MaxUser = 2
  Logins = {l1, l2}
  MaxFaults = 2
  MaxCrashes = 2
INVARIANTS
  CredentialKept
  FileNotAhead
CHECK_DEADLOCK FALSE
