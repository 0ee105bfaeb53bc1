\* Two workers race on the actions of one task and of the conversation.
SPECIFICATION FairSpec
CONSTANTS
  Workers = {w1, w2}
  Tasks = {t1}
  Actions = {a1, a2}
  None = None
  MaxCrashes = 1
INVARIANTS
  OneEffect
  LinearHistory
PROPERTIES
  ClosedTaskKeepsDocuments
  ImplementsContract
  ImageActionsSettle
CHECK_DEADLOCK FALSE
