\* Two processes, two turns in progress, a task and the conversation.
SPECIFICATION FairReview
CONSTANTS
  Processes = {p1, p2}
  Handlers = {h1, h2}
  Turns = {t1, t2}
  Tasks = {k1}
  None = None
  MinRecent = 1
  MaxRecent = 2
  MaxDialogue = 1
  MaxLost = 1
  Window = 2
  Commands = {"generate_image_from_conversation", "save_brief"}
INVARIANTS
  TurnRecorded
  OneModelTurn
  SummaryIsPrefix
  ExecutedAsShown
  FrozenWhole
PROPERTY RunsEnd
CHECK_DEADLOCK FALSE
