\* Four commands, one of which may die.
SPECIFICATION FairSpec
CONSTANTS
  MaxCommands = 4
  MaxDeaths = 1
  None = None
  JudgeAnswers <- MCJudgeAnswers
INVARIANTS
  V2PaidOnce
  WinnerAgreed
  FinalSealIsWhole
PROPERTY RunSealed
CHECK_DEADLOCK FALSE
