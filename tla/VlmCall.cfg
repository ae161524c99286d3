SPECIFICATION Spec
CONSTANTS
  Codes = {400, 428, 429, 430, 499, 500}
  NotInt = NotInt
  Noise = Noise
  NoText = NoText
  Descriptions <- MCDescriptions
  Verdicts <- MCVerdicts
  MaxLines = 4
INVARIANTS TypeOK LadderOutcome DefectsKept
CHECK_DEADLOCK FALSE
