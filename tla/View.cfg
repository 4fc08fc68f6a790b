CONSTANTS
  Kinds = {"prompt", "rung", "chain", "run"}
  Shapes = {"model", "operator"}
  MaxFolded = 4
  MaxHolds = 2
  MaxThreaded = 2
  Makers = {"prompts", "words"}
  MaxActs = 4
  MaxControls = 2
  HEAD = 3
  TAIL = 2
  MaxBytes = 6
SPECIFICATION Spec
CHECK_DEADLOCK FALSE
INVARIANTS ViewsAreTrue RecordIsRead
