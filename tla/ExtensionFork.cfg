SPECIFICATION Spec
CONSTANTS
  Names = {"m"}
  Alone = {}
  Defaults = {}
  Kids = {"a"}
  MaxWord = 1
  MaxFacts = 6
  MaxLives = 1
INVARIANT SetupHoldsEach
CHECK_DEADLOCK FALSE
