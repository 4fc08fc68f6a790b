CONSTANTS
  Outside = 2
  MaxActs = 2
  MaxSaid = 1
  MaxDeaths = 1
  MaxWord = 3
  MaxActsOfKernel = 4
  Names = {"m", "n"}
  Alone = {"n"}
  Defaults = {"m"}
  Kids = {"a"}
  MaxWordOfExtensions = 2
  MaxFacts = 6
  MaxLives = 3
  Prompts = {"p", "q"}
  Words = {"w", "v"}
  MaxRungs = 2
  MaxLag = 1
  MaxPauses = 1
SPECIFICATION Spec
CHECK_DEADLOCK FALSE
INVARIANTS BusHears WordsRun TurnsGoOn ExtensionsHold
