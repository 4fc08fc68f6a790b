CONSTANTS
  Keys = {"k"}
  MaxPrompts = 3
  Crashing = {1}
  CRASHES = 2
  MaxDeaths = 1
  MaxRetries = 1
  MaxPauses = 1
  MaxFacts = 3
  Verbs = {"view", "close"}
  MaxActs = 2
  MaxItems = 2
  Servers = {"s"}
  Acts = {"a", "b"}
  Kinds = {"call", "disable"}
  RETRIES = 2
  MaxFaults = 1
  Wire = {"process", "streamable", "legacy"}
  Requests = {1, 2}
  MaxNotes = 1
  MaxAsks = 1
SPECIFICATION Spec
CHECK_DEADLOCK FALSE
INVARIANTS WorkHolds EarsHold ToolsHold
PROPERTIES AllEnd
