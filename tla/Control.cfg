SPECIFICATION Spec
CONSTANTS
  Chains = {c1}
  Kinds = {"prompt", "rung"}
  MaxActs = 2
  MaxControls = 2
  MaxNews = 1
INVARIANTS PausesHold ControlEnds
CHECK_DEADLOCK FALSE
