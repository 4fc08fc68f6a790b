SPECIFICATION Spec
CONSTANTS
  Lives = {l1}
  MaxPeers = 1
  Pins = {h1}
  MaxVerbs = 1
  MaxFaults = 0
INVARIANT RecordsFree
CHECK_DEADLOCK FALSE
