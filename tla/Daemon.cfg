SPECIFICATION LiveSpec
CONSTANTS
  Lives = {l1}
  MaxPeers = 2
  Pins = {h1}
  MaxVerbs = 3
  MaxFaults = 1
INVARIANTS TypeOK BirthsAgree IdleIsUnheld PinsHold
PROPERTY GoesOn
CHECK_DEADLOCK FALSE
