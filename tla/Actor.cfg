SPECIFICATION LiveSpec
CONSTANTS
  Chains = {c1, c2}
  Root = c1
  MaxEntries = 2
  TAIL = 3
  MaxSaid = 2
  MaxMishaps = 2
INVARIANT FollowUpsHold
PROPERTIES SendsTheDue NothingLost EndComes
CHECK_DEADLOCK FALSE
