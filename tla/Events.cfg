SPECIFICATION LiveSpec
CONSTANTS
  Readers = {r1, r2}
  Behind = 2
  MaxEvents = 4
INVARIANTS TypeOK NeverStranded ReadJoins OverAtTheEnd
PROPERTY Reaches
CHECK_DEADLOCK FALSE
