CONSTANTS
  Chains = {"a"}
  Root = "a"
  Kinds = {"run", "rung"}
  MaxActs = 3
  MaxLag = 1
  MaxChanges = 1
  MaxTold = 2
  MaxBirths = 1
  Callers = {"p", "q"}
  Owner = "p"
  MaxAsks = 2
  Records = {"l", "m"}
  Windows = {"w", "x"}
  Servers = {"s", "t"}
  Readers = {"x"}
  Viewers = {"v", "u"}
  Skills = {"s", "t"}
  Programs = {"p", "q"}
  MaxEnables = 3
  MaxWrites = 3
SPECIFICATION Spec
CHECK_DEADLOCK FALSE
INVARIANTS StallsAreTrue SkillsHold ChangesAreKept
PROPERTY HangsAreTold
