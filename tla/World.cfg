CONSTANTS
  Rungs = {"r1", "r2"}
  Peeking = {"r2"}
  Values = {0}
  MaxLives = 2
  MaxActs = 6
  MaxActsOfLogs = 2
  MaxLivesOfLogs = 3
  MaxMarks = 1
  MaxMisses = 0
  Spills = FALSE
  Actors = {"x", "y"}
  MaxReplies = 2
  MaxWriting = 1
  MaxPieces = 2
  MaxFails = 1
  MaxStands = 1
  MaxPauses = 1
  MaxOut = 2
  MaxWrites = 2
  Keys = {"a"}
  Sharing = {}
  Users = {1, 2}
  WARM = 1
  HELD = 1
  MaxSaid = 3
  MaxTurns = 3
  MaxMishaps = 2
  KeysOfForks = {"a", "b"}
  SharingOfForks = {"b"}
  UsersOfForks = {1}
  WARMOfForks = 1
  HELDOfForks = 1
  MaxSaidOfForks = 4
  MaxTurnsOfForks = 3
  MaxMishapsOfForks = 0
  Accounts = {"A"}
  MaxSignIns = 2
  MaxCalls = 1
  MaxExpiries = 1
  MaxFaults = 1
SPECIFICATION Spec
CHECK_DEADLOCK FALSE
INVARIANTS RecordIsTold RepliesHold ConversationsHold CommandsEnd SignInEnds
