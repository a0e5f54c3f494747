SPECIFICATION Spec
CONSTANTS
  Worker = {w1, w2}
  Key = {"ka", "kb"}
  Token = {"tb"}
  WriteScope = {"tb"}
  Request = {r1, r2}
  Candidate = {"rc1"}
  Role = {"physical"}
  Validity = 1
  Commanded = {"approval.signed"}
  Local = {}
  MaxClock = 1
  MaxCommands = 2
  MaxEvents = 5
  Owner <- MCOwner
  Holder <- MCHolder
  Genesis <- ReGenesis
  Files <- ReFiles
  NoOne = NoOne
  None = None
  w1 = w1
  w2 = w2
  r1 = r1
  r2 = r2
INVARIANTS
  RepliesTrue
  AppliedAsReviewed
PROPERTIES
  EveryRequestEnds
CHECK_DEADLOCK FALSE
