SPECIFICATION Spec
CONSTANTS
  Worker = {w1}
  Key = {"ka", "kb"}
  Token = {"tb"}
  WriteScope = {"tb"}
  Request = {r1}
  Candidate = {"rc1"}
  Role = {"physical"}
  Validity = 1
  Commanded = {"approval.signed"}
  Local = {}
  MaxClock = 0
  MaxCommands = 1
  MaxEvents = 4
  Owner <- MCOwner
  Holder <- MCHolder
  Genesis <- GoGenesis
  Files <- GoFiles
  NoOne = NoOne
  None = None
  w1 = w1
  r1 = r1
PROPERTIES
  AuthorisedAtCommit
CHECK_DEADLOCK FALSE
