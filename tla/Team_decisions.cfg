SPECIFICATION Spec
CONSTANTS
  Worker = {w1}
  Key = {"ka", "kb"}
  Token = {"tb"}
  WriteScope = {"tb"}
  Request = {r1, r2}
  Candidate = {"rc1", "rc2"}
  Role = {"physical"}
  Validity = 1
  Commanded = {"candidate.created", "approval.signed", "approval.revoked", "release.withdrawn"}
  Local = {"approval.revoked", "release.withdrawn"}
  MaxClock = 0
  MaxCommands = 2
  MaxEvents = 4
  Owner <- MCOwner
  Holder <- MCHolder
  Genesis <- DeGenesis
  Files <- DeFiles
  NoOne = NoOne
  None = None
  w1 = w1
  r1 = r1
  r2 = r2
INVARIANTS
  NothingTwice
CHECK_DEADLOCK FALSE
