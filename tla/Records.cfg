SPECIFICATION Spec
CONSTANTS
  Process = {"p1", "p2"}
  Op = {"command", "finish"}
  EventsOf <- MCEventsOf
  RefsOf <- MCRefsOf
  Free = Free
  MaxEvents = 3
  MaxTampers = 1
  Recipient = {"fab"}
  Candidate = {"RC1"}
  Waiver = {"w"}
  Approval = {"a1", "a2"}
  RoleOf <- MCRoleOf
  MaxHours = 2
  NoStatement = NoStatement
  MaxClock = 3
  MaxSeq = 3
  MaxStatements = 2
  Commands <- MCCommands
  Key = {"k1", "k2"}
  KeyOf <- MCKeyOf
  MaxEdits = 2
  MaxCrashes = 2
INVARIANTS
  RevocationsCount
  FileWhole
PROPERTIES
  IsAppendOnlyLog
  CheckpointDecides
CHECK_DEADLOCK FALSE
