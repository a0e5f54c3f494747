SPECIFICATION Spec
CONSTANTS
  Run = {"r1", "r2", "r3", "r4"}
  Path = {"drc.json"}
  PathOf <- MCPathOf
  FormatOf <- MCFormatOf
  FromStdout = {"r4"}
  PinnedExe = {"r4"}
  NoFile = NoFile
  Truncated = Truncated
  NoCode = 999
  MaxVersions = 1
  MaxTidies = 1
  MaxFile = 3
  MaxEdits = 5
  Process = {1, 2}
  Overlapping <- SideBySide
  Formats = {"klayout", "opensta", "yosys-sat", "junit", "klayout-rdb"}
INVARIANTS
  PassIsGenuine
  
  VerdictIsComplete
PROPERTIES
  ManagedRunsEnd
CHECK_DEADLOCK FALSE
