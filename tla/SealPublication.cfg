SPECIFICATION Spec
CONSTANTS
  Sealer = {"s1", "s2", "d1"}
  Key = {"RC1", "D1"}
  Path = {"x", "y"}
  KeyOf <- MCKeyOf
  PathOf <- MCPathOf
  NeedsOf <- MCNeedsOf
  NoOne = NoOne
  Foreign = Foreign
  NoFile = NoFile
  Expiry = 0
  MaxClock = 1
  MaxCrashes = 1
  MaxForeign = 1
INVARIANTS
  PublishedIsRecorded
  CrashKeepsArchive
  OutcomeIsTrue
PROPERTIES
  SealHonoursRevocation
  EveryoneEnds
CHECK_DEADLOCK FALSE
