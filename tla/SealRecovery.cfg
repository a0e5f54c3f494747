SPECIFICATION Spec
CONSTANTS
  Sealer = {"s1", "s2"}
  Key = {"RC1", "RC2"}
  Path = {"x"}
  KeyOf <- RcKeyOf
  PathOf <- RcPathOf
  NeedsOf <- RcNeedsOf
  NoOne = NoOne
  Foreign = Foreign
  NoFile = NoFile
  Expiry = 0
  MaxClock = 0
  MaxCrashes = 0
  MaxForeign = 0
INVARIANT
  RecordedArchiveKept
CHECK_DEADLOCK FALSE
