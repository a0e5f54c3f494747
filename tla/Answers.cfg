SPECIFICATION Spec
CONSTANTS
  Role = {"physical", "verification", "release"}
  Principal = {"ann", "bob", "cat", "dan"}
  Nobody = Nobody
  Resource = {"rtl", "net", "gds"}
  Content = {"a", "b"}
  MaxRegistrations = 4
  Tracked <- PlanResource
  DepChoice <- PlanDepChoice
  Bytes = {"a", "b"}
  Absent = Absent
  MaxChanges = 8
  IsCandidate = {2, 3, 5, 6}
  PageSize = {1, 2}
  MaxEvents = 7
  MaxRestores = 2
  MaxExports = 2
INVARIANTS
  SearchDecides
  ComputesTheGraph
  PlanSucceeds
  ReadsOneHistory
PROPERTIES
  AnswersEnd
CHECK_DEADLOCK FALSE
