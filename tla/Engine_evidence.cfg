SPECIFICATION PlanSpec
CONSTANTS
  Resource <- MCResource
  Tracked <- MCTracked
  KindOf <- MCKindOf
  Tool = {"tool"}
  Corner = {"nominal"}
  Layout = {"gds"}
  Content <- MCContent
  FilesOf <- MCFilesOf
  Absent = Absent
  Definition <- MCDefinition
  DepChoice <- MCDepChoice
  CheckInput <- MCCheckInput
  Report = {"clean"}
  NoReport = NoReport
  Outcome <- EvOutcome
  Violation = {}
  Attachments = {{}}
  Principal = {"ann", "bob"}
  RolesOf <- EvRolesOf
  Role = {"physical"}
  Policies <- EvPolicies
  InitPolicy <- BasePolicy
  CandidateName = {"RC1"}
  Recipient = {}
  DeliveryId = {}
  InitResources <- MCInitResources
  EditContent <- EvEdits
  Capture = {TRUE}
  Damageable = {}
  MaxRuns = 2
  MaxClock = 0
  MaxWaivers = 0
  MaxApprovals = 1
  MaxRevokedKeys = 0
INVARIANTS
  DecidedBytesWereChecked
  DecidedEvidenceFinal
  RunsBindFreshDerivatives
  PinningExact
PROPERTIES
  NoFallback
  HistoryImmutable
CHECK_DEADLOCK FALSE
