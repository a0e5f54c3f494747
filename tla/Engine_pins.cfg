SPECIFICATION PlanSpec
CONSTANTS
  Resource <- PnResource
  Tracked <- MCTracked
  KindOf <- PnKindOf
  Tool = {"tool", "tool2"}
  Corner = {"nominal"}
  Layout = {"gds"}
  Content <- PnContent
  FilesOf <- PnFilesOf
  Absent = Absent
  Definition <- PnDefinition
  DepChoice <- PnDepChoice
  CheckInput <- MCCheckInput
  Report = {"clean"}
  NoReport = NoReport
  Outcome <- PnOutcome
  Violation = {}
  Attachments = {{}}
  Principal = {"bob"}
  RolesOf <- PnRolesOf
  Role = {"physical"}
  Policies <- PnPolicies
  InitPolicy <- PnPolicy
  CandidateName = {"RC1"}
  Recipient = {}
  DeliveryId = {}
  InitResources <- MCInitResources
  EditContent <- PnEdits
  Capture = {TRUE, FALSE}
  Damageable = {"clean", "leaf"}
  MaxRuns = 1
  MaxClock = 0
  MaxWaivers = 0
  MaxApprovals = 1
  MaxRevokedKeys = 0
INVARIANTS
  DecidedRunsPinned
  PlanAgreesWithGate
PROPERTIES
  ChangesForeseen
CHECK_DEADLOCK FALSE
