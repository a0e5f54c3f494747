SPECIFICATION Spec
CONSTANTS
  Resource <- MCResource
  Tracked <- MCTracked
  KindOf <- MCKindOf
  Tool = {"tool"}
  Corner = {"nominal"}
  Layout = {"gds"}
  Content <- WvContent
  FilesOf <- WvFilesOf
  Absent = Absent
  Definition <- MCDefinition
  DepChoice <- MCDepChoice
  CheckInput <- MCCheckInput
  Report = {"dirty"}
  NoReport = NoReport
  Outcome <- WvOutcome
  Violation = {"short"}
  Attachments <- WvAttachments
  Principal = {"ann", "bob"}
  RolesOf <- WvRolesOf
  Role = {"physical"}
  Policies <- WvPolicies
  InitPolicy <- WvPolicy
  CandidateName = {"RC1"}
  Recipient = {}
  DeliveryId = {}
  InitResources <- MCInitResources
  EditContent <- StillEdits
  Capture = {TRUE}
  Damageable = {"note"}
  MaxRuns = 1
  MaxClock = 2
  MaxWaivers = 2
  MaxApprovals = 1
  MaxRevokedKeys = 0
INVARIANTS
  ArchiveVerifies
  DecidedViolationsWaived
PROPERTIES
  WaiversLive
CHECK_DEADLOCK FALSE
