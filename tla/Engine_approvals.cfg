SPECIFICATION Spec
CONSTANTS
  Resource <- MCResource
  Tracked <- MCTracked
  KindOf <- MCKindOf
  Tool = {"tool"}
  Corner = {"nominal"}
  Layout = {"gds"}
  Content <- MCContent
  FilesOf <- MCFilesOf
  Absent = Absent
  Definition <- MCDefinition
  DepChoice <- MCDepChoice
  CheckInput <- MCCheckInput
  Report = {"clean"}
  NoReport = NoReport
  Outcome <- ApOutcome
  Violation = {}
  Attachments = {{}}
  Principal = {"ann", "bob", "cat"}
  RolesOf <- ApRolesOf
  Role = {"physical", "verification"}
  Policies <- ApPolicies
  InitPolicy <- TwoRoles
  CandidateName = {"RC1"}
  Recipient = {"ann"}
  DeliveryId = {"D1"}
  InitResources <- MCInitResources
  EditContent <- StillEdits
  Capture = {TRUE}
  Damageable = {}
  MaxRuns = 1
  MaxClock = 0
  MaxWaivers = 0
  MaxApprovals = 3
  MaxRevokedKeys = 1
INVARIANTS
  TypeOK
  DeliveryMatchesRelease
PROPERTIES
  Authorised
  WithdrawnStaysDown
  ImplementsLifecycle
CHECK_DEADLOCK FALSE
