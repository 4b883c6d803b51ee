SPECIFICATION Spec
CONSTANTS
  a = a
  b = b
  u = u
  p1 = p1
  p2 = p2
  NoSlice = NoSlice
  UnknownSlice = UnknownSlice
  Gateway = Gateway
  Nobody = Nobody
  Tasks = {a, b, u}
  Slices = {a, b}
  Supervisors = {p1}
  Workers = {p1}
  InitialAssigned = {}
  Assignable = {a, b}
  InitialParents <- MCParents
  Linkable <- MCLinkable
  InitialStatus <- MCInitialStatus
  DependsOn <- MCDependsOn
  Priority <- MCPriority
  Position <- MCPosition
  ParkReady = {a, b}
  MaxRuns = 2
  Limit = 2
  HandoffTimeout = 0
  Margin = 0
  ReplayTicks = 0
  TTL = 0
  MayCrash = FALSE
  MayDrop = TRUE
  Interrupts = "any"
INVARIANTS
  ChainsPastRecorded
PROPERTIES
  LaunchAfterApproval
