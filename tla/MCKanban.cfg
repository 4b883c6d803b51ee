SPECIFICATION Spec
CONSTANTS
  a = a
  b = b
  u = u
  p1 = p1
  p2 = p2
  NoSlice = NoSlice
  UnknownSlice = UnknownSlice
  Gateway = Gateway
  Nobody = Nobody
  Tasks = {a, b}
  Slices = {a, b}
  Supervisors = {p1, p2}
  Workers = {p1, p2}
  InitialAssigned = {}
  Assignable = {a}
  InitialParents <- MCParents
  Linkable <- MCLinkable
  InitialStatus <- MCInitialStatus
  DependsOn <- MCDependsOn
  Priority <- MCPriority
  Position <- MCPosition
  ParkReady = {a, b}
  MaxRuns = 2
  Limit = 2
  HandoffTimeout = 1
  Margin = 2
  ReplayTicks = 1
  TTL = 3
  MayCrash = TRUE
  MayDrop = FALSE
  Interrupts = "abandoned"
INVARIANTS
  TypeOK
  HoldsOwnRun
  ClaimOutlastsRun
SYMMETRY SupervisorSymmetry
