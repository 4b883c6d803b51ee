SPECIFICATION Spec
CONSTANTS
  s1 = s1
  s2 = s2
  s3 = s3
  NoSlice = NoSlice
  UnknownSlice = UnknownSlice
  Slices = {s1, s2, s3}
  Priority <- MCPriority
  Position <- MCPosition
  DependsOn <- MCDependsOn
  ParkReady = {s1, s2, s3}
  Paths = {"app", "doc"}
  Contract <- MCContract
  SupervisorOwned = {}
  Validations = {"make architecture"}
  ReplayAllowlist = {"make architecture"}
  ProofTypes = {}
  Supervisors = {p1}
  Evaluators = {}
  Limit = 2
  InitialQueue <- MCInitialQueue
  Handoffs <- MCHandoffs
  MayCrash = FALSE
  MayEscape = FALSE
  OperatorYields = FALSE
  p1 = p1
  p2 = p2
  e1 = e1
PROPERTIES
  ParkedStaysParked
