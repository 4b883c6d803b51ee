SPECIFICATION FairSpec
CONSTANTS
  s1 = s1
  s2 = s2
  s3 = s3
  NoSlice = NoSlice
  UnknownSlice = UnknownSlice
  Slices = {s1, s2, s3}
  Priority <- MCPriority
  Position <- MCPosition
  DependsOn <- MCDependsOn
  ParkReady = {s1, s2, s3}
  Paths = {"app", "doc"}
  Contract <- MCContract
  SupervisorOwned = {}
  Validations = {"make architecture"}
  ReplayAllowlist = {"make architecture"}
  ProofTypes = {}
  Supervisors = {p1}
  Evaluators = {}
  Limit = 2
  InitialQueue <- MCInitialQueue
  Handoffs <- MCHandoffs
  MayCrash = TRUE
  MayEscape = TRUE
  OperatorYields = TRUE
  p1 = p1
  p2 = p2
  e1 = e1
INVARIANTS
  TypeOK
  OneInProgress
  DependenciesCloseFirst
  ChainsPastDone
  RunLimitHolds
PROPERTIES
  LaunchIsReady
  ImplementsLifecycle
  InvocationEnds
