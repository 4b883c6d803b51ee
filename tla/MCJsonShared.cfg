SPECIFICATION Spec
CONSTANTS
  s1 = s1
  s2 = s2
  s3 = s3
  NoSlice = NoSlice
  UnknownSlice = UnknownSlice
  Slices = {s1, s2}
  Priority <- MCPriority
  Position <- MCPosition
  DependsOn <- MCDependsOn
  ParkReady = {s1}
  Paths = {}
  Contract <- MCContract
  SupervisorOwned = {}
  Validations = {"make architecture"}
  ReplayAllowlist = {"make architecture"}
  ProofTypes = {}
  Supervisors = {p1, p2}
  Evaluators = {e1}
  Limit = 2
  InitialQueue <- MCInitialQueue
  Handoffs <- MCHandoffs
  MayCrash = TRUE
  MayEscape = FALSE
  OperatorYields = TRUE
  p1 = p1
  p2 = p2
  e1 = e1
INVARIANTS
  DoneWasEarned
SYMMETRY SupervisorSymmetry
