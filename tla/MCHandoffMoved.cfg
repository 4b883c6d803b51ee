SPECIFICATION Spec
CONSTANTS
  CompletionInputs <- MCCompletionInputs
  EvaluationInputs <- MCEvaluationInputs
  s1 = s1
  s2 = s2
  s3 = s3
  NoSlice = NoSlice
  UnknownSlice = UnknownSlice
  NoRecord = NoRecord
  Absent = Absent
  Edited = Edited
  Slices = {s1, s2, s3}
  Priority <- MCPriority
  Position <- MCPosition
  DependsOn <- MCDependsOn
  ParkReady = {s1, s2, s3}
  Paths = {"app", "lib", "doc", "queue"}
  Contract <- MCContract
  SupervisorOwned = {"queue"}
  Validations = {"replayed", "reported"}
  ReplayAllowlist = {"replayed"}
  ProofTypes = {"video"}
  Limit = 2
INVARIANTS
  NothingOutsideChanges
CHECK_DEADLOCK FALSE
