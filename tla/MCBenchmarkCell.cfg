SPECIFICATION Spec
CONSTANTS
  Containers = {"c1"}
  Others = {"old"}
  Shape <- MCShape
  Timeouts = {3, 22}
  Grace = 1
  Sources = {first, second}
  Given = "given"
  Built = "built"
  None = "none"
  Torn = "torn"
  MayStartLate = FALSE
SYMMETRY SourceSymmetry
INVARIANTS
  TypeOK
  NobodyWritesBehind
  OnlyArtifactsCross
  GradedIsLastBuilt
  ValidMeansAdministered
  ImplementKeepsItsShare
CHECK_DEADLOCK FALSE
