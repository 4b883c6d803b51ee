SPECIFICATION Spec
CONSTANTS
  Sources = {"a"}
  Texts = {"v1", "v2"}
  Ids = {1, 2, 3}
  NoSource = "no source"
  Granted = {"retain", "recall", "snapshot"}
  MaxResults = 1
  PageSize = 2
  MaxMemories = 2
  Missing = "missing"
  Unread = "unread"
INVARIANTS
  RecallIsOneReading
  PagesMakeProgress
PROPERTIES
  OneSidedChangesAreRefused
