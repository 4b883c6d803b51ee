SPECIFICATION Spec
CONSTANTS
  c1 = c1
  c2 = c2
  Files <- MCFiles
  Dirs <- MCDirs
  Beneath <- MCBeneath
  Owned = {"queue"}
  Manifests <- MCManifests
  Commits = {c1, c2}
  Published <- MCPublished
  Ignored = {}
  Reworked = {"lib/a"}
  MaxEdits = 1
  NoPin = NoPin
  Absent = "absent"
  Edited = "edited"
  Torn = "torn"
INVARIANTS
  TypeOK
  RefusalChangesNothing
  CheckPassesAfterSync
  ImportsThePin
PROPERTIES
  OwnedUntouched
  WorkSurvives
  TemplatesSurvive
