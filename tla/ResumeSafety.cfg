\* Two turnarounds, one restart of GSX, one of the client; beside them the
\* file with two versions and a fault, and settings with two edits.
CONSTANTS
  Aircraft = {a1, a2}
  Stands = {s1, s2}
  Unknown = Unknown
  NoDocument = NoDocument
  MaxFlows = 2
  MaxCouatl = 2
  MaxCrashes = 1
  SnapshotsAreComplete = TRUE
  Versions = {"1.0", "1.1"}
  MaxFaults = 1
  MaxFailedSaves = 1
  Texts = {0, 14}
  OldPanels = {3}
  MaxEdits = 2
SYMMETRY Interchangeable
VIEW Moving
SPECIFICATION SavedSpec
INVARIANTS
  TypeOK
  FileIsAsRemembered
  DocumentsAreReadBack
  SettingsAreUsedAsShown
PROPERTIES
  ResumesOnlyItsOwn
