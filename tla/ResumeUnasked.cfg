\* GSX may list its services before it tells its run and the stand.
CONSTANTS
  Aircraft = {a1}
  Stands = {s1, s2}
  Unknown = Unknown
  NoDocument = NoDocument
  MaxFlows = 1
  MaxCouatl = 2
  MaxCrashes = 0
  SnapshotsAreComplete = FALSE
SPECIFICATION Spec
PROPERTIES
  AnotherGsxRunAsksThePilot
