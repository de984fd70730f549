\* One turnaround, one end of the client without a trace.
CONSTANTS
  Aircraft = {a1}
  Stands = {s1, s2}
  Unknown = Unknown
  NoDocument = NoDocument
  MaxFlows = 1
  MaxCouatl = 1
  MaxCrashes = 1
  SnapshotsAreComplete = TRUE
SPECIFICATION Spec
PROPERTIES
  DiscardedIsNeverRestored
