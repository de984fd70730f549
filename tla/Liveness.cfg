\* The instances of the safety runs, without a relaunch and with one dispatch.
CONSTANTS
  AirborneTicksToLeaveForTheFlight = 2
  ReadyToPushDelayTicks = 2
  OnFlightDelayTicks = 2
  ExitDelayTicks = 2
  MaxRestarts = 1
  Aircraft = {a1}
  Stands = {s1, s2}
  Unknown = Unknown
  NoDocument = NoDocument
SPECIFICATION Spec
PROPERTIES
  TurnaroundGoesOn
  HoldsAndDiscardsEnd
CHECK_DEADLOCK FALSE
