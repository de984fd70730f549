\* Retries of two ticks, two dispatches, two loads per life of couatl.
CONSTANTS
  AirborneTicksToLeaveForTheFlight = 2
  ReadyToPushDelayTicks = 2
  OnFlightDelayTicks = 2
  ExitDelayTicks = 2
  MaxRestarts = 1
  FlightPlanRetryTicks = 2
  DifferingFetchTicks = 3
  CateringGiveUpTicks = 2
  TickBound = 2
  MaxOfp = 2
  MaxGeneration = 2
SPECIFICATION Spec
INVARIANTS
  TypeOK
PROPERTIES
  CapturesTheCommonPlan
  MachineSpec
