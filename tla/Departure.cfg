\* Two aircraft, one relaunch or reset, one restart of GSX; restarts in
\* WaitingPushbackToStart, WaitingDeparture, PlaceArrivalGroundEquipment and CabinServices.
CONSTANTS
  AirborneTicksToLeaveForTheFlight = 1
  ReadyToPushDelayTicks = 1
  OnFlightDelayTicks = 2
  ExitDelayTicks = 1
  MaxRestarts = 1
  RetryTicks = 2
  WaitTicks = 2
  MaxCateringIntervals = 2
  MaxCabinIntervals = 2
  EquipmentGiveUpTicks = 4
  ConfirmationGiveUpTicks = 1
  TickBound = 2
  NumServices = 2
  Crafts <- TwoCrafts
  RestartPhases = {14, 16, 19, 22}
  MaxGsxRestarts = 1
SPECIFICATION FairSpec
INVARIANTS
  TypeOK
  SaidOnceAndTruly
PROPERTIES
  MachineSpec
  DroppedPushbackIsShown
  
