\* Every wait is a few ticks long; one crash, restart or resume.
CONSTANTS
  AirborneTicksToLeaveForTheFlight = 2
  ReadyToPushDelayTicks = 2
  OnFlightDelayTicks = 2
  ExitDelayTicks = 2
  MaxRestarts = 1
  RepositionRetryTicks = 2
  RepositionGiveUpTicks = 3
  GroundEquipmentGiveUpTicks = 2
  ServicesStalledTicks = 1
  ServicesStuckTicks = 2
  ServicesGiveUpTicks = 3
  StairsInPlaceHoldTicks = 2
  TickBound = 4
SPECIFICATION Spec
INVARIANTS
  TypeOK
  
  RepositionsOnce
PROPERTIES
  MachineSpec
