CONSTANTS
  Crafts <- FourCrafts
  Planned = 2
  BoardingFuelPercent = 75
  ShortRefuel = 0
  RetryTicks = 1
  RefuelStallTicks = 2
  BoardingStallTicks = 2
  CompletionRetryTicks = 1
  GiveUpTicks = 1
  HoldGiveUpTicks = 2
  MaxFaults = 1
  CargoReadings <- SomeReadings
SPECIFICATION FairSpec
INVARIANTS
  TypeOK
PROPERTIES
  ImplementsTwoTracks
  LoadsWhatWasPlanned
  
CHECK_DEADLOCK FALSE
