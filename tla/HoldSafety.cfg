\* Holds of one and two ticks, two airborne ticks end a stand phase, one restart.
CONSTANTS
  AirborneTicksToLeaveForTheFlight = 2
  ReadyToPushDelayTicks = 2
  OnFlightDelayTicks = 2
  ExitDelayTicks = 2
  MaxRestarts = 1
  HoldTicksAllowed <- MCTwoHolds
  LongestHold = 2
  MaxFaults = 1
  MaxFaultsOfTheSmall = 2
  WideOpen = 2
  RestTicks = 2
  StartTicks = 3
  GuardTicks = 1
  GiveUpTicks = 2
  SettleTicks = 1
  MaxPulseAttempts = 2
  OpensItselfTicks = 2
  ReaffirmTicks = 2
  MaxReaffirms = 2
  BoundTicks = 4
  Travel = 2
  CallableTicks = 2
  MinTicksBetweenPulses = 3
  MaxAttempts = 2
  Shows = 2
SPECIFICATION AircraftSpec
INVARIANTS
  TypeOK
  RulesLetGo
  PilotActsWhereMeant
PROPERTIES
  
  LeavesTheStandOnlyWhenLongAirborne
  
  AircraftIsServed
