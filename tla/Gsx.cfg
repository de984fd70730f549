\* One fault on each side (two on the connection's), a door that moves up to three ticks.
CONSTANTS
  Requests = {"GPU"}
  Toggles = {"GPU"}
  Unconfirmed = {}
  WhileUnderway = {"GPU"}
  Menus = {"Other"}
  Chores = {}
  AutoSelect = FALSE
  AutoDeice = FALSE
  MaxTriggerAttempts = 2
  MaxResyncs = 1
  Settle = 1
  Window = 1
  RefusalSettle = 2
  Retry = 2
  GiveUp = 3
  ResyncDelay = 1
  CompleteTtl = 2
  IntentTtl = 2
  MaxFaults = 1
  MaxPassengers = 2
  MaxStale = 2
  Fields = {"menu", "services"}
  Values = {"a", "b"}
  MaxBackoff = 1
  MaxWire = 2
  MaxOutages = 2
SPECIFICATION GsxSpec
INVARIANTS
  Types
  
  MirrorFollowsGsx
PROPERTIES
  
  ServicesAreSeenToTheirEnd
  GsxIsFollowed
CHECK_DEADLOCK FALSE
