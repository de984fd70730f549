CONSTANTS
  MaxFaults = 1
  DoorRetryTicks = 2
  DoorAttempts = 2
  GroundRetryTicks = 3
  GroundAttempts = 3
  ToggleShows = 4
  MaxToggles = 3
  HoldTravel = 2
  SettleTicks = 2
  SettingsEvery = 2
  FullZfw = 1
  MaxRetries = 2
  MaxDelay = 2
  VariableMessages = 1
  MaxEnvelopes = 2
  Newest = 3
  MaxFailures = 1
SPECIFICATION Spec
PROPERTIES
  
  AddOnsDoAsAsked
  ClientKeepsUp
  UpdatesAreSafe
CHECK_DEADLOCK FALSE
