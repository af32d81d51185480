SPECIFICATION Spec
CONSTANTS
  s1 = s1
  s2 = s2
  c1 = c1
  MaxEvents = 3
  Scope <- OneScope
  Channel <- OneChannel
  ChannelOf <- SameChannel
  Event <- Stamps
  CreatedAt <- ReplayOrder
  DedupMode = "Queue"
  MAX_PENDING_PER_SCOPE = 2
  MAX_PENDING_PER_CHANNEL = 2
  MAX_BATCH_EVENTS = 2
  MAX_RETRIES = 1
  CIRCUIT_BREAKER_THRESHOLD = 2
  Agents = 1
  ThreadScope = {}
  Handling = "steer"
  Heartbeats = FALSE
  Timers = TRUE
  TurnOverrun = FALSE
  MaxFailures = 1
  MaxCommands = 2
INVARIANTS
  NoDoubleDelivery
  OneTurnPerScope
  WithheldHasWatcher
PROPERTIES
  BackoffRespected
  OnlyCarryoverIsLost
CHECK_DEADLOCK FALSE
