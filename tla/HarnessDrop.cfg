SPECIFICATION Spec
CONSTANTS
  s1 = s1
  s2 = s2
  c1 = c1
  MaxEvents = 3
  Scope <- OneScope
  Channel <- OneChannel
  ChannelOf <- SameChannel
  Event <- Stamps
  CreatedAt <- ReplayOrder
  DedupMode = "Drop"
  MAX_PENDING_PER_SCOPE = 2
  MAX_PENDING_PER_CHANNEL = 2
  MAX_BATCH_EVENTS = 2
  MAX_RETRIES = 1
  CIRCUIT_BREAKER_THRESHOLD = 1
  Agents = 2
  ThreadScope = {}
  Handling = "owner_interrupt"
  Heartbeats = TRUE
  Timers = TRUE
  TurnOverrun = TRUE
  MaxFailures = 2
  MaxCommands = 1
INVARIANTS
  TypeOK
  NoSilentLoss
  ExitJustified
  InFlightArmed
  NoSlotOverwrite
CHECK_DEADLOCK FALSE
