SPECIFICATION RiskSpec
CONSTANTS
  Handlers = {h1, h2}
  Kinds = {"generate", "validate"}
  Outcomes = {"ok", "timeout", "other", "security"}
  MinInterval = 1
  Hour = 2
  Day = 4
  HourlyLimit = 1
  DailyLimit = 1
  FaultCooldown = 1
  RateCooldown = 2
  MaxRetryAfter = 3
  MaxTime = 5
PROPERTIES
  SecurityLockStays
CHECK_DEADLOCK FALSE
