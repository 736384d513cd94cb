CONSTANTS
  r1 = r1
  r2 = r2
  s1 = s1
  s2 = s2
  c1 = c1
  c2 = c2
  Requests = {r1, r2}
  Servers = {s1, s2}
  Channels = {c1, c2}
  Home <- MCHome
  None = None
  Quotas = {1, 2}
  Concurrency = 1
  CallTime = 1
  SlotTTL = 5
  CircuitTTL = 1
  MaxEvents = 1
SPECIFICATION Spec
CHECK_DEADLOCK FALSE
PROPERTY RevokedKeyStaysRevoked
