SPECIFICATION ConnectorsSpec
CONSTANTS
  x1 = x1
  w1 = w1
  w2 = w2
  h1 = h1
  ShortTime = 2
  OverlapTime = 6
  MaxRate = 2
  Handlers = {h1, h2}
  Kinds = {"generate", "validate"}
  Outcomes = {"ok", "incomplete", "security", "rate_limited"}
  MinInterval = 1
  Hour = 3
  Day = 11
  HourlyLimit = 1
  DailyLimit = 3
  FaultCooldown = 1
  RateCooldown = 2
  MaxRetryAfter = 3
  MaxTime = 14
  ConnIds = {c1, c2, x1}
  ConnMethod <- MCConnMethod
  Credentials = {k1, k2}
  Scrubbed = Scrubbed
  Models = {m1}
  ConnLimit = 2
  Callers = {q1, q2}
  RetryKeys = {i1, i2}
  MaxRelays = 2
  MaxVersion = 2
  MaxConnEvents = 5
  LoginSessions = {s1, s2}
  Grants = {y1, y2}
  Attempts = {w1, w2, g1}
  AttemptMethod <- MCAttemptMethod
  AuthConns = {n1, n2}
  ProviderAccounts = {p1, p2}
  NoneAuth = NoneAuth
  Finishers = {r1, r2}
  MaxAuthEvents = 5
  BTasks = {t1, t2}
  BWaiters = {b1, b2}
  BDevices = {d1, d2}
  NoTask = NoTask
  MaxLeases = 2
  MaxBEvents = 2
  Installs = {j1, j2}
  NoInstall = NoInstall
  Requests = {z1}
  Verifiers = {v1, v2}
  Offsets = {1, 3, 4}
  MaxSkew = 3
  NonceTime = 6
  MaxGap = 1
  PairingTime = 1
  MaxDTime = 7
  MaxDEvents = 1
  MaxAnswers = 2
  Turns = {u1, u2}
  IdleTime = 2
  AbsoluteTime = 3
  MaxCTime = 3
  Calls = {e1, e2}
  MaxParts = 2
INVARIANTS
  NoEndlessCooldown
  TwiceLimitPerWindow
  VerifiedByCurrentCredential
  RelayMadeOnce
  DeletedConnectionIsCutOff
  AttemptMakesOneConnection
  ReauthorizationKeepsAccount
  NewestLeaseAnswers
  PromptsEndWithTheirTask
  SignedRequestActsOnce
  ConversationsEnd
  
CHECK_DEADLOCK FALSE
