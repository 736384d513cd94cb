SPECIFICATION AccountsAlone
CONSTANTS
  u1 = u1
  u2 = u2
  a = a
  b = b
  od = od
  oa = oa
  g1 = g1
  p1 = p1
  fp = fp
  f1 = f1
  f2 = f2
  f3 = f3
  Fleet <- MCFleet
  Interval <- MCInterval
  NewInterval = 3
  MaxAge = 4
  MaxLate = 18
  MaxLost = 1
  MaxEdits = 1
  Nobody = Nobody
  None = None
  NoRule = NoRule
  SMTPURL = ""
  People = {u1, u2}
  Founders = {u1, u2}
  Logins = {l1}
  Admins = {r1, r2}
  Agents = {a1}
  AgentKeys = {k1}
  Mails = {m1}
  EmailVerificationRequired = TRUE
  MaxEpoch = 1
  Operations <- MCOperations
  MaxOps = 2
  Users = {a, b}
  Orgs = {od, oa, oc}
  DefaultOrg = od
  Personal <- MCPersonal
  Gateways = {g1}
  GatewayKeys = {gk1}
  Consoles = {c1, c2}
  Wishes <- MCWishes
  MaxAdminWrites = 1
  MaxConsoleUses = 2
  Chans = {p1, v1}
  Fronts = {fp, ft}
  ChanOrg <- MCChanOrg
  FrontOrg <- MCFrontOrg
  MaxChannelWrites = 3
  Rules = {d1, x1}
  DefaultRules = {d1}
  FailureRules = {d1}
  MaxNotes = 2
  MaxAlertEvents = 4
  Evaluators = {e1, e2}
  MaxDeliveries = 3
INVARIANT
  OwnerRemains
CHECK_DEADLOCK FALSE
