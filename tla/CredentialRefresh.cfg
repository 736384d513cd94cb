SPECIFICATION Spec
CONSTANTS
  Workers = {w1}
  Gateways = {g1}
  Sessions = {s1}
  None = None
  Rotates = TRUE
  MaxVersion = 3
  MaxGrants = 2
  MaxOps = 2
  MaxFaults = 1
INVARIANTS
  ReauthJustified
  ConflictLosesNothing
PROPERTIES
  NewestAuthorizationKept
  RefreshSettles
  SpuriousReauthHeals
CHECK_DEADLOCK FALSE
