SPECIFICATION Spec
CONSTANTS
  Tasks = {t1}
  Devices = {d1}
  NoTask = NoTask
  Kinds = {"generate", "identify"}
  TaskTimeout = 2
  IdentifyTimeout = 1
  MinLease = 1
  MaxLease = 2
  DefaultLease = 1
  ResultTTL = 2
  RunMargin = 1
  MaxTime = 4
  MaxFaults = 0
INVARIANT
  DisconnectCancelsTask
CHECK_DEADLOCK FALSE
