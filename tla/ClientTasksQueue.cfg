SPECIFICATION Spec
SYMMETRY Symmetry
CONSTANTS
  Tasks = {t1, t2}
  Devices = {d1}
  NoTask = NoTask
  Kinds = {"identify", "delete_session"}
  TaskTimeout = 1
  IdentifyTimeout = 1
  MinLease = 1
  MaxLease = 2
  DefaultLease = 1
  ResultTTL = 1
  RunMargin = 1
  MaxTime = 2
  MaxFaults = 1
PROPERTIES
  ImplementsOnceTask
CHECK_DEADLOCK FALSE
