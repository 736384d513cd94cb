CONSTANTS
  Procs = {p1, p2}
  Callers = {a1}
  MaxRuns = 2
  DueLayers = {"l1"}
  Outcomes <- MCOutcomes
  ManualLayers <- MCManualLayers
  MaxAge = 0
  AckWait = 1
  HandNames = {"manual"}
  MaxEvents = 1
SPECIFICATION Spec
CHECK_DEADLOCK FALSE
INVARIANTS
  UndisturbedRunDecides
  IncidentMatchesStatus
PROPERTIES
  TasksSettle
