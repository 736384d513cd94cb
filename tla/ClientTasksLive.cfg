SPECIFICATION FairSpec
CONSTANTS
  Tasks = {t1}
  Devices = {d1, d2}
  NoTask = NoTask
  Kinds = {"generate"}
  TaskTimeout = 2
  IdentifyTimeout = 1
  MinLease = 1
  MaxLease = 2
  DefaultLease = 1
  ResultTTL = 2
  RunMargin = 1
  MaxTime = 3
  MaxFaults = 1
INVARIANTS
  PromptDeliveredOnce
  RefusedResultsDeleted
  AnswerIsHonest
PROPERTIES
  ConnectorFreed
  HandlerReturns
  DisconnectStopsRun
CHECK_DEADLOCK FALSE
