-------------------------- MODULE ClientTasksProofs --------------------------
(***************************************************************************)
(* Proofs about the official-client task queue, for any number of tasks    *)
(* and connector processes and any timeouts.                               *)
(***************************************************************************)
EXTENDS ClientTasks, TLAPS

-----------------------------------------------------------------------------
\* The lifetime of a task and the length of a lease are numbers of ticks.
LEMMA Durations ==
  /\ \A a \in Actions : Lifetime(a) \in Nat
  /\ LeaseDuration \in Nat
  /\ Kinds \subseteq Actions
  /\ ResultTTL \in Nat
  BY ConstantsAssumption DEF Lifetime, LeaseDuration, Actions

\* What the records of sessions and processes may hold depends on the tokens
\* drawn so far only.
LEMMA RecordsKept ==
  /\ UNCHANGED tokens => SessionRecords' = SessionRecords /\ DeviceRecords' = DeviceRecords
  /\ tokens \in Nat /\ tokens' = tokens + 1 =>
       SessionRecords \subseteq SessionRecords' /\ DeviceRecords \subseteq DeviceRecords'
<1>1. UNCHANGED tokens => SessionRecords' = SessionRecords /\ DeviceRecords' = DeviceRecords
  BY DEF SessionRecords, DeviceRecords
<1>2. ASSUME tokens \in Nat, tokens' = tokens + 1
      PROVE  SessionRecords \subseteq SessionRecords' /\ DeviceRecords \subseteq DeviceRecords'
  <2>1. 0..tokens \subseteq 0..tokens'
    BY <1>2
  <2> QED BY <2>1, Zenon DEF SessionRecords, DeviceRecords
<1> QED BY <1>1, <1>2

SessionBusy == {"claimed", "loaded", "sent"}
DeviceBusy == {"received", "running", "completing", "stored"}

\* A session or a process that holds a task holds one that exists, under a token
\* already drawn; otherwise it is one of the idle records.
LEMMA Holders ==
  ASSUME session \in [Devices -> SessionRecords], device \in [Devices -> DeviceRecords],
         NEW d \in Devices
  PROVE  /\ session[d].pc \in SessionBusy =>
              session[d].task \in Tasks /\ session[d].lease \in 0..tokens
         /\ device[d].pc \in DeviceBusy =>
              /\ device[d].task \in Tasks
              /\ device[d].lease \in 0..tokens
              /\ device[d].ok \in BOOLEAN
         /\ session[d].pc = "idle" => session[d] = NoSession
         /\ device[d].pc = "idle" => device[d] = IdleDevice
<1>1. session[d] \in SessionRecords /\ device[d] \in DeviceRecords
  OBVIOUS
<1> QED BY <1>1 DEF SessionRecords, DeviceRecords, SessionBusy, DeviceBusy, NoSession, IdleDevice

\* Idle sessions and processes are well formed, and stay so when they move on.
LEMMA Moves ==
  ASSUME tokens \in Nat, session \in [Devices -> SessionRecords],
         device \in [Devices -> DeviceRecords], NEW d \in Devices
  PROVE  /\ NoSession \in SessionRecords
         /\ IdleDevice \in DeviceRecords
         /\ session[d].pc = "idle" =>
              [session EXCEPT ![d].pc = "authed"] \in [Devices -> SessionRecords]
         /\ device[d].pc = "idle" =>
              [device EXCEPT ![d].pc = "polling"] \in [Devices -> DeviceRecords]
         /\ session[d].pc \in SessionBusy => \A pc \in SessionBusy :
              [session EXCEPT ![d].pc = pc] \in [Devices -> SessionRecords]
         /\ device[d].pc \in DeviceBusy => \A pc \in DeviceBusy :
              [device EXCEPT ![d].pc = pc] \in [Devices -> DeviceRecords]
         /\ device[d].pc \in DeviceBusy => \A pc \in DeviceBusy, ok \in BOOLEAN :
              [device EXCEPT ![d].pc = pc, ![d].ok = ok] \in [Devices -> DeviceRecords]
<1>1. NoSession \in SessionRecords /\ IdleDevice \in DeviceRecords
  BY DEF SessionRecords, DeviceRecords, IdleDevice, NoSession
<1>2. session[d] \in SessionRecords /\ device[d] \in DeviceRecords
  OBVIOUS
<1>3. ASSUME session[d].pc = "idle"
      PROVE  [session[d] EXCEPT !.pc = "authed"] \in SessionRecords
  BY <1>2, <1>3 DEF SessionRecords
<1>4. ASSUME device[d].pc = "idle"
      PROVE  [device[d] EXCEPT !.pc = "polling"] \in DeviceRecords
  BY <1>2, <1>4 DEF DeviceRecords
<1>5. ASSUME session[d].pc \in SessionBusy, NEW pc \in SessionBusy
      PROVE  [session[d] EXCEPT !.pc = pc] \in SessionRecords
  BY <1>2, <1>5 DEF SessionRecords, SessionBusy
<1>6. ASSUME device[d].pc \in DeviceBusy, NEW pc \in DeviceBusy
      PROVE  [device[d] EXCEPT !.pc = pc] \in DeviceRecords
  BY <1>2, <1>6 DEF DeviceRecords, DeviceBusy
<1>7. ASSUME device[d].pc \in DeviceBusy, NEW pc \in DeviceBusy, NEW ok \in BOOLEAN
      PROVE  [device[d] EXCEPT !.pc = pc, !.ok = ok] \in DeviceRecords
  BY <1>2, <1>7 DEF DeviceRecords, DeviceBusy
<1> QED BY <1>1, <1>3, <1>4, <1>5, <1>6, <1>7

\* Every action of a handler, a session or a process keeps the types.
LEMMA TypeInduction ==
  ASSUME TypeOK, [Next]_vars
  PROVE  TypeOK'
<1> USE DEF TypeOK, Statuses, HandlerStates, Answers
<1>1. ASSUME NEW t \in Tasks, NEW a \in Kinds, PutPayload(t, a)
      PROVE  TypeOK'
  BY <1>1, Durations, RecordsKept DEF PutPayload, Goto
<1>2. ASSUME NEW t \in Tasks, HandlerStep(t)
      PROVE  TypeOK'
  <2>1. CASE SweepBeforeInsert(t)
    BY <2>1, RecordsKept DEF SweepBeforeInsert, SweepTo, SweptStatus, Goto, redis
  <2>2. CASE SnapshotConnector(t)
    BY <2>2, RecordsKept DEF SnapshotConnector, Goto, Answer, taskRow, redis
  <2>3. CASE InsertTask(t)
    BY <2>3, Durations, RecordsKept DEF InsertTask, Goto, redis
  <2>4. CASE InsertBusy(t)
    BY <2>4, RecordsKept DEF InsertBusy, Goto, Answer, taskRow, redis
  <2>5. CASE Poll(t)
    BY <2>5, RecordsKept DEF Poll, Goto, Answer, taskRow, redis
  <2>6. CASE WaitCancelled(t)
    BY <2>6, RecordsKept DEF WaitCancelled, CancelledStatus, Goto, Answer, redis
  <2>7. CASE FetchResult(t)
    BY <2>7, RecordsKept DEF FetchResult, Goto, Answer, taskRow
  <2>8. CASE DeletePayload(t)
    BY <2>8, RecordsKept DEF DeletePayload, Goto, taskRow
  <2> QED BY <1>2, <2>1, <2>2, <2>3, <2>4, <2>5, <2>6, <2>7, <2>8 DEF HandlerStep
<1>3. ASSUME NEW t \in Tasks, Disconnect(t) \/ HandlerDies(t)
      PROVE  TypeOK'
  <2>1. CASE Disconnect(t)
    <3>1. gone' \in [Tasks -> BOOLEAN]
      BY <2>1 DEF Disconnect
    <3> QED BY <2>1, <3>1, RecordsKept DEF Disconnect, taskRow, redis
  <2>2. CASE HandlerDies(t)
    BY <2>2, RecordsKept DEF HandlerDies, Fault, Goto, taskRow, redis
  <2> QED BY <1>3, <2>1, <2>2
<1>4. ASSUME NEW d \in Devices, PollTask(d) \/ GiveUpPoll(d)
      PROVE  TypeOK'
  <2>1. CASE PollTask(d)
    <3>1. session' \in [Devices -> SessionRecords] /\ device' \in [Devices -> DeviceRecords]
      BY <2>1, Moves DEF PollTask, SessionAt, DeviceAt
    <3> QED BY <2>1, <3>1, RecordsKept DEF PollTask, taskRow, redis, handlers
  <2>2. CASE GiveUpPoll(d)
    BY <2>2, Moves, RecordsKept DEF GiveUpPoll, DeviceIdle, taskRow, redis, handlers
  <2> QED BY <1>4, <2>1, <2>2
<1>5. ASSUME NEW d \in Devices, SessionStep(d)
      PROVE  TypeOK'
  <2>1. CASE ClaimTask(d)
    <3>1. PICK t \in Tasks :
            /\ tokens' = tokens + 1
            /\ status' = [ReclaimedStatus EXCEPT ![t] = "claimed"]
            /\ lease' = [u \in Tasks |-> IF u = t THEN tokens + 1
                                    ELSE IF ReclaimedStatus[u] # status[u] THEN 0 ELSE lease[u]]
            /\ leaseExpiresAt' = [u \in Tasks |->
                               IF u = t THEN clock + LeaseDuration
                               ELSE IF ReclaimedStatus[u] # status[u] THEN 0
                               ELSE leaseExpiresAt[u]]
            /\ session' = [session EXCEPT
                             ![d] = [pc |-> "claimed", task |-> t, lease |-> tokens + 1]]
      BY <2>1 DEF ClaimTask
    <3>2. /\ UNCHANGED <<connector, action, expiresAt, resultKey, redis, handlers, device,
                         clock, faults, delivered>>
      BY <2>1 DEF ClaimTask
    <3>3. 0..tokens \subseteq 0..tokens'
      BY <3>1
    <3>4. status' \in [Tasks -> Statuses]
      BY <3>1 DEF ReclaimedStatus
    <3>5. lease' \in [Tasks -> 0..tokens'] /\ leaseExpiresAt' \in [Tasks -> Nat]
      BY <3>1, Durations
    <3>6. [pc |-> "claimed", task |-> t, lease |-> tokens + 1] \in SessionRecords'
      BY <3>1 DEF SessionRecords
    <3>7. session' \in [Devices -> SessionRecords'] /\ device' \in [Devices -> DeviceRecords']
      BY <3>1, <3>2, <3>6, RecordsKept
    <3>8. /\ resultKey' \in [Tasks -> 0..tokens']
          /\ results' \subseteq [task : Tasks, lease : 0..tokens', expiresAt : Nat]
      BY <3>2, <3>3 DEF redis
    <3> QED BY <3>1, <3>2, <3>4, <3>5, <3>7, <3>8 DEF redis, handlers
  <2>2. CASE ClaimNothing(d)
    <3>1. session' \in [Devices -> SessionRecords] /\ device' \in [Devices -> DeviceRecords]
      BY <2>2, Moves DEF ClaimNothing, EndSession
    <3> QED BY <2>2, <3>1, RecordsKept DEF ClaimNothing, SweepTo, ReclaimedStatus, redis, handlers
  <2>3. CASE LoadPayload(d)
    <3>1. session' \in [Devices -> SessionRecords]
      BY <2>3, Moves DEF LoadPayload, SessionAt, SessionBusy
    <3> QED BY <2>3, <3>1, RecordsKept DEF LoadPayload, taskRow, redis, handlers
  <2>4. CASE PayloadUnavailable(d)
    <3>1. session' \in [Devices -> SessionRecords] /\ device' \in [Devices -> DeviceRecords]
      BY <2>4, Moves DEF PayloadUnavailable, EndSession
    <3>2. /\ status' \in [Tasks -> Statuses] /\ lease' \in [Tasks -> 0..tokens]
          /\ leaseExpiresAt' \in [Tasks -> Nat] /\ resultKey' \in [Tasks -> 0..tokens]
      BY <2>4 DEF PayloadUnavailable, CloseRow
    <3>3. payload' \in [Tasks -> Nat]
      BY <2>4 DEF PayloadUnavailable
    <3>4. faults' \in Nat
      BY <2>4 DEF PayloadUnavailable, Fault
    <3> QED BY <2>4, <3>1, <3>2, <3>3, <3>4, RecordsKept DEF PayloadUnavailable, handlers
  <2>5. CASE SendTask(d)
    <3>1. session' \in [Devices -> SessionRecords]
      BY <2>5, Moves DEF SendTask, SessionAt, SessionBusy
    <3>2. [pc |-> "received", task |-> session[d].task, lease |-> session[d].lease, ok |-> FALSE]
            \in DeviceRecords
      BY <2>5, Holders DEF SendTask, DeviceRecords, SessionBusy
    <3>3. device' \in [Devices -> DeviceRecords]
      BY <2>5, <3>2 DEF SendTask
    <3>4. session[d].task \in Tasks
      BY <2>5, Holders DEF SendTask, SessionBusy
    <3>5. delivered' \in [Tasks -> Nat]
      BY <2>5, <3>4 DEF SendTask
    <3> QED BY <2>5, <3>1, <3>3, <3>5, RecordsKept DEF SendTask, taskRow, redis, handlers
  <2>6. CASE DropDeliveredPayload(d)
    BY <2>6, Moves, RecordsKept DEF DropDeliveredPayload, EndSession, taskRow, handlers
  <2> QED BY <1>5, <2>1, <2>2, <2>3, <2>4, <2>5, <2>6 DEF SessionStep
<1>6. ASSUME NEW d \in Devices, DeviceStep(d)
      PROVE  TypeOK'
  <2>1. CASE StartTask(d)
    <3>1. device' \in [Devices -> DeviceRecords]
      BY <2>1, Moves DEF StartTask, DeviceAt, DeviceBusy
    <3> QED BY <2>1, <3>1, RecordsKept DEF StartTask, taskRow, redis, handlers
  <2>2. CASE MonitorCancels(d)
    <3>1. device' \in [Devices -> DeviceRecords]
      BY <2>2, Moves DEF MonitorCancels, DeviceBusy
    <3> QED BY <2>2, <3>1, RecordsKept DEF MonitorCancels, taskRow, redis, handlers
  <2>3. CASE StoreResult(d)
    <3>1. device' \in [Devices -> DeviceRecords]
      <4>1. CASE connector = "active"
        <5>1. device' = [device EXCEPT ![d].pc = "stored"] /\ device[d].pc \in DeviceBusy
          BY <2>3, <4>1 DEF StoreResult, DeviceAt, DeviceBusy
        <5>2. "stored" \in DeviceBusy
          BY DEF DeviceBusy
        <5> QED BY <5>1, <5>2, Moves
      <4>2. CASE connector # "active"
        BY <2>3, <4>2, Moves DEF StoreResult, DeviceIdle
      <4> QED BY <4>1, <4>2
    <3>2. results' \subseteq [task : Tasks, lease : 0..tokens, expiresAt : Nat]
      <4>1. device[d].task \in Tasks /\ device[d].lease \in 0..tokens
        BY <2>3, Holders DEF StoreResult, DeviceBusy
      <4> QED BY <2>3, <4>1, Durations DEF StoreResult
    <3> QED BY <2>3, <3>1, <3>2, RecordsKept DEF StoreResult, taskRow, handlers
  <2>4. CASE CompleteTask(d)
    <3>1. device' \in [Devices -> DeviceRecords]
      BY <2>4, Moves DEF CompleteTask, DeviceIdle
    <3>2. device[d].lease \in 0..tokens
      BY <2>4, Holders DEF CompleteTask, DeviceBusy
    <3>3. /\ status' \in [Tasks -> Statuses] /\ lease' \in [Tasks -> 0..tokens]
          /\ leaseExpiresAt' \in [Tasks -> Nat] /\ resultKey' \in [Tasks -> 0..tokens]
      BY <2>4, <3>2 DEF CompleteTask, CloseRow
    <3> QED BY <2>4, <3>1, <3>3, RecordsKept DEF CompleteTask, ResultsAfter, handlers
  <2> QED BY <1>6, <2>1, <2>2, <2>3, <2>4 DEF DeviceStep
<1>7. ASSUME NEW d \in Devices, NEW ok \in BOOLEAN, FinishTask(d, ok)
      PROVE  TypeOK'
  <2>1. device' \in [Devices -> DeviceRecords]
    BY <1>7, Moves DEF FinishTask, DeviceBusy
  <2> QED BY <1>7, <2>1, RecordsKept DEF FinishTask, taskRow, redis, handlers
<1>8. ASSUME NEW d \in Devices, SessionDies(d) \/ ResponseLost(d) \/ DeviceRestarts(d)
      PROVE  TypeOK'
  <2>1. CASE SessionDies(d)
    <3>1. session' \in [Devices -> SessionRecords]
      BY <2>1, Moves DEF SessionDies, EndSession
    <3> QED BY <2>1, <3>1, RecordsKept DEF SessionDies, Fault, taskRow, redis, handlers
  <2>2. CASE ResponseLost(d)
    <3>1. session' \in [Devices -> SessionRecords]
      BY <2>2, Moves DEF ResponseLost, SessionAt, SessionBusy
    <3> QED BY <2>2, <3>1, RecordsKept DEF ResponseLost, Fault, taskRow, redis, handlers
  <2>3. CASE DeviceRestarts(d)
    <3>1. device' \in [Devices -> DeviceRecords]
      BY <2>3, Moves DEF DeviceRestarts, DeviceIdle
    <3> QED BY <2>3, <3>1, RecordsKept DEF DeviceRestarts, Fault, taskRow, redis, handlers
  <2> QED BY <1>8, <2>1, <2>2, <2>3
<1>9. CASE MaintainTasks
  BY <1>9, RecordsKept DEF MaintainTasks, SweepTo, SweptStatus, redis, handlers
<1>10. CASE RevokeConnector
  BY <1>10, RecordsKept DEF RevokeConnector, SweepTo, RevokedStatus, redis, handlers
<1>11. CASE Tick
  BY <1>11, RecordsKept DEF Tick, taskRow, handlers
<1>12. CASE UNCHANGED vars
  BY <1>12, RecordsKept DEF vars, taskRow, redis, handlers
<1> QED BY <1>1, <1>2, <1>3, <1>4, <1>5, <1>6, <1>7, <1>8, <1>9, <1>10, <1>11, <1>12 DEF Next

\* Every reachable state of the task queue is well typed, and every lease token
\* in a row, a session, a process or a result was drawn by a claim.
THEOREM TypeCorrect == Spec => []TypeOK
<1>1. Init => TypeOK
  BY DEF Init, TypeOK, Statuses, Actions, HandlerStates, Answers,
         SessionRecords, DeviceRecords, NoSession, IdleDevice
<1>2. TypeOK /\ [Next]_vars => TypeOK'
  BY TypeInduction
<1> QED BY <1>1, <1>2, PTL DEF Spec
-----------------------------------------------------------------------------
\* A row exists only once its handler has inserted it.
RowsInserted ==
  \A t \in Tasks : handler[t] \in {"idle", "put", "swept", "insert"} => status[t] = "absent"

\* The step that inserts the row of t, while the table holds no active row.
Inserts(t) ==
  /\ status[t] = "absent"
  /\ status'[t] = "queued"
  /\ resultKey'[t] = resultKey[t]
  /\ handler'[t] \in {"wait", "done"}
  /\ \A u \in Tasks : ~ Active(u) /\ (u # t => status'[u] = status[u])

\* How the rows of the table change in a step, whoever takes it.
LEMMA RowSteps ==
  ASSUME TypeOK, RowsInserted, [Next]_vars, NEW t \in Tasks
  PROVE  \/ status'[t] = status[t] /\ resultKey'[t] = resultKey[t]
         \/ Inserts(t)
         \/ Active(t)
<1> USE DEF TypeOK, Active, Statuses
<1>1. ASSUME NEW u \in Tasks, NEW a \in Kinds, PutPayload(u, a)
      PROVE  status' = status /\ resultKey' = resultKey
  BY <1>1 DEF PutPayload
<1>2. ASSUME NEW u \in Tasks, HandlerStep(u) \/ Disconnect(u) \/ HandlerDies(u)
      PROVE  \/ status'[t] = status[t] /\ resultKey'[t] = resultKey[t]
             \/ Inserts(t)
             \/ Active(t)
  <2>1. CASE SweepBeforeInsert(u)
    BY <2>1 DEF SweepBeforeInsert, SweepTo, SweptStatus, Stale
  <2>2. CASE InsertTask(u)
    BY <2>2 DEF InsertTask, RowsInserted, IndexAdmits, Inserts, Goto
  <2>3. CASE WaitCancelled(u)
    BY <2>3 DEF WaitCancelled, CancelledStatus
  <2>4. CASE \/ SnapshotConnector(u) \/ InsertBusy(u) \/ Poll(u) \/ FetchResult(u)
             \/ DeletePayload(u) \/ Disconnect(u) \/ HandlerDies(u)
    BY <2>4 DEF SnapshotConnector, InsertBusy, Poll, FetchResult, DeletePayload, Disconnect,
                HandlerDies, taskRow
  <2> QED BY <1>2, <2>1, <2>2, <2>3, <2>4 DEF HandlerStep
<1>3. ASSUME NEW d \in Devices, SessionStep(d)
      PROVE  \/ status'[t] = status[t] /\ resultKey'[t] = resultKey[t]
             \/ Active(t)
  <2>1. CASE ClaimTask(d)
    BY <2>1 DEF ClaimTask, ReclaimedStatus, Stale
  <2>2. CASE ClaimNothing(d)
    BY <2>2 DEF ClaimNothing, SweepTo, ReclaimedStatus, Stale
  <2>3. CASE PayloadUnavailable(d)
    BY <2>3 DEF PayloadUnavailable, CloseRow, LeaseActive
  <2>4. CASE LoadPayload(d) \/ SendTask(d) \/ DropDeliveredPayload(d)
    BY <2>4 DEF LoadPayload, SendTask, DropDeliveredPayload, taskRow
  <2> QED BY <1>3, <2>1, <2>2, <2>3, <2>4 DEF SessionStep
<1>4. ASSUME NEW d \in Devices, DeviceStep(d)
      PROVE  \/ status'[t] = status[t] /\ resultKey'[t] = resultKey[t]
             \/ Active(t)
  <2>1. CASE CompleteTask(d)
    BY <2>1 DEF CompleteTask, CloseRow, LeaseActive
  <2>2. CASE StartTask(d) \/ MonitorCancels(d) \/ StoreResult(d)
    BY <2>2 DEF StartTask, MonitorCancels, StoreResult, taskRow
  <2> QED BY <1>4, <2>1, <2>2 DEF DeviceStep
<1>5. ASSUME NEW d \in Devices,
             \/ PollTask(d) \/ GiveUpPoll(d) \/ FinishTask(d, TRUE) \/ FinishTask(d, FALSE)
             \/ SessionDies(d) \/ ResponseLost(d) \/ DeviceRestarts(d)
      PROVE  status' = status /\ resultKey' = resultKey
  BY <1>5 DEF PollTask, GiveUpPoll, FinishTask, SessionDies, ResponseLost, DeviceRestarts, taskRow
<1>6. CASE MaintainTasks
  BY <1>6 DEF MaintainTasks, SweepTo, SweptStatus, Stale
<1>7. CASE RevokeConnector
  BY <1>7 DEF RevokeConnector, SweepTo, RevokedStatus
<1>8. CASE Tick
  BY <1>8 DEF Tick, taskRow
<1>9. CASE UNCHANGED vars
  BY <1>9 DEF vars, taskRow
<1> QED BY <1>1, <1>2, <1>3, <1>4, <1>5, <1>6, <1>7, <1>8, <1>9 DEF Next

\* A handler that has not inserted its row yet had not before the step either.
LEMMA HandlerMoves ==
  ASSUME TypeOK, [Next]_vars, NEW t \in Tasks,
         handler'[t] \in {"idle", "put", "swept", "insert"}
  PROVE  handler[t] \in {"idle", "put", "swept", "insert"}
<1> USE DEF TypeOK, HandlerStates
<1>1. ASSUME NEW u \in Tasks, NEW a \in Kinds, PutPayload(u, a)
      PROVE  handler[t] \in {"idle", "put", "swept", "insert"}
  BY <1>1 DEF PutPayload, Goto
<1>2. ASSUME NEW u \in Tasks, HandlerStep(u) \/ Disconnect(u) \/ HandlerDies(u)
      PROVE  handler[t] \in {"idle", "put", "swept", "insert"}
  <2>1. CASE SweepBeforeInsert(u) \/ SnapshotConnector(u) \/ InsertTask(u) \/ InsertBusy(u)
    BY <2>1 DEF SweepBeforeInsert, SnapshotConnector, InsertTask, InsertBusy, Goto
  <2>2. CASE \/ Poll(u) \/ WaitCancelled(u) \/ FetchResult(u) \/ DeletePayload(u)
             \/ Disconnect(u) \/ HandlerDies(u)
    BY <2>2 DEF Poll, WaitCancelled, FetchResult, DeletePayload, Disconnect, HandlerDies, Goto
  <2> QED BY <1>2, <2>1, <2>2 DEF HandlerStep
<1>3. ASSUME NEW d \in Devices,
             SessionStep(d) \/ DeviceStep(d) \/ PollTask(d) \/ GiveUpPoll(d)
      PROVE  handler' = handler
  BY <1>3 DEF SessionStep, DeviceStep, PollTask, GiveUpPoll, ClaimTask, ClaimNothing, LoadPayload,
              PayloadUnavailable, SendTask, DropDeliveredPayload, StartTask, MonitorCancels,
              StoreResult, CompleteTask, handlers
<1>4. ASSUME NEW d \in Devices,
             \/ FinishTask(d, TRUE) \/ FinishTask(d, FALSE)
             \/ SessionDies(d) \/ ResponseLost(d) \/ DeviceRestarts(d)
      PROVE  handler' = handler
  BY <1>4 DEF FinishTask, SessionDies, ResponseLost, DeviceRestarts, handlers
<1>5. CASE MaintainTasks \/ RevokeConnector \/ Tick \/ UNCHANGED vars
  BY <1>5 DEF MaintainTasks, RevokeConnector, Tick, vars, handlers
<1> QED BY <1>1, <1>2, <1>3, <1>4, <1>5 DEF Next

\* The invariant behind the theorems on rows.
RowInv == TypeOK /\ RowsInserted /\ AtMostOneActive

\* Every step of handlers, connectors, maintenance and revocation keeps the
\* facts about the rows: one case per action.
LEMMA RowInduction == RowInv /\ [Next]_vars => RowInv'
<1> SUFFICES ASSUME RowInv, [Next]_vars
             PROVE  RowInv'
  OBVIOUS
<1> USE DEF RowInv
<1>1. TypeOK'
  BY TypeInduction
<1>2. RowsInserted'
  <2> SUFFICES ASSUME NEW t \in Tasks, handler'[t] \in {"idle", "put", "swept", "insert"}
               PROVE  status'[t] = "absent"
    BY DEF RowsInserted
  <2>1. status[t] = "absent"
    BY HandlerMoves DEF RowsInserted
  <2> QED BY <2>1, RowSteps DEF Inserts, Active
<1>3. AtMostOneActive'
  <2> SUFFICES ASSUME NEW t \in Tasks, NEW u \in Tasks, Active(t)', Active(u)'
               PROVE  t = u
    BY DEF AtMostOneActive
  <2>1. Active(t) \/ Inserts(t)
    BY RowSteps DEF Active
  <2>2. Active(u) \/ Inserts(u)
    BY RowSteps DEF Active
  <2> QED BY <2>1, <2>2 DEF AtMostOneActive, Inserts, Active
<1> QED BY <1>1, <1>2, <1>3

\* The facts about the rows hold in every reachable state.
LEMMA RowInvariant == Spec => []RowInv
<1>1. Init => RowInv
  <2>1. Init => TypeOK
    BY DEF Init, TypeOK, Statuses, Actions, HandlerStates, Answers,
           SessionRecords, DeviceRecords, NoSession, IdleDevice
  <2> QED BY <2>1 DEF Init, RowInv, RowsInserted, AtMostOneActive, Active
<1> QED BY <1>1, RowInduction, PTL DEF Spec

\* CreateAIClientTask, ClaimAIClientTask and the sweeps together never leave two
\* rows of a connector queued or claimed, for any number of concurrent handlers.
THEOREM OneActiveTask == Spec => []AtMostOneActive
<1>1. RowInv => AtMostOneActive
  BY DEF RowInv
<1> QED BY <1>1, RowInvariant, PTL

\* Whichever of CompleteAIClientTask, CancelAIClientTask, the sweeps and the
\* revocation closes a row first decides its outcome for good.
THEOREM FinalOutcomes == Spec => OutcomeIsFinal
<1>1. ASSUME RowInv, [Next]_vars
      PROVE  [\A t \in Tasks : status[t] \in Terminal =>
                status'[t] = status[t] /\ resultKey'[t] = resultKey[t]]_vars
  <2> SUFFICES ASSUME NEW t \in Tasks, status[t] \in Terminal
               PROVE  status'[t] = status[t] /\ resultKey'[t] = resultKey[t]
    OBVIOUS
  <2> QED BY <1>1, RowSteps DEF RowInv, Terminal, Active, Inserts
<1> QED BY <1>1, RowInvariant, PTL DEF Spec, OutcomeIsFinal
-----------------------------------------------------------------------------
(***************************************************************************)
(* Delivery.  A lease that covers its task never runs out before the task, *)
(* so a claimed row is never given back; each row is claimed by one        *)
(* session, which hands its prompt over at most once.                      *)
(***************************************************************************)

LeasesCover ==
  \A t \in Tasks : /\ expiresAt[t] <= clock + LeaseDuration
                   /\ status[t] = "claimed" => leaseExpiresAt[t] >= expiresAt[t]

\* The session d has claimed a task and not yet handed it over.
Pending(d) == session[d].pc \in {"claimed", "loaded"}

\* Rows that no session has claimed are undelivered.
Unclaimed ==
  \A t \in Tasks : status[t] \in {"absent", "queued"} =>
    /\ delivered[t] = 0
    /\ \A d \in Devices : Pending(d) => session[d].task # t

\* A pending session is the only one for its task, which is undelivered.
PendingAlone ==
  \A d \in Devices : Pending(d) =>
    /\ delivered[session[d].task] = 0
    /\ \A e \in Devices : Pending(e) /\ session[e].task = session[d].task => e = d

DeliveryInv == RowInv /\ LeasesCover /\ Unclaimed /\ PendingAlone /\ PromptDeliveredOnce

\* Claims lease at least until the task expires, and nothing shortens a lease.
LEMMA LeaseInduction ==
  ASSUME LeaseCoversTask, RowInv, LeasesCover, [Next]_vars
  PROVE  LeasesCover'
<1> USE Durations DEF RowInv, TypeOK, LeasesCover, Statuses, Actions
<1>1. ASSUME NEW u \in Tasks, NEW a \in Kinds, PutPayload(u, a)
      PROVE  LeasesCover'
  <2>1. status[u] = "absent" /\ Lifetime(a) <= LeaseDuration /\ Lifetime(a) \in Nat
    BY <1>1 DEF PutPayload, RowsInserted, LeaseCoversTask
  <2> QED BY <1>1, <2>1 DEF PutPayload
<1>2. ASSUME NEW u \in Tasks, HandlerStep(u) \/ Disconnect(u) \/ HandlerDies(u)
      PROVE  LeasesCover'
  <2>1. CASE SweepBeforeInsert(u)
    BY <2>1 DEF SweepBeforeInsert, SweepTo, SweptStatus
  <2>2. CASE InsertTask(u)
    BY <2>2 DEF InsertTask
  <2>3. CASE WaitCancelled(u)
    BY <2>3 DEF WaitCancelled, CancelledStatus, Active
  <2>4. CASE \/ SnapshotConnector(u) \/ InsertBusy(u) \/ Poll(u) \/ FetchResult(u)
             \/ DeletePayload(u) \/ Disconnect(u) \/ HandlerDies(u)
    BY <2>4 DEF SnapshotConnector, InsertBusy, Poll, FetchResult, DeletePayload, Disconnect,
                HandlerDies, taskRow
  <2> QED BY <1>2, <2>1, <2>2, <2>3, <2>4 DEF HandlerStep
<1>3. ASSUME NEW d \in Devices, SessionStep(d)
      PROVE  LeasesCover'
  <2>1. CASE ClaimTask(d)
    BY <2>1 DEF ClaimTask, ReclaimedStatus
  <2>2. CASE ClaimNothing(d)
    BY <2>2 DEF ClaimNothing, SweepTo, ReclaimedStatus
  <2>3. CASE PayloadUnavailable(d)
    BY <2>3 DEF PayloadUnavailable, CloseRow
  <2>4. CASE LoadPayload(d) \/ SendTask(d) \/ DropDeliveredPayload(d)
    BY <2>4 DEF LoadPayload, SendTask, DropDeliveredPayload, taskRow
  <2> QED BY <1>3, <2>1, <2>2, <2>3, <2>4 DEF SessionStep
<1>4. ASSUME NEW d \in Devices, DeviceStep(d)
      PROVE  LeasesCover'
  <2>1. CASE CompleteTask(d)
    BY <2>1 DEF CompleteTask, CloseRow
  <2>2. CASE StartTask(d) \/ MonitorCancels(d) \/ StoreResult(d)
    BY <2>2 DEF StartTask, MonitorCancels, StoreResult, taskRow
  <2> QED BY <1>4, <2>1, <2>2 DEF DeviceStep
<1>5. ASSUME NEW d \in Devices,
             \/ PollTask(d) \/ GiveUpPoll(d) \/ FinishTask(d, TRUE) \/ FinishTask(d, FALSE)
             \/ SessionDies(d) \/ ResponseLost(d) \/ DeviceRestarts(d)
      PROVE  LeasesCover'
  BY <1>5 DEF PollTask, GiveUpPoll, FinishTask, SessionDies, ResponseLost, DeviceRestarts, taskRow
<1>6. CASE MaintainTasks
  BY <1>6 DEF MaintainTasks, SweepTo, SweptStatus
<1>7. CASE RevokeConnector
  BY <1>7 DEF RevokeConnector, SweepTo, RevokedStatus
<1>8. CASE Tick
  BY <1>8 DEF Tick, taskRow
<1>9. CASE UNCHANGED vars
  BY <1>9 DEF vars, taskRow
<1> QED BY <1>1, <1>2, <1>3, <1>4, <1>5, <1>6, <1>7, <1>8, <1>9 DEF Next

\* A row whose lease covers it is not given back: what is unclaimed after a step
\* was unclaimed before.
LEMMA NoGiveBack ==
  ASSUME RowInv, LeasesCover, [Next]_vars, NEW t \in Tasks, status'[t] \in {"absent", "queued"}
  PROVE  status[t] \in {"absent", "queued"}
<1> USE DEF RowInv, TypeOK
<1>1. ReclaimedStatus[t] \in {"absent", "queued"} => status[t] \in {"absent", "queued"}
  BY DEF ReclaimedStatus, Stale, Active, LeasesCover
<1>2. ASSUME NEW u \in Tasks, HandlerStep(u) \/ Disconnect(u) \/ HandlerDies(u)
      PROVE  status[t] \in {"absent", "queued"}
  <2>1. CASE SweepBeforeInsert(u)
    BY <2>1 DEF SweepBeforeInsert, SweepTo, SweptStatus
  <2>2. CASE InsertTask(u)
    BY <2>2 DEF InsertTask, RowsInserted
  <2>3. CASE WaitCancelled(u)
    BY <2>3 DEF WaitCancelled, CancelledStatus
  <2>4. CASE \/ SnapshotConnector(u) \/ InsertBusy(u) \/ Poll(u) \/ FetchResult(u)
             \/ DeletePayload(u) \/ Disconnect(u) \/ HandlerDies(u)
    BY <2>4 DEF SnapshotConnector, InsertBusy, Poll, FetchResult, DeletePayload, Disconnect,
                HandlerDies, taskRow
  <2> QED BY <1>2, <2>1, <2>2, <2>3, <2>4 DEF HandlerStep
<1>3. ASSUME NEW d \in Devices, SessionStep(d)
      PROVE  status[t] \in {"absent", "queued"}
  <2>1. CASE ClaimTask(d)
    BY <1>1, <2>1 DEF ClaimTask, ReclaimedStatus
  <2>2. CASE ClaimNothing(d)
    BY <1>1, <2>2 DEF ClaimNothing, SweepTo
  <2>3. CASE PayloadUnavailable(d)
    BY <2>3 DEF PayloadUnavailable, CloseRow
  <2>4. CASE LoadPayload(d) \/ SendTask(d) \/ DropDeliveredPayload(d)
    BY <2>4 DEF LoadPayload, SendTask, DropDeliveredPayload, taskRow
  <2> QED BY <1>3, <2>1, <2>2, <2>3, <2>4 DEF SessionStep
<1>4. ASSUME NEW d \in Devices, DeviceStep(d)
      PROVE  status[t] \in {"absent", "queued"}
  <2>1. CASE CompleteTask(d)
    BY <2>1 DEF CompleteTask, CloseRow
  <2>2. CASE StartTask(d) \/ MonitorCancels(d) \/ StoreResult(d)
    BY <2>2 DEF StartTask, MonitorCancels, StoreResult, taskRow
  <2> QED BY <1>4, <2>1, <2>2 DEF DeviceStep
<1>5. ASSUME NEW d \in Devices,
             \/ PollTask(d) \/ GiveUpPoll(d) \/ FinishTask(d, TRUE) \/ FinishTask(d, FALSE)
             \/ SessionDies(d) \/ ResponseLost(d) \/ DeviceRestarts(d)
      PROVE  status' = status
  BY <1>5 DEF PollTask, GiveUpPoll, FinishTask, SessionDies, ResponseLost, DeviceRestarts, taskRow
<1>6. CASE MaintainTasks
  BY <1>6 DEF MaintainTasks, SweepTo, SweptStatus
<1>7. CASE RevokeConnector
  BY <1>7 DEF RevokeConnector, SweepTo, RevokedStatus
<1>8. CASE Tick \/ UNCHANGED vars
  BY <1>8 DEF Tick, vars, taskRow
<1>9. ASSUME NEW u \in Tasks, NEW a \in Kinds, PutPayload(u, a)
      PROVE  status' = status
  BY <1>9 DEF PutPayload
<1> QED BY <1>2, <1>3, <1>4, <1>5, <1>6, <1>7, <1>8, <1>9 DEF Next

\* Sessions that hold a task after the step held it before, and nothing is handed
\* over: true of every step but a claim and a delivery.
NothingHandedOver ==
  /\ delivered' = delivered
  /\ \A d \in Devices : Pending(d)' => Pending(d) /\ session'[d].task = session[d].task

\* Every step is a claim, a delivery, or hands nothing over.
LEMMA DeliverySteps ==
  ASSUME TypeOK, [Next]_vars
  PROVE  \/ \E d \in Devices : ClaimTask(d) \/ SendTask(d)
         \/ NothingHandedOver
<1> USE DEF TypeOK, NothingHandedOver, Pending
<1>1. ASSUME NEW u \in Tasks, NEW a \in Kinds, PutPayload(u, a)
      PROVE  NothingHandedOver
  BY <1>1 DEF PutPayload
<1>2. ASSUME NEW u \in Tasks, HandlerStep(u) \/ Disconnect(u) \/ HandlerDies(u)
      PROVE  NothingHandedOver
  BY <1>2 DEF HandlerStep, SweepBeforeInsert, SnapshotConnector, InsertTask, InsertBusy, Poll,
              WaitCancelled, FetchResult, DeletePayload, Disconnect, HandlerDies
<1>3. ASSUME NEW d \in Devices, SessionStep(d), ~ ClaimTask(d), ~ SendTask(d)
      PROVE  NothingHandedOver
  <2>1. CASE ClaimNothing(d)
    BY <2>1 DEF ClaimNothing, EndSession, NoSession
  <2>2. CASE LoadPayload(d)
    BY <2>2 DEF LoadPayload, SessionAt
  <2>3. CASE PayloadUnavailable(d)
    BY <2>3 DEF PayloadUnavailable, EndSession, NoSession
  <2>4. CASE DropDeliveredPayload(d)
    BY <2>4 DEF DropDeliveredPayload, EndSession, NoSession
  <2> QED BY <1>3, <2>1, <2>2, <2>3, <2>4 DEF SessionStep
<1>4. ASSUME NEW d \in Devices, DeviceStep(d)
      PROVE  NothingHandedOver
  BY <1>4 DEF DeviceStep, StartTask, MonitorCancels, StoreResult, CompleteTask
<1>5. ASSUME NEW d \in Devices,
             GiveUpPoll(d) \/ FinishTask(d, TRUE) \/ FinishTask(d, FALSE) \/ DeviceRestarts(d)
      PROVE  NothingHandedOver
  BY <1>5 DEF GiveUpPoll, FinishTask, DeviceRestarts
<1>6. ASSUME NEW d \in Devices, PollTask(d) \/ SessionDies(d) \/ ResponseLost(d)
      PROVE  NothingHandedOver
  <2>1. CASE PollTask(d)
    BY <2>1 DEF PollTask, SessionAt
  <2>2. CASE SessionDies(d)
    BY <2>2 DEF SessionDies, EndSession, NoSession
  <2>3. CASE ResponseLost(d)
    BY <2>3 DEF ResponseLost, SessionAt
  <2> QED BY <1>6, <2>1, <2>2, <2>3
<1>7. CASE MaintainTasks \/ RevokeConnector \/ Tick \/ UNCHANGED vars
  BY <1>7 DEF MaintainTasks, RevokeConnector, Tick, vars
<1> QED BY <1>1, <1>2, <1>3, <1>4, <1>5, <1>6, <1>7 DEF Next

\* Every step keeps the facts about leases and prompts, given those about the
\* rows: a prompt that was handed out is gone before its row can be claimed again.
LEMMA DeliveryInduction ==
  ASSUME LeaseCoversTask, DeliveryInv, [Next]_vars
  PROVE  DeliveryInv'
<1> USE DEF DeliveryInv
<1>1. RowInv' /\ LeasesCover' /\ TypeOK /\ TypeOK'
  BY RowInduction, LeaseInduction DEF RowInv
<1>2. CASE NothingHandedOver
  <2>1. Unclaimed'
    BY <1>2, NoGiveBack DEF NothingHandedOver, Unclaimed
  <2>2. PendingAlone'
    BY <1>2 DEF NothingHandedOver, PendingAlone
  <2>3. PromptDeliveredOnce'
    BY <1>2 DEF NothingHandedOver, PromptDeliveredOnce
  <2> QED BY <1>1, <2>1, <2>2, <2>3
<1>3. ASSUME NEW d \in Devices, ClaimTask(d)
      PROVE  DeliveryInv'
  <2>1. PICK t \in Tasks :
          /\ ReclaimedStatus[t] = "queued"
          /\ status' = [ReclaimedStatus EXCEPT ![t] = "claimed"]
          /\ session' = [session EXCEPT
                           ![d] = [pc |-> "claimed", task |-> t, lease |-> tokens + 1]]
    BY <1>3 DEF ClaimTask
  <2>2. delivered' = delivered
    BY <1>3 DEF ClaimTask
  <2>3. status[t] = "queued"
    BY <1>1, <2>1 DEF ReclaimedStatus, Stale, Active, LeasesCover, TypeOK
  <2>4. delivered[t] = 0 /\ \A e \in Devices : Pending(e) => session[e].task # t
    BY <2>3 DEF Unclaimed
  <2>5. /\ session'[d].task = t
        /\ \A e \in Devices \ {d} : session'[e] = session[e]
    BY <1>1, <2>1 DEF TypeOK
  <2>6. status'[t] = "claimed"
    BY <1>1, <2>1 DEF TypeOK, ReclaimedStatus
  <2>7. Unclaimed'
    BY <2>2, <2>5, <2>6, NoGiveBack DEF Unclaimed, Pending
  <2>8. PendingAlone'
    BY <2>2, <2>4, <2>5 DEF PendingAlone, Pending
  <2>9. PromptDeliveredOnce'
    BY <2>2 DEF PromptDeliveredOnce
  <2> QED BY <1>1, <2>7, <2>8, <2>9
<1>4. ASSUME NEW d \in Devices, SendTask(d)
      PROVE  DeliveryInv'
  <2> DEFINE t == session[d].task
  <2>1. Pending(d) /\ t \in Tasks
    BY <1>1, <1>4, Holders DEF SendTask, Pending, TypeOK, SessionBusy
  <2>2. delivered[t] = 0 /\ \A e \in Devices : Pending(e) /\ session[e].task = t => e = d
    BY <2>1 DEF PendingAlone
  <2>3. status' = status /\ \A u \in Tasks \ {t} : delivered'[u] = delivered[u]
    BY <1>1, <1>4, <2>1 DEF SendTask, TypeOK, taskRow
  <2>4. delivered'[t] \in {0, 1}
    BY <1>1, <1>4, <2>1, <2>2 DEF SendTask, TypeOK
  <2>5. ~ Pending(d)' /\ \A e \in Devices \ {d} : session'[e] = session[e]
    BY <1>1, <1>4 DEF SendTask, SessionAt, Pending, TypeOK, SessionRecords
  <2>6. status[t] \notin {"absent", "queued"}
    BY <2>1 DEF Unclaimed
  <2>7. Unclaimed'
    BY <2>3, <2>5, <2>6 DEF Unclaimed, Pending
  <2>8. PendingAlone'
    <3> SUFFICES ASSUME NEW e \in Devices, Pending(e)'
                 PROVE  /\ delivered'[session'[e].task] = 0
                        /\ \A f \in Devices : Pending(f)' /\ session'[f].task = session'[e].task
                                              => f = e
      BY DEF PendingAlone
    <3>1. e # d /\ Pending(e) /\ session'[e] = session[e] /\ session[e].task # t
      BY <2>2, <2>5 DEF Pending
    <3>2. session[e].task \in Tasks
      BY <1>1, <3>1, Holders DEF TypeOK, Pending, SessionBusy
    <3> QED BY <2>3, <2>5, <3>1, <3>2 DEF PendingAlone, Pending
  <2>9. PromptDeliveredOnce'
    BY <2>3, <2>4 DEF PromptDeliveredOnce
  <2> QED BY <1>1, <2>7, <2>8, <2>9
<1> QED BY <1>1, <1>2, <1>3, <1>4, DeliverySteps

\* At first no row exists, and nobody holds anything.
LEMMA DeliveryInitial == Init => DeliveryInv
<1> SUFFICES ASSUME Init
             PROVE  DeliveryInv
  OBVIOUS
<1>1. TypeOK
  BY DEF Init, TypeOK, Statuses, Actions, HandlerStates, Answers,
         SessionRecords, DeviceRecords, NoSession, IdleDevice
<1>2. RowInv
  BY <1>1 DEF Init, RowInv, RowsInserted, AtMostOneActive, Active
<1>3. LeasesCover
  <2>1. LeaseDuration \in Nat
    BY Durations
  <2> SUFFICES ASSUME NEW t \in Tasks
               PROVE  /\ expiresAt[t] <= clock + LeaseDuration
                      /\ status[t] # "claimed"
    BY DEF LeasesCover
  <2>2. expiresAt[t] = 0 /\ clock = 0 /\ status[t] = "absent"
    BY DEF Init
  <2> QED BY <2>1, <2>2
<1>4. Unclaimed /\ PendingAlone /\ PromptDeliveredOnce
  BY DEF Init, Unclaimed, PendingAlone, PromptDeliveredOnce, Pending, NoSession
<1> QED BY <1>2, <1>3, <1>4 DEF DeliveryInv

\* "A lost delivery fails closed and is never retried", for any number of tasks,
\* connector processes, crashes and lost messages, as long as the lease that
\* ClaimAIClientTask grants is as long as the task.
THEOREM DeliveredOnce ==
  ASSUME LeaseCoversTask
  PROVE  Spec => []PromptDeliveredOnce
<1>1. Init => DeliveryInv
  BY DeliveryInitial
<1>2. DeliveryInv /\ [Next]_vars => DeliveryInv'
  BY DeliveryInduction
<1>3. DeliveryInv => PromptDeliveredOnce
  BY DEF DeliveryInv
<1> QED BY <1>1, <1>2, <1>3, PTL DEF Spec
-----------------------------------------------------------------------------
(***************************************************************************)
(* Results and answers.  A lease is held by one session or process at a    *)
(* time, and a result is stored only by the process that holds its lease.  *)
(***************************************************************************)

Holding(d) == device[d].pc \in DeviceBusy

\* No lease is taken, handed over or answered in the step: true of every step but a
\* claim, a delivery, and the two halves of a complete request.  A process that dies
\* with its result stored counts as a fault.
HoldersStay ==
  /\ results' \subseteq results
  /\ faults \in Nat /\ faults' \in Nat /\ (faults' = 0 => faults = 0)
  /\ \A d \in Devices :
       /\ Pending(d)' => Pending(d) /\ session'[d].lease = session[d].lease
       /\ Holding(d)' => /\ Holding(d)
                         /\ device'[d].task = device[d].task /\ device'[d].lease = device[d].lease
                         /\ device[d].pc = "stored" => device'[d] = device[d]
       /\ device[d].pc = "stored" => device'[d] = device[d] \/ faults' > 0

\* A process that leaves a record alone, or puts the idle one in its place, keeps it.
LEMMA DevicesStay ==
  ASSUME TypeOK, NEW d \in Devices, device[d].pc # "stored",
         device' = device \/ device' = [device EXCEPT ![d] = IdleDevice]
  PROVE  \A e \in Devices :
           /\ Holding(e)' => /\ Holding(e)
                             /\ device'[e].task = device[e].task /\ device'[e].lease = device[e].lease
                             /\ device[e].pc = "stored" => device'[e] = device[e]
           /\ device[e].pc = "stored" => device'[e] = device[e]
<1>1. device \in [Devices -> DeviceRecords]
  BY DEF TypeOK
<1>2. CASE device' = device
  BY <1>2 DEF Holding
<1>3. CASE device' = [device EXCEPT ![d] = IdleDevice]
  <2>1. device'[d] = IdleDevice /\ \A e \in Devices : e # d => device'[e] = device[e]
    BY <1>1, <1>3
  <2>2. IdleDevice.pc \notin DeviceBusy
    BY DEF IdleDevice, DeviceBusy
  <2> QED  BY <2>1, <2>2 DEF Holding
<1> QED  BY <1>2, <1>3

LEMMA SessionsStay ==
  ASSUME TypeOK, NEW d \in Devices,
         \/ session' = session
         \/ session' = [session EXCEPT ![d] = NoSession]
         \/ session[d].pc \in {"idle", "claimed", "loaded"} /\ \E pc \in {"authed", "loaded", "sent"} :
              /\ session' = [session EXCEPT ![d].pc = pc]
              /\ pc = "loaded" => Pending(d)
  PROVE  \A e \in Devices : Pending(e)' => Pending(e) /\ session'[e].lease = session[e].lease
<1>1. session \in [Devices -> SessionRecords]
  BY DEF TypeOK
<1>2. CASE session' = session
  BY <1>2 DEF Pending
<1>3. CASE session' = [session EXCEPT ![d] = NoSession]
  <2>1. session'[d] = NoSession /\ \A e \in Devices : e # d => session'[e] = session[e]
    BY <1>1, <1>3
  <2> QED  BY <2>1 DEF Pending, NoSession
<1>4. ASSUME NEW pc \in {"authed", "loaded", "sent"}, session' = [session EXCEPT ![d].pc = pc],
             pc = "loaded" => Pending(d)
      PROVE  \A e \in Devices : Pending(e)' => Pending(e) /\ session'[e].lease = session[e].lease
  <2>1. session[d] \in SessionRecords
    BY <1>1
  <2> DEFINE row == [session[d] EXCEPT !.pc = pc]
  <2>2. row.pc = pc /\ row.lease = session[d].lease
    BY <2>1 DEF SessionRecords
  <2>3. session' = [session EXCEPT ![d] = row]
    BY <1>4
  <2> HIDE DEF row
  <2>4. session'[d] = row /\ \A e \in Devices : e # d => session'[e] = session[e]
    BY <1>1, <2>3
  <2> QED  BY <1>4, <2>2, <2>4 DEF Pending
<1> QED  BY <1>2, <1>3, <1>4

LEMMA HolderSteps ==
  ASSUME TypeOK, [Next]_vars
  PROVE  \/ \E d \in Devices : ClaimTask(d) \/ SendTask(d) \/ StoreResult(d) \/ CompleteTask(d)
         \/ HoldersStay
<1>1. faults \in Nat /\ TypeOK'
  BY TypeInduction DEF TypeOK
<1>2. faults' \in Nat
  BY <1>1 DEF TypeOK
<1> USE DEF HoldersStay
<1>3. ASSUME NEW u \in Tasks, NEW a \in Kinds, PutPayload(u, a)
      PROVE  HoldersStay
  BY <1>1, <1>3 DEF PutPayload, Pending, Holding
<1>4. ASSUME NEW u \in Tasks, HandlerStep(u) \/ Disconnect(u) \/ HandlerDies(u)
      PROVE  HoldersStay
  <2>1. UNCHANGED <<session, device>> /\ results' \subseteq results
    BY <1>4 DEF HandlerStep, SweepBeforeInsert, SnapshotConnector, InsertTask, InsertBusy, Poll,
                WaitCancelled, FetchResult, DeletePayload, Disconnect, HandlerDies, redis
  <2>2. faults' = faults \/ faults' = faults + 1
    BY <1>4 DEF HandlerStep, SweepBeforeInsert, SnapshotConnector, InsertTask, InsertBusy, Poll,
                WaitCancelled, FetchResult, DeletePayload, Disconnect, HandlerDies, Fault
  <2> QED  BY <1>1, <1>2, <2>1, <2>2 DEF Pending, Holding
<1>5. ASSUME NEW d \in Devices, SessionStep(d), ~ ClaimTask(d), ~ SendTask(d)
      PROVE  HoldersStay
  <2>1. results' = results /\ (faults' = faults \/ faults' = faults + 1)
    BY <1>5 DEF SessionStep, ClaimNothing, LoadPayload, PayloadUnavailable, DropDeliveredPayload,
                redis, Fault
  <2>2. \A e \in Devices : Pending(e)' => Pending(e) /\ session'[e].lease = session[e].lease
    <3>1. CASE LoadPayload(d)
      BY <3>1, SessionsStay DEF LoadPayload, SessionAt, Pending
    <3>2. CASE ClaimNothing(d) \/ PayloadUnavailable(d) \/ DropDeliveredPayload(d)
      BY <3>2, SessionsStay DEF ClaimNothing, PayloadUnavailable, DropDeliveredPayload, EndSession
    <3> QED  BY <1>5, <3>1, <3>2 DEF SessionStep
  <2>3. device' = device \/ (device[d].pc # "stored" /\ device' = [device EXCEPT ![d] = IdleDevice])
    <3>1. CASE LoadPayload(d) \/ DropDeliveredPayload(d)
      BY <3>1 DEF LoadPayload, DropDeliveredPayload
    <3>2. CASE ClaimNothing(d) \/ PayloadUnavailable(d)
      <4>1. device' = [device EXCEPT ![d] = IF device[d].pc = "polling" THEN IdleDevice ELSE device[d]]
        BY <3>2 DEF ClaimNothing, PayloadUnavailable
      <4> QED  BY <4>1 DEF TypeOK
    <3> QED  BY <1>5, <3>1, <3>2 DEF SessionStep
  <2>4. CASE device' = device
    BY <1>1, <1>2, <2>1, <2>2, <2>4 DEF Holding
  <2>5. CASE device' # device
    BY <1>1, <1>2, <2>1, <2>2, <2>3, <2>5, DevicesStay
  <2> QED  BY <2>4, <2>5
<1>6. ASSUME NEW d \in Devices,
             \/ StartTask(d) \/ MonitorCancels(d) \/ PollTask(d)
             \/ FinishTask(d, TRUE) \/ FinishTask(d, FALSE)
      PROVE  HoldersStay
  <2>1. UNCHANGED <<results, faults>>
    BY <1>6 DEF StartTask, MonitorCancels, PollTask, FinishTask, redis
  <2>2. \A e \in Devices : Pending(e)' => Pending(e) /\ session'[e].lease = session[e].lease
    <3>1. CASE PollTask(d)
      BY <3>1, SessionsStay DEF PollTask, SessionAt
    <3>2. CASE \/ StartTask(d) \/ MonitorCancels(d) \/ FinishTask(d, TRUE) \/ FinishTask(d, FALSE)
      BY <3>2, SessionsStay DEF StartTask, MonitorCancels, FinishTask
    <3> QED  BY <1>6, <3>1, <3>2
  <2>3. PICK pc \in {"polling", "running", "completing"}, ok \in BOOLEAN :
          /\ device[d].pc # "stored" /\ (pc # "polling" => Holding(d))
          /\ device' = [device EXCEPT ![d] = [device[d] EXCEPT !.pc = pc, !.ok = ok]]
    <3>1. device[d] \in DeviceRecords /\ device \in [Devices -> DeviceRecords]
      BY DEF TypeOK
    <3>2. device[d].ok \in BOOLEAN /\ \A pc : [device[d] EXCEPT !.pc = pc, !.ok = device[d].ok] = [device[d] EXCEPT !.pc = pc]
      BY <3>1 DEF DeviceRecords
    <3>3. CASE PollTask(d)
      BY <3>2, <3>3 DEF PollTask, DeviceAt
    <3>4. CASE StartTask(d)
      BY <3>2, <3>4 DEF StartTask, DeviceAt, Holding, DeviceBusy
    <3>5. CASE MonitorCancels(d) \/ FinishTask(d, TRUE) \/ FinishTask(d, FALSE)
      BY <3>1, <3>5 DEF MonitorCancels, FinishTask, Holding, DeviceBusy
    <3> QED  BY <1>6, <3>3, <3>4, <3>5
  <2> DEFINE row == [device[d] EXCEPT !.pc = pc, !.ok = ok]
  <2>4. row.pc = pc /\ row.task = device[d].task /\ row.lease = device[d].lease
    BY DEF TypeOK, DeviceRecords
  <2>5. device'[d] = row /\ \A e \in Devices : e # d => device'[e] = device[e]
    BY <2>3 DEF TypeOK
  <2> HIDE DEF row
  <2> QED  BY <1>1, <2>1, <2>2, <2>3, <2>4, <2>5 DEF Holding, DeviceBusy
<1>7. ASSUME NEW d \in Devices, SessionDies(d) \/ ResponseLost(d) \/ GiveUpPoll(d)
      PROVE  HoldersStay
  <2>1. results' = results /\ (faults' = faults \/ faults' = faults + 1)
    BY <1>7 DEF SessionDies, ResponseLost, GiveUpPoll, Fault, redis
  <2>2. \A e \in Devices : Pending(e)' => Pending(e) /\ session'[e].lease = session[e].lease
    BY <1>7, SessionsStay DEF SessionDies, ResponseLost, GiveUpPoll, SessionAt, EndSession
  <2>3. CASE GiveUpPoll(d)
    BY <1>1, <1>2, <2>1, <2>2, <2>3, DevicesStay DEF GiveUpPoll, DeviceIdle
  <2>4. CASE SessionDies(d) \/ ResponseLost(d)
    BY <1>1, <1>2, <2>1, <2>2, <2>4 DEF SessionDies, ResponseLost, Holding
  <2> QED  BY <1>7, <2>3, <2>4
<1>8. ASSUME NEW d \in Devices, DeviceRestarts(d)
      PROVE  HoldersStay
  <2>1. results' = results /\ session' = session /\ faults' = faults + 1
    BY <1>8 DEF DeviceRestarts, Fault, redis
  <2>2. device'[d] = IdleDevice /\ \A e \in Devices : e # d => device'[e] = device[e]
    BY <1>8 DEF DeviceRestarts, DeviceIdle, TypeOK
  <2>3. IdleDevice.pc \notin DeviceBusy
    BY DEF IdleDevice, DeviceBusy
  <2> QED  BY <1>1, <1>2, <2>1, <2>2, <2>3 DEF Pending, Holding
<1>9. CASE MaintainTasks \/ RevokeConnector \/ Tick \/ UNCHANGED vars
  <2>1. UNCHANGED <<session, device, faults>> /\ results' \subseteq results
    BY <1>9 DEF MaintainTasks, RevokeConnector, Tick, vars, redis
  <2> QED  BY <1>1, <2>1 DEF Pending, Holding
<1> QED  BY <1>3, <1>4, <1>5, <1>6, <1>7, <1>8, <1>9 DEF Next, DeviceStep

\* Every claim draws a token of its own, so a lease has one holder.
OneHolder ==
  \A d, e \in Devices :
    /\ Pending(d) /\ Pending(e) /\ session[d].lease = session[e].lease => d = e
    /\ Pending(d) /\ Holding(e) => session[d].lease # device[e].lease
    /\ Holding(d) /\ Holding(e) /\ device[d].lease = device[e].lease => d = e

\* While somebody holds the lease of a result, it is the process that has just stored it.
ResultsHeld ==
  \A r \in results, d \in Devices :
    /\ Pending(d) => session[d].lease # r.lease
    /\ Holding(d) /\ device[d].lease = r.lease =>
         device[d].pc = "stored" /\ device[d].ok /\ device[d].task = r.task

ResultInv == RowInv /\ OneHolder /\ ResultsHeld /\ RefusedResultsDeleted

\* A completed row keeps its result, whoever steps.
LEMMA CompletedStays ==
  ASSUME RowInv, [Next]_vars, NEW t \in Tasks, status[t] = "completed"
  PROVE  status'[t] = "completed" /\ resultKey'[t] = resultKey[t]
  BY RowSteps DEF RowInv, Active, Inserts

LEMMA ClaimKeepsResults ==
  ASSUME ResultInv, NEW d \in Devices, ClaimTask(d)
  PROVE  OneHolder' /\ ResultsHeld' /\ RefusedResultsDeleted'
<1>1. TypeOK /\ [Next]_vars
  BY DEF ResultInv, RowInv, Next, SessionStep
<1>2. PICK t \in Tasks : session' = [session EXCEPT ![d] = [pc |-> "claimed", task |-> t, lease |-> tokens + 1]]
  BY DEF ClaimTask
<1>3. UNCHANGED <<device, results, faults>>
  BY DEF ClaimTask, redis
<1>4. /\ session'[d].lease = tokens + 1
      /\ \A e \in Devices : e # d => session'[e] = session[e]
  BY <1>1, <1>2 DEF TypeOK
<1>5. /\ tokens \in Nat
      /\ \A e \in Devices : /\ Pending(e) => session[e].lease \in 0..tokens
                            /\ Holding(e) => device[e].lease \in 0..tokens
      /\ \A r \in results : r.lease \in 0..tokens /\ r.task \in Tasks
  BY <1>1, Holders DEF TypeOK, Pending, Holding, SessionBusy
<1>6. OneHolder'
  BY <1>3, <1>4, <1>5 DEF ResultInv, OneHolder, Pending, Holding
<1>7. ResultsHeld'
  BY <1>3, <1>4, <1>5 DEF ResultInv, ResultsHeld, Pending, Holding
<1>8. RefusedResultsDeleted'
  BY <1>1, <1>3, <1>5, CompletedStays DEF ResultInv, RefusedResultsDeleted
<1> QED  BY <1>6, <1>7, <1>8

LEMMA DeliveryKeepsResults ==
  ASSUME ResultInv, NEW d \in Devices, SendTask(d)
  PROVE  OneHolder' /\ ResultsHeld' /\ RefusedResultsDeleted'
<1>1. TypeOK /\ Pending(d)
  BY DEF ResultInv, RowInv, SendTask, Pending
<1>2. PICK t \in Tasks, l \in 0..tokens : t = session[d].task /\ l = session[d].lease
  BY <1>1, Holders DEF TypeOK, Pending, SessionBusy
<1>3. UNCHANGED <<status, resultKey, results, faults>>
  BY DEF SendTask, redis, taskRow
<1>4. ~ Pending(d)' /\ \A e \in Devices : e # d => session'[e] = session[e]
  BY <1>1 DEF SendTask, SessionAt, Pending, TypeOK, SessionRecords
<1> DEFINE received == [pc |-> "received", task |-> t, lease |-> l, ok |-> FALSE]
<1>5. /\ \A e \in Devices : e # d => device'[e] = device[e]
      /\ device'[d] = device[d] \/ (device'[d] = received /\ ~ Holding(d))
  <2>1. CASE device[d].pc = "polling"
    <3>1. device' = [device EXCEPT ![d] = received]
      BY <1>2, <2>1 DEF SendTask
    <3>2. ~ Holding(d)
      BY <2>1 DEF Holding, DeviceBusy
    <3> HIDE DEF received
    <3> QED  BY <1>1, <3>1, <3>2 DEF TypeOK
  <2>2. CASE device[d].pc # "polling"
    BY <2>2 DEF SendTask
  <2> QED  BY <2>1, <2>2
<1>6. received.pc # "stored" /\ received.lease = l
  OBVIOUS
<1> HIDE DEF received
<1>7. OneHolder'
  BY <1>1, <1>2, <1>4, <1>5, <1>6 DEF ResultInv, OneHolder, Pending, Holding
<1>8. ResultsHeld'
  BY <1>1, <1>2, <1>3, <1>4, <1>5, <1>6 DEF ResultInv, ResultsHeld, Pending, Holding
<1>9. \A e \in Devices : device[e].pc = "stored" => device'[e] = device[e]
  BY <1>5 DEF Holding, DeviceBusy
<1>10. RefusedResultsDeleted'
  BY <1>3, <1>9 DEF ResultInv, RefusedResultsDeleted
<1> QED  BY <1>7, <1>8, <1>10

LEMMA StoringKeepsResults ==
  ASSUME ResultInv, NEW d \in Devices, StoreResult(d)
  PROVE  OneHolder' /\ ResultsHeld' /\ RefusedResultsDeleted'
<1>1. TypeOK /\ device[d].pc = "completing" /\ Holding(d)
  BY DEF ResultInv, RowInv, StoreResult, Holding, DeviceBusy
<1>2. UNCHANGED <<status, resultKey, session, faults>>
  BY DEF StoreResult, taskRow
<1>3. device \in [Devices -> DeviceRecords] /\ device[d] \in DeviceRecords
  BY <1>1 DEF TypeOK
<1>4. CASE connector = "active"
  <2> DEFINE row == [device[d] EXCEPT !.pc = "stored"]
             result == [task |-> device[d].task, lease |-> device[d].lease, expiresAt |-> clock + ResultTTL]
  <2>1. /\ row.pc = "stored" /\ row.task = device[d].task /\ row.lease = device[d].lease
        /\ row.ok = device[d].ok
    BY <1>3 DEF DeviceRecords
  <2>2. result.task = device[d].task /\ result.lease = device[d].lease
    OBVIOUS
  <2>3. device' = [device EXCEPT ![d] = row]
    BY <1>4 DEF StoreResult, DeviceAt
  <2>4. results' = results \/ (device[d].ok /\ results' = results \cup {result})
    BY <1>4 DEF StoreResult
  <2> HIDE DEF row, result
  <2>5. device'[d] = row /\ \A e \in Devices : e # d => device'[e] = device[e]
    BY <1>3, <2>3
  <2>6. OneHolder'
    BY <1>1, <1>2, <2>1, <2>5 DEF ResultInv, OneHolder, Pending, Holding
  <2>7. ASSUME NEW r \in results, NEW e \in Devices
        PROVE  /\ Pending(e)' => session'[e].lease # r.lease
               /\ Holding(e)' /\ device'[e].lease = r.lease =>
                    device'[e].pc = "stored" /\ device'[e].ok /\ device'[e].task = r.task
    BY <1>1, <1>2, <2>1, <2>5 DEF ResultInv, ResultsHeld, Pending, Holding
  <2>8. ASSUME device[d].ok, NEW e \in Devices
        PROVE  /\ Pending(e)' => session'[e].lease # result.lease
               /\ Holding(e)' /\ device'[e].lease = result.lease =>
                    device'[e].pc = "stored" /\ device'[e].ok /\ device'[e].task = result.task
    <3>1. Pending(e)' => session'[e].lease # result.lease
      BY <1>1, <1>2, <2>2 DEF ResultInv, OneHolder, Pending
    <3>2. ASSUME Holding(e)', device'[e].lease = result.lease
          PROVE  e = d
      BY <1>1, <2>2, <2>5, <3>2 DEF ResultInv, OneHolder, Holding
    <3> QED  BY <2>1, <2>2, <2>5, <2>8, <3>1, <3>2
  <2>9. ResultsHeld'
    BY <2>4, <2>7, <2>8 DEF ResultsHeld
  <2>10. RefusedResultsDeleted'
    <3>1. ASSUME NEW r \in results, faults = 0
          PROVE  \/ status'[r.task] = "completed" /\ resultKey'[r.task] = r.lease
                 \/ \E e \in Devices : /\ device'[e].pc = "stored"
                                       /\ device'[e].task = r.task /\ device'[e].lease = r.lease
      <4>1. \A e \in Devices : device[e].pc = "stored" => device'[e] = device[e]
        BY <1>1, <2>5
      <4> QED  BY <1>2, <3>1, <4>1 DEF ResultInv, RefusedResultsDeleted
    <3>2. device'[d].pc = "stored" /\ device'[d].task = result.task /\ device'[d].lease = result.lease
      BY <2>1, <2>2, <2>5
    <3> QED  BY <1>2, <2>4, <3>1, <3>2 DEF RefusedResultsDeleted
  <2> QED  BY <2>6, <2>9, <2>10
<1>5. CASE connector # "active"
  <2>1. device' = [device EXCEPT ![d] = IdleDevice] /\ results' = results
    BY <1>5 DEF StoreResult, DeviceIdle
  <2>2. /\ ~ Holding(d)' /\ \A e \in Devices : e # d => device'[e] = device[e]
    BY <1>3, <2>1 DEF Holding, IdleDevice, DeviceBusy
  <2>3. OneHolder'
    BY <1>2, <2>2 DEF ResultInv, OneHolder, Pending, Holding
  <2>4. ResultsHeld'
    BY <1>2, <2>1, <2>2 DEF ResultInv, ResultsHeld, Pending, Holding
  <2>5. RefusedResultsDeleted'
    BY <1>1, <1>2, <2>1, <2>2 DEF ResultInv, RefusedResultsDeleted
  <2> QED  BY <2>3, <2>4, <2>5
<1> QED  BY <1>4, <1>5

\* An accepted result stays under its lease, a refused one is deleted.
LEMMA CompletionKeepsResults ==
  ASSUME ResultInv, NEW d \in Devices, CompleteTask(d)
  PROVE  OneHolder' /\ ResultsHeld' /\ RefusedResultsDeleted'
<1>1. TypeOK /\ [Next]_vars /\ Holding(d) /\ device[d].pc = "stored"
  BY DEF ResultInv, RowInv, CompleteTask, Holding, DeviceBusy, Next, DeviceStep
<1>2. PICK t \in Tasks, l \in 0..tokens, ok \in BOOLEAN :
        t = device[d].task /\ l = device[d].lease /\ ok = device[d].ok
  BY <1>1, Holders DEF TypeOK, Holding
<1>3. UNCHANGED <<session, faults>>
  BY DEF CompleteTask
<1>4. ~ Holding(d)' /\ \A e \in Devices : e # d => device'[e] = device[e]
  <2>1. device' = [device EXCEPT ![d] = IdleDevice]
    BY DEF CompleteTask, DeviceIdle
  <2> QED  BY <1>1, <2>1 DEF Holding, IdleDevice, DeviceBusy, TypeOK
<1>5. results' = IF LeaseActive(t, l) THEN results ELSE {r \in results : ~ (r.task = t /\ r.lease = l)}
  BY <1>2 DEF CompleteTask, ResultsAfter
<1>6. results' \subseteq results
  BY <1>5
<1>7. OneHolder'
  BY <1>3, <1>4 DEF ResultInv, OneHolder, Pending, Holding
<1>8. ResultsHeld'
  BY <1>3, <1>4, <1>6 DEF ResultInv, ResultsHeld, Pending, Holding
<1>9. ASSUME NEW r \in results', faults = 0
      PROVE  \/ status'[r.task] = "completed" /\ resultKey'[r.task] = r.lease
             \/ \E e \in Devices : /\ device'[e].pc = "stored"
                                   /\ device'[e].task = r.task /\ device'[e].lease = r.lease
  <2>1. r \in results /\ r.task \in Tasks
    BY <1>1, <1>6 DEF TypeOK
  <2>2. \/ status[r.task] = "completed" /\ resultKey[r.task] = r.lease
        \/ \E e \in Devices : device[e].pc = "stored" /\ device[e].task = r.task /\ device[e].lease = r.lease
    BY <1>9, <2>1 DEF ResultInv, RefusedResultsDeleted
  <2>3. CASE status[r.task] = "completed" /\ resultKey[r.task] = r.lease
    BY <1>1, <2>1, <2>3, CompletedStays DEF ResultInv
  <2>4. ASSUME NEW e \in Devices, device[e].pc = "stored", device[e].task = r.task, device[e].lease = r.lease,
               e # d
        PROVE  device'[e] = device[e]
    BY <1>4, <2>4
  <2>5. CASE r.task = t /\ r.lease = l
    <3>1. LeaseActive(t, l)
      BY <1>5, <2>5
    <3>2. ok
      BY <1>1, <1>2, <2>1, <2>5 DEF ResultInv, ResultsHeld
    <3>3. status' = [status EXCEPT ![t] = "completed"] /\ resultKey' = [resultKey EXCEPT ![t] = l]
      BY <1>2, <3>1, <3>2 DEF CompleteTask, CloseRow
    <3> QED  BY <1>1, <2>5, <3>3 DEF TypeOK
  <2> QED  BY <1>2, <2>2, <2>3, <2>4, <2>5
<1>10. RefusedResultsDeleted'
  BY <1>3, <1>9 DEF RefusedResultsDeleted
<1> QED  BY <1>7, <1>8, <1>10

LEMMA ResultInduction == ResultInv /\ [Next]_vars => ResultInv'
<1> SUFFICES ASSUME ResultInv, [Next]_vars
             PROVE  ResultInv'
  OBVIOUS
<1>1. RowInv' /\ TypeOK
  BY RowInduction DEF ResultInv, RowInv
<1>2. ASSUME NEW d \in Devices, ClaimTask(d) \/ SendTask(d) \/ StoreResult(d) \/ CompleteTask(d)
      PROVE  OneHolder' /\ ResultsHeld' /\ RefusedResultsDeleted'
  BY <1>2, ClaimKeepsResults, DeliveryKeepsResults, StoringKeepsResults, CompletionKeepsResults
<1>3. ASSUME HoldersStay
      PROVE  OneHolder' /\ ResultsHeld' /\ RefusedResultsDeleted'
  <2>1. OneHolder'
    BY <1>3 DEF HoldersStay, ResultInv, OneHolder
  <2>2. ResultsHeld'
    BY <1>3 DEF HoldersStay, ResultInv, ResultsHeld, Holding
  <2>3. RefusedResultsDeleted'
    <3> SUFFICES ASSUME NEW r \in results', faults' = 0
                 PROVE  \/ status'[r.task] = "completed" /\ resultKey'[r.task] = r.lease
                        \/ \E e \in Devices : /\ device'[e].pc = "stored"
                                              /\ device'[e].task = r.task /\ device'[e].lease = r.lease
      BY DEF RefusedResultsDeleted
    <3>1. r \in results /\ faults = 0 /\ r.task \in Tasks
      BY <1>1, <1>3 DEF HoldersStay, TypeOK
    <3>2. CASE status[r.task] = "completed" /\ resultKey[r.task] = r.lease
      BY <3>1, <3>2, CompletedStays DEF ResultInv
    <3>3. ASSUME NEW e \in Devices, device[e].pc = "stored", device[e].task = r.task, device[e].lease = r.lease
          PROVE  device'[e] = device[e]
      BY <1>3, <3>3 DEF HoldersStay
    <3> QED  BY <3>1, <3>2, <3>3 DEF ResultInv, RefusedResultsDeleted
  <2> QED  BY <2>1, <2>2, <2>3
<1> QED  BY <1>1, <1>2, <1>3, HolderSteps DEF ResultInv

\* While no server or connector process dies, a result that is kept belongs to a row
\* completed under its lease or to a request that completeAIClientConnectorTask is serving.
THEOREM RefusedResultsGone == Spec => []RefusedResultsDeleted
<1>1. Init => ResultInv
  <2> SUFFICES ASSUME Init
               PROVE  ResultInv
    OBVIOUS
  <2>1. TypeOK
    BY DEF Init, TypeOK, Statuses, Actions, HandlerStates, Answers,
           SessionRecords, DeviceRecords, NoSession, IdleDevice
  <2>2. RowInv
    BY <2>1 DEF Init, RowInv, RowsInserted, AtMostOneActive, Active
  <2>3. \A d \in Devices : ~ Pending(d) /\ ~ Holding(d)
    BY DEF Init, Pending, Holding, DeviceBusy, NoSession, IdleDevice
  <2> QED  BY <2>2, <2>3 DEF Init, ResultInv, OneHolder, ResultsHeld, RefusedResultsDeleted
<1>2. ResultInv => RefusedResultsDeleted
  BY DEF ResultInv
<1> QED  BY <1>1, <1>2, ResultInduction, PTL DEF Spec
-----------------------------------------------------------------------------
(***************************************************************************)
(* What the caller is told.                                                *)
(***************************************************************************)

\* A process that holds a task has received its prompt.
HeldDelivered == \A d \in Devices : Holding(d) => delivered[device[d].task] > 0

\* A row is completed by a process that held its task; a handler that fetches saw it so.
CompletedDelivered == \A t \in Tasks : status[t] = "completed" => delivered[t] > 0
FetchesCompleted == \A t \in Tasks : handler[t] = "fetch" => status[t] = "completed"

AnswerInv == RowInv /\ HeldDelivered /\ CompletedDelivered /\ FetchesCompleted /\ AnswerIsHonest

\* Rows do not disappear, and complete only in a complete request.
LEMMA RowOutcomes ==
  ASSUME TypeOK, [Next]_vars, NEW t \in Tasks
  PROVE  /\ status'[t] = "absent" => status[t] = "absent"
         /\ status'[t] = "completed" =>
              \/ status[t] = "completed"
              \/ \E d \in Devices : Holding(d) /\ device[d].task = t
<1> USE DEF TypeOK, Statuses
<1>1. ASSUME NEW u \in Tasks, NEW a \in Kinds, PutPayload(u, a)
      PROVE  status' = status
  BY <1>1 DEF PutPayload
<1>2. ASSUME NEW u \in Tasks, HandlerStep(u) \/ Disconnect(u) \/ HandlerDies(u)
      PROVE  (status'[t] = "absent" => status[t] = "absent") /\ (status'[t] = "completed" => status[t] = "completed")
  <2>1. CASE SweepBeforeInsert(u)
    BY <2>1 DEF SweepBeforeInsert, SweepTo, SweptStatus
  <2>2. CASE InsertTask(u)
    BY <2>2 DEF InsertTask
  <2>3. CASE WaitCancelled(u)
    BY <2>3 DEF WaitCancelled, CancelledStatus
  <2>4. CASE \/ SnapshotConnector(u) \/ InsertBusy(u) \/ Poll(u) \/ FetchResult(u)
             \/ DeletePayload(u) \/ Disconnect(u) \/ HandlerDies(u)
    BY <2>4 DEF SnapshotConnector, InsertBusy, Poll, FetchResult, DeletePayload, Disconnect,
                HandlerDies, taskRow
  <2> QED BY <1>2, <2>1, <2>2, <2>3, <2>4 DEF HandlerStep
<1>3. ASSUME NEW d \in Devices, SessionStep(d)
      PROVE  (status'[t] = "absent" => status[t] = "absent") /\ (status'[t] = "completed" => status[t] = "completed")
  <2>1. CASE ClaimTask(d)
    BY <2>1 DEF ClaimTask, ReclaimedStatus
  <2>2. CASE ClaimNothing(d)
    BY <2>2 DEF ClaimNothing, SweepTo, ReclaimedStatus
  <2>3. CASE PayloadUnavailable(d)
    BY <2>3 DEF PayloadUnavailable, CloseRow
  <2>4. CASE LoadPayload(d) \/ SendTask(d) \/ DropDeliveredPayload(d)
    BY <2>4 DEF LoadPayload, SendTask, DropDeliveredPayload, taskRow
  <2> QED BY <1>3, <2>1, <2>2, <2>3, <2>4 DEF SessionStep
<1>4. ASSUME NEW d \in Devices, DeviceStep(d)
      PROVE  /\ status'[t] = "absent" => status[t] = "absent"
             /\ status'[t] = "completed" => status[t] = "completed" \/ (Holding(d) /\ device[d].task = t)
  <2>1. CASE CompleteTask(d)
    <3>1. PICK u \in Tasks : u = device[d].task
      BY <2>1, Holders DEF CompleteTask, DeviceBusy
    <3> QED  BY <2>1, <3>1 DEF CompleteTask, CloseRow, Holding, DeviceBusy
  <2>2. CASE StartTask(d) \/ MonitorCancels(d) \/ StoreResult(d)
    BY <2>2 DEF StartTask, MonitorCancels, StoreResult, taskRow
  <2> QED BY <1>4, <2>1, <2>2 DEF DeviceStep
<1>5. ASSUME NEW d \in Devices,
             \/ PollTask(d) \/ GiveUpPoll(d) \/ FinishTask(d, TRUE) \/ FinishTask(d, FALSE)
             \/ SessionDies(d) \/ ResponseLost(d) \/ DeviceRestarts(d)
      PROVE  status' = status
  BY <1>5 DEF PollTask, GiveUpPoll, FinishTask, SessionDies, ResponseLost, DeviceRestarts, taskRow
<1>6. CASE MaintainTasks
  BY <1>6 DEF MaintainTasks, SweepTo, SweptStatus
<1>7. CASE RevokeConnector
  BY <1>7 DEF RevokeConnector, SweepTo, RevokedStatus
<1>8. CASE Tick \/ UNCHANGED vars
  BY <1>8 DEF Tick, vars, taskRow
<1> QED BY <1>1, <1>2, <1>3, <1>4, <1>5, <1>6, <1>7, <1>8 DEF Next

\* A prompt that reached a device has reached it for good.
LEMMA DeliveredGrows ==
  ASSUME TypeOK, [Next]_vars
  PROVE  \A t \in Tasks : delivered[t] \in Nat /\ delivered'[t] \in Nat /\ delivered[t] <= delivered'[t]
<1>1. ASSUME NEW d \in Devices, SendTask(d), NEW t \in Tasks
      PROVE  delivered'[t] \in Nat /\ delivered[t] <= delivered'[t]
  BY <1>1 DEF SendTask, TypeOK
<1>2. ASSUME NEW d \in Devices, ClaimTask(d)
      PROVE  delivered' = delivered
  BY <1>2 DEF ClaimTask
<1> QED  BY <1>1, <1>2, DeliverySteps DEF TypeOK, NothingHandedOver

LEMMA HeldInduction ==
  ASSUME TypeOK, HeldDelivered, [Next]_vars
  PROVE  HeldDelivered'
<1> SUFFICES ASSUME NEW d \in Devices, Holding(d)'
             PROVE  delivered'[device'[d].task] > 0
  BY DEF HeldDelivered
<1>1. ASSUME Holding(d), device'[d].task = device[d].task
      PROVE  delivered'[device'[d].task] > 0
  <2>1. PICK t \in Tasks : t = device[d].task
    BY <1>1, Holders DEF TypeOK, Holding
  <2> QED  BY <1>1, <2>1, DeliveredGrows DEF HeldDelivered
<1>2. CASE HoldersStay
  BY <1>1, <1>2 DEF HoldersStay
<1>3. ASSUME NEW e \in Devices, ClaimTask(e)
      PROVE  device' = device
  BY <1>3 DEF ClaimTask
<1>4. ASSUME NEW e \in Devices, SendTask(e)
      PROVE  delivered'[device'[d].task] > 0
  <2>1. device'[d] = device[d] \/ (d = e /\ device'[d].task = session[e].task /\ device[e].pc = "polling")
    BY <1>4 DEF SendTask, TypeOK
  <2>2. CASE device'[d] = device[d]
    BY <1>1, <2>2 DEF Holding
  <2>3. CASE d = e /\ device'[d].task = session[e].task /\ device[e].pc = "polling"
    <3>1. PICK t \in Tasks : t = session[e].task
      BY <1>4, Holders DEF TypeOK, SendTask, SessionBusy
    <3>2. delivered'[t] = delivered[t] + 1
      BY <1>4, <2>3, <3>1 DEF SendTask, TypeOK
    <3> QED  BY <2>3, <3>1, <3>2, DeliveredGrows
  <2> QED  BY <2>1, <2>2, <2>3
<1>5. ASSUME NEW e \in Devices, StoreResult(e) \/ CompleteTask(e)
      PROVE  Holding(d) /\ device'[d].task = device[d].task
  <2>1. device[e] \in DeviceRecords /\ device \in [Devices -> DeviceRecords]
    BY DEF TypeOK
  <2> DEFINE row == [device[e] EXCEPT !.pc = "stored"]
  <2>2. row.task = device[e].task
    BY <2>1 DEF DeviceRecords
  <2>3. \/ device' = [device EXCEPT ![e] = IdleDevice]
        \/ device[e].pc = "completing" /\ device' = [device EXCEPT ![e] = row]
    BY <1>5 DEF StoreResult, CompleteTask, DeviceAt, DeviceIdle
  <2> HIDE DEF row
  <2>4. ~ (IdleDevice.pc \in DeviceBusy) /\ (device[e].pc = "completing" => Holding(e))
    BY DEF IdleDevice, DeviceBusy, Holding
  <2> QED  BY <2>1, <2>2, <2>3, <2>4 DEF Holding
<1> QED  BY <1>1, <1>2, <1>3, <1>4, <1>5, HolderSteps DEF Holding

\* A handler answers a success only after a fetch, and a failure only of a row it saw closed.
LEMMA HandlerAnswers ==
  ASSUME TypeOK, [Next]_vars, NEW t \in Tasks
  PROVE  /\ handler'[t] = "fetch" => handler[t] = "fetch" \/ status[t] = "completed"
         /\ answer'[t] = "ok" => answer[t] = "ok" \/ handler[t] = "fetch"
         /\ answer'[t] = "failed" => answer[t] = "failed" \/ status[t] \in {"failed", "expired", "cancelled"}
<1> USE DEF TypeOK, HandlerStates, Answers
<1> DEFINE Goal == /\ handler'[t] = "fetch" => handler[t] = "fetch" \/ status[t] = "completed"
                   /\ answer'[t] = "ok" => answer[t] = "ok" \/ handler[t] = "fetch"
                   /\ answer'[t] = "failed" =>
                        answer[t] = "failed" \/ status[t] \in {"failed", "expired", "cancelled"}
<1>1. ASSUME NEW u \in Tasks, NEW a \in Kinds, PutPayload(u, a)
      PROVE  Goal
  BY <1>1 DEF PutPayload, Goto
<1>2. ASSUME NEW u \in Tasks, HandlerStep(u) \/ Disconnect(u) \/ HandlerDies(u)
      PROVE  Goal
  <2>1. CASE SweepBeforeInsert(u) \/ SnapshotConnector(u) \/ InsertTask(u) \/ InsertBusy(u)
    BY <2>1 DEF SweepBeforeInsert, SnapshotConnector, InsertTask, InsertBusy, Goto, Answer
  <2>2. CASE Poll(u)
    BY <2>2 DEF Poll, Goto, Answer
  <2>3. CASE WaitCancelled(u) \/ FetchResult(u) \/ DeletePayload(u)
    BY <2>3 DEF WaitCancelled, FetchResult, DeletePayload, Goto, Answer
  <2>4. CASE Disconnect(u) \/ HandlerDies(u)
    BY <2>4 DEF Disconnect, HandlerDies, Goto
  <2> QED BY <1>2, <2>1, <2>2, <2>3, <2>4 DEF HandlerStep
<1>3. ASSUME NEW d \in Devices,
             SessionStep(d) \/ DeviceStep(d) \/ PollTask(d) \/ GiveUpPoll(d)
      PROVE  UNCHANGED <<handler, answer>>
  BY <1>3 DEF SessionStep, DeviceStep, PollTask, GiveUpPoll, ClaimTask, ClaimNothing, LoadPayload,
              PayloadUnavailable, SendTask, DropDeliveredPayload, StartTask, MonitorCancels,
              StoreResult, CompleteTask, handlers
<1>4. ASSUME NEW d \in Devices,
             \/ FinishTask(d, TRUE) \/ FinishTask(d, FALSE)
             \/ SessionDies(d) \/ ResponseLost(d) \/ DeviceRestarts(d)
      PROVE  UNCHANGED <<handler, answer>>
  BY <1>4 DEF FinishTask, SessionDies, ResponseLost, DeviceRestarts, handlers
<1>5. CASE MaintainTasks \/ RevokeConnector \/ Tick \/ UNCHANGED vars
  BY <1>5 DEF MaintainTasks, RevokeConnector, Tick, vars, handlers
<1> QED BY <1>1, <1>2, <1>3, <1>4, <1>5 DEF Next

LEMMA AnswerInduction == AnswerInv /\ [Next]_vars => AnswerInv'
<1> SUFFICES ASSUME AnswerInv, [Next]_vars
             PROVE  AnswerInv'
  OBVIOUS
<1>1. RowInv' /\ TypeOK /\ HeldDelivered'
  BY RowInduction, HeldInduction DEF AnswerInv, RowInv
<1>2. ASSUME NEW t \in Tasks
      PROVE  /\ status[t] \in Terminal => status'[t] = status[t]
             /\ delivered[t] \in Nat /\ delivered'[t] \in Nat /\ delivered[t] <= delivered'[t]
  BY <1>1, RowSteps, DeliveredGrows DEF AnswerInv, RowInv, Terminal, Active, Inserts
<1>3. CompletedDelivered'
  <2> SUFFICES ASSUME NEW t \in Tasks, status'[t] = "completed"
               PROVE  delivered'[t] > 0
    BY DEF CompletedDelivered
  <2>1. delivered[t] > 0
    BY <1>1, RowOutcomes DEF AnswerInv, CompletedDelivered, HeldDelivered
  <2> QED  BY <1>2, <2>1
<1>4. FetchesCompleted'
  BY <1>1, <1>2, HandlerAnswers DEF AnswerInv, FetchesCompleted, Terminal
<1>5. AnswerIsHonest'
  <2> SUFFICES ASSUME NEW t \in Tasks
               PROVE  /\ answer'[t] = "ok" => status'[t] = "completed" /\ delivered'[t] > 0
                      /\ answer'[t] = "failed" => status'[t] \in Terminal \ {"completed"}
    BY DEF AnswerIsHonest
  <2>1. answer'[t] = "ok" => status[t] = "completed"
    BY <1>1, HandlerAnswers DEF AnswerInv, AnswerIsHonest, FetchesCompleted
  <2>2. answer'[t] = "failed" => status[t] \in Terminal \ {"completed"}
    BY <1>1, HandlerAnswers DEF AnswerInv, AnswerIsHonest, Terminal
  <2> QED  BY <1>2, <1>3, <2>1, <2>2 DEF CompletedDelivered, Terminal
<1> QED  BY <1>1, <1>3, <1>4, <1>5 DEF AnswerInv

\* waitForAIClientTask answers what became of the row, for any interleaving of claims,
\* completions, sweeps, cancellations and crashes.
THEOREM AnswersAreHonest == Spec => []AnswerIsHonest
<1>1. Init => AnswerInv
  <2> SUFFICES ASSUME Init
               PROVE  AnswerInv
    OBVIOUS
  <2>1. TypeOK
    BY DEF Init, TypeOK, Statuses, Actions, HandlerStates, Answers,
           SessionRecords, DeviceRecords, NoSession, IdleDevice
  <2>2. RowInv
    BY <2>1 DEF Init, RowInv, RowsInserted, AtMostOneActive, Active
  <2>3. HeldDelivered
    BY DEF Init, HeldDelivered, Holding, DeviceBusy, IdleDevice
  <2>4. CompletedDelivered /\ FetchesCompleted /\ AnswerIsHonest
    BY DEF Init, CompletedDelivered, FetchesCompleted, AnswerIsHonest
  <2> QED  BY <2>2, <2>3, <2>4 DEF AnswerInv
<1>2. AnswerInv => AnswerIsHonest
  BY DEF AnswerInv
<1> QED  BY <1>1, <1>2, AnswerInduction, PTL DEF Spec
-----------------------------------------------------------------------------
(***************************************************************************)
(* Refinement.  With leases that cover their tasks the queue implements    *)
(* the at-most-once task: an insert opens it, the response that carries    *)
(* the prompt runs it, and whatever closes the row ends it.                *)
(***************************************************************************)

\* The outcome of a task is read off the status of its row.
LEMMA OutcomeValues ==
  ASSUME status \in [Tasks -> Statuses]
  PROVE  /\ Outcome \in [Tasks -> {"none", "open", "ok", "notok"}]
         /\ \A t \in Tasks : /\ Outcome[t] = "none" <=> status[t] = "absent"
                             /\ Outcome[t] = "open" <=> Active(t)
                             /\ Outcome[t] = "ok" <=> status[t] = "completed"
<1>1. ASSUME NEW t \in Tasks
      PROVE  LET o == CASE status[t] = "absent" -> "none"
                        [] Active(t) -> "open"
                        [] status[t] = "completed" -> "ok"
                        [] OTHER -> "notok"
             IN /\ o \in {"none", "open", "ok", "notok"}
                /\ o = "none" <=> status[t] = "absent"
                /\ o = "open" <=> Active(t)
                /\ o = "ok" <=> status[t] = "completed"
  <2>1. status[t] \in Statuses
    OBVIOUS
  <2>2. CASE status[t] = "absent"
    BY <2>2 DEF Active
  <2>3. CASE Active(t)
    BY <2>3 DEF Active
  <2>4. CASE status[t] = "completed"
    BY <2>4 DEF Active
  <2>5. CASE status[t] # "absent" /\ ~ Active(t) /\ status[t] # "completed"
    BY <2>5
  <2> QED  BY <2>2, <2>3, <2>4, <2>5
<1> QED  BY <1>1 DEF Outcome

LEMMA OutcomeValuesNext ==
  ASSUME status' \in [Tasks -> Statuses]
  PROVE  /\ Outcome' \in [Tasks -> {"none", "open", "ok", "notok"}]
         /\ \A t \in Tasks : /\ Outcome'[t] = "none" <=> status'[t] = "absent"
                             /\ Outcome'[t] = "open" <=> Active(t)'
                             /\ Outcome'[t] = "ok" <=> status'[t] = "completed"
<1>1. ASSUME NEW t \in Tasks
      PROVE  LET o == CASE status'[t] = "absent" -> "none"
                        [] Active(t)' -> "open"
                        [] status'[t] = "completed" -> "ok"
                        [] OTHER -> "notok"
             IN /\ o \in {"none", "open", "ok", "notok"}
                /\ o = "none" <=> status'[t] = "absent"
                /\ o = "open" <=> Active(t)'
                /\ o = "ok" <=> status'[t] = "completed"
  <2>2. CASE status'[t] = "absent"
    BY <2>2 DEF Active
  <2>3. CASE Active(t)'
    BY <2>3 DEF Active
  <2>4. CASE status'[t] = "completed"
    BY <2>4 DEF Active
  <2>5. CASE status'[t] # "absent" /\ ~ Active(t)' /\ status'[t] # "completed"
    BY <2>5
  <2> QED  BY <2>2, <2>3, <2>4, <2>5
<1> QED  BY <1>1 DEF Outcome

\* One task moves: its outcome changes, that of the others stays.
LEMMA OneOutcome ==
  ASSUME TypeOK, TypeOK', NEW t \in Tasks, \A u \in Tasks : u # t => status'[u] = status[u]
  PROVE  \A o : Outcome'[t] = o => Outcome' = [Outcome EXCEPT ![t] = o]
<1>1. status \in [Tasks -> Statuses] /\ status' \in [Tasks -> Statuses]
  BY DEF TypeOK
<1>2. /\ Outcome \in [Tasks -> {"none", "open", "ok", "notok"}]
      /\ Outcome' \in [Tasks -> {"none", "open", "ok", "notok"}]
  BY <1>1, OutcomeValues, OutcomeValuesNext
<1>3. \A u \in Tasks : u # t => Outcome'[u] = Outcome[u]
  BY DEF Outcome, Active
<1> QED  BY <1>2, <1>3

QueueInv == DeliveryInv /\ HeldDelivered

LEMMA QueueInduction ==
  ASSUME LeaseCoversTask, QueueInv, [Next]_vars
  PROVE  QueueInv'
<1>1. TypeOK
  BY DEF QueueInv, DeliveryInv, RowInv
<1> QED  BY <1>1, DeliveryInduction, HeldInduction DEF QueueInv

\* The prompt of a task that exists reaches a device for the first time.
LEMMA DeliveryRuns ==
  ASSUME QueueInv, NEW d \in Devices, SendTask(d)
  PROVE  (\E t \in Tasks : OnceTask!Run(t)) \/ UNCHANGED <<Outcome, delivered>>
<1>1. TypeOK /\ Pending(d)
  BY DEF QueueInv, DeliveryInv, RowInv, SendTask, Pending
<1>2. PICK t \in Tasks : t = session[d].task
  BY <1>1, Holders DEF TypeOK, Pending, SessionBusy
<1>3. Outcome' = Outcome
  BY DEF SendTask, taskRow, Outcome, Active
<1>4. delivered[t] = 0 /\ status[t] # "absent"
  BY <1>1, <1>2 DEF QueueInv, DeliveryInv, PendingAlone, Unclaimed
<1>5. Outcome[t] # "none"
  BY <1>1, <1>4, OutcomeValues DEF TypeOK
<1>6. CASE device[d].pc = "polling"
  <2>1. delivered' = [delivered EXCEPT ![t] = 1]
    BY <1>1, <1>2, <1>4, <1>6 DEF SendTask, TypeOK
  <2> QED  BY <1>3, <1>4, <1>5, <2>1 DEF OnceTask!Run
<1>7. CASE device[d].pc # "polling"
  BY <1>3, <1>7 DEF SendTask
<1> QED  BY <1>6, <1>7

\* The only active row closes or stays, or a row is inserted while there is none.
LEMMA RowsMove ==
  ASSUME QueueInv, [Next]_vars, delivered' = delivered
  PROVE  \/ \E t \in Tasks : OnceTask!Open(t) \/ OnceTask!Succeed(t) \/ OnceTask!Fail(t)
         \/ UNCHANGED <<Outcome, delivered>>
<1>1. TypeOK /\ TypeOK' /\ RowInv /\ AtMostOneActive
  BY TypeInduction DEF QueueInv, DeliveryInv, RowInv
<1>2. status \in [Tasks -> Statuses] /\ status' \in [Tasks -> Statuses]
  BY <1>1 DEF TypeOK
<1>3. ASSUME NEW t \in Tasks
      PROVE  status'[t] = status[t] \/ Inserts(t) \/ Active(t)
  BY <1>1, RowSteps DEF RowInv
<1>4. ASSUME NEW t \in Tasks, Inserts(t)
      PROVE  OnceTask!Open(t)
  <2>1. \A u \in Tasks : Outcome[u] # "open" /\ (u # t => status'[u] = status[u])
    BY <1>2, <1>4, OutcomeValues DEF Inserts
  <2>2. Outcome[t] = "none" /\ Outcome'[t] = "open"
    BY <1>2, <1>4, OutcomeValues, OutcomeValuesNext DEF Inserts, Active
  <2>3. Outcome' = [Outcome EXCEPT ![t] = "open"]
    BY <1>1, <2>1, <2>2, OneOutcome
  <2> QED  BY <2>1, <2>2, <2>3 DEF OnceTask!Open
<1>5. ASSUME NEW t \in Tasks, Active(t)
      PROVE  OnceTask!Succeed(t) \/ OnceTask!Fail(t) \/ UNCHANGED <<Outcome, delivered>>
  <2>1. \A u \in Tasks : u # t => status'[u] = status[u]
    BY <1>1, <1>3, <1>5 DEF AtMostOneActive, Inserts
  <2>2. Outcome[t] = "open"
    BY <1>2, <1>5, OutcomeValues
  <2>3. Outcome' = [Outcome EXCEPT ![t] = Outcome'[t]]
    BY <1>1, <2>1, OneOutcome
  <2>4. Outcome'[t] # "none" /\ Outcome'[t] \in {"none", "open", "ok", "notok"}
    BY <1>1, <1>2, <1>5, RowOutcomes, OutcomeValuesNext DEF Active
  <2>5. CASE Outcome'[t] = "ok"
    <3>1. delivered[t] > 0
      BY <1>1, <1>2, <1>5, <2>5, RowOutcomes, OutcomeValuesNext DEF QueueInv, HeldDelivered, Active
    <3>2. delivered[t] \in Nat /\ delivered[t] <= 1
      BY <1>1 DEF QueueInv, DeliveryInv, PromptDeliveredOnce, TypeOK
    <3>3. delivered[t] = 1
      BY <3>1, <3>2
    <3> QED  BY <2>2, <2>3, <2>5, <3>3 DEF OnceTask!Succeed
  <2>6. CASE Outcome'[t] = "notok"
    BY <2>2, <2>3, <2>6 DEF OnceTask!Fail
  <2>7. CASE Outcome'[t] = "open"
    <3>1. Outcome \in [Tasks -> {"none", "open", "ok", "notok"}]
      BY <1>2, OutcomeValues
    <3> QED  BY <2>2, <2>3, <2>7, <3>1
  <2> QED  BY <2>4, <2>5, <2>6, <2>7
<1>6. CASE \A t \in Tasks : status'[t] = status[t]
  <2>1. Outcome' = Outcome
    BY <1>6 DEF Outcome, Active
  <2> QED  BY <2>1
<1> QED  BY <1>3, <1>4, <1>5, <1>6

\* The detailed queue implements OnceTask: one open task at a time, run at most once,
\* successful only after it was run, with a final outcome, for any number of tasks,
\* connector processes and faults, as long as leases cover their tasks.
THEOREM QueueImplementsOnceTask ==
  ASSUME LeaseCoversTask
  PROVE  Spec => ImplementsOnceTask
<1>1. Init => QueueInv
  <2> SUFFICES ASSUME Init
               PROVE  QueueInv
    OBVIOUS
  <2>1. DeliveryInv
    BY DeliveryInitial
  <2>2. HeldDelivered
    BY DEF Init, HeldDelivered, Holding, DeviceBusy, IdleDevice
  <2> QED  BY <2>1, <2>2 DEF QueueInv
<1>2. QueueInv /\ [Next]_vars => QueueInv'
  BY QueueInduction
<1>3. Init => OnceTask!Init
  <2> SUFFICES ASSUME Init
               PROVE  OnceTask!Init
    OBVIOUS
  <2>1. status \in [Tasks -> Statuses] /\ \A t \in Tasks : status[t] = "absent"
    BY DEF Init, Statuses
  <2>2. Outcome = [t \in Tasks |-> "none"]
    BY <2>1, OutcomeValues
  <2> QED  BY <2>2 DEF Init, OnceTask!Init
<1>4. QueueInv /\ [Next]_vars => [OnceTask!Next]_(OnceTask!vars)
  <2> SUFFICES ASSUME QueueInv, [Next]_vars
               PROVE  [OnceTask!Next]_(OnceTask!vars)
    OBVIOUS
  <2>1. ASSUME NEW d \in Devices, SendTask(d)
        PROVE  [OnceTask!Next]_(OnceTask!vars)
    BY <2>1, DeliveryRuns DEF OnceTask!Next, OnceTask!vars
  <2>2. ASSUME delivered' = delivered
        PROVE  [OnceTask!Next]_(OnceTask!vars)
    BY <2>2, RowsMove DEF OnceTask!Next, OnceTask!vars
  <2>3. ASSUME NEW d \in Devices, ClaimTask(d)
        PROVE  delivered' = delivered
    BY <2>3 DEF ClaimTask
  <2> QED  BY <2>1, <2>2, <2>3, DeliverySteps DEF NothingHandedOver, QueueInv, DeliveryInv, RowInv
<1> QED  BY <1>1, <1>2, <1>3, <1>4, PTL DEF Spec, ImplementsOnceTask, OnceTask!Spec
=============================================================================
