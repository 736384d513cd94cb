----------------------------- MODULE ClientTasks -----------------------------
(***************************************************************************)
(* The task queue between the TokHub server and the official-client        *)
(* connector that runs on the user's machine.                              *)
(*                                                                         *)
(* An HTTP handler (gateway generation, identity check, session deletion)  *)
(* stores an encrypted prompt in Redis, inserts a row in ai_client_tasks   *)
(* and polls that row.  A connector process claims the row under a lease,  *)
(* receives the prompt, runs the official client and completes the row.    *)
(* The rows live in PostgreSQL, the prompts and results in Redis, and the  *)
(* handlers and connector processes may die between any two calls.         *)
(*                                                                         *)
(* Rows of different connectors never meet in a statement (every one of    *)
(* them filters on connector_id), so the module follows one connector.     *)
(***************************************************************************)
EXTENDS Integers

CONSTANTS
  Tasks,           \* task identifiers; each is created at most once
  Devices,         \* connector processes holding the connector's device token
  NoTask,          \* "no task" of an idle session
  Kinds,           \* task actions the instance exercises
  TaskTimeout,     \* TOKHUB_AI_OFFICIAL_CLIENT_TASK_TIMEOUT, in ticks
  IdentifyTimeout, \* lifetime of identify and delete_session tasks (one minute)
  MinLease,        \* shortest lease ClaimAIClientTask accepts (10 seconds)
  MaxLease,        \* longest lease ClaimAIClientTask accepts (5 minutes)
  DefaultLease,    \* the lease it uses otherwise (2 minutes)
  ResultTTL,       \* lifetime of a result in Redis (3 minutes)
  RunMargin,       \* time a claimed task must have left to be run (10 seconds)
  MaxTime,         \* bound on the clock
  MaxFaults        \* bound on crashes and lost messages

ASSUME ConstantsAssumption ==
  /\ NoTask \notin Tasks
  /\ Kinds \subseteq {"generate", "identify", "delete_session"}
  /\ {TaskTimeout, IdentifyTimeout, DefaultLease, ResultTTL} \subseteq Nat \ {0}
  /\ {MinLease, MaxLease, RunMargin, MaxTime, MaxFaults} \subseteq Nat

VARIABLES
  \* PostgreSQL: ai_client_connectors.status and one row of ai_client_tasks per task
  connector, status, action, expiresAt, lease, leaseExpiresAt, resultKey,
  \* Redis: expiry of a task's prompt (0 when there is none), and the results
  payload, results,
  \* HTTP handlers: where each one is, its caller's presence, deadline and answer
  handler, gone, deadline, answer,
  \* claim requests being served, and the connector processes
  session, device,
  \* tokens drawn so far, the clock, faults so far, prompts handed to a device
  tokens, clock, faults, delivered

taskRow == <<status, action, expiresAt, lease, leaseExpiresAt, resultKey>>
redis == <<payload, results>>
handlers == <<handler, gone, deadline, answer>>
vars == <<connector, taskRow, redis, handlers, session, device,
          tokens, clock, faults, delivered>>

Statuses == {"absent", "queued", "claimed", "completed", "failed", "expired", "cancelled"}
Actions == {"generate", "identify", "delete_session"}
HandlerStates == {"idle", "put", "swept", "insert", "wait", "fetch", "cleanup", "done", "dead"}
Answers == {"none", "ok", "failed", "error", "busy", "unavailable"}

NoSession == [pc |-> "idle", task |-> NoTask, lease |-> 0]
IdleDevice == [pc |-> "idle", task |-> NoTask, lease |-> 0, ok |-> FALSE]

\* The lifetime a handler gives the task it creates.
Lifetime(a) == IF a = "generate" THEN TaskTimeout ELSE IdentifyTimeout

\* The lease a claim receives: the configured task timeout when it lies in the
\* accepted range, else the default.
LeaseDuration ==
  IF TaskTimeout < MinLease \/ TaskTimeout > MaxLease THEN DefaultLease ELSE TaskTimeout

Active(t) == status[t] \in {"queued", "claimed"}

\* Mutants of Stale: the sweep takes closed rows too; it forgets claimed rows.
StaleAnyRow(t) == status[t] # "absent" /\ expiresAt[t] <= clock
StaleQueuedOnly(t) == status[t] = "queued" /\ expiresAt[t] <= clock

Stale(t) == Active(t) /\ expiresAt[t] <= clock
Terminal == {"completed", "failed", "expired", "cancelled"}

\* AIClientTaskLeaseActive: the condition under which a lease token is honoured.
LeaseActive(t, l) ==
  /\ status[t] = "claimed"
  /\ lease[t] = l
  /\ leaseExpiresAt[t] > clock
  /\ expiresAt[t] > clock

\* waitCtx is done: its caller left or its timeout passed.
ContextDone(t) == gone[t] \/ deadline[t] <= clock

\* Rows whose status a sweep changes lose their lease.
SweepTo(new) ==
  /\ status' = new
  /\ lease' = [t \in Tasks |-> IF new[t] # status[t] THEN 0 ELSE lease[t]]
  /\ leaseExpiresAt' = [t \in Tasks |-> IF new[t] # status[t] THEN 0 ELSE leaseExpiresAt[t]]

\* A crash, a lost message or a failing dependency; at most MaxFaults of them.
Fault == faults < MaxFaults /\ faults' = faults + 1

SweptStatus == [t \in Tasks |-> IF Stale(t) THEN "expired" ELSE status[t]]

-----------------------------------------------------------------------------
Init ==
  /\ connector = "active"
  /\ status = [t \in Tasks |-> "absent"]
  /\ action = [t \in Tasks |-> "generate"]
  /\ expiresAt = [t \in Tasks |-> 0]
  /\ lease = [t \in Tasks |-> 0]
  /\ leaseExpiresAt = [t \in Tasks |-> 0]
  /\ resultKey = [t \in Tasks |-> 0]
  /\ payload = [t \in Tasks |-> 0]
  /\ results = {}
  /\ handler = [t \in Tasks |-> "idle"]
  /\ gone = [t \in Tasks |-> FALSE]
  /\ deadline = [t \in Tasks |-> 0]
  /\ answer = [t \in Tasks |-> "none"]
  /\ session = [d \in Devices |-> NoSession]
  /\ device = [d \in Devices |-> IdleDevice]
  /\ tokens = 0
  /\ clock = 0
  /\ faults = 0
  /\ delivered = [t \in Tasks |-> 0]

(***************************************************************************)
(* HTTP handlers.                                                          *)
(***************************************************************************)

Goto(t, pc) == handler' = [handler EXCEPT ![t] = pc]
Answer(t, a) == answer' = [answer EXCEPT ![t] = a]

\* createEncryptedAIClientTask, first call: the prompt goes to Redis.  The
\* handler saw the connector usable just before.
PutPayload(t, a) ==
  /\ handler[t] = "idle"
  /\ connector = "active"
  /\ clock + Lifetime(a) <= MaxTime
  /\ action' = [action EXCEPT ![t] = a]
  /\ expiresAt' = [expiresAt EXCEPT ![t] = clock + Lifetime(a)]
  /\ payload' = [payload EXCEPT ![t] = clock + Lifetime(a)]
  /\ Goto(t, "put")
  /\ UNCHANGED <<connector, status, lease, leaseExpiresAt, resultKey, results, gone,
                 deadline, answer, session, device, tokens, clock, faults, delivered>>

\* CreateAIClientTask, first statement: expired rows of this connector are closed.
SweepBeforeInsert(t) ==
  /\ handler[t] = "put"
  /\ SweepTo(SweptStatus)
  /\ Goto(t, "swept")
  /\ UNCHANGED <<connector, action, expiresAt, resultKey, redis, gone, deadline, answer,
                 session, device, tokens, clock, faults, delivered>>

\* The insert reads the connector's row in its own snapshot, which a revocation
\* may overtake before the new row is committed.
SnapshotConnector(t) ==
  /\ handler[t] = "swept"
  /\ IF connector = "active"
       THEN Goto(t, "insert") /\ UNCHANGED answer
       ELSE Goto(t, "cleanup") /\ Answer(t, "unavailable")
  /\ UNCHANGED <<connector, taskRow, redis, gone, deadline,
                 session, device, tokens, clock, faults, delivered>>

\* The unique index idx_ai_client_tasks_single_active admits one active row.
IndexAdmits == \A u \in Tasks : ~ Active(u)

InsertTask(t) ==
  /\ handler[t] = "insert"
  /\ IndexAdmits
  /\ status' = [status EXCEPT ![t] = "queued"]
  /\ Goto(t, IF action[t] = "delete_session" THEN "done" ELSE "wait")
  /\ deadline' = [deadline EXCEPT ![t] = clock + Lifetime(action[t])]
  /\ UNCHANGED <<connector, action, expiresAt, lease, leaseExpiresAt, resultKey, redis,
                 gone, answer, session, device, tokens, clock, faults, delivered>>

InsertBusy(t) ==
  /\ handler[t] = "insert"
  /\ ~ IndexAdmits
  /\ Goto(t, "cleanup")
  /\ Answer(t, "busy")
  /\ UNCHANGED <<connector, taskRow, redis, gone, deadline,
                 session, device, tokens, clock, faults, delivered>>

\* waitForAIClientTask, one poll of the row.  A poll that runs under a context
\* that is already done fails and leaves the loop at once.
Poll(t) ==
  /\ handler[t] = "wait"
  /\ \/ /\ ContextDone(t)
        /\ Goto(t, "cleanup")
        /\ Answer(t, "error")
     \/ /\ ~ ContextDone(t)
        /\ status[t] = "completed"
        /\ Goto(t, "fetch")
        /\ UNCHANGED answer
     \/ /\ ~ ContextDone(t)
        /\ status[t] \in {"failed", "expired", "cancelled"}
        /\ Goto(t, "cleanup")
        /\ Answer(t, "failed")
  /\ UNCHANGED <<connector, taskRow, redis, gone, deadline,
                 session, device, tokens, clock, faults, delivered>>

\* Mutant: the cancellation overwrites the status of a closed row.
CancelledStatusAlways(t) == "cancelled"

\* CancelAIClientTask closes an active row and leaves a closed one.
CancelledStatus(t) == IF Active(t) THEN "cancelled" ELSE status[t]

\* The select takes the Done branch and cancels; the lease of any row is cleared.
WaitCancelled(t) ==
  /\ handler[t] = "wait"
  /\ ContextDone(t)
  /\ status' = [status EXCEPT ![t] = CancelledStatus(t)]
  /\ lease' = [lease EXCEPT ![t] = 0]
  /\ leaseExpiresAt' = [leaseExpiresAt EXCEPT ![t] = 0]
  /\ Goto(t, "cleanup")
  /\ Answer(t, "error")
  /\ UNCHANGED <<connector, action, expiresAt, resultKey, redis, gone, deadline,
                 session, device, tokens, clock, faults, delivered>>

\* The result is read from Redis and deleted; it may have expired meanwhile.
FetchResult(t) ==
  LET found == {r \in results : r.task = t /\ r.lease = resultKey[t]}
  IN
  /\ handler[t] = "fetch"
  /\ Goto(t, "cleanup")
  /\ IF ContextDone(t) \/ found = {}
       THEN Answer(t, "error") /\ UNCHANGED results
       ELSE Answer(t, "ok") /\ results' = results \ found
  /\ UNCHANGED <<connector, taskRow, payload, gone, deadline,
                 session, device, tokens, clock, faults, delivered>>

\* Mutant: a prompt that is already gone makes the handler try again.
DeletePayloadRetries(t) ==
  /\ handler[t] = "cleanup"
  /\ payload[t] # 0
  /\ payload' = [payload EXCEPT ![t] = 0]
  /\ Goto(t, "done")
  /\ UNCHANGED <<connector, taskRow, results, gone, deadline, answer,
                 session, device, tokens, clock, faults, delivered>>

\* The handler deletes the prompt whatever the outcome.
DeletePayload(t) ==
  /\ handler[t] = "cleanup"
  /\ payload' = [payload EXCEPT ![t] = 0]
  /\ Goto(t, "done")
  /\ UNCHANGED <<connector, taskRow, results, gone, deadline, answer,
                 session, device, tokens, clock, faults, delivered>>

\* The caller closes its connection (external).
Disconnect(t) ==
  /\ handler[t] \in {"wait", "fetch"}
  /\ ~ gone[t]
  /\ gone' = [gone EXCEPT ![t] = TRUE]
  /\ UNCHANGED <<connector, taskRow, redis, handler, deadline, answer,
                 session, device, tokens, clock, faults, delivered>>

(***************************************************************************)
(* claimAIClientConnectorTask.                                             *)
(***************************************************************************)

SessionAt(d, pc) == session' = [session EXCEPT ![d].pc = pc]
EndSession(d) == session' = [session EXCEPT ![d] = NoSession]
DeviceAt(d, pc) == device' = [device EXCEPT ![d].pc = pc]
DeviceIdle(d) == device' = [device EXCEPT ![d] = IdleDevice]

\* A connector process polls, and its signed request is authenticated.
PollTask(d) ==
  /\ device[d].pc = "idle"
  /\ session[d].pc = "idle"
  /\ connector = "active"
  /\ SessionAt(d, "authed")
  /\ DeviceAt(d, "polling")
  /\ UNCHANGED <<connector, taskRow, redis, handlers, tokens, clock, faults, delivered>>

\* Mutant: rows are given back while their lease is still running.
ReclaimedStatusEarly ==
  [t \in Tasks |-> IF Stale(t) THEN "expired"
                   ELSE IF status[t] = "claimed" THEN "queued" ELSE status[t]]

\* ClaimAIClientTask, one transaction: expire, give back rows whose lease ran
\* out, then lease a queued row under a fresh token.
ReclaimedStatus ==
  [t \in Tasks |-> IF Stale(t) THEN "expired"
                   ELSE IF status[t] = "claimed" /\ leaseExpiresAt[t] <= clock THEN "queued"
                   ELSE status[t]]

ClaimTask(d) ==
  /\ session[d].pc = "authed"
  /\ \E t \in Tasks :
       /\ ReclaimedStatus[t] = "queued"
       /\ tokens' = tokens + 1
       /\ status' = [ReclaimedStatus EXCEPT ![t] = "claimed"]
       /\ lease' = [u \in Tasks |-> IF u = t THEN tokens + 1
                                    ELSE IF ReclaimedStatus[u] # status[u] THEN 0 ELSE lease[u]]
       /\ leaseExpiresAt' = [u \in Tasks |->
                               IF u = t THEN clock + LeaseDuration
                               ELSE IF ReclaimedStatus[u] # status[u] THEN 0
                               ELSE leaseExpiresAt[u]]
       /\ session' = [session EXCEPT ![d] = [pc |-> "claimed", task |-> t, lease |-> tokens + 1]]
  /\ UNCHANGED <<connector, action, expiresAt, resultKey, redis, handlers, device,
                 clock, faults, delivered>>

\* Nothing is queued: 204 No Content.
ClaimNothing(d) ==
  /\ session[d].pc = "authed"
  /\ \A t \in Tasks : ReclaimedStatus[t] # "queued"
  /\ SweepTo(ReclaimedStatus)
  /\ EndSession(d)
  /\ device' = [device EXCEPT ![d] = IF @.pc = "polling" THEN IdleDevice ELSE @]
  /\ UNCHANGED <<connector, action, expiresAt, resultKey, redis, handlers,
                 tokens, clock, faults, delivered>>

\* The prompt is read from Redis.
LoadPayload(d) ==
  /\ session[d].pc = "claimed"
  /\ payload[session[d].task] # 0
  /\ SessionAt(d, "loaded")
  /\ UNCHANGED <<connector, taskRow, redis, handlers, device, tokens, clock, faults, delivered>>

\* CompleteAIClientTask: under an active lease the row is closed, else nothing.
CloseRow(t, l, new, key) ==
  IF LeaseActive(t, l)
    THEN /\ status' = [status EXCEPT ![t] = new]
         /\ resultKey' = [resultKey EXCEPT ![t] = key]
         /\ lease' = [lease EXCEPT ![t] = 0]
         /\ leaseExpiresAt' = [leaseExpiresAt EXCEPT ![t] = 0]
    ELSE UNCHANGED <<status, resultKey, lease, leaseExpiresAt>>

\* The prompt is gone or Redis fails: the task fails closed (payload_unavailable).
PayloadUnavailable(d) ==
  LET t == session[d].task
  IN
  /\ session[d].pc = "claimed"
  /\ \/ payload[t] = 0 /\ UNCHANGED faults
     \/ Fault
  /\ CloseRow(t, session[d].lease, "failed", 0)
  /\ payload' = [payload EXCEPT ![t] = 0]
  /\ EndSession(d)
  /\ device' = [device EXCEPT ![d] = IF @.pc = "polling" THEN IdleDevice ELSE @]
  /\ UNCHANGED <<connector, action, expiresAt, results, handlers, tokens, clock, delivered>>

\* The claimed task is written to the response; a process that gave up waiting
\* no longer receives it.
SendTask(d) ==
  LET t == session[d].task
  IN
  /\ session[d].pc = "loaded"
  /\ SessionAt(d, "sent")
  /\ IF device[d].pc = "polling"
       THEN /\ device' = [device EXCEPT ![d] = [pc |-> "received", task |-> t,
                                                lease |-> session[d].lease, ok |-> FALSE]]
            /\ delivered' = [delivered EXCEPT ![t] = @ + 1]
       ELSE UNCHANGED <<device, delivered>>
  /\ UNCHANGED <<connector, taskRow, redis, handlers, tokens, clock, faults>>

\* The prompt leaves Redis after delivery.
DropDeliveredPayload(d) ==
  /\ session[d].pc = "sent"
  /\ payload' = [payload EXCEPT ![session[d].task] = 0]
  /\ EndSession(d)
  /\ UNCHANGED <<connector, taskRow, results, handlers, device,
                 tokens, clock, faults, delivered>>

(***************************************************************************)
(* The connector process (processOneTask, monitorTaskLease) and            *)
(* completeAIClientConnectorTask.                                          *)
(***************************************************************************)

\* The process's own claim timeout.
GiveUpPoll(d) ==
  /\ device[d].pc = "polling"
  /\ DeviceIdle(d)
  /\ UNCHANGED <<connector, taskRow, redis, handlers, session, tokens, clock, faults, delivered>>

\* A task too close to its expiry is failed without being run.
StartTask(d) ==
  /\ device[d].pc = "received"
  /\ DeviceAt(d, IF expiresAt[device[d].task] - clock < RunMargin THEN "completing" ELSE "running")
  /\ UNCHANGED <<connector, taskRow, redis, handlers, session, tokens, clock, faults, delivered>>

\* The official client returns, with a result or an error.
FinishTask(d, ok) ==
  /\ device[d].pc = "running"
  /\ device' = [device EXCEPT ![d].pc = "completing", ![d].ok = ok]
  /\ UNCHANGED <<connector, taskRow, redis, handlers, session, tokens, clock, faults, delivered>>

\* Mutant: the monitor only notices that its own token is refused.
MonitorCancelsRevokedOnly(d) ==
  /\ device[d].pc = "running"
  /\ connector # "active"
  /\ device' = [device EXCEPT ![d].pc = "completing", ![d].ok = FALSE]
  /\ UNCHANGED <<connector, taskRow, redis, handlers, session, tokens, clock, faults, delivered>>

\* The lease monitor finds the lease gone, or is refused, and cancels the run.
MonitorCancels(d) ==
  /\ device[d].pc = "running"
  /\ \/ connector # "active"
     \/ ~ LeaseActive(device[d].task, device[d].lease)
  /\ device' = [device EXCEPT ![d].pc = "completing", ![d].ok = FALSE]
  /\ UNCHANGED <<connector, taskRow, redis, handlers, session, tokens, clock, faults, delivered>>

\* The complete request is authenticated and a successful result goes to Redis.
StoreResult(d) ==
  /\ device[d].pc = "completing"
  /\ IF connector = "active"
       THEN /\ DeviceAt(d, "stored")
            /\ results' = IF device[d].ok
                            THEN results \cup {[task |-> device[d].task, lease |-> device[d].lease,
                                                expiresAt |-> clock + ResultTTL]}
                            ELSE results
       ELSE DeviceIdle(d) /\ UNCHANGED results
  /\ UNCHANGED <<connector, taskRow, payload, handlers, session, tokens, clock, faults, delivered>>

\* Mutant: the result of a refused completion stays in Redis.
ResultsKept(t, l) == results

\* A result whose lease is refused is deleted.
ResultsAfter(t, l) ==
  IF LeaseActive(t, l) THEN results ELSE {r \in results : ~ (r.task = t /\ r.lease = l)}

\* The row is completed or failed.
CompleteTask(d) ==
  LET t == device[d].task
      l == device[d].lease
      ok == device[d].ok
  IN
  /\ device[d].pc = "stored"
  /\ CloseRow(t, l, IF ok THEN "completed" ELSE "failed", IF ok THEN l ELSE 0)
  /\ results' = ResultsAfter(t, l)
  /\ DeviceIdle(d)
  /\ UNCHANGED <<connector, action, expiresAt, payload, handlers, session,
                 tokens, clock, faults, delivered>>

(***************************************************************************)
(* Background maintenance, revocation, time, and faults.                   *)
(***************************************************************************)

\* MaintainAIClientState, every minute: its statement on ai_client_tasks.
MaintainTasks ==
  /\ \E t \in Tasks : Stale(t)
  /\ SweepTo(SweptStatus)
  /\ UNCHANGED <<connector, action, expiresAt, resultKey, redis, handlers, session, device,
                 tokens, clock, faults, delivered>>

RevokedStatus == [t \in Tasks |-> IF Active(t) THEN "cancelled" ELSE status[t]]

\* RevokeAIClientConnector: one transaction.
RevokeConnector ==
  /\ connector = "active"
  /\ connector' = "revoked"
  /\ SweepTo(RevokedStatus)
  /\ UNCHANGED <<action, expiresAt, resultKey, redis, handlers, session, device,
                 tokens, clock, faults, delivered>>

\* Time passes, and Redis drops the entries whose TTL ran out.
Tick ==
  /\ clock < MaxTime
  /\ clock' = clock + 1
  /\ payload' = [t \in Tasks |-> IF payload[t] <= clock + 1 THEN 0 ELSE payload[t]]
  /\ results' = {r \in results : r.expiresAt > clock + 1}
  /\ UNCHANGED <<connector, taskRow, handlers, session, device, tokens, faults, delivered>>

\* The server process serving a handler or a request dies.
HandlerDies(t) ==
  /\ Fault
  /\ handler[t] \notin {"idle", "done", "dead"}
  /\ Goto(t, "dead")
  /\ UNCHANGED <<connector, taskRow, redis, gone, deadline, answer, session, device,
                 tokens, clock, delivered>>

SessionDies(d) ==
  /\ Fault
  /\ session[d].pc # "idle"
  /\ EndSession(d)
  /\ UNCHANGED <<connector, taskRow, redis, handlers, device, tokens, clock, delivered>>

\* The response carrying a claimed task is lost; the server still drops the prompt.
ResponseLost(d) ==
  /\ Fault
  /\ session[d].pc = "loaded"
  /\ SessionAt(d, "sent")
  /\ UNCHANGED <<connector, taskRow, redis, handlers, device, tokens, clock, delivered>>

\* The connector process restarts, or its complete request is lost.
DeviceRestarts(d) ==
  /\ Fault
  /\ device[d].pc \notin {"idle", "polling"}
  /\ DeviceIdle(d)
  /\ UNCHANGED <<connector, taskRow, redis, handlers, session, tokens, clock, delivered>>

-----------------------------------------------------------------------------
HandlerStep(t) ==
  \/ SweepBeforeInsert(t) \/ SnapshotConnector(t) \/ InsertTask(t) \/ InsertBusy(t)
  \/ Poll(t) \/ WaitCancelled(t) \/ FetchResult(t) \/ DeletePayload(t)

SessionStep(d) ==
  \/ ClaimTask(d) \/ ClaimNothing(d) \/ LoadPayload(d) \/ PayloadUnavailable(d)
  \/ SendTask(d) \/ DropDeliveredPayload(d)

DeviceStep(d) ==
  \/ StartTask(d) \/ MonitorCancels(d) \/ StoreResult(d) \/ CompleteTask(d)

Next ==
  \/ \E t \in Tasks, a \in Kinds : PutPayload(t, a)
  \/ \E t \in Tasks : HandlerStep(t) \/ Disconnect(t) \/ HandlerDies(t)
  \/ \E d \in Devices :
       \/ PollTask(d) \/ SessionStep(d) \/ GiveUpPoll(d) \/ DeviceStep(d)
       \/ FinishTask(d, TRUE) \/ FinishTask(d, FALSE)
       \/ SessionDies(d) \/ ResponseLost(d) \/ DeviceRestarts(d)
  \/ MaintainTasks
  \/ RevokeConnector
  \/ Tick

Spec == Init /\ [][Next]_vars

\* Handlers, sessions and processes that are not killed keep running, the
\* maintenance ticker fires every minute, and time passes.  Nothing is assumed
\* of callers, of the official client, or of the owner who revokes.
Fairness ==
  /\ \A t \in Tasks : WF_vars(HandlerStep(t))
  /\ \A d \in Devices : WF_vars(SessionStep(d)) /\ WF_vars(DeviceStep(d))
  /\ WF_vars(MaintainTasks)
  /\ WF_vars(Tick)

FairSpec == Spec /\ Fairness
-----------------------------------------------------------------------------
(***************************************************************************)
(* Properties.                                                             *)
(***************************************************************************)

\* A claim request and a connector process hold a task and its lease, or nothing.
SessionRecords ==
  [pc : {"idle", "authed"}, task : {NoTask}, lease : {0}]
    \cup [pc : {"claimed", "loaded", "sent"}, task : Tasks, lease : 0..tokens]
DeviceRecords ==
  [pc : {"idle", "polling"}, task : {NoTask}, lease : {0}, ok : {FALSE}]
    \cup [pc : {"received", "running", "completing", "stored"}, task : Tasks,
          lease : 0..tokens, ok : BOOLEAN]

\* Every variable has its type; every lease in use is a token already drawn.
TypeOK ==
  /\ connector \in {"active", "revoked"}
  /\ status \in [Tasks -> Statuses]
  /\ action \in [Tasks -> Actions]
  /\ expiresAt \in [Tasks -> Nat]
  /\ lease \in [Tasks -> 0..tokens]
  /\ leaseExpiresAt \in [Tasks -> Nat]
  /\ resultKey \in [Tasks -> 0..tokens]
  /\ payload \in [Tasks -> Nat]
  /\ results \subseteq [task : Tasks, lease : 0..tokens, expiresAt : Nat]
  /\ handler \in [Tasks -> HandlerStates]
  /\ gone \in [Tasks -> BOOLEAN]
  /\ deadline \in [Tasks -> Nat]
  /\ answer \in [Tasks -> Answers]
  /\ session \in [Devices -> SessionRecords]
  /\ device \in [Devices -> DeviceRecords]
  /\ tokens \in Nat
  /\ clock \in Nat
  /\ faults \in Nat
  /\ delivered \in [Tasks -> Nat]

\* The connector runs one task at a time: across inserts, claims, give-backs and
\* expiries by different handlers, at most one row is queued or claimed.
AtMostOneActive == \A t, u \in Tasks : Active(t) /\ Active(u) => t = u

\* The configured task timeout gives every claim a lease as long as its task.  It
\* does from one minute (the lifetime of an identity check) to five minutes.
LeaseCoversTask == \A a \in Kinds : Lifetime(a) <= LeaseDuration

\* "A lost delivery fails closed and is never retried": whatever crashes or is
\* lost, a prompt is handed to a connector process at most once.
PromptDeliveredOnce == \A t \in Tasks : delivered[t] <= 1

\* A result kept in Redis belongs to a row completed under the same lease, or to
\* a complete request still being served: the results of refused, late or
\* superseded completions are deleted (unless the server dies in between).
RefusedResultsDeleted ==
  faults = 0 =>
    \A r \in results :
      \/ status[r.task] = "completed" /\ resultKey[r.task] = r.lease
      \/ \E d \in Devices : /\ device[d].pc = "stored"
                            /\ device[d].task = r.task
                            /\ device[d].lease = r.lease

\* Cancellation, completion, expiry and revocation race for a row; whichever
\* closes it first wins, and neither its status nor its result changes again.
OutcomeIsFinal ==
  [][\A t \in Tasks : status[t] \in Terminal =>
       status'[t] = status[t] /\ resultKey'[t] = resultKey[t]]_vars

\* What the caller is told is what happened to its task: a success is reported
\* only for a completed row whose prompt a device received.
AnswerIsHonest ==
  \A t \in Tasks :
    /\ answer[t] = "ok" => status[t] = "completed" /\ delivered[t] > 0
    /\ answer[t] = "failed" => status[t] \in Terminal \ {"completed"}

\* No task blocks the connector for ever, whatever process died holding it.
ConnectorFreed == \A t \in Tasks : Active(t) ~> ~ Active(t)

\* Every request is answered unless the server process serving it dies.
HandlerReturns ==
  \A t \in Tasks : handler[t] = "put" ~> handler[t] \in {"done", "dead"}

\* After the caller has left, the official client does not keep working for it.
DisconnectStopsRun ==
  \A t \in Tasks :
    gone[t] ~> ~ \E d \in Devices : device[d].pc = "running" /\ device[d].task = t

\* "After the caller disconnects TokHub cancels the task lease": a handler that
\* returned because its caller left leaves no active row behind.
DisconnectCancelsTask ==
  \A t \in Tasks : handler[t] = "done" /\ gone[t] => ~ Active(t)

\* The queue implements the abstract at-most-once task.
Outcome ==
  [t \in Tasks |-> CASE status[t] = "absent" -> "none"
                   [] Active(t) -> "open"
                   [] status[t] = "completed" -> "ok"
                   [] OTHER -> "notok"]

OnceTask == INSTANCE OnceTask WITH outcome <- Outcome, runs <- delivered

\* The detailed queue is an implementation of OnceTask: one open task at a time,
\* run at most once, successful only after it was run, with a final outcome.
ImplementsOnceTask == OnceTask!Spec
=============================================================================
