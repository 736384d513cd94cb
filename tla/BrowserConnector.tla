-------------------------- MODULE BrowserConnector --------------------------
(***************************************************************************)
(* The local browser connector of one owner: a device that is paired once, *)
(* polls for tasks and runs them in the owner's browser, and the server's  *)
(* handlers that queue a task and wait for its answer.                     *)
(*                                                                         *)
(* One task is open at a time.  A device holds a task by a lease; a lease  *)
(* that ends puts the task back into the queue, so a second run of the     *)
(* device may work on it while the first one still does.  Handlers give up *)
(* after a while, the owner may revoke the device at any moment.           *)
(*                                                                         *)
(* A revocation is a transaction of several statements.  Until its commit  *)
(* everybody else reads the rows as they were, and only writers of a row   *)
(* that it has changed wait for it.                                        *)
(***************************************************************************)
EXTENDS Naturals, FiniteSets

CONSTANTS
  BTasks,      \* task ids
  BWaiters,    \* handlers that wait for a task
  BDevices,    \* runs of the connector program with the same device token
  NoTask,      \* no task
  MaxLeases,   \* bound on the leases of a task
  MaxBEvents   \* bound on the requests of the owner and the callers

ASSUME BrowserAssumption == NoTask \notin BTasks /\ MaxLeases \in Nat /\ MaxBEvents \in Nat

VARIABLES
  bridge,   \* ai_browser_connectors.status
  pairing,  \* whether its pairing code still works
  bconn,    \* ai_connections.status of the connection that uses the connector
  btask,    \* ai_browser_tasks
  bwait,    \* handlers
  bdev,     \* device runs
  brisk,    \* ai_browser_risk_states.state
  revocation, \* a revocation that is not committed: the rows it has changed
  bEvents

browserVars == <<bridge, pairing, bconn, btask, bwait, bdev, brisk, revocation, bEvents>>

BTaskKinds == {"ask", "status", "connect"}
RiskStates == {"normal", "cooldown", "paused", "reauth_required", "security_locked", "adapter_blocked"}
NotWaiting == [pc |-> "idle", kind |-> "ask", task |-> NoTask, result |-> "none"]
NoRun == [pc |-> "idle", task |-> NoTask, lease |-> 0]
NewTask == [status |-> "none", over |-> FALSE, lease |-> 0, leaseOver |-> FALSE,
            prompt |-> FALSE, answeredBy |-> 0, reply |-> FALSE, late |-> FALSE]
NoRevocation == [on |-> FALSE, tasks |-> {}, conn |-> FALSE]

BrowserTypeOK ==
  /\ bridge \in {"none", "pending", "active", "revoked"} /\ pairing \in BOOLEAN
  /\ bconn \in {"none", "active", "attention", "disabled"}
  /\ btask \in [BTasks -> [status : {"none", "queued", "claimed", "completed", "failed", "expired", "cancelled"},
                           over : BOOLEAN, lease : 0 .. MaxLeases, leaseOver : BOOLEAN,
                           prompt : BOOLEAN, answeredBy : 0 .. MaxLeases, reply : BOOLEAN, late : BOOLEAN]]
  /\ bwait \in [BWaiters -> [pc : {"idle", "ready", "inserting", "waiting", "noting"}, kind : BTaskKinds,
                             task : BTasks \cup {NoTask},
                             result : {"none", "completed", "failed", "expired", "cancelled", "timeout"}]]
  /\ bdev \in [BDevices -> [pc : {"idle", "claiming", "running", "done", "answering"}, task : BTasks \cup {NoTask},
                            lease : 0 .. MaxLeases]]
  /\ brisk \in RiskStates /\ bEvents \in 0 .. MaxBEvents
  /\ revocation \in [on : BOOLEAN, tasks : SUBSET BTasks, conn : BOOLEAN]

BrowserInit ==
  /\ bridge = "none" /\ pairing = FALSE /\ bconn = "none"
  /\ btask = [t \in BTasks |-> NewTask]
  /\ bwait = [h \in BWaiters |-> NotWaiting]
  /\ bdev = [d \in BDevices |-> NoRun]
  /\ brisk = "normal" /\ bEvents = 0 /\ revocation = NoRevocation

BEvent == bEvents < MaxBEvents /\ bEvents' = bEvents + 1
IsOpen(t) == btask[t].status \in {"queued", "claimed"}

\* Rows that others may write.
Free(t) == t \notin revocation.tasks
ConnectionFree == ~revocation.conn

-----------------------------------------------------------------------------
(* The connector. *)

\* CreateAIBrowserConnector: a row and its pairing code.
PairingOpens == bridge' = "pending" /\ pairing' = TRUE

\* createAIBrowserConnector
CreateAIBrowserConnector ==
  /\ bridge = "none" /\ PairingOpens
  /\ UNCHANGED <<bconn, btask, bwait, bdev, brisk, revocation, bEvents>>

PairingCodeExpires ==
  /\ pairing /\ pairing' = FALSE
  /\ UNCHANGED <<bridge, bconn, btask, bwait, bdev, brisk, revocation, bEvents>>

\* PairAIBrowserConnector: the code works once.
CodeTaken == bridge = "pending" /\ pairing /\ ~revocation.on /\ bridge' = "active" /\ pairing' = FALSE

\* pairAIBrowserConnector
PairAIBrowserConnector ==
  /\ CodeTaken
  /\ UNCHANGED <<bconn, btask, bwait, bdev, brisk, revocation, bEvents>>

\* Mutant: the prompt stays in the row.
ClosedWithPrompt(t, s) == [btask[t] EXCEPT !.status = s, !.lease = 0, !.leaseOver = FALSE]

\* A task that ends keeps neither its prompt nor its lease.
Closed(t, s) == [btask[t] EXCEPT !.status = s, !.prompt = FALSE, !.lease = 0, !.leaseOver = FALSE]

\* RevokeAIBrowserConnector: the connector, the tasks that are open and the connection,
\* each in a statement of its own.
RevokeAIBrowserConnector ==
  /\ BEvent
  /\ bridge \in {"pending", "active"} /\ ~revocation.on
  /\ revocation' = [on |-> TRUE, tasks |-> {t \in BTasks : IsOpen(t)}, conn |-> bconn # "none"]
  /\ UNCHANGED <<bridge, pairing, bconn, btask, bwait, bdev, brisk>>

CancelledTasks ==
  [t \in BTasks |-> IF IsOpen(t) /\ ~Free(t) THEN [Closed(t, "cancelled") EXCEPT !.reply = FALSE] ELSE btask[t]]

\* Its commit, or the loss of its database connection.
RevocationCommits ==
  /\ revocation.on /\ revocation' = NoRevocation
  /\ bridge' = "revoked" /\ pairing' = FALSE
  /\ btask' = CancelledTasks
  /\ bconn' = IF ConnectionFree THEN bconn ELSE "disabled"
  /\ UNCHANGED <<bwait, bdev, brisk, bEvents>>

RevocationFails ==
  /\ revocation.on /\ revocation' = NoRevocation
  /\ UNCHANGED <<bridge, pairing, bconn, btask, bwait, bdev, brisk, bEvents>>

-----------------------------------------------------------------------------
(* Handlers. *)

\* ReserveAIBrowserConnectionRequest: the account may be used; its limits may refuse at
\* any time.
MayReserveBrowser == brisk = "normal"

\* handleOpenCLIBrowserGatewayGeneration: the connection and the device are fit.
AskBrowser(h) ==
  /\ BEvent
  /\ bwait[h].pc = "idle" /\ bconn \in {"active", "attention"} /\ bridge = "active" /\ MayReserveBrowser
  /\ bwait' = [bwait EXCEPT ![h] = [NotWaiting EXCEPT !.pc = "ready"]]
  /\ UNCHANGED <<bridge, pairing, bconn, btask, bdev, brisk, revocation>>

\* A handler that looks at the login in the browser.
LookAtLogin(h, kind) ==
  /\ BEvent
  /\ bwait[h].pc = "idle" /\ bridge = "active"
  /\ bwait' = [bwait EXCEPT ![h] = [NotWaiting EXCEPT !.pc = "ready", !.kind = kind]]
  /\ UNCHANGED <<bridge, pairing, bconn, btask, bdev, brisk, revocation>>

CreateAIBrowserConnection(h) == bconn = "none" /\ LookAtLogin(h, "connect")
ValidateAIBrowserConnection(h) == bconn # "none" /\ LookAtLogin(h, "status")

\* Tasks past their time, for the statements that begin by closing them.
Expiring(t) == IF IsOpen(t) /\ btask[t].over THEN Closed(t, "expired") ELSE btask[t]

\* CreateAIBrowserTask: a statement closes what is overdue, another one reads the status
\* of the connector without a lock.
CreateAIBrowserTask(h) ==
  /\ bwait[h].pc = "ready"
  /\ \A t \in BTasks : Free(t) \/ Expiring(t) = btask[t]
  /\ btask' = [t \in BTasks |-> Expiring(t)]
  /\ bwait' = [bwait EXCEPT ![h] = IF bridge = "active" THEN [@ EXCEPT !.pc = "inserting"] ELSE NotWaiting]
  /\ UNCHANGED <<bridge, pairing, bconn, bdev, brisk, revocation, bEvents>>

\* The row of that statement: the index over open tasks refuses a second one, and waits
\* for one that is being cancelled.
InsertBrowserTask(h, t) ==
  /\ bwait[h].pc = "inserting" /\ btask[t].status = "none"
  /\ \A u \in BTasks : ~IsOpen(u)
  /\ btask' = [btask EXCEPT ![t] = [NewTask EXCEPT !.status = "queued", !.prompt = TRUE,
                                                  !.late = revocation.on \/ bridge = "revoked"]]
  /\ bwait' = [bwait EXCEPT ![h].pc = "waiting", ![h].task = t]
  /\ UNCHANGED <<bridge, pairing, bconn, bdev, brisk, revocation, bEvents>>

ConnectorBusy(h) ==
  /\ bwait[h].pc = "inserting" /\ \E t \in BTasks : IsOpen(t) /\ Free(t)
  /\ bwait' = [bwait EXCEPT ![h] = NotWaiting]
  /\ UNCHANGED <<bridge, pairing, bconn, btask, bdev, brisk, revocation, bEvents>>

\* waitForAIBrowserTask: the answer is read, then scrubbed if that works.
WaitEnds(h) ==
  LET t == bwait[h].task
  IN /\ bwait[h].pc = "waiting" /\ ~IsOpen(t)
     /\ \E scrubbed \in BOOLEAN : btask' = [btask EXCEPT ![t].reply = @ /\ ~scrubbed]
     /\ bwait' = [bwait EXCEPT ![h].pc = "noting", ![h].result = btask[t].status]
     /\ UNCHANGED <<bridge, pairing, bconn, bdev, brisk, revocation, bEvents>>

\* The handler's time is over, or its caller is gone: ExpireAIBrowserTaskForOwner
\* closes an open task and drops the answer of one that has just been closed.  A read
\* that fails at that moment leaves the task alone.
GivenUp(t) == IF IsOpen(t) THEN [Closed(t, "expired") EXCEPT !.reply = FALSE]
              ELSE [btask[t] EXCEPT !.reply = FALSE]

WaitTimesOut(h) ==
  LET t == bwait[h].task
  IN /\ bwait[h].pc = "waiting"
     /\ \E cleaned \in {FALSE, Free(t)} : btask' = [btask EXCEPT ![t] = IF cleaned THEN GivenUp(t) ELSE @]
     /\ bwait' = [bwait EXCEPT ![h].pc = "noting", ![h].result = "timeout"]
     /\ UNCHANGED <<bridge, pairing, bconn, bdev, brisk, revocation, bEvents>>

\* RecordAIBrowserConnectionResult: a success ends any state but a pause or a fresh
\* lock; an error decides the state whatever it was, a pause included.
AfterSuccess == {s \in {"normal", brisk} : brisk = "paused" => s = "paused"}
AfterFailure(result) ==
  IF result \in {"timeout", "expired", "cancelled"} THEN {"cooldown"} ELSE RiskStates \ {"normal", "paused"}

\* SetAIBrowserConnectionAuthStatus writes over anything but a deleted connection.
WritesStatus(h) ==
  \/ bwait[h].result = "completed"
  \/ bwait[h].kind # "connect" /\ (bwait[h].kind = "ask" => bwait[h].result # "timeout")

AuthStatusAfter(h) ==
  IF ~WritesStatus(h) THEN bconn ELSE IF bwait[h].result = "completed" THEN "active" ELSE "attention"

NoteResult(h) ==
  /\ bwait[h].pc = "noting" /\ (WritesStatus(h) => ConnectionFree)
  /\ bconn' = AuthStatusAfter(h)
  /\ IF bwait[h].kind = "connect" THEN UNCHANGED brisk
     ELSE brisk' \in IF bwait[h].result = "completed" THEN AfterSuccess ELSE AfterFailure(bwait[h].result)
  /\ bwait' = [bwait EXCEPT ![h] = NotWaiting]
  /\ UNCHANGED <<bridge, pairing, btask, bdev, revocation, bEvents>>

\* SetAIBrowserConnectionPaused.
RiskPaused(paused) ==
  /\ brisk \in {"normal", "paused"}
  /\ brisk' = IF paused THEN "paused" ELSE "normal"

\* setAIBrowserConnectionPaused
SetPaused(paused) ==
  /\ BEvent
  /\ bconn # "none" /\ ConnectionFree /\ RiskPaused(paused)
  /\ bconn' = IF paused THEN "attention" ELSE "active"
  /\ UNCHANGED <<bridge, pairing, btask, bwait, bdev, revocation>>

CooldownEnds ==
  /\ brisk = "cooldown" /\ brisk' = "normal"
  /\ UNCHANGED <<bridge, pairing, bconn, btask, bwait, bdev, revocation, bEvents>>

-----------------------------------------------------------------------------
(* The device. *)

\* AuthenticateAIBrowserConnector
TokenHolds == bridge = "active"

\* deviceAIBrowserConnector, before the claim as a transaction of its own.
DevicePolls(d) ==
  /\ bdev[d].pc = "idle" /\ TokenHolds
  /\ bdev' = [bdev EXCEPT ![d].pc = "claiming"]
  /\ UNCHANGED <<bridge, pairing, bconn, btask, bwait, brisk, revocation, bEvents>>

\* ClaimAIBrowserTask: overdue tasks end, a task whose lease has ended is queued again,
\* and the queued one that nobody has locked is handed out under a new lease.
Requeued(t) == LET u == Expiring(t)
               IN IF u.status = "claimed" /\ u.leaseOver
                  THEN [u EXCEPT !.status = "queued", !.leaseOver = FALSE] ELSE u

Handed(t) == Free(t) /\ Requeued(t).status = "queued"
RequeueWaits == \E t \in BTasks : ~Free(t) /\ Requeued(t) # btask[t]
Leases(t) == btask[t].lease + 1

ClaimAIBrowserTask(d, t) ==
  /\ bdev[d].pc = "claiming" /\ ~RequeueWaits /\ Handed(t) /\ btask[t].lease < MaxLeases
  /\ btask' = [u \in BTasks |-> IF u = t THEN [Requeued(t) EXCEPT !.status = "claimed", !.lease = Leases(t)]
                                ELSE Requeued(u)]
  /\ \E received \in BOOLEAN :
       bdev' = [bdev EXCEPT ![d] = IF received THEN [pc |-> "running", task |-> t, lease |-> Leases(t)] ELSE NoRun]
  /\ UNCHANGED <<bridge, pairing, bconn, bwait, brisk, revocation, bEvents>>

NothingToClaim(d) ==
  /\ bdev[d].pc = "claiming" /\ ~RequeueWaits /\ \A t \in BTasks : ~Handed(t)
  /\ btask' = [t \in BTasks |-> Requeued(t)]
  /\ bdev' = [bdev EXCEPT ![d] = NoRun]
  /\ UNCHANGED <<bridge, pairing, bconn, bwait, brisk, revocation, bEvents>>

\* processOneTask: the login is checked, then the prompt is typed.
DeviceRuns(d) ==
  /\ bdev[d].pc = "running"
  /\ bdev' = [bdev EXCEPT ![d].pc = "done"]
  /\ UNCHANGED <<bridge, pairing, bconn, btask, bwait, brisk, revocation, bEvents>>

\* completeAIBrowserConnectorTask: the device is known first.
AnswerIsSent(d) ==
  /\ bdev[d].pc = "done"
  /\ bdev' = [bdev EXCEPT ![d] = IF TokenHolds THEN [@ EXCEPT !.pc = "answering"] ELSE NoRun]
  /\ UNCHANGED <<bridge, pairing, bconn, btask, bwait, brisk, revocation, bEvents>>

\* Mutant: any run of the device may answer.
AcceptedFromAnyLease(d) ==
  btask[bdev[d].task].status = "claimed" /\ ~btask[bdev[d].task].leaseOver /\ ~btask[bdev[d].task].over

\* CompleteAIBrowserTask: only under the lease that holds, and in time.
Accepted(d) ==
  LET t == bdev[d].task
  IN /\ btask[t].status = "claimed" /\ btask[t].lease = bdev[d].lease
     /\ ~btask[t].leaseOver /\ ~btask[t].over

CompleteAIBrowserTask(d) ==
  LET t == bdev[d].task
  IN /\ bdev[d].pc = "answering" /\ (Accepted(d) => Free(t))
     /\ IF Accepted(d)
        THEN \E s \in {"completed", "failed"} :
               btask' = [btask EXCEPT ![t] = [Closed(t, s) EXCEPT !.lease = btask[t].lease, !.reply = TRUE,
                                                                  !.answeredBy = bdev[d].lease]]
        ELSE UNCHANGED btask
     /\ bdev' = [bdev EXCEPT ![d] = NoRun]
     /\ UNCHANGED <<bridge, pairing, bconn, bwait, brisk, revocation, bEvents>>

\* The program is stopped, or its call does not get through.
DeviceStops(d) ==
  /\ bdev[d].pc # "idle"
  /\ bdev' = [bdev EXCEPT ![d] = NoRun]
  /\ UNCHANGED <<bridge, pairing, bconn, btask, bwait, brisk, revocation, bEvents>>

-----------------------------------------------------------------------------
(* Time and maintenance. *)

LeaseEnds(t) ==
  /\ btask[t].status = "claimed" /\ ~btask[t].leaseOver
  /\ btask' = [btask EXCEPT ![t].leaseOver = TRUE]
  /\ UNCHANGED <<bridge, pairing, bconn, bwait, bdev, brisk, revocation, bEvents>>

TaskTimeEnds(t) ==
  /\ IsOpen(t) /\ ~btask[t].over
  /\ btask' = [btask EXCEPT ![t].over = TRUE]
  /\ UNCHANGED <<bridge, pairing, bconn, bwait, bdev, brisk, revocation, bEvents>>

\* MaintainAIBrowserTasks, every minute: overdue tasks end, old answers go.
MaintainAIBrowserTasks(old) ==
  /\ old \subseteq {t \in BTasks : btask[t].reply}
  /\ \A t \in BTasks : Free(t) \/ Expiring(t) = btask[t]
  /\ btask' = [t \in BTasks |-> IF IsOpen(t) /\ btask[t].over THEN [Closed(t, "expired") EXCEPT !.reply = FALSE]
                                ELSE [btask[t] EXCEPT !.reply = @ /\ t \notin old]]
  /\ UNCHANGED <<bridge, pairing, bconn, bwait, bdev, brisk, revocation, bEvents>>

BrowserNext ==
  \/ CreateAIBrowserConnector \/ PairingCodeExpires \/ PairAIBrowserConnector
  \/ RevokeAIBrowserConnector \/ RevocationCommits \/ RevocationFails
  \/ CooldownEnds \/ \E paused \in BOOLEAN : SetPaused(paused)
  \/ \E h \in BWaiters : \/ AskBrowser(h) \/ CreateAIBrowserConnection(h)
                         \/ ValidateAIBrowserConnection(h) \/ WaitEnds(h) \/ WaitTimesOut(h) \/ NoteResult(h)
                         \/ CreateAIBrowserTask(h) \/ ConnectorBusy(h)
                         \/ \E t \in BTasks : InsertBrowserTask(h, t)
  \/ \E d \in BDevices : \/ DevicePolls(d) \/ NothingToClaim(d) \/ DeviceRuns(d)
                         \/ AnswerIsSent(d) \/ CompleteAIBrowserTask(d) \/ DeviceStops(d)
                         \/ \E t \in BTasks : ClaimAIBrowserTask(d, t)
  \/ \E t \in BTasks : LeaseEnds(t) \/ TaskTimeEnds(t)
  \/ \E old \in SUBSET BTasks : MaintainAIBrowserTasks(old)

BrowserSpec == BrowserInit /\ [][BrowserNext]_browserVars

-----------------------------------------------------------------------------
(* Properties. *)

\* Whoever worked on a task, its answer comes from the newest lease and stays the only
\* one: a run that was overtaken never answers for the one that replaced it, and an
\* answered task is not handed out again (CompleteAIBrowserTask, ClaimAIBrowserTask).
NewestLeaseAnswers ==
  \A t \in BTasks : btask[t].answeredBy # 0 =>
     /\ btask[t].answeredBy = btask[t].lease
     /\ ~IsOpen(t)
     /\ \A d \in BDevices : bdev[d].task = t => bdev[d].lease < btask[t].answeredBy

\* The owner's prompt leaves the database with the end of its task, however it ends.
\* A revocation leaves the device no work that was there before it: a task that is open
\* afterwards was inserted while the revocation ran or after it, by a statement that had
\* read the connector before the commit (RevokeAIBrowserConnector, CreateAIBrowserTask,
\* ExpireAIBrowserTaskForOwner, MaintainAIBrowserTasks).
PromptsEndWithTheirTask ==
  \A t \in BTasks : /\ btask[t].prompt => IsOpen(t)
                    /\ bridge = "revoked" /\ IsOpen(t) => btask[t].late
=============================================================================
