------------------------------- MODULE Probes -------------------------------
(***************************************************************************)
(* The probes of one platform channel.                                     *)
(*                                                                         *)
(* The scheduler publishes probe tasks, one layer each, to JetStream.      *)
(* Prober processes take them, one at a time in a process, run the layer   *)
(* under the run id of the task, store its result, combine the latest      *)
(* results of the three layers into the status of the channel and open or  *)
(* close its incident.  Callers of the API run the layers one after the    *)
(* other without a task and without waiting for anybody.  Administrators   *)
(* disable, enable and delete the channel and work on its incidents by     *)
(* hand.  Processes die, statements fail and acknowledgements get lost.    *)
(*                                                                         *)
(* A layer's result is its summary: the five statuses that Summarize and   *)
(* SynthesizeStatusWithL3 tell apart.  "auth_error" and "warn" also stand  *)
(* for a result whose error type says so.                                  *)
(***************************************************************************)
EXTENDS Integers, Sequences, FiniteSets

CONSTANTS
  Procs,         \* prober processes
  Callers,       \* API requests that probe the channel
  MaxRuns,       \* bound on the probe runs
  DueLayers,     \* the layers that become due
  Outcomes,      \* Outcomes[l]: what a probe of layer l may find
  ManualLayers,  \* the layers a caller probes, in order
  MaxAge,        \* schedulerTaskMaxAge
  AckWait,       \* probeTaskAckWait
  HandNames,     \* statuses administrators give to incidents
  MaxEvents      \* bound on crashes, failed statements, lost acks and
                 \* administrative changes, together

Layers == {"l1", "l2", "l3"}
LayerOrder == <<"l1", "l2", "l3">>
Summaries == {"ok", "warn", "down", "auth_error", "na"}
Faulty == {"degraded", "connectivity_down", "functional_down", "auth_error"}
Decisions == Faulty \cup {"healthy", "unknown"}
Removed == {"disabled", "deleted"}
IncidentNames == Decisions \cup {"manual"}
Runs == 1..MaxRuns
NoRun == 0
QueueWorkers == Procs \X DueLayers   \* a subscription for each layer with tasks
Workers == QueueWorkers \cup Callers

ASSUME ConstantsAssumption ==
  /\ IsFiniteSet(Procs) /\ IsFiniteSet(Callers)
  /\ Callers \cap QueueWorkers = {}
  /\ {MaxRuns, MaxAge, AckWait, MaxEvents} \subseteq Nat
  /\ DueLayers \subseteq Layers
  /\ Outcomes \in [Layers -> SUBSET Summaries]
  /\ ManualLayers \in Seq(Layers) /\ ManualLayers # <<>>
  /\ HandNames \subseteq IncidentNames

\* TestProbeTaskAckWaitCoversSerialBacklog: five minutes against two.
ASSUME AckWaitExceedsMaxAge == MaxAge < AckWait

VARIABLES
  status,    \* channels.status
  incident,  \* the status of the open incident, "none" without
  row,       \* probe_runs and probe_results
  msg,       \* JetStream: the task of a run
  job,       \* what the workers do
  touched,   \* has an incident been changed by hand since the last transition?
  faults, edits

vars == <<status, incident, row, msg, job, touched, faults, edits>>

Rows == [layer : Layers \cup {"none"}, started : Nat, finished : BOOLEAN,
         result : Summaries \cup {"none"}]
Messages == [state : {"none", "queued", "unacked", "settled"}, age : Nat, since : Nat]
Jobs == [pc : {"idle", "waiting", "target", "execute", "results", "complete", "read", "apply", "ack"},
         run : Runs \cup {NoRun},
         outcome : Summaries,
         seen : Seq(Summaries),   \* the summaries read so far
         todo : Seq(Layers),      \* what a caller still has to probe
         clean : BOOLEAN]         \* has nobody interfered since the run was completed?

Idle == [pc |-> "idle", run |-> NoRun, outcome |-> "na", seen |-> <<>>, todo |-> <<>>, clean |-> FALSE]

TypeOK ==
  /\ status \in Decisions \cup Removed
  /\ incident \in IncidentNames \cup {"none"}
  /\ row \in [Runs -> Rows]
  /\ msg \in [Runs -> Messages]
  /\ job \in [Workers -> Jobs]
  /\ touched \in BOOLEAN
  /\ faults \in Nat /\ edits \in Nat

\* A channel is created with status unknown, or disabled, and without history.
Init ==
  /\ status \in {"unknown", "disabled"}
  /\ incident = "none"
  /\ row = [r \in Runs |-> [layer |-> "none", started |-> 0, finished |-> FALSE, result |-> "none"]]
  /\ msg = [r \in Runs |-> [state |-> "none", age |-> 0, since |-> 0]]
  /\ job = [w \in Workers |-> Idle]
  /\ touched = FALSE
  /\ faults = 0 /\ edits = 0

Fault == faults + edits < MaxEvents /\ faults' = faults + 1
Edit == faults + edits < MaxEvents /\ edits' = edits + 1

-----------------------------------------------------------------------------
(* Results and the status they add up to *)

\* LatestLayerSummary: the result of the run of the layer that started last
\* among those that have finished.
Finished(l) == {r \in Runs : row[r].layer = l /\ row[r].finished /\ row[r].result # "none"}
History(l) == [r \in Finished(l) |-> row[r]]
Latest(h) == CHOOSE r \in DOMAIN h : \A q \in DOMAIN h : h[q].started <= h[r].started
ResultOf(h) == IF DOMAIN h = {} THEN "na" ELSE h[Latest(h)].result
Summary(l) == ResultOf(History(l))

SynthesizeStatusWithL3(l1, l2, l3) ==
  CASE l3 = "auth_error" -> "auth_error"
    [] l3 = "ok" -> IF l1 = "down" \/ l2 \notin {"ok", "na"} THEN "degraded" ELSE "healthy"
    [] l3 = "warn" -> "degraded"
    [] l3 = "down" -> "functional_down"
    [] l3 = "na" /\ l1 = "down" -> IF l2 = "ok" THEN "degraded" ELSE "connectivity_down"
    [] l3 = "na" /\ l1 # "down" /\ "na" \in {l1, l2} -> "unknown"
    [] l3 = "na" /\ l1 \notin {"down", "na"} /\ l2 = "auth_error" -> "auth_error"
    [] l3 = "na" /\ l1 \notin {"down", "na"} /\ l2 = "down" -> "connectivity_down"
    [] l3 = "na" /\ l1 = "ok" /\ l2 = "ok" -> "healthy"
    [] OTHER -> "unknown"

CurrentStatus == SynthesizeStatusWithL3(Summary("l1"), Summary("l2"), Summary("l3"))

-----------------------------------------------------------------------------
(* Tasks *)

Fresh(r) == row[r].layer = "none" /\ \A q \in Runs : q < r => row[q].layer # "none"

\* publishDue: the scheduler reads the channels that are neither disabled nor
\* deleted and publishes a task for a layer that is due.
PublishTask(l) ==
  /\ status \notin Removed
  /\ \E r \in Runs :
       /\ Fresh(r)
       /\ row' = [row EXCEPT ![r].layer = l]
       /\ msg' = [msg EXCEPT ![r].state = "queued"]
  /\ UNCHANGED <<status, incident, job, touched, faults, edits>>

\* staleSchedulerTask; every task comes from the scheduler.
Stale(r) == msg[r].age > MaxAge

\* Mutant: nothing is delivered twice.
DeliverableOnce(r) ==
  /\ msg[r].state = "queued"
  /\ \A q \in Runs : ~(msg[q].state = "unacked" /\ row[q].layer = row[r].layer)

\* queueSubscribe with MaxAckPending(1): JetStream hands a consumer the next
\* message when none is pending, or again the pending one whose wait is over.
Deliverable(r) ==
  \/ /\ msg[r].state = "queued"
     /\ \A q \in Runs : ~(msg[q].state = "unacked" /\ row[q].layer = row[r].layer)
  \/ msg[r].state = "unacked" /\ msg[r].age - msg[r].since >= AckWait

Settle(r) == msg' = [msg EXCEPT ![r].state = "settled"]

\* The callback of a subscription: a stale task is terminated, another one
\* waits for the probe slot of the process.
Deliver(w, r) ==
  /\ w \in QueueWorkers /\ job[w].pc = "idle"
  /\ row[r].layer = w[2] /\ Deliverable(r)
  /\ IF Stale(r)
       THEN Settle(r) /\ job' = job
       ELSE /\ msg' = [msg EXCEPT ![r].state = "unacked", ![r].since = msg[r].age]
            /\ job' = [job EXCEPT ![w] = [Idle EXCEPT !.pc = "waiting", !.run = r]]
  /\ UNCHANGED <<status, incident, row, touched, faults, edits>>

SlotBusy(p) == \E l \in DueLayers : job[<<p, l>>].pc \notin {"idle", "waiting"}

\* acquireProbeSlot and the second look at the age of the task.
AcquireProbeSlot(w) ==
  /\ w \in QueueWorkers /\ job[w].pc = "waiting"
  /\ ~SlotBusy(w[1])
  /\ IF Stale(job[w].run)
       THEN Settle(job[w].run) /\ job' = [job EXCEPT ![w] = Idle]
       ELSE msg' = msg /\ job' = [job EXCEPT ![w].pc = "target"]
  /\ UNCHANGED <<status, incident, row, touched, faults, edits>>

-----------------------------------------------------------------------------
(* A run *)

Goto(w, pc) == job' = [job EXCEPT ![w].pc = pc]

\* Nobody else's completed run counts as undisturbed any more.
Disturb(j, w) == [v \in Workers |-> IF v = w THEN j[v] ELSE [j[v] EXCEPT !.clean = FALSE]]

\* What follows RunLayerWithID: a task is acknowledged or terminated, a caller
\* goes on to its next layer or, after an error, gets the error.
NextManual(w) ==
  IF job[w].todo = <<>> THEN Idle
  ELSE [Idle EXCEPT !.pc = "target", !.todo = job[w].todo]
Terminate(w) ==
  /\ job' = [job EXCEPT ![w] = Idle]
  /\ IF w \in QueueWorkers THEN Settle(job[w].run) ELSE msg' = msg

\* ProbeNow, ProbeNowWithL3
ProbeNow(w) ==
  /\ w \in Callers /\ job[w].pc = "idle"
  /\ status # "deleted"
  /\ \E r \in Runs : Fresh(r)
  /\ job' = [job EXCEPT ![w].pc = "target", ![w].todo = ManualLayers]
  /\ UNCHANGED <<status, incident, row, msg, touched, faults, edits>>

\* UpsertProbeRun keeps the state and the start of a run it finds.
UpsertProbeRun(r, l) ==
  row' = [row EXCEPT ![r].layer = l,
                     ![r].started = IF @ = 0 THEN Cardinality({q \in Runs : row[q].started > 0}) + 1 ELSE @]

\* RunLayerWithIDAndCredential up to the probe: the target is read and the run
\* recorded.  A task carries its run id, a caller draws a new one.
BeginRun(w) ==
  /\ job[w].pc = "target"
  /\ IF status = "deleted"
       THEN Terminate(w) /\ row' = row
       ELSE /\ msg' = msg
            /\ IF w \in QueueWorkers
                 THEN /\ UpsertProbeRun(job[w].run, row[job[w].run].layer)
                      /\ Goto(w, "execute")
                 ELSE \E r \in Runs :
                        /\ Fresh(r)
                        /\ UpsertProbeRun(r, Head(job[w].todo))
                        /\ job' = [job EXCEPT ![w].pc = "execute", ![w].run = r, ![w].todo = Tail(@)]
  /\ UNCHANGED <<status, incident, touched, faults, edits>>

\* executor.L1, L2, L3, or credentialFailureSteps
Execute(w) ==
  /\ job[w].pc = "execute"
  /\ \E o \in Outcomes[row[job[w].run].layer] :
       job' = [job EXCEPT ![w].pc = "results", ![w].outcome = o]
  /\ UNCHANGED <<status, incident, row, msg, touched, faults, edits>>

\* Mutant: the run is not completed.
UpsertResultsOnly(w) ==
  /\ job[w].pc = "results"
  /\ row' = [row EXCEPT ![job[w].run].result = job[w].outcome]
  /\ job' = Disturb([job EXCEPT ![w].pc = "read", ![w].clean = TRUE, ![w].outcome = "na"], w)
  /\ UNCHANGED <<status, incident, msg, touched, faults, edits>>

\* persistProbeOutcome: UpsertProbeResults, CompleteProbeRun, the summaries of
\* the three layers and the status, a statement or transaction each.
UpsertProbeResults(w) ==
  /\ job[w].pc = "results"
  /\ row' = [row EXCEPT ![job[w].run].result = job[w].outcome]
  /\ job' = Disturb([job EXCEPT ![w].pc = "complete", ![w].outcome = "na"], w)
  /\ UNCHANGED <<status, incident, msg, touched, faults, edits>>

CompleteProbeRun(w) ==
  /\ job[w].pc = "complete"
  /\ row' = [row EXCEPT ![job[w].run].finished = TRUE]
  /\ job' = Disturb([job EXCEPT ![w].pc = "read", ![w].clean = TRUE], w)
  /\ UNCHANGED <<status, incident, msg, touched, faults, edits>>

LatestLayerSummary(w) ==
  /\ job[w].pc = "read"
  /\ LET l == LayerOrder[Len(job[w].seen) + 1] IN
       job' = [job EXCEPT ![w].seen = Append(@, Summary(l)),
                          ![w].pc = IF l = "l3" THEN "apply" ELSE "read"]
  /\ UNCHANGED <<status, incident, row, msg, touched, faults, edits>>

\* Mutant: an open incident is kept.
IncidentAfterFirst(d) == IF d = "healthy" THEN "none" ELSE IF incident # "none" THEN incident ELSE d

\* What a transition to status d does to the incident that is open: recovery
\* closes it, a manual one stays, another one is replaced.
IncidentAfter(d) ==
  CASE d = "healthy" -> "none"
    [] d # "healthy" /\ incident = "manual" -> "manual"
    [] OTHER -> d

\* ApplyProbeStatusWithL3, one transaction under the lock of the channel row.
ApplyProbeStatus(w) ==
  /\ job[w].pc = "apply"
  /\ LET d == SynthesizeStatusWithL3(job[w].seen[1], job[w].seen[2], job[w].seen[3]) IN
       IF status \in Removed
         THEN UNCHANGED <<status, incident, touched>>
         ELSE /\ status' = d
              /\ IF status = d
                   THEN UNCHANGED <<incident, touched>>
                   ELSE /\ incident' = IncidentAfter(d)
                        /\ touched' = (touched /\ incident' = "manual")
  /\ job' = Disturb([job EXCEPT ![w].pc = "ack", ![w].seen = <<>>], w)
  /\ UNCHANGED <<row, msg, faults, edits>>

\* The task is acknowledged and the slot released; a caller goes on.
Finish(w) ==
  /\ job[w].pc = "ack"
  /\ job' = [job EXCEPT ![w] = NextManual(w)]
  /\ IF w \in QueueWorkers THEN Settle(job[w].run) ELSE msg' = msg
  /\ UNCHANGED <<status, incident, row, touched, faults, edits>>

-----------------------------------------------------------------------------
(* Failures and time *)

\* A statement fails, or a process that shuts down stops waiting for the slot:
\* the task, unless another delivery has settled it meanwhile, is given back
\* (Nak) and delivered again; the caller gets the error.
RunFails(w) ==
  /\ Fault
  /\ job[w].pc \in {"waiting", "target", "results", "complete", "read", "apply"}
  /\ job' = [job EXCEPT ![w] = Idle]
  /\ msg' = IF w \in QueueWorkers /\ msg[job[w].run].state = "unacked"
              THEN [msg EXCEPT ![job[w].run].state = "queued"] ELSE msg
  /\ UNCHANGED <<status, incident, row, touched, edits>>

\* A prober process dies and comes back: its tasks stay unacknowledged.
Crash(p) ==
  /\ Fault
  /\ \E l \in DueLayers : job[<<p, l>>].pc # "idle"
  /\ job' = [w \in Workers |-> IF w \in {p} \X DueLayers THEN Idle ELSE job[w]]
  /\ UNCHANGED <<status, incident, row, msg, touched, edits>>

\* The acknowledgement is lost.
AckLost(w) ==
  /\ Fault
  /\ w \in QueueWorkers /\ job[w].pc = "ack"
  /\ job' = [job EXCEPT ![w] = Idle]
  /\ UNCHANGED <<status, incident, row, msg, touched, edits>>

\* A task older than MaxAge and AckWait together is old enough for everything.
Aging(r) == msg[r].state # "none" /\ msg[r].age < MaxAge + AckWait
Tick ==
  /\ \E r \in Runs : Aging(r)
  /\ msg' = [r \in Runs |-> IF Aging(r) THEN [msg[r] EXCEPT !.age = @ + 1] ELSE msg[r]]
  /\ UNCHANGED <<status, incident, row, job, touched, faults, edits>>

-----------------------------------------------------------------------------
(* Administrators *)

\* UpdatePlatformChannel, DisablePlatformChannel and the bulk forms; enabling
\* a channel that is not disabled leaves its status alone.
SetChannelEnabled(enabled) ==
  /\ Edit
  /\ IF enabled
       THEN status = "disabled" /\ status' = "unknown"
       ELSE status \notin Removed /\ status' = "disabled"
  /\ job' = [w \in Workers |-> [job[w] EXCEPT !.clean = FALSE]]
  /\ UNCHANGED <<incident, row, msg, touched, faults>>

DeletePlatformChannel ==
  /\ Edit
  /\ status # "deleted"
  /\ status' = "deleted"
  /\ UNCHANGED <<incident, row, msg, job, touched, faults>>

ByHand == Edit /\ touched' = TRUE /\ UNCHANGED <<status, row, msg, job, faults>>

\* CreateIncident; an open incident or the unique index refuses a second one.
CreateIncident(s) == ByHand /\ status # "deleted" /\ incident = "none" /\ incident' = s

\* ReopenIncident; some earlier incident has status s.
ReopenIncident(s) == ByHand /\ incident = "none" /\ incident' = s

UpdateIncident(s) == ByHand /\ incident # "none" /\ incident' = s

\* ResolveIncident, DeleteIncident and BulkUpdateIncidents of the open one
ResolveIncident == ByHand /\ incident # "none" /\ incident' = "none"

-----------------------------------------------------------------------------

WorkerStep(w) ==
  \/ AcquireProbeSlot(w) \/ BeginRun(w) \/ Execute(w)
  \/ UpsertProbeResults(w) \/ CompleteProbeRun(w) \/ LatestLayerSummary(w)
  \/ ApplyProbeStatus(w) \/ Finish(w)

ChannelEdit == (\E e \in BOOLEAN : SetChannelEnabled(e)) \/ DeletePlatformChannel
IncidentEdit ==
  \/ \E s \in HandNames : CreateIncident(s) \/ ReopenIncident(s) \/ UpdateIncident(s)
  \/ ResolveIncident

\* Every statement and every probe ends, both have timeouts; JetStream delivers
\* what is not settled to a subscription that is free; time passes.  It is
\* enough that one of these happens as long as one can.
Progress ==
  \/ \E w \in QueueWorkers, r \in Runs : Deliver(w, r)
  \/ \E w \in Workers : WorkerStep(w)
  \/ Tick

Next ==
  \/ Progress
  \/ \E l \in DueLayers : PublishTask(l)
  \/ \E w \in Callers : ProbeNow(w)
  \/ \E w \in Workers : RunFails(w) \/ AckLost(w)
  \/ \E p \in Procs : Crash(p)
  \/ ChannelEdit
  \/ IncidentEdit

Spec == Init /\ [][Next]_vars /\ WF_vars(Progress)

-----------------------------------------------------------------------------
(* What must hold *)

\* A task that is delivered again while its first delivery is still at work is
\* not executed a second time at the same time: the two would overwrite each
\* other's results under one run id.
OneExecutionPerRun ==
  \A v, w \in Workers :
    job[v].pc \notin {"idle", "waiting"} /\ job[w].pc \notin {"idle", "waiting"}
      /\ job[v].run = job[w].run /\ job[v].run # NoRun => v = w

\* A run during whose last part nobody else stored results, decided or enabled
\* the channel leaves the channel with the status of the latest results, its
\* own included, whatever older, repeated or concurrent runs did before.
UndisturbedRunDecides ==
  \A w \in Workers : job[w].pc = "ack" /\ job[w].clean =>
    /\ job[w].run \in Finished(row[job[w].run].layer)
    /\ status \in {CurrentStatus} \cup Removed

\* As long as nobody works on the incidents by hand, a healthy channel has no
\* open incident and a faulty one has one that names its status, through
\* disabling, enabling, repeated and overtaken runs.
IncidentMatchesStatus ==
  ~touched =>
    /\ status = "healthy" => incident = "none"
    /\ status \in Faulty => incident = status

\* A probe under way does not bring a deleted channel back, nor a disabled one
\* unless an administrator enables it.
RemovedStaysRemoved ==
  [][/\ status = "deleted" => status' = "deleted"
     /\ status = "disabled" /\ status' # "disabled" => edits' = edits + 1]_vars

\* The result shown for a layer never goes back to an earlier run, and a
\* repeated run does not hide the result it had.
LatestNeverOlder ==
  [][\A l \in Layers : Finished(l) # {} =>
       /\ Finished(l)' # {}
       /\ row[Latest(History(l))].started <= (row[Latest(History(l))].started)']_vars

\* An incident registered by hand is closed by recovery or by hand, never by a
\* change between two faulty statuses.
ManualIncidentKept ==
  [][incident = "manual" /\ incident' # "manual" => status' = "healthy" \/ edits' = edits + 1]_vars

\* Every task is acknowledged or terminated in the end.
TasksSettle == \A r \in Runs : msg[r].state = "queued" ~> msg[r].state = "settled"
=============================================================================
