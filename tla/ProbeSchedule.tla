---------------------------- MODULE ProbeSchedule ----------------------------
(***************************************************************************)
(* Which probe is due (internal/events/probe_runtime.go): every tick the   *)
(* scheduler reads the platform channels in the order of their names and   *)
(* publishes one task, a layer that was never run first, else the first    *)
(* due layer of the first channel at or after its cursor.  A probe takes   *)
(* less time than a tick, so its task is run, or lost, before the next.    *)
(*                                                                         *)
(* Ages count ticks since the last run of a layer began; they stop at      *)
(* MaxAge, above every interval.  What a task does when it runs is the     *)
(* subject of the module Probes.                                           *)
(***************************************************************************)
EXTENDS Naturals, Sequences, FiniteSets

CONSTANTS
  Fleet,        \* platform channels, in the order of their names
  Interval,     \* Interval[s][l]: ticks between two runs of layer l in status s;
                \* degraded and the two down states share theirs
  NewInterval,  \* the longest interval of the third layer of a new channel
  MaxAge,       \* ages are not counted further
  MaxLate,      \* nor is lateness
  MaxLost,      \* bound on lost tasks
  MaxEdits      \* bound on restarts, first days over and steps of administrators

ProbeStatuses == DOMAIN Interval
ProbeLayers == <<"l1", "l2", "l3">>
Layers == {"l1", "l2", "l3"}
FleetChannels == {Fleet[i] : i \in 1..Len(Fleet)}

ASSUME ScheduleAssumption ==
  /\ Fleet \in Seq(FleetChannels) /\ \A i, j \in 1..Len(Fleet) : Fleet[i] = Fleet[j] => i = j
  /\ Interval \in [ProbeStatuses -> [Layers -> 1..MaxAge]] /\ "unknown" \in ProbeStatuses
  /\ MaxAge \in Nat /\ MaxLate \in Nat /\ MaxLost \in Nat /\ MaxEdits \in Nat

Missing == MaxAge + 1

VARIABLES
  age,      \* age[c][l]: ticks since the last run of l began, or Missing
  fleet,    \* fleet[c]: "present", "new" (in its first day) or "off"
  standing, \* standing[c]: status of the channel
  cursor,   \* schedulerTargetCursor
  task,     \* the published task: {} or {<<c, l>>}
  late,     \* late[c]: ticks at which the first layer of c was due and not chosen
  lost,     \* lost tasks so far
  edits     \* restarts, first days over and steps of administrators so far

scheduleVars == <<age, fleet, standing, cursor, task, late, lost, edits>>

ScheduleTypeOK ==
  /\ age \in [FleetChannels -> [Layers -> 0..Missing]]
  /\ fleet \in [FleetChannels -> {"present", "new", "off"}]
  /\ standing \in [FleetChannels -> ProbeStatuses]
  /\ cursor \in 0..Len(Fleet)
  /\ task \in SUBSET (FleetChannels \X Layers) /\ Cardinality(task) <= 1
  /\ late \in [FleetChannels -> 0..MaxLate]
  /\ lost \in 0..MaxLost /\ edits \in 0..MaxEdits

ScheduleInit ==
  /\ age = [c \in FleetChannels |-> [l \in Layers |-> Missing]]
  /\ fleet = [c \in FleetChannels |-> "new"]
  /\ standing = [c \in FleetChannels |-> "unknown"]
  /\ cursor = 0 /\ task = {}
  /\ late = [c \in FleetChannels |-> 0]
  /\ lost = 0 /\ edits = 0

-----------------------------------------------------------------------------
\* The list of targets: the channels that are on, each with its index in it.
ProbeScheduleTargets == {c \in FleetChannels : fleet[c] # "off"}
Position(c) == CHOOSE i \in 1..Len(Fleet) : Fleet[i] = c
TargetIndex(c) == Cardinality({d \in ProbeScheduleTargets : Position(d) < Position(c)})
Targets == Cardinality(ProbeScheduleTargets)

ProbeLayerMissing(c, l) == age[c][l] = Missing

ProbeLayerInterval(c, l) ==
  LET usual == Interval[standing[c]][l]
  IN IF l = "l3" /\ fleet[c] = "new" /\ standing[c] # "auth_error" /\ usual > NewInterval
     THEN NewInterval ELSE usual

ProbeLayerDue(c, l) == ProbeLayerMissing(c, l) \/ age[c][l] >= ProbeLayerInterval(c, l)

\* The targets are scanned from the cursor on, and around.
Start == IF cursor >= Targets THEN 0 ELSE cursor
Turn(c) == IF TargetIndex(c) >= Start THEN TargetIndex(c) - Start ELSE TargetIndex(c) + Targets - Start
FirstFromCursor(S) == CHOOSE c \in S : \A d \in S : Turn(c) <= Turn(d)

FirstLayer(S) == {ProbeLayers[i] : i \in {j \in 1..3 : /\ ProbeLayers[j] \in S
                                                       /\ \A k \in 1..(j - 1) : ProbeLayers[k] \notin S}}

\* appendMissingScheduledProbeTasks: a missing first layer of any channel comes
\* before a missing second layer of any other.
Lacking(l) == {c \in ProbeScheduleTargets : ProbeLayerMissing(c, l)}
MissingTask == {<<FirstFromCursor(Lacking(l)), l>> : l \in FirstLayer({k \in Layers : Lacking(k) # {}})}

FirstDueProbeLayer(c) == FirstLayer({l \in Layers : ProbeLayerDue(c, l)})

\* appendScheduledProbeTasks.
Due == {c \in ProbeScheduleTargets : FirstDueProbeLayer(c) # {}}
DueTask == IF Due = {} THEN {} ELSE {FirstFromCursor(Due)} \X FirstDueProbeLayer(FirstFromCursor(Due))

\* Mutant: the cursor stays at the channel that was served.
CursorStays(c) == TargetIndex(c)

\* The scan goes on behind the channel that was served.
NextCursor(c) == IF TargetIndex(c) + 1 = Targets THEN 0 ELSE TargetIndex(c) + 1

\* Half a minute passes, and publishDue publishes one task, unless none is due.
Older(n) == IF n < MaxAge THEN n + 1 ELSE n
Later(n) == IF n < MaxLate THEN n + 1 ELSE n

ScheduledProbeTasks == IF MissingTask # {} THEN MissingTask ELSE DueTask

PublishDue ==
  /\ task = {} /\ task' = ScheduledProbeTasks
  /\ \/ task' = {} /\ cursor' = Start
     \/ \E c \in FleetChannels, l \in Layers : task' = {<<c, l>>} /\ cursor' = NextCursor(c)
  /\ age' = [c \in FleetChannels |-> [l \in Layers |-> Older(age[c][l])]]
  /\ late' = [c \in FleetChannels |->
               IF fleet[c] # "off" /\ ProbeLayerDue(c, "l1") /\ <<c, "l1">> \notin task'
               THEN Later(late[c]) ELSE 0]
  /\ UNCHANGED <<fleet, standing, lost, edits>>

-----------------------------------------------------------------------------
\* The run begins (UpsertProbeRun), and its results may change the status.
RunTask ==
  \E c \in FleetChannels, l \in Layers, s \in ProbeStatuses :
    /\ task = {<<c, l>>}
    /\ age' = [age EXCEPT ![c][l] = 0]
    /\ standing' = [standing EXCEPT ![c] = s]
    /\ task' = {}
    /\ UNCHANGED <<fleet, cursor, late, lost, edits>>

\* No prober took it before it was stale, or its channel is gone.
TaskLost ==
  /\ task # {}
  /\ lost < MaxLost \/ \E c \in FleetChannels, l \in Layers : task = {<<c, l>>} /\ fleet[c] = "off"
  /\ lost' = IF lost < MaxLost THEN lost + 1 ELSE lost
  /\ task' = {}
  /\ UNCHANGED <<age, fleet, standing, cursor, late, edits>>

\* The scheduler's process starts again.
SchedulerRestarts ==
  /\ edits < MaxEdits /\ edits' = edits + 1
  /\ cursor' = 0
  /\ UNCHANGED <<age, fleet, standing, task, late, lost>>

\* adminProbeNow, on one channel.
ProbedNow(c) ==
  /\ edits < MaxEdits /\ edits' = edits + 1
  /\ fleet[c] # "off"
  /\ age' = [age EXCEPT ![c]["l1"] = 0, ![c]["l2"] = 0]
  /\ late' = [late EXCEPT ![c] = 0]
  /\ UNCHANGED <<fleet, standing, cursor, task, lost>>

\* A channel is enabled or disabled: the positions of the others shift.
FleetChanges(c) ==
  /\ edits < MaxEdits /\ edits' = edits + 1
  /\ \E state \in IF fleet[c] = "off" THEN {"new", "present"} ELSE {"off"} :
       fleet' = [fleet EXCEPT ![c] = state]
  /\ late' = [late EXCEPT ![c] = 0]
  /\ UNCHANGED <<age, standing, cursor, task, lost>>

\* The first day of a channel is over.
FirstDayOver(c) ==
  /\ edits < MaxEdits /\ edits' = edits + 1
  /\ fleet[c] = "new"
  /\ fleet' = [fleet EXCEPT ![c] = "present"]
  /\ UNCHANGED <<age, standing, cursor, task, late, lost>>

ScheduleNext ==
  \/ PublishDue \/ RunTask \/ TaskLost \/ SchedulerRestarts
  \/ \E c \in FleetChannels : ProbedNow(c) \/ FleetChanges(c) \/ FirstDayOver(c)

ScheduleSpec == ScheduleInit /\ [][ScheduleNext]_scheduleVars

-----------------------------------------------------------------------------
\* However many channels compete for the one task of a tick, and although the
\* first layers may take all of them, no channel is left out: a first layer
\* that is due is chosen within a round of the channels, after the layers that
\* were never run (at most three for each channel), whatever the statuses, and
\* a round later for every lost task, restart, and channel that comes or goes
\* (scheduledProbeTasks and its cursor).
EveryChannelIsProbed ==
  \A c \in FleetChannels : late[c] < Len(Fleet) * (4 + lost + edits)
=============================================================================
