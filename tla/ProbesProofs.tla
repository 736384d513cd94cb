---------------------------- MODULE ProbesProofs ----------------------------
(***************************************************************************)
(* Theorems about Probes for any number of prober processes, callers and   *)
(* runs, whatever the probes find.                                         *)
(***************************************************************************)
EXTENDS Probes, FiniteSetTheorems, WellFoundedInduction, TLAPS

Running == {"execute", "results", "complete", "read", "apply", "ack"}

\* The run that worker w names in j exists in the table rows.
Sound(w, j, rows) ==
  /\ j.run # NoRun => rows[j.run].layer # "none"
  /\ j.pc \in Running => j.run # NoRun
  /\ w \in QueueWorkers /\ j.pc # "idle" => j.run # NoRun
  /\ w \in Callers /\ j.pc = "target" => j.todo # <<>>
  /\ w \in QueueWorkers => j.todo = <<>>

WorkersSound == \A w \in Workers : Sound(w, job[w], row)

StartsBounded == \A r \in Runs : row[r].started <= MaxRuns + 1

TypeInv == TypeOK /\ WorkersSound /\ StartsBounded

\* No two workers have the same run, a task that waits for delivery has none,
\* and the runs of callers have no task.
RunsApart ==
  /\ \A v, w \in Workers : job[v].run = job[w].run /\ job[v].run # NoRun => v = w
  /\ \A w \in Workers : job[w].run # NoRun => msg[job[w].run].state # "queued"
  /\ \A w \in Callers : job[w].run # NoRun => msg[job[w].run].state = "none"
  /\ \A r \in Runs : msg[r].state # "none" => row[r].layer # "none"

-----------------------------------------------------------------------------
\* Parts of the constant assumptions as the steps use them.
LEMMA Constants ==
  /\ MaxRuns \in Nat /\ MaxAge \in Nat /\ AckWait \in Nat /\ MaxAge < AckWait
  /\ DueLayers \subseteq Layers
  /\ Outcomes \in [Layers -> SUBSET Summaries]
  /\ ManualLayers \in Seq(Layers) /\ ManualLayers # <<>>
  /\ HandNames \subseteq IncidentNames
  /\ Callers \cap QueueWorkers = {}
  /\ Runs \subseteq Nat /\ NoRun \notin Runs
BY ConstantsAssumption, AckWaitExceedsMaxAge DEF ConstantsAssumption, Runs, NoRun

\* The position that a new run gets among the starts.
LEMMA NextStart ==
  /\ Cardinality({q \in Runs : row[q].started > 0}) \in Nat
  /\ Cardinality({q \in Runs : row[q].started > 0}) <= MaxRuns
<1>1. IsFiniteSet(Runs) /\ Cardinality(Runs) <= MaxRuns
  <2>1. IsFiniteSet(1..MaxRuns) /\ Cardinality(1..MaxRuns) = IF 1 > MaxRuns THEN 0 ELSE MaxRuns - 1 + 1
    BY Constants, FS_Interval
  <2> QED BY <2>1, Constants DEF Runs
<1> DEFINE S == {q \in Runs : row[q].started > 0}
<1>2. S \in SUBSET Runs
  OBVIOUS
<1>3. IsFiniteSet(S) /\ Cardinality(S) <= Cardinality(Runs)
  BY <1>1, <1>2, FS_Subset
<1>4. Cardinality(S) \in Nat /\ Cardinality(Runs) \in Nat
  BY <1>1, <1>3, FS_CardinalityType
<1> QED BY <1>1, <1>3, <1>4, Constants

\* A history as the table of runs gives it.
IsHistory(h) ==
  /\ DOMAIN h \subseteq Runs
  /\ \A r \in DOMAIN h : h[r].started \in Nat /\ h[r].started <= MaxRuns + 1

\* LatestLayerSummary finds a run when a layer has one: some finished run
\* started last.
LEMMA LatestExists ==
  ASSUME NEW h, IsHistory(h), DOMAIN h # {}
  PROVE  /\ Latest(h) \in DOMAIN h
         /\ \A q \in DOMAIN h : h[q].started <= h[Latest(h)].started
<1> DEFINE B == MaxRuns + 1
           F == DOMAIN h
           T == {n \in Nat : \E r \in F : n = B - h[r].started}
<1>1. B \in Nat
  BY Constants
<1>2. \A r \in F : h[r].started \in Nat /\ h[r].started <= B
  BY DEF IsHistory
<1>3. T \subseteq Nat /\ T # {}
  <2>1. PICK r \in F : TRUE
    OBVIOUS
  <2>2. B - h[r].started \in Nat
    BY <1>1, <1>2
  <2> QED BY <2>1, <2>2
<1>4. PICK n \in T : \A m \in T : ~(<<m, n>> \in OpToRel(<, Nat))
  <2> HIDE DEF T
  <2> QED BY <1>3, WFMin, NatLessThanWellFounded
<1>5. \A m \in T : n <= m
  <2> SUFFICES ASSUME NEW m \in T PROVE n <= m
    OBVIOUS
  <2>1. <<m, n>> \in Nat \X Nat /\ ~(m < n)
    BY <1>3, <1>4 DEF OpToRel
  <2> QED BY <1>3, <2>1
<1>6. PICK r \in F : n = B - h[r].started
  OBVIOUS
<1>7. \A q \in F : h[q].started <= h[r].started
  <2> SUFFICES ASSUME NEW q \in F PROVE h[q].started <= h[r].started
    OBVIOUS
  <2>1. B - h[q].started \in T
    BY <1>1, <1>2
  <2>2. B - h[r].started <= B - h[q].started
    BY <2>1, <1>5, <1>6
  <2> QED BY <2>2, <1>1, <1>2
<1> HIDE DEF T, F, B
<1>8. \E x \in DOMAIN h : \A q \in DOMAIN h : h[q].started <= h[x].started
  BY <1>7 DEF F
<1> QED BY <1>8 DEF Latest

\* The history of a layer.
LEMMA HistoryType ==
  ASSUME TypeOK, StartsBounded, NEW l
  PROVE  /\ IsHistory(History(l)) /\ DOMAIN History(l) = Finished(l)
         /\ \A r \in Finished(l) : History(l)[r] = row[r]
<1>1. Finished(l) \subseteq Runs
  BY DEF Finished
<1> QED BY <1>1 DEF History, IsHistory, TypeOK, Rows, StartsBounded

\* A summary is one of the five that the synthesis tells apart.
LEMMA SummaryType ==
  ASSUME TypeOK, StartsBounded, NEW l
  PROVE  Summary(l) \in Summaries
<1>1. CASE Finished(l) = {}
  BY <1>1, HistoryType DEF Summary, ResultOf, Summaries
<1>2. CASE Finished(l) # {}
  <2>1. Latest(History(l)) \in Finished(l)
    BY <1>2, LatestExists, HistoryType
  <2>2. Summary(l) = row[Latest(History(l))].result
    BY <1>2, <2>1, HistoryType DEF Summary, ResultOf
  <2> QED BY <2>1, <2>2 DEF Finished, TypeOK, Rows
<1> QED BY <1>1, <1>2

\* Whatever the summaries are, the synthesis decides for a status.
LEMMA DecisionType ==
  ASSUME NEW a, NEW b, NEW c
  PROVE  SynthesizeStatusWithL3(a, b, c) \in Decisions
BY DEF SynthesizeStatusWithL3, Decisions, Faulty

-----------------------------------------------------------------------------
(* Types *)

\* Idle is a job, and sound for everybody.
LEMMA IdleSound ==
  /\ Idle \in Jobs
  /\ \A w, rows : Sound(w, Idle, rows)
  /\ Idle.run = NoRun /\ Idle.pc = "idle" /\ Idle.seen = <<>> /\ Idle.todo = <<>> /\ Idle.clean = FALSE
<1>1. Idle \in Jobs
  BY DEF Idle, Jobs, Summaries
<1> QED BY <1>1 DEF Idle, Sound, Running, NoRun

\* The first state has the types.
LEMMA TypeInit == Init => TypeInv
<1> SUFFICES ASSUME Init PROVE TypeInv
  OBVIOUS
<1>1. [layer |-> "none", started |-> 0, finished |-> FALSE, result |-> "none"] \in Rows
  BY DEF Rows
<1>2. [state |-> "none", age |-> 0, since |-> 0] \in Messages
  BY DEF Messages
<1>3. TypeOK
  BY <1>1, <1>2, IdleSound DEF Init, TypeOK, Decisions, Removed, IncidentNames
<1>4. WorkersSound
  BY IdleSound DEF Init, WorkersSound
<1>5. StartsBounded
  BY Constants DEF Init, StartsBounded
<1> QED BY <1>3, <1>4, <1>5 DEF TypeInv

\* One row changes and its layer, once known, stays known.
LEMMA RowFrame ==
  ASSUME TypeInv, NEW r \in Runs, NEW x \in Rows, x.started <= MaxRuns + 1,
         row[r].layer # "none" => x.layer # "none", row' = [row EXCEPT ![r] = x]
  PROVE  /\ row' \in [Runs -> Rows] /\ StartsBounded'
         /\ \A q \in Runs : row[q].layer # "none" => row'[q].layer # "none"
<1>1. row \in [Runs -> Rows] /\ StartsBounded
  BY DEF TypeInv, TypeOK
<1>2. row' \in [Runs -> Rows]
  BY <1>1
<1> QED BY <1>1, <1>2 DEF StartsBounded

\* One worker goes on with j, and perhaps the others are disturbed.
LEMMA JobFrame ==
  ASSUME TypeInv, NEW w \in Workers, NEW j \in Jobs, Sound(w, j, row'),
         \A q \in Runs : row[q].layer # "none" => row'[q].layer # "none",
         job' = [job EXCEPT ![w] = j] \/ job' = Disturb([job EXCEPT ![w] = j], w)
  PROVE  job' \in [Workers -> Jobs] /\ WorkersSound'
<1>1. job \in [Workers -> Jobs] /\ \A v \in Workers : Sound(v, job[v], row)
  BY DEF TypeInv, TypeOK, WorkersSound
<1>2. \A i \in Jobs : [i EXCEPT !.clean = FALSE] \in Jobs
  BY DEF Jobs
<1>3. job' \in [Workers -> Jobs]
  BY <1>1, <1>2 DEF Disturb
<1>4. \A v \in Workers : IF v = w THEN job'[v] = j ELSE job'[v] \in {job[v], [job[v] EXCEPT !.clean = FALSE]}
  BY <1>1 DEF Disturb
<1>5. ASSUME NEW v \in Workers, v # w PROVE Sound(v, job'[v], row')
  <2>1. Sound(v, job[v], row) /\ job[v] \in Jobs
    BY <1>1
  <2>2. /\ job'[v].pc = job[v].pc /\ job'[v].run = job[v].run /\ job'[v].todo = job[v].todo
    BY <1>4, <1>5, <2>1 DEF Jobs
  <2>3. job[v].run # NoRun => job[v].run \in Runs
    BY <2>1 DEF Jobs
  <2> QED BY <2>1, <2>2, <2>3 DEF Sound
<1> QED BY <1>3, <1>4, <1>5 DEF WorkersSound

\* Settling a message keeps the types.
LEMMA SettleType ==
  ASSUME TypeInv, NEW r, Settle(r) \/ msg' = msg
  PROVE  msg' \in [Runs -> Messages]
<1>1. msg \in [Runs -> Messages]
  BY DEF TypeInv, TypeOK
<1>2. \A m \in Messages : [m EXCEPT !.state = "settled"] \in Messages
  BY DEF Messages
<1> QED BY <1>1, <1>2 DEF Settle

\* The step that records the start of a run.
LEMMA UpsertType ==
  ASSUME TypeInv, NEW r \in Runs, NEW l \in Layers, UpsertProbeRun(r, l)
  PROVE  /\ row' \in [Runs -> Rows] /\ StartsBounded' /\ row'[r].layer = l
         /\ \A q \in Runs : row[q].layer # "none" => row'[q].layer # "none"
<1> DEFINE n == IF row[r].started = 0 THEN Cardinality({q \in Runs : row[q].started > 0}) + 1 ELSE row[r].started
           x == [row[r] EXCEPT !.layer = l, !.started = n]
<1>1. row \in [Runs -> Rows] /\ row[r] \in Rows /\ row[r].started <= MaxRuns + 1
  BY DEF TypeInv, TypeOK, StartsBounded
<1>2. n \in Nat /\ n <= MaxRuns + 1
  BY <1>1, NextStart, Constants DEF Rows
<1>3. row' = [row EXCEPT ![r] = x]
  BY <1>1 DEF UpsertProbeRun
<1> HIDE DEF n
<1>4. x \in Rows /\ x.started <= MaxRuns + 1 /\ x.layer = l /\ l # "none"
  BY <1>1, <1>2 DEF Rows, Layers
<1> HIDE DEF x
<1> QED BY <1>1, <1>3, <1>4, RowFrame

\* A worker's own steps keep the types.
LEMMA TypeWorkerStep ==
  ASSUME TypeInv, NEW w \in Workers, WorkerStep(w)
  PROVE  TypeInv'
<1>0. /\ TypeOK /\ WorkersSound /\ StartsBounded
      /\ job \in [Workers -> Jobs] /\ job[w] \in Jobs /\ Sound(w, job[w], row)
      /\ row \in [Runs -> Rows]
  BY DEF TypeInv, TypeOK, WorkersSound
<1>1. CASE AcquireProbeSlot(w)
  <2>1. PICK j \in {Idle, [job[w] EXCEPT !.pc = "target"]} : job' = [job EXCEPT ![w] = j]
    BY <1>0, <1>1 DEF AcquireProbeSlot
  <2>2. j \in Jobs /\ Sound(w, j, row)
    <3>1. [job[w] EXCEPT !.pc = "target"] \in Jobs
      BY <1>0 DEF Jobs
    <3>2. w \notin Callers
      BY <1>1, Constants DEF AcquireProbeSlot
    <3>3. Sound(w, [job[w] EXCEPT !.pc = "target"], row)
      BY <1>0, <1>1, <3>2 DEF Sound, AcquireProbeSlot, Running, Jobs
    <3> QED BY <3>1, <3>3, IdleSound
  <2>3. job' \in [Workers -> Jobs] /\ WorkersSound'
    BY <1>1, <2>1, <2>2, JobFrame DEF AcquireProbeSlot
  <2>4. msg' \in [Runs -> Messages]
    BY <1>1, SettleType DEF AcquireProbeSlot
  <2> QED BY <1>0, <1>1, <2>3, <2>4 DEF AcquireProbeSlot, TypeInv, TypeOK, StartsBounded
<1>2. CASE BeginRun(w)
  <2>1. CASE status = "deleted"
    <3>1. job' = [job EXCEPT ![w] = Idle] /\ row' = row
      BY <1>2, <2>1 DEF BeginRun, Terminate
    <3>2. job' \in [Workers -> Jobs] /\ WorkersSound'
      BY <3>1, IdleSound, JobFrame
    <3>3. msg' \in [Runs -> Messages]
      BY <1>2, <2>1, SettleType DEF BeginRun, Terminate
    <3> QED BY <1>0, <1>2, <3>1, <3>2, <3>3 DEF BeginRun, TypeInv, TypeOK, StartsBounded
  <2>2. CASE status # "deleted" /\ w \in QueueWorkers
    <3> DEFINE j == [job[w] EXCEPT !.pc = "execute"]
    <3>1. job[w].run \in Runs /\ row[job[w].run].layer # "none"
      BY <1>0, <1>2, <2>2 DEF BeginRun, Sound, Jobs
    <3>2. row[job[w].run].layer \in Layers
      BY <1>0, <3>1 DEF Rows
    <3>3. /\ row' \in [Runs -> Rows] /\ StartsBounded' /\ row'[job[w].run].layer \in Layers
          /\ \A q \in Runs : row[q].layer # "none" => row'[q].layer # "none"
      BY <1>2, <2>2, <3>1, <3>2, UpsertType DEF BeginRun
    <3>4. /\ j \in Jobs /\ j.run = job[w].run /\ j.pc = "execute" /\ j.todo = job[w].todo
          /\ job' = [job EXCEPT ![w] = j]
      BY <1>0, <1>2, <2>2 DEF Jobs, BeginRun, Goto
    <3>5. Sound(w, j, row')
      BY <1>0, <3>1, <3>3, <3>4, Constants DEF Sound, Layers
    <3> HIDE DEF j
    <3>6. job' \in [Workers -> Jobs] /\ WorkersSound'
      BY <3>3, <3>4, <3>5, JobFrame
    <3> QED BY <1>0, <1>2, <2>2, <3>3, <3>6 DEF BeginRun, TypeInv, TypeOK
  <2>3. CASE status # "deleted" /\ w \notin QueueWorkers
    <3>1. PICK r \in Runs : /\ Fresh(r)
                            /\ UpsertProbeRun(r, Head(job[w].todo))
                            /\ job' = [job EXCEPT ![w].pc = "execute", ![w].run = r, ![w].todo = Tail(@)]
      BY <1>2, <2>3 DEF BeginRun
    <3> DEFINE j == [job[w] EXCEPT !.pc = "execute", !.run = r, !.todo = Tail(@)]
    <3>2. job[w].todo \in Seq(Layers) /\ job[w].todo # <<>>
      BY <1>0, <1>2, <2>3 DEF BeginRun, Workers, Sound, Jobs
    <3>3. Head(job[w].todo) \in Layers /\ Tail(job[w].todo) \in Seq(Layers)
      BY <3>2
    <3>4. /\ row' \in [Runs -> Rows] /\ StartsBounded' /\ row'[r].layer \in Layers
          /\ \A q \in Runs : row[q].layer # "none" => row'[q].layer # "none"
      BY <3>1, <3>3, UpsertType
    <3>5. j \in Jobs /\ j.run = r /\ j.pc = "execute" /\ job' = [job EXCEPT ![w] = j]
      BY <1>0, <3>1, <3>3 DEF Jobs
    <3>6. Sound(w, j, row')
      BY <1>0, <2>3, <3>4, <3>5, Constants DEF Sound, Layers
    <3> HIDE DEF j
    <3>7. job' \in [Workers -> Jobs] /\ WorkersSound'
      BY <3>4, <3>5, <3>6, JobFrame
    <3> QED BY <1>0, <1>2, <2>3, <3>4, <3>7 DEF BeginRun, TypeInv, TypeOK
  <2> QED BY <2>1, <2>2, <2>3
<1>3. CASE Execute(w)
  <2>1. job[w].run \in Runs /\ row[job[w].run].layer \in Layers
    BY <1>0, <1>3 DEF Execute, Sound, Running, Jobs, Rows
  <2>2. PICK o \in Summaries : job' = [job EXCEPT ![w].pc = "results", ![w].outcome = o]
    BY <1>3, <2>1, Constants DEF Execute
  <2> DEFINE j == [job[w] EXCEPT !.pc = "results", !.outcome = o]
  <2>3. j \in Jobs /\ job' = [job EXCEPT ![w] = j] /\ Sound(w, j, row)
    BY <1>0, <1>3, <2>2 DEF Execute, Sound, Running, Jobs
  <2> HIDE DEF j
  <2>4. job' \in [Workers -> Jobs] /\ WorkersSound'
    BY <1>3, <2>3, JobFrame DEF Execute
  <2> QED BY <1>0, <1>3, <2>4 DEF Execute, TypeInv, TypeOK, StartsBounded
<1>4. CASE UpsertProbeResults(w)
  <2> DEFINE r == job[w].run
             x == [row[r] EXCEPT !.result = job[w].outcome]
             j == [job[w] EXCEPT !.pc = "complete", !.outcome = "na"]
  <2>1. r \in Runs /\ r # NoRun /\ row[r] \in Rows /\ row[r].layer # "none" /\ row[r].started <= MaxRuns + 1
    BY <1>0, <1>4 DEF UpsertProbeResults, Sound, Running, Jobs, StartsBounded
  <2>2. x \in Rows /\ x.layer = row[r].layer /\ x.started = row[r].started
    BY <1>0, <2>1 DEF Rows, Jobs
  <2>3. row' = [row EXCEPT ![r] = x]
    BY <1>0, <1>4 DEF UpsertProbeResults
  <2>4. j \in Jobs /\ j.run = r /\ j.pc = "complete" /\ j.todo = job[w].todo
    BY <1>0 DEF Jobs, Summaries
  <2>5. job' = Disturb([job EXCEPT ![w] = j], w)
    BY <1>0, <1>4 DEF UpsertProbeResults, Disturb
  <2> HIDE DEF j, x, r
  <2>6. /\ row' \in [Runs -> Rows] /\ StartsBounded'
        /\ \A q \in Runs : row[q].layer # "none" => row'[q].layer # "none"
    BY <2>1, <2>2, <2>3, RowFrame
  <2>7. Sound(w, j, row')
    BY <1>0, <2>1, <2>4, <2>6 DEF Sound
  <2>8. job' \in [Workers -> Jobs] /\ WorkersSound'
    BY <2>4, <2>5, <2>6, <2>7, JobFrame
  <2> QED BY <1>0, <1>4, <2>6, <2>8 DEF UpsertProbeResults, TypeInv, TypeOK
<1>5. CASE CompleteProbeRun(w)
  <2> DEFINE r == job[w].run
             x == [row[r] EXCEPT !.finished = TRUE]
             j == [job[w] EXCEPT !.pc = "read", !.clean = TRUE]
  <2>1. r \in Runs /\ r # NoRun /\ row[r] \in Rows /\ row[r].layer # "none" /\ row[r].started <= MaxRuns + 1
    BY <1>0, <1>5 DEF CompleteProbeRun, Sound, Running, Jobs, StartsBounded
  <2>2. x \in Rows /\ x.layer = row[r].layer /\ x.started = row[r].started
    BY <1>0, <2>1 DEF Rows, Jobs
  <2>3. row' = [row EXCEPT ![r] = x]
    BY <1>0, <1>5 DEF CompleteProbeRun
  <2>4. j \in Jobs /\ j.run = r /\ j.pc = "read" /\ j.todo = job[w].todo
    BY <1>0 DEF Jobs, Summaries
  <2>5. job' = Disturb([job EXCEPT ![w] = j], w)
    BY <1>0, <1>5 DEF CompleteProbeRun, Disturb
  <2> HIDE DEF j, x, r
  <2>6. /\ row' \in [Runs -> Rows] /\ StartsBounded'
        /\ \A q \in Runs : row[q].layer # "none" => row'[q].layer # "none"
    BY <2>1, <2>2, <2>3, RowFrame
  <2>7. Sound(w, j, row')
    BY <1>0, <2>1, <2>4, <2>6 DEF Sound
  <2>8. job' \in [Workers -> Jobs] /\ WorkersSound'
    BY <2>4, <2>5, <2>6, <2>7, JobFrame
  <2> QED BY <1>0, <1>5, <2>6, <2>8 DEF CompleteProbeRun, TypeInv, TypeOK
<1>6. CASE LatestLayerSummary(w)
  <2> DEFINE l == LayerOrder[Len(job[w].seen) + 1]
             j == [job[w] EXCEPT !.seen = Append(@, Summary(l)), !.pc = IF l = "l3" THEN "apply" ELSE "read"]
  <2>1. Summary(l) \in Summaries
    BY <1>0, SummaryType
  <2>2. job' = [job EXCEPT ![w] = j]
    BY <1>0, <1>6 DEF LatestLayerSummary
  <2> HIDE DEF l
  <2>3. Append(job[w].seen, Summary(l)) \in Seq(Summaries)
    BY <1>0, <2>1 DEF Jobs
  <2>4. j \in Jobs /\ j.run = job[w].run /\ j.pc \in {"read", "apply"} /\ j.todo = job[w].todo
    BY <1>0, <2>3 DEF Jobs
  <2>5. Sound(w, j, row)
    BY <1>0, <1>6, <2>4 DEF Sound, LatestLayerSummary, Running
  <2> HIDE DEF j
  <2>6. job' \in [Workers -> Jobs] /\ WorkersSound'
    BY <1>6, <2>2, <2>4, <2>5, JobFrame DEF LatestLayerSummary
  <2> QED BY <1>0, <1>6, <2>6 DEF LatestLayerSummary, TypeInv, TypeOK, StartsBounded
<1>7. CASE ApplyProbeStatus(w)
  <2> DEFINE d == SynthesizeStatusWithL3(job[w].seen[1], job[w].seen[2], job[w].seen[3])
             j == [job[w] EXCEPT !.pc = "ack", !.seen = <<>>]
  <2>1. d \in Decisions
    BY DecisionType
  <2>2. job' = Disturb([job EXCEPT ![w] = j], w)
    BY <1>0, <1>7 DEF ApplyProbeStatus, Disturb
  <2>3. status' \in Decisions \cup Removed /\ incident' \in IncidentNames \cup {"none"} /\ touched' \in BOOLEAN
    <3>1. /\ status' \in {status, d}
          /\ incident' \in {incident, IncidentAfter(d)}
          /\ touched' = touched \/ touched' = (touched /\ incident' = "manual")
      BY <1>7 DEF ApplyProbeStatus
    <3> HIDE DEF d
    <3>2. IncidentAfter(d) \in IncidentNames \cup {"none"}
      BY <2>1 DEF IncidentAfter, IncidentNames
    <3> QED BY <1>0, <2>1, <3>1, <3>2 DEF TypeOK
  <2>4. j \in Jobs /\ j.run = job[w].run /\ j.pc = "ack" /\ j.todo = job[w].todo
    <3>1. <<>> \in Seq(Summaries)
      OBVIOUS
    <3> QED BY <1>0, <3>1 DEF Jobs
  <2>5. Sound(w, j, row)
    BY <1>0, <1>7, <2>4 DEF Sound, ApplyProbeStatus, Running
  <2> HIDE DEF j
  <2>6. job' \in [Workers -> Jobs] /\ WorkersSound'
    BY <1>7, <2>2, <2>4, <2>5, JobFrame DEF ApplyProbeStatus
  <2> QED BY <1>0, <1>7, <2>3, <2>6 DEF ApplyProbeStatus, TypeInv, TypeOK, StartsBounded
<1>8. CASE Finish(w)
  <2>1. NextManual(w) \in Jobs /\ Sound(w, NextManual(w), row)
    <3>1. CASE job[w].todo = <<>>
      BY <3>1, IdleSound DEF NextManual
    <3>2. CASE job[w].todo # <<>> /\ w \in Callers
      <4> DEFINE j == [Idle EXCEPT !.pc = "target", !.todo = job[w].todo]
      <4>1. NextManual(w) = j
        BY <3>2 DEF NextManual
      <4>2. j \in Jobs /\ j.pc = "target" /\ j.run = NoRun /\ j.todo = job[w].todo
        BY <1>0, IdleSound DEF Jobs
      <4> QED BY <3>2, <4>1, <4>2, Constants DEF Sound, Running
    <3>3. CASE job[w].todo # <<>> /\ w \in QueueWorkers
      BY <1>0, <3>3 DEF Sound
    <3> QED BY <3>1, <3>2, <3>3 DEF Workers
  <2>2. job' \in [Workers -> Jobs] /\ WorkersSound'
    BY <1>8, <2>1, JobFrame DEF Finish
  <2>3. msg' \in [Runs -> Messages]
    BY <1>8, SettleType DEF Finish
  <2> QED BY <1>0, <1>8, <2>2, <2>3 DEF Finish, TypeInv, TypeOK, StartsBounded
<1> QED BY <1>1, <1>2, <1>3, <1>4, <1>5, <1>6, <1>7, <1>8 DEF WorkerStep

\* Every step keeps the types.
LEMMA TypeStep == TypeInv /\ [Next]_vars => TypeInv'
<1> SUFFICES ASSUME TypeInv, [Next]_vars PROVE TypeInv'
  OBVIOUS
<1>0. /\ TypeOK /\ WorkersSound /\ StartsBounded
      /\ job \in [Workers -> Jobs] /\ row \in [Runs -> Rows] /\ msg \in [Runs -> Messages]
      /\ faults \in Nat /\ edits \in Nat
  BY DEF TypeInv, TypeOK
<1>1. ASSUME NEW w \in QueueWorkers, NEW r \in Runs, Deliver(w, r) PROVE TypeInv'
  <2>0. w \in Workers
    BY DEF Workers
  <2>1. CASE Stale(r)
    <3>1. msg' \in [Runs -> Messages] /\ job' = job /\ row' = row
      BY <1>1, <2>1, SettleType DEF Deliver
    <3> QED BY <1>0, <1>1, <3>1 DEF Deliver, TypeInv, TypeOK, WorkersSound, StartsBounded
  <2>2. CASE ~Stale(r)
    <3> DEFINE j == [Idle EXCEPT !.pc = "waiting", !.run = r]
    <3>1. j \in Jobs /\ j.pc = "waiting" /\ j.run = r /\ j.todo = <<>>
      BY IdleSound DEF Jobs
    <3>2. job' = [job EXCEPT ![w] = j] /\ row' = row
          /\ msg' = [msg EXCEPT ![r] = [msg[r] EXCEPT !.state = "unacked", !.since = msg[r].age]]
      BY <1>0, <1>1, <2>2 DEF Deliver
    <3> HIDE DEF j
    <3>3. row[r].layer # "none"
      BY <1>1, Constants DEF Deliver, QueueWorkers, Layers
    <3>4. Sound(w, j, row)
      BY <3>1, <3>3, Constants DEF Sound, Running
    <3>5. job' \in [Workers -> Jobs] /\ WorkersSound'
      BY <2>0, <3>1, <3>2, <3>4, JobFrame
    <3>6. [msg[r] EXCEPT !.state = "unacked", !.since = msg[r].age] \in Messages
      BY <1>0 DEF Messages
    <3>7. msg' \in [Runs -> Messages]
      BY <1>0, <3>2, <3>6
    <3> QED BY <1>0, <1>1, <3>2, <3>5, <3>7 DEF Deliver, TypeInv, TypeOK, StartsBounded
  <2> QED BY <2>1, <2>2
<1>2. ASSUME NEW w \in Workers, WorkerStep(w) PROVE TypeInv'
  BY <1>2, TypeWorkerStep
<1>3. CASE Tick
  <2>1. \A m \in Messages : [m EXCEPT !.age = @ + 1] \in Messages
    BY DEF Messages
  <2>2. msg' \in [Runs -> Messages]
    BY <1>0, <1>3, <2>1 DEF Tick
  <2> QED BY <1>0, <1>3, <2>2 DEF Tick, TypeInv, TypeOK, WorkersSound, StartsBounded
<1>4. ASSUME NEW l \in DueLayers, PublishTask(l) PROVE TypeInv'
  <2>1. PICK r \in Runs : /\ row' = [row EXCEPT ![r].layer = l]
                          /\ msg' = [msg EXCEPT ![r].state = "queued"]
    BY <1>4 DEF PublishTask
  <2> DEFINE x == [row[r] EXCEPT !.layer = l]
  <2>2. x \in Rows /\ x.started = row[r].started /\ x.layer # "none" /\ row' = [row EXCEPT ![r] = x]
    BY <1>0, <2>1, Constants DEF Rows, Layers
  <2>3. row[r].started <= MaxRuns + 1
    BY <1>0 DEF StartsBounded
  <2> HIDE DEF x
  <2>4. /\ row' \in [Runs -> Rows] /\ StartsBounded'
        /\ \A q \in Runs : row[q].layer # "none" => row'[q].layer # "none"
    BY <2>2, <2>3, RowFrame
  <2>5. WorkersSound'
    <3> SUFFICES ASSUME NEW w \in Workers PROVE Sound(w, job[w], row')
      BY <1>4 DEF WorkersSound, PublishTask
    <3>1. job[w] \in Jobs /\ Sound(w, job[w], row)
      BY <1>0 DEF WorkersSound
    <3> QED BY <2>4, <3>1 DEF Sound, Jobs
  <2>6. \A m \in Messages : [m EXCEPT !.state = "queued"] \in Messages
    BY DEF Messages
  <2>7. msg' \in [Runs -> Messages]
    BY <1>0, <2>1, <2>6
  <2> QED BY <1>0, <1>4, <2>4, <2>5, <2>7 DEF PublishTask, TypeInv, TypeOK
<1>5. ASSUME NEW w \in Callers, ProbeNow(w) PROVE TypeInv'
  <2> DEFINE j == [job[w] EXCEPT !.pc = "target", !.todo = ManualLayers]
  <2>1. w \in Workers /\ job[w] \in Jobs /\ Sound(w, job[w], row)
    BY <1>0 DEF Workers, WorkersSound
  <2>2. j \in Jobs /\ j.pc = "target" /\ j.run = job[w].run /\ j.todo # <<>> /\ job' = [job EXCEPT ![w] = j]
    BY <1>0, <1>5, <2>1, Constants DEF Jobs, ProbeNow
  <2> HIDE DEF j
  <2>3. Sound(w, j, row)
    BY <2>1, <2>2, Constants DEF Sound, Running
  <2>4. job' \in [Workers -> Jobs] /\ WorkersSound'
    BY <1>5, <2>1, <2>2, <2>3, JobFrame DEF ProbeNow
  <2> QED BY <1>0, <1>5, <2>4 DEF ProbeNow, TypeInv, TypeOK, StartsBounded
<1>6. ASSUME NEW w \in Workers, RunFails(w) \/ AckLost(w) PROVE TypeInv'
  <2>1. job' = [job EXCEPT ![w] = Idle] /\ row' = row /\ faults' \in Nat
    BY <1>0, <1>6 DEF RunFails, AckLost, Fault
  <2>2. job' \in [Workers -> Jobs] /\ WorkersSound'
    BY <2>1, IdleSound, JobFrame
  <2>3. \A m \in Messages : [m EXCEPT !.state = "queued"] \in Messages
    BY DEF Messages
  <2>4. msg' \in [Runs -> Messages]
    BY <1>0, <1>6, <2>3 DEF RunFails, AckLost
  <2> QED BY <1>0, <1>6, <2>1, <2>2, <2>4 DEF RunFails, AckLost, TypeInv, TypeOK, StartsBounded
<1>7. ASSUME NEW p \in Procs, Crash(p) PROVE TypeInv'
  <2>1. job' \in [Workers -> Jobs] /\ row' = row /\ faults' \in Nat
    BY <1>0, <1>7, IdleSound DEF Crash, Fault
  <2>2. \A w \in Workers : job'[w] \in {Idle, job[w]}
    BY <1>7 DEF Crash
  <2>3. WorkersSound'
    BY <1>0, <2>1, <2>2, IdleSound DEF WorkersSound
  <2> QED BY <1>0, <1>7, <2>1, <2>3 DEF Crash, TypeInv, TypeOK, StartsBounded
<1>8. CASE ChannelEdit
  <2>1. ASSUME NEW e \in BOOLEAN, SetChannelEnabled(e) PROVE TypeInv'
    <3>1. \A j \in Jobs : /\ [j EXCEPT !.clean = FALSE] \in Jobs
                          /\ \A w : Sound(w, j, row) => Sound(w, [j EXCEPT !.clean = FALSE], row)
      <4> SUFFICES ASSUME NEW j \in Jobs, NEW w
                   PROVE  /\ [j EXCEPT !.clean = FALSE] \in Jobs
                          /\ Sound(w, j, row) => Sound(w, [j EXCEPT !.clean = FALSE], row)
        OBVIOUS
      <4> DEFINE i == [j EXCEPT !.clean = FALSE]
      <4>1. i \in Jobs /\ i.pc = j.pc /\ i.run = j.run /\ i.todo = j.todo
        BY DEF Jobs
      <4> HIDE DEF i
      <4>2. Sound(w, j, row) => Sound(w, i, row)
        BY <4>1 DEF Sound
      <4> QED BY <4>1, <4>2 DEF i
    <3>2. job' = [w \in Workers |-> [job[w] EXCEPT !.clean = FALSE]] /\ row' = row
      BY <2>1 DEF SetChannelEnabled
    <3>3. job' \in [Workers -> Jobs] /\ WorkersSound'
      BY <1>0, <3>1, <3>2 DEF WorkersSound
    <3>4. status' \in Decisions \cup Removed /\ edits' \in Nat
      BY <1>0, <2>1 DEF SetChannelEnabled, Edit, Decisions, Removed
    <3> QED BY <1>0, <2>1, <3>3, <3>4 DEF SetChannelEnabled, TypeInv, TypeOK, StartsBounded
  <2>2. CASE DeletePlatformChannel
    BY <1>0, <2>2 DEF DeletePlatformChannel, Edit, TypeInv, TypeOK, WorkersSound, StartsBounded, Removed
  <2> QED BY <1>8, <2>1, <2>2 DEF ChannelEdit
<1>9. CASE IncidentEdit
  <2>1. ByHand /\ incident' \in IncidentNames \cup {"none"}
    BY <1>9, Constants DEF IncidentEdit, CreateIncident, ReopenIncident, UpdateIncident, ResolveIncident
  <2> QED BY <1>0, <2>1 DEF ByHand, Edit, TypeInv, TypeOK, WorkersSound, StartsBounded
<1>10. CASE UNCHANGED vars
  BY <1>0, <1>10 DEF vars, TypeInv, TypeOK, WorkersSound, StartsBounded
<1> QED BY <1>1, <1>2, <1>3, <1>4, <1>5, <1>6, <1>7, <1>8, <1>9, <1>10 DEF Next, Progress

\* Channels, incidents, runs, tasks and workers keep their types.
THEOREM TypeCorrect == Spec => []TypeOK
<1>1. TypeInv => TypeOK
  BY DEF TypeInv
<1> QED BY <1>1, TypeInit, TypeStep, PTL DEF Spec

-----------------------------------------------------------------------------
(* Incidents and removed channels *)

\* An incident registered by hand is known to be one.
ManualIsTouched == incident = "manual" => touched

IncidentInv == TypeInv /\ IncidentMatchesStatus /\ ManualIsTouched

\* No step separates the incident from the status.
LEMMA IncidentStep == IncidentInv /\ [Next]_vars => IncidentInv'
<1> SUFFICES ASSUME IncidentInv, [Next]_vars PROVE IncidentMatchesStatus' /\ ManualIsTouched'
  BY TypeStep DEF IncidentInv
<1>0. /\ status \in Decisions \cup Removed /\ touched \in BOOLEAN
      /\ ManualIsTouched /\ IncidentMatchesStatus
  BY DEF IncidentInv, TypeInv, TypeOK
<1>1. ASSUME NEW w \in Workers, ApplyProbeStatus(w) PROVE IncidentMatchesStatus' /\ ManualIsTouched'
  <2> DEFINE d == SynthesizeStatusWithL3(job[w].seen[1], job[w].seen[2], job[w].seen[3])
  <2>1. d \in Decisions
    BY DecisionType
  <2>2. \/ UNCHANGED <<status, incident, touched>>
        \/ status = d /\ UNCHANGED <<status, incident, touched>>
        \/ status' = d /\ incident' = IncidentAfter(d) /\ touched' = (touched /\ incident' = "manual")
    BY <1>1 DEF ApplyProbeStatus
  <2> HIDE DEF d
  <2>3. CASE UNCHANGED <<status, incident, touched>>
    BY <1>0, <2>3 DEF IncidentMatchesStatus, ManualIsTouched
  <2>4. CASE status' = d /\ incident' = IncidentAfter(d) /\ touched' = (touched /\ incident' = "manual")
    <3>1. d # "manual" /\ "none" # "manual"
      BY <2>1 DEF Decisions, Faulty
    <3>2. ManualIsTouched'
      BY <1>0, <2>4, <3>1 DEF ManualIsTouched, IncidentAfter
    <3>3. CASE incident = "manual" /\ d # "healthy"
      BY <1>0, <2>4, <3>3 DEF ManualIsTouched, IncidentAfter, IncidentMatchesStatus
    <3>4. CASE d = "healthy"
      BY <2>4, <3>2, <3>4 DEF IncidentAfter, IncidentMatchesStatus, Faulty
    <3>5. CASE incident # "manual" /\ d # "healthy"
      <4>1. incident' = d
        BY <2>4, <3>5 DEF IncidentAfter
      <4> QED BY <2>4, <3>2, <3>5, <4>1 DEF IncidentMatchesStatus
    <3> QED BY <3>2, <3>3, <3>4, <3>5
  <2> QED BY <2>2, <2>3, <2>4
<1>2. ASSUME NEW e \in BOOLEAN, SetChannelEnabled(e) PROVE IncidentMatchesStatus' /\ ManualIsTouched'
  BY <1>0, <1>2 DEF SetChannelEnabled, IncidentMatchesStatus, ManualIsTouched, Faulty
<1>3. CASE DeletePlatformChannel
  BY <1>0, <1>3 DEF DeletePlatformChannel, IncidentMatchesStatus, ManualIsTouched, Faulty
<1>4. CASE IncidentEdit
  <2>1. ByHand
    BY <1>4 DEF IncidentEdit, CreateIncident, ReopenIncident, UpdateIncident, ResolveIncident
  <2> QED BY <2>1 DEF ByHand, IncidentMatchesStatus, ManualIsTouched
<1>5. CASE UNCHANGED <<status, incident, touched>>
  BY <1>0, <1>5 DEF IncidentMatchesStatus, ManualIsTouched
<1>6. \/ \E w \in Workers : ApplyProbeStatus(w)
      \/ \E e \in BOOLEAN : SetChannelEnabled(e)
      \/ DeletePlatformChannel \/ IncidentEdit
      \/ UNCHANGED <<status, incident, touched>>
  BY DEF Next, Progress, Deliver, WorkerStep, AcquireProbeSlot, BeginRun, Execute, UpsertProbeResults,
         CompleteProbeRun, LatestLayerSummary, Finish, Tick, PublishTask, ProbeNow, RunFails, AckLost,
         Crash, ChannelEdit, vars
<1> QED BY <1>1, <1>2, <1>3, <1>4, <1>5, <1>6

\* As long as nobody works on the incidents by hand, a healthy channel has no
\* open incident and a faulty one has the one of its status.
THEOREM IncidentsMatch == Spec => []IncidentMatchesStatus
<1>1. Init => IncidentInv
  BY TypeInit DEF Init, IncidentInv, IncidentMatchesStatus, ManualIsTouched, Faulty
<1>2. IncidentInv => IncidentMatchesStatus
  BY DEF IncidentInv
<1> QED BY <1>1, <1>2, IncidentStep, PTL DEF Spec

\* No probe brings back a deleted channel or a disabled one.
THEOREM RemovedStays == Spec => RemovedStaysRemoved
<1>1. ASSUME TypeInv, [Next]_vars
      PROVE  [/\ status = "deleted" => status' = "deleted"
              /\ status = "disabled" /\ status' # "disabled" => edits' = edits + 1]_vars
  <2>1. \/ \E w \in Workers : ApplyProbeStatus(w)
        \/ \E e \in BOOLEAN : SetChannelEnabled(e)
        \/ DeletePlatformChannel
        \/ UNCHANGED status
    BY <1>1 DEF Next, Progress, Deliver, WorkerStep, AcquireProbeSlot, BeginRun, Execute, UpsertProbeResults,
         CompleteProbeRun, LatestLayerSummary, Finish, Tick, PublishTask, ProbeNow, RunFails, AckLost,
         Crash, ChannelEdit, IncidentEdit, CreateIncident, ReopenIncident, UpdateIncident, ResolveIncident,
         ByHand, vars
  <2> QED BY <2>1 DEF ApplyProbeStatus, Removed, SetChannelEnabled, DeletePlatformChannel, Edit
<1> QED BY <1>1, TypeInit, TypeStep, PTL DEF Spec, RemovedStaysRemoved

\* Only recovery or somebody's hand closes an incident registered by hand.
THEOREM ManualIncidentsKept == Spec => ManualIncidentKept
<1>1. ASSUME TypeInv, [Next]_vars
      PROVE  [incident = "manual" /\ incident' # "manual" => status' = "healthy" \/ edits' = edits + 1]_vars
  <2>1. CASE \E w \in Workers : ApplyProbeStatus(w)
    <3>1. PICK d : \/ incident' = incident
                   \/ status' = d /\ incident' = IncidentAfter(d)
      BY <2>1 DEF ApplyProbeStatus
    <3> QED BY <3>1 DEF IncidentAfter
  <2>2. CASE IncidentEdit
    BY <2>2 DEF IncidentEdit, CreateIncident, ReopenIncident, UpdateIncident, ResolveIncident, ByHand, Edit
  <2>3. CASE UNCHANGED incident
    BY <2>3
  <2>4. (\E w \in Workers : ApplyProbeStatus(w)) \/ IncidentEdit \/ UNCHANGED incident
    BY <1>1 DEF Next, Progress, Deliver, WorkerStep, AcquireProbeSlot, BeginRun, Execute, UpsertProbeResults,
         CompleteProbeRun, LatestLayerSummary, Finish, Tick, PublishTask, ProbeNow, RunFails, AckLost,
         Crash, ChannelEdit, SetChannelEnabled, DeletePlatformChannel, vars
  <2> QED BY <2>1, <2>2, <2>3, <2>4
<1> QED BY <1>1, TypeInit, TypeStep, PTL DEF Spec, ManualIncidentKept

-----------------------------------------------------------------------------
(* One execution of a run *)

ApartInv == TypeInv /\ RunsApart

\* The layer of a run, once known, stays known.
LEMMA LayersKept ==
  ASSUME TypeInv, [Next]_vars, NEW q \in Runs, row[q].layer # "none"
  PROVE  row'[q].layer # "none"
<1>0. row \in [Runs -> Rows] /\ job \in [Workers -> Jobs] /\ WorkersSound
  BY DEF TypeInv, TypeOK
<1>1. ASSUME NEW l \in DueLayers, PublishTask(l) PROVE row'[q].layer # "none"
  <2>1. PICK r \in Runs : row' = [row EXCEPT ![r].layer = l]
    BY <1>1 DEF PublishTask
  <2>2. l # "none"
    BY Constants DEF Layers
  <2> QED BY <1>0, <2>1, <2>2 DEF Rows
<1>2. ASSUME NEW w \in Workers, BeginRun(w) PROVE row'[q].layer # "none"
  <2>1. CASE status = "deleted"
    BY <1>2, <2>1 DEF BeginRun
  <2>2. CASE status # "deleted"
    <3>1. PICK r \in Runs, l \in Layers : UpsertProbeRun(r, l)
      <4>1. CASE w \in QueueWorkers
        <5>1. job[w].run \in Runs /\ row[job[w].run].layer \in Layers
          BY <1>0, <1>2, <4>1 DEF BeginRun, WorkersSound, Sound, Jobs, Rows
        <5> QED BY <1>2, <2>2, <4>1, <5>1 DEF BeginRun
      <4>2. CASE w \notin QueueWorkers
        <5>1. job[w].todo \in Seq(Layers) /\ job[w].todo # <<>>
          BY <1>0, <1>2, <4>2 DEF BeginRun, Workers, WorkersSound, Sound, Jobs
        <5>2. Head(job[w].todo) \in Layers
          BY <5>1
        <5> QED BY <1>2, <2>2, <4>2, <5>2 DEF BeginRun
      <4> QED BY <4>1, <4>2
    <3> QED BY <3>1, UpsertType
  <2> QED BY <2>1, <2>2
<1>3. ASSUME NEW w \in Workers, UpsertProbeResults(w) \/ CompleteProbeRun(w) PROVE row'[q].layer # "none"
  BY <1>0, <1>3 DEF UpsertProbeResults, CompleteProbeRun, Rows
<1>4. CASE row' = row
  BY <1>4
<1>5. \/ \E l \in DueLayers : PublishTask(l)
      \/ \E w \in Workers : BeginRun(w) \/ UpsertProbeResults(w) \/ CompleteProbeRun(w)
      \/ row' = row
  BY DEF Next, Progress, Deliver, WorkerStep, AcquireProbeSlot, Execute, LatestLayerSummary,
         ApplyProbeStatus, Finish, Tick, ProbeNow, RunFails, AckLost, Crash, ChannelEdit, SetChannelEnabled,
         DeletePlatformChannel, IncidentEdit, CreateIncident, ReopenIncident, UpdateIncident,
         ResolveIncident, ByHand, vars
<1> QED BY <1>1, <1>2, <1>3, <1>4, <1>5

\* Workers keep or drop their runs, and messages their states.
LEMMA ApartKept ==
  ASSUME ApartInv, [Next]_vars,
         \A v \in Workers : job'[v].run \in {job[v].run, NoRun},
         \A r \in Runs : msg'[r].state = msg[r].state
  PROVE  RunsApart'
<1>1. \A v \in Workers : job[v].run \in Runs \cup {NoRun}
  BY DEF ApartInv, TypeInv, TypeOK, Jobs
<1>2. \A r \in Runs : row[r].layer # "none" => row'[r].layer # "none"
  BY LayersKept DEF ApartInv
<1> QED BY <1>1, <1>2, Constants DEF ApartInv, RunsApart, Workers

\* The same when the task of one run, which no caller has, is settled.
LEMMA ApartSettled ==
  ASSUME ApartInv, [Next]_vars,
         \A v \in Workers : job'[v].run \in {job[v].run, NoRun},
         NEW r \in Runs, Settle(r), row[r].layer # "none",
         \A c \in Callers : job[c].run # r
  PROVE  RunsApart'
<1>1. \A v \in Workers : job[v].run \in Runs \cup {NoRun}
  BY DEF ApartInv, TypeInv, TypeOK, Jobs
<1>2. \A q \in Runs : row[q].layer # "none" => row'[q].layer # "none"
  BY LayersKept DEF ApartInv
<1>3. \A q \in Runs : msg'[q].state = IF q = r THEN "settled" ELSE msg[q].state
  BY DEF Settle, ApartInv, TypeInv, TypeOK, Messages
<1> QED BY <1>1, <1>2, <1>3, Constants DEF ApartInv, RunsApart, Workers

\* A worker of a queue settles the task of its own run.
LEMMA ApartOwn ==
  ASSUME ApartInv, [Next]_vars, NEW w \in Workers,
         \A v \in Workers : job'[v].run \in {job[v].run, NoRun},
         w \in QueueWorkers => job[w].pc # "idle",
         IF w \in QueueWorkers THEN Settle(job[w].run) ELSE msg' = msg
  PROVE  RunsApart'
<1>1. CASE w \in QueueWorkers
  <2>1. job[w].run \in Runs /\ row[job[w].run].layer # "none"
    BY <1>1 DEF ApartInv, TypeInv, TypeOK, WorkersSound, Sound, Jobs
  <2>2. \A c \in Callers : job[c].run # job[w].run
    BY <1>1, <2>1, Constants DEF ApartInv, RunsApart, Workers
  <2> QED BY <1>1, <2>1, <2>2, ApartSettled
<1>2. CASE w \notin QueueWorkers
  BY <1>2, ApartKept
<1> QED BY <1>1, <1>2

\* Every step keeps the runs apart.  A task that is delivered again is older
\* than AckWait, so it is stale and nobody takes it.
LEMMA ApartStep == ApartInv /\ [Next]_vars => ApartInv'
<1> SUFFICES ASSUME ApartInv, [Next]_vars PROVE RunsApart'
  BY TypeStep DEF ApartInv
<1>0. /\ job \in [Workers -> Jobs] /\ row \in [Runs -> Rows] /\ msg \in [Runs -> Messages]
      /\ WorkersSound /\ RunsApart
      /\ \A v \in Workers : job[v].run \in Runs \cup {NoRun}
      /\ \A q \in Runs : row[q].layer # "none" => row'[q].layer # "none"
  BY LayersKept DEF ApartInv, TypeInv, TypeOK, Jobs
<1>1. ASSUME NEW w \in QueueWorkers, NEW r \in Runs, Deliver(w, r) PROVE RunsApart'
  <2>0. row[r].layer # "none"
    BY <1>1, Constants DEF Deliver, QueueWorkers, Layers
  <2>1. CASE Stale(r)
    <3>1. msg[r].state # "none"
      BY <1>1 DEF Deliver, Deliverable
    <3>2. \A c \in Callers : job[c].run # r
      BY <1>0, <3>1, Constants DEF RunsApart
    <3> QED BY <1>1, <2>0, <2>1, <3>2, ApartSettled DEF Deliver
  <2>2. CASE ~Stale(r)
    <3>1. msg[r].state = "queued"
      BY <1>0, <1>1, <2>2, Constants DEF Deliver, Deliverable, Stale, Messages
    <3>2. \A v \in Workers : job[v].run # r
      BY <1>0, <3>1, Constants DEF RunsApart
    <3>3. \A v \in Workers : job'[v].run = IF v = w THEN r ELSE job[v].run
      BY <1>0, <1>1, <2>2, IdleSound DEF Deliver, Jobs
    <3>4. \A q \in Runs : msg'[q].state = IF q = r THEN "unacked" ELSE msg[q].state
      BY <1>0, <1>1, <2>2 DEF Deliver, Messages
    <3> QED BY <1>0, <2>0, <3>2, <3>3, <3>4, Constants DEF RunsApart, Workers
  <2> QED BY <2>1, <2>2
<1>2. ASSUME NEW w \in Workers, AcquireProbeSlot(w) PROVE RunsApart'
  <2>1. \A v \in Workers : job'[v].run \in {job[v].run, NoRun}
    <3>1. CASE job' = [job EXCEPT ![w] = Idle]
      BY <1>0, <3>1, IdleSound
    <3>2. CASE job' = [job EXCEPT ![w].pc = "target"]
      BY <1>0, <3>2 DEF Jobs
    <3> QED BY <1>2, <3>1, <3>2 DEF AcquireProbeSlot
  <2> QED BY <1>2, <2>1, ApartKept, ApartOwn DEF AcquireProbeSlot
<1>3. ASSUME NEW w \in Workers, BeginRun(w) PROVE RunsApart'
  <2>1. CASE status = "deleted" \/ w \in QueueWorkers
    <3>1. \A v \in Workers : job'[v].run \in {job[v].run, NoRun}
      <4>1. CASE job' = [job EXCEPT ![w] = Idle]
        BY <1>0, <4>1, IdleSound
      <4>2. CASE job' = [job EXCEPT ![w].pc = "execute"]
        BY <1>0, <4>2 DEF Jobs
      <4> QED BY <1>3, <2>1, <4>1, <4>2 DEF BeginRun, Terminate, Goto
    <3>2. CASE status = "deleted"
      BY <1>3, <3>1, <3>2, ApartOwn DEF BeginRun, Terminate
    <3>3. CASE status # "deleted"
      BY <1>3, <3>1, <3>3, ApartKept DEF BeginRun
    <3> QED BY <3>2, <3>3
  <2>2. CASE status # "deleted" /\ w \notin QueueWorkers
    <3>1. PICK r \in Runs : /\ Fresh(r)
                            /\ UpsertProbeRun(r, Head(job[w].todo))
                            /\ job' = [job EXCEPT ![w].pc = "execute", ![w].run = r, ![w].todo = Tail(@)]
      BY <1>3, <2>2 DEF BeginRun
    <3>2. \A v \in Workers : job[v].run # r
      BY <1>0, <3>1, Constants DEF Fresh, WorkersSound, Sound
    <3>3. \A v \in Workers : job'[v].run = IF v = w THEN r ELSE job[v].run
      BY <1>0, <3>1 DEF Jobs
    <3>4. msg' = msg /\ msg[r].state = "none"
      BY <1>0, <1>3, <2>2, <3>1 DEF BeginRun, RunsApart, Fresh
    <3> QED BY <1>0, <3>2, <3>3, <3>4, Constants DEF RunsApart, Workers
  <2> QED BY <2>1, <2>2
<1>4. ASSUME NEW w \in Workers, Finish(w) PROVE RunsApart'
  <2>1. NextManual(w).run = NoRun
    BY DEF NextManual, Idle
  <2>2. \A v \in Workers : job'[v].run \in {job[v].run, NoRun}
    BY <1>0, <1>4, <2>1 DEF Finish
  <2> QED BY <1>4, <2>2, ApartOwn DEF Finish
<1>5. ASSUME NEW l \in DueLayers, PublishTask(l) PROVE RunsApart'
  <2>1. PICK r \in Runs : Fresh(r) /\ row' = [row EXCEPT ![r].layer = l] /\ msg' = [msg EXCEPT ![r].state = "queued"]
    BY <1>5 DEF PublishTask
  <2>2. \A v \in Workers : job[v].run # r
    BY <1>0, <2>1, Constants DEF Fresh, WorkersSound, Sound
  <2>3. \A q \in Runs : msg'[q].state = IF q = r THEN "queued" ELSE msg[q].state
    BY <1>0, <2>1 DEF Messages
  <2>4. row'[r].layer # "none" /\ job' = job
    <3>1. l # "none"
      BY Constants DEF Layers
    <3> QED BY <1>0, <1>5, <2>1, <3>1 DEF PublishTask, Rows
  <2> QED BY <1>0, <2>2, <2>3, <2>4, Constants DEF RunsApart, Workers
<1>6. ASSUME NEW w \in Workers, RunFails(w) PROVE RunsApart'
  <2>1. \A v \in Workers : job'[v].run = IF v = w THEN NoRun ELSE job[v].run
    BY <1>0, <1>6, IdleSound DEF RunFails
  <2>2. CASE w \in QueueWorkers /\ msg[job[w].run].state = "unacked"
    <3>1. job[w].run \in Runs /\ row[job[w].run].layer # "none"
      BY <1>0, <1>6, <2>2 DEF RunFails, WorkersSound, Sound, Jobs
    <3>2. \A q \in Runs : msg'[q].state = IF q = job[w].run THEN "queued" ELSE msg[q].state
      BY <1>0, <1>6, <2>2 DEF RunFails, Messages
    <3>3. \A v \in Workers : v # w /\ job[v].run # NoRun => job[v].run # job[w].run
      BY <1>0 DEF RunsApart
    <3>4. \A v \in Workers : job'[v].run # NoRun =>
            job'[v].run = job[v].run /\ job[v].run \in Runs /\ msg'[job[v].run].state = msg[job[v].run].state
      BY <1>0, <2>1, <3>2, <3>3
    <3>5. \A v, u \in Workers : job'[v].run = job'[u].run /\ job'[v].run # NoRun => v = u
      BY <1>0, <3>4 DEF RunsApart
    <3>6. \A v \in Workers : job'[v].run # NoRun => msg'[job'[v].run].state # "queued"
      BY <1>0, <3>4 DEF RunsApart
    <3>7. \A v \in Callers : job'[v].run # NoRun => msg'[job'[v].run].state = "none"
      BY <1>0, <3>4 DEF RunsApart, Workers
    <3>8. \A q \in Runs : msg'[q].state # "none" => row'[q].layer # "none"
      BY <1>0, <3>1, <3>2 DEF RunsApart
    <3> QED BY <3>5, <3>6, <3>7, <3>8 DEF RunsApart
  <2>3. CASE ~(w \in QueueWorkers /\ msg[job[w].run].state = "unacked")
    BY <1>6, <2>1, <2>3, ApartKept DEF RunFails
  <2> QED BY <2>2, <2>3
<1>7. CASE Tick
  <2>1. \A q \in Runs : msg'[q].state = msg[q].state
    BY <1>0, <1>7 DEF Tick, Messages
  <2> QED BY <1>7, <2>1, ApartKept DEF Tick
<1>8. ASSUME NEW w \in Workers,
             Execute(w) \/ UpsertProbeResults(w) \/ CompleteProbeRun(w) \/ LatestLayerSummary(w) \/ ApplyProbeStatus(w)
      PROVE  RunsApart'
  <2>1. \A v \in Workers : job'[v].run = job[v].run
    <3>1. CASE Execute(w)
      BY <1>0, <3>1 DEF Execute, Jobs
    <3>2. CASE UpsertProbeResults(w)
      BY <1>0, <3>2 DEF UpsertProbeResults, Disturb, Jobs
    <3>3. CASE CompleteProbeRun(w)
      BY <1>0, <3>3 DEF CompleteProbeRun, Disturb, Jobs
    <3>4. CASE LatestLayerSummary(w)
      BY <1>0, <3>4 DEF LatestLayerSummary, Jobs
    <3>5. CASE ApplyProbeStatus(w)
      BY <1>0, <3>5 DEF ApplyProbeStatus, Disturb, Jobs
    <3> QED BY <1>8, <3>1, <3>2, <3>3, <3>4, <3>5
  <2> QED BY <1>8, <2>1, ApartKept DEF Execute, UpsertProbeResults, CompleteProbeRun, LatestLayerSummary, ApplyProbeStatus
<1>9. ASSUME NEW w \in Callers, ProbeNow(w) PROVE RunsApart'
  <2>1. \A v \in Workers : job'[v].run = job[v].run
    BY <1>0, <1>9 DEF ProbeNow, Jobs
  <2> QED BY <1>9, <2>1, ApartKept DEF ProbeNow
<1>10. ASSUME NEW w \in Workers, AckLost(w) PROVE RunsApart'
  <2>1. \A v \in Workers : job'[v].run \in {job[v].run, NoRun}
    BY <1>0, <1>10, IdleSound DEF AckLost
  <2> QED BY <1>10, <2>1, ApartKept DEF AckLost
<1>11. ASSUME NEW p \in Procs, Crash(p) PROVE RunsApart'
  <2>1. \A v \in Workers : job'[v].run \in {job[v].run, NoRun}
    BY <1>0, <1>11, IdleSound DEF Crash
  <2> QED BY <1>11, <2>1, ApartKept DEF Crash
<1>12. CASE ChannelEdit
  <2>1. \A v \in Workers : job'[v].run = job[v].run
    BY <1>0, <1>12 DEF ChannelEdit, SetChannelEnabled, DeletePlatformChannel, Jobs
  <2> QED BY <1>12, <2>1, ApartKept DEF ChannelEdit, SetChannelEnabled, DeletePlatformChannel
<1>13. CASE IncidentEdit
  <2>1. ByHand
    BY <1>13 DEF IncidentEdit, CreateIncident, ReopenIncident, UpdateIncident, ResolveIncident
  <2> QED BY <2>1, ApartKept DEF ByHand
<1>14. CASE UNCHANGED vars
  BY <1>14, ApartKept DEF vars
<1> QED BY <1>1, <1>2, <1>3, <1>4, <1>5, <1>6, <1>7, <1>8, <1>9, <1>10, <1>11, <1>12, <1>13, <1>14
        DEF Next, Progress, WorkerStep

\* No run is executed twice at the same time.
THEOREM RunsExecutedOnce == Spec => []OneExecutionPerRun
<1>1. Init => ApartInv
  <2> SUFFICES ASSUME Init PROVE RunsApart
    BY TypeInit DEF ApartInv
  <2>1. \A w \in Workers : job[w].run = NoRun
    BY IdleSound DEF Init
  <2> QED BY <2>1 DEF Init, RunsApart, Workers
<1>2. ApartInv => OneExecutionPerRun
  BY DEF ApartInv, RunsApart, OneExecutionPerRun
<1> QED BY <1>1, <1>2, ApartStep, PTL DEF Spec

-----------------------------------------------------------------------------
(* Results *)

\* What has finished had started, and what runs has started.
StartsKnown ==
  /\ \A r \in Runs : row[r].finished => row[r].started > 0 /\ row[r].layer # "none"
  /\ \A w \in Workers : job[w].pc \in Running => row[job[w].run].started > 0

StartInv == TypeInv /\ StartsKnown

\* A row is only ever added to; a finished one keeps its layer and its start.
Extends(old, new) ==
  /\ old.layer # "none" => new.layer # "none"
  /\ old.started > 0 => new.started > 0
  /\ old.result # "none" => new.result # "none"
  /\ old.finished => new.finished /\ new.layer = old.layer /\ new.started = old.started

\* The start of a run adds to its row and changes no finished one.
LEMMA BeginKeeps ==
  ASSUME StartInv, NEW w \in Workers, BeginRun(w)
  PROVE  /\ \A r \in Runs : Extends(row[r], row'[r]) /\ row'[r].finished = row[r].finished
         /\ \A r \in Runs : row[r].finished => row'[r] = row[r]
         /\ job'[w].pc = "execute" => row'[job'[w].run].started > 0
<1>0. /\ TypeInv /\ job \in [Workers -> Jobs] /\ row \in [Runs -> Rows] /\ WorkersSound /\ StartsKnown
      /\ job[w] \in Jobs /\ Sound(w, job[w], row)
  BY DEF StartInv, TypeInv, TypeOK, WorkersSound
<1>1. CASE status = "deleted"
  <2>1. row' = row /\ job'[w] = Idle
    BY <1>0, <1>1 DEF BeginRun, Terminate
  <2> QED BY <2>1, IdleSound DEF Extends
<1>2. CASE status # "deleted"
  <2>0. \E r \in Runs, l \in Layers :
          /\ UpsertProbeRun(r, l)
          /\ row[r].finished => row[r].layer = l
          /\ job'[w].run = r
    <3>1. CASE w \in QueueWorkers
      <4>1. job[w].run \in Runs /\ row[job[w].run].layer \in Layers
        BY <1>0, <3>1 DEF BeginRun, Sound, Jobs, Rows
      <4>2. job'[w].run = job[w].run
        BY <1>0, <1>2, <3>1 DEF BeginRun, Goto, Jobs
      <4> QED BY <1>2, <3>1, <4>1, <4>2 DEF BeginRun
    <3>2. CASE w \notin QueueWorkers
      <4>1. job[w].todo \in Seq(Layers) /\ job[w].todo # <<>>
        BY <1>0, <3>2 DEF BeginRun, Workers, Sound, Jobs
      <4>2. Head(job[w].todo) \in Layers
        BY <4>1
      <4>3. PICK r \in Runs : /\ Fresh(r) /\ UpsertProbeRun(r, Head(job[w].todo))
                              /\ job' = [job EXCEPT ![w].pc = "execute", ![w].run = r, ![w].todo = Tail(@)]
        BY <1>2, <3>2 DEF BeginRun
      <4>4. ~row[r].finished /\ job'[w].run = r
        BY <1>0, <4>3 DEF Fresh, StartsKnown, Jobs
      <4> QED BY <4>2, <4>3, <4>4
    <3> QED BY <3>1, <3>2
  <2>1. PICK r \in Runs, l \in Layers :
          /\ UpsertProbeRun(r, l)
          /\ row[r].finished => row[r].layer = l
          /\ job'[w].run = r
    BY <2>0
  <2> DEFINE n == IF row[r].started = 0 THEN Cardinality({q \in Runs : row[q].started > 0}) + 1 ELSE row[r].started
             x == [row[r] EXCEPT !.layer = l, !.started = n]
  <2>2. row[r] \in Rows /\ row' = [row EXCEPT ![r] = x]
    <3>1. row[r] \in Rows
      BY <1>0
    <3>2. row' = [row EXCEPT ![r] = x]
      BY <1>0, <2>1 DEF UpsertProbeRun
    <3> QED BY <3>1, <3>2
  <2>3. n \in Nat /\ n > 0 /\ (row[r].started > 0 => n = row[r].started)
    BY <2>2, NextStart DEF Rows
  <2> HIDE DEF n
  <2>4. /\ x.layer = l /\ x.started = n /\ x.finished = row[r].finished /\ x.result = row[r].result
        /\ l # "none"
    BY <2>2 DEF Rows, Layers
  <2>5. row[r].finished => x = row[r]
    <3> SUFFICES ASSUME row[r].finished PROVE x = row[r]
      OBVIOUS
    <3>1. row[r].layer = l /\ row[r].started = n
      <4>1. row[r].started > 0
        BY <1>0 DEF StartsKnown
      <4> QED BY <2>1, <2>3, <4>1
    <3> QED BY <2>2, <3>1 DEF Rows
  <2>6. Extends(row[r], x)
    <3>1. row[r].finished => row[r].started > 0
      BY <1>0 DEF StartsKnown
    <3> QED BY <2>1, <2>2, <2>3, <2>4, <3>1 DEF Extends, Rows
  <2> HIDE DEF x
  <2>7. \A q \in Runs : row'[q] = IF q = r THEN x ELSE row[q]
    BY <1>0, <2>2
  <2>8. \A q \in Runs : Extends(row[q], row[q])
    BY DEF Extends
  <2>9. \A q \in Runs : Extends(row[q], row'[q]) /\ row'[q].finished = row[q].finished
    BY <2>4, <2>6, <2>7, <2>8
  <2>10. \A q \in Runs : row[q].finished => row'[q] = row[q]
    BY <2>5, <2>7
  <2>11. row'[job'[w].run].started > 0
    BY <2>1, <2>3, <2>4, <2>7
  <2> QED BY <2>9, <2>10, <2>11
<1> QED BY <1>1, <1>2

\* Publishing names the layer of a row that nobody has used.
LEMMA PublishKeeps ==
  ASSUME StartInv, NEW l \in DueLayers, PublishTask(l)
  PROVE  /\ \A r \in Runs : Extends(row[r], row'[r]) /\ row'[r].finished = row[r].finished
         /\ \A r \in Runs : row[r].finished => row'[r] = row[r]
<1>0. row \in [Runs -> Rows] /\ StartsKnown
  BY DEF StartInv, TypeInv, TypeOK
<1>1. PICK r \in Runs : Fresh(r) /\ row' = [row EXCEPT ![r].layer = l]
  BY DEF PublishTask
<1>2. ~row[r].finished
  BY <1>0, <1>1 DEF Fresh, StartsKnown
<1>3. l # "none"
  BY Constants DEF Layers
<1>4. /\ \A q \in Runs : q # r => row'[q] = row[q]
      /\ row'[r].layer = l /\ row'[r].started = row[r].started /\ row'[r].finished = row[r].finished
      /\ row'[r].result = row[r].result
  BY <1>0, <1>1 DEF Rows
<1> QED BY <1>2, <1>3, <1>4 DEF Extends

\* So do storing a result and completing a run, which others do not notice
\* unless they are disturbed.
LEMMA StoreKeeps ==
  ASSUME StartInv, NEW w \in Workers, UpsertProbeResults(w) \/ CompleteProbeRun(w)
  PROVE  \A r \in Runs : Extends(row[r], row'[r])
<1>0. /\ row \in [Runs -> Rows] /\ job[w] \in Jobs /\ StartsKnown
  BY DEF StartInv, TypeInv, TypeOK
<1>1. CASE UpsertProbeResults(w)
  <2>1. job[w].outcome # "none"
    BY <1>0 DEF Jobs, Summaries
  <2> QED BY <1>0, <1>1, <2>1 DEF UpsertProbeResults, Rows, Extends
<1>2. CASE CompleteProbeRun(w)
  BY <1>0, <1>2 DEF CompleteProbeRun, Rows, Extends
<1> QED BY <1>1, <1>2

\* The steps that change rows.
LEMMA RowChanges ==
  ASSUME [Next]_vars
  PROVE  \/ \E l \in DueLayers : PublishTask(l)
         \/ \E w \in Workers : BeginRun(w) \/ UpsertProbeResults(w) \/ CompleteProbeRun(w)
         \/ row' = row
BY DEF Next, Progress, Deliver, WorkerStep, AcquireProbeSlot, Execute, LatestLayerSummary,
       ApplyProbeStatus, Finish, Tick, ProbeNow, RunFails, AckLost, Crash, ChannelEdit, SetChannelEnabled,
       DeletePlatformChannel, IncidentEdit, CreateIncident, ReopenIncident, UpdateIncident,
       ResolveIncident, ByHand, vars

\* Rows are only added to.
LEMMA RowsExtended ==
  ASSUME StartInv, [Next]_vars
  PROVE  \A r \in Runs : Extends(row[r], row'[r])
<1>1. \A r \in Runs : Extends(row[r], row[r])
  BY DEF Extends
<1> QED BY <1>1, RowChanges, BeginKeeps, PublishKeeps, StoreKeeps

\* Steps after which no worker has begun to run that did not run before,
\* except w when its run has started.
LEMMA StartsKept ==
  ASSUME StartInv, [Next]_vars,
         \A v \in Workers : job'[v].pc \in Running =>
           \/ job[v].pc \in Running /\ job'[v].run = job[v].run
           \/ row'[job'[v].run].started > 0,
         \A r \in Runs : row'[r].finished => row[r].finished \/ (row'[r].started > 0 /\ row'[r].layer # "none")
  PROVE  StartsKnown'
<1>1. \A r \in Runs : Extends(row[r], row'[r])
  BY RowsExtended
<1>2. \A r \in Runs : row'[r].finished => row'[r].started > 0 /\ row'[r].layer # "none"
  BY <1>1 DEF StartInv, StartsKnown, Extends
<1>3. \A v \in Workers : job[v].pc \in Running => job[v].run \in Runs /\ row[job[v].run].started > 0
  BY DEF StartInv, StartsKnown, TypeInv, TypeOK, WorkersSound, Sound, Jobs
<1>4. \A v \in Workers : job'[v].pc \in Running => row'[job'[v].run].started > 0
  BY <1>1, <1>3 DEF Extends
<1> QED BY <1>2, <1>4 DEF StartsKnown

\* The steps that let a worker run, or go on running.
LEMMA RunningChanges ==
  ASSUME TypeInv, [Next]_vars, NEW v \in Workers, job'[v].pc \in Running
  PROVE  \/ job[v].pc \in Running /\ job'[v].run = job[v].run
         \/ BeginRun(v) /\ job'[v].pc = "execute"
<1>0. job \in [Workers -> Jobs] /\ Idle.pc \notin Running
  BY IdleSound DEF TypeInv, TypeOK, Running
<1>1. CASE job'[v] = job[v]
  BY <1>1
<1>2. CASE job'[v] = [job[v] EXCEPT !.clean = FALSE]
  BY <1>0, <1>2 DEF Jobs
<1>3. CASE job'[v] = Idle
  BY <1>0, <1>3
<1>4. ASSUME NEW w \in QueueWorkers, NEW r \in Runs, Deliver(w, r) PROVE job'[v] = job[v] \/ job'[v].pc = "waiting"
  <2>1. CASE job' = job
    BY <2>1
  <2>2. CASE job' = [job EXCEPT ![w] = [Idle EXCEPT !.pc = "waiting", !.run = r]]
    <3>1. [Idle EXCEPT !.pc = "waiting", !.run = r].pc = "waiting"
      BY DEF Idle
    <3> QED BY <1>0, <2>2, <3>1
  <2> QED BY <1>4, <2>1, <2>2 DEF Deliver
<1>5. ASSUME NEW w \in Workers, AcquireProbeSlot(w) PROVE job'[v] = job[v] \/ job'[v] = Idle \/ job'[v].pc = "target"
  BY <1>0, <1>5 DEF AcquireProbeSlot, Jobs
<1>6. ASSUME NEW w \in Workers, BeginRun(w) PROVE job'[v] = job[v] \/ job'[v] = Idle \/ (v = w /\ job'[v].pc = "execute")
  <2>1. CASE job' = [job EXCEPT ![w] = Idle]
    BY <1>0, <2>1
  <2>2. CASE job' = [job EXCEPT ![w].pc = "execute"]
    BY <1>0, <2>2 DEF Jobs
  <2>3. CASE \E r \in Runs : job' = [job EXCEPT ![w].pc = "execute", ![w].run = r, ![w].todo = Tail(@)]
    BY <1>0, <2>3 DEF Jobs
  <2> QED BY <1>6, <2>1, <2>2, <2>3 DEF BeginRun, Terminate, Goto
<1>7. ASSUME NEW w \in Workers, Execute(w)
      PROVE  job'[v] = job[v] \/ (job[v].pc \in Running /\ job'[v].run = job[v].run)
  BY <1>0, <1>7 DEF Execute, Jobs, Running
<1>8. ASSUME NEW w \in Workers, UpsertProbeResults(w)
      PROVE  job'[v] = [job[v] EXCEPT !.clean = FALSE] \/ (job[v].pc \in Running /\ job'[v].run = job[v].run)
  BY <1>0, <1>8 DEF UpsertProbeResults, Disturb, Jobs, Running
<1>9. ASSUME NEW w \in Workers, CompleteProbeRun(w)
      PROVE  job'[v] = [job[v] EXCEPT !.clean = FALSE] \/ (job[v].pc \in Running /\ job'[v].run = job[v].run)
  BY <1>0, <1>9 DEF CompleteProbeRun, Disturb, Jobs, Running
<1>10. ASSUME NEW w \in Workers, LatestLayerSummary(w)
       PROVE  job'[v] = job[v] \/ (job[v].pc \in Running /\ job'[v].run = job[v].run)
  BY <1>0, <1>10 DEF LatestLayerSummary, Jobs, Running
<1>11. ASSUME NEW w \in Workers, ApplyProbeStatus(w)
       PROVE  job'[v] = [job[v] EXCEPT !.clean = FALSE] \/ (job[v].pc \in Running /\ job'[v].run = job[v].run)
  BY <1>0, <1>11 DEF ApplyProbeStatus, Disturb, Jobs, Running
<1>12. ASSUME NEW w \in Workers, Finish(w) PROVE job'[v] = job[v] \/ job'[v].pc \in {"idle", "target"}
  <2>1. NextManual(w).pc \in {"idle", "target"}
    BY DEF NextManual, Idle
  <2> QED BY <1>0, <1>12, <2>1 DEF Finish
<1>13. ASSUME NEW w \in Callers, ProbeNow(w) PROVE job'[v] = job[v] \/ job'[v].pc = "target"
  BY <1>0, <1>13 DEF ProbeNow, Jobs
<1>14. ASSUME NEW w \in Workers, RunFails(w) \/ AckLost(w) PROVE job'[v] = job[v] \/ job'[v] = Idle
  BY <1>0, <1>14 DEF RunFails, AckLost
<1>15. ASSUME NEW p \in Procs, Crash(p) PROVE job'[v] = job[v] \/ job'[v] = Idle
  BY <1>0, <1>15 DEF Crash
<1>16. ASSUME ChannelEdit PROVE job'[v] = job[v] \/ job'[v] = [job[v] EXCEPT !.clean = FALSE]
  BY <1>0, <1>16 DEF ChannelEdit, SetChannelEnabled, DeletePlatformChannel
<1>17. "waiting" \notin Running /\ "target" \notin Running /\ "idle" \notin Running
  BY DEF Running
<1>18. \/ \E w \in QueueWorkers, r \in Runs : Deliver(w, r)
       \/ \E w \in Workers : WorkerStep(w) \/ RunFails(w) \/ AckLost(w)
       \/ \E w \in Callers : ProbeNow(w)
       \/ \E p \in Procs : Crash(p)
       \/ ChannelEdit
       \/ job' = job
  BY DEF Next, Progress, Tick, PublishTask, IncidentEdit, CreateIncident, ReopenIncident, UpdateIncident,
         ResolveIncident, ByHand, vars
<1> QED BY <1>1, <1>2, <1>3, <1>4, <1>5, <1>6, <1>7, <1>8, <1>9, <1>10, <1>11, <1>12, <1>13, <1>14, <1>15,
           <1>16, <1>17, <1>18 DEF WorkerStep

\* Only what has started is completed.
LEMMA StartStep == StartInv /\ [Next]_vars => StartInv'
<1> SUFFICES ASSUME StartInv, [Next]_vars PROVE StartsKnown'
  BY TypeStep DEF StartInv
<1>0. row \in [Runs -> Rows] /\ job \in [Workers -> Jobs] /\ TypeInv /\ WorkersSound /\ StartsKnown
  BY DEF StartInv, TypeInv, TypeOK
<1>1. ASSUME NEW v \in Workers, job'[v].pc \in Running
      PROVE  \/ job[v].pc \in Running /\ job'[v].run = job[v].run
             \/ row'[job'[v].run].started > 0
  BY <1>0, <1>1, RunningChanges, BeginKeeps
<1>2. ASSUME NEW r \in Runs, row'[r].finished
      PROVE  row[r].finished \/ (row'[r].started > 0 /\ row'[r].layer # "none")
  <2>1. ASSUME NEW w \in Workers, CompleteProbeRun(w)
        PROVE  row[r].finished \/ (row'[r].started > 0 /\ row'[r].layer # "none")
    <3>1. row[job[w].run].started > 0 /\ row[job[w].run].layer # "none" /\ job[w].run \in Runs
      BY <1>0, <2>1 DEF StartsKnown, WorkersSound, Sound, CompleteProbeRun, Running, Jobs
    <3>2. IF r = job[w].run THEN row'[r].started = row[r].started /\ row'[r].layer = row[r].layer ELSE row'[r] = row[r]
      BY <1>0, <2>1 DEF CompleteProbeRun, Rows
    <3> QED BY <1>2, <3>1, <3>2
  <2>2. ASSUME NEW w \in Workers, UpsertProbeResults(w) PROVE row[r].finished
    <3>1. row'[r].finished = row[r].finished
      BY <1>0, <2>2 DEF UpsertProbeResults, Rows
    <3> QED BY <1>2, <3>1
  <2> QED BY <1>2, <2>1, <2>2, RowChanges, BeginKeeps, PublishKeeps
<1> QED BY <1>1, <1>2, StartsKept

\* It holds at first.
LEMMA StartInit == Init => StartInv
<1> SUFFICES ASSUME Init PROVE StartsKnown
  BY TypeInit DEF StartInv
<1> QED BY IdleSound DEF Init, StartsKnown, Running

\* The result shown for a layer never goes back to an earlier run.
THEOREM ResultsNeverOlder == Spec => LatestNeverOlder
<1>1. ASSUME StartInv, StartInv', [Next]_vars, NEW l \in Layers, Finished(l) # {}
      PROVE  /\ Finished(l)' # {}
             /\ row[Latest(History(l))].started <= (row[Latest(History(l))].started)'
  <2>1. \A r \in Runs : Extends(row[r], row'[r])
    BY <1>1, RowsExtended
  <2>2. Finished(l) \subseteq Finished(l)'
    BY <2>1 DEF Finished, Extends
  <2>3. /\ DOMAIN History(l) = Finished(l) /\ DOMAIN History(l)' = Finished(l)'
        /\ \A r \in Finished(l) : History(l)[r] = row[r]
        /\ \A r \in Finished(l)' : History(l)'[r] = row'[r]
    BY DEF History
  <2>4. IsHistory(History(l)) /\ IsHistory(History(l)')
    <3>1. row \in [Runs -> Rows] /\ row' \in [Runs -> Rows] /\ StartsBounded /\ StartsBounded'
      BY <1>1 DEF StartInv, TypeInv, TypeOK
    <3>2. Finished(l) \subseteq Runs /\ Finished(l)' \subseteq Runs
      BY DEF Finished
    <3> QED BY <2>3, <3>1, <3>2 DEF IsHistory, StartsBounded, Rows
  <2> DEFINE g == Latest(History(l))
             h == Latest(History(l)')
  <2>5. g \in Finished(l) /\ h \in Finished(l)' /\ \A q \in Finished(l)' : row'[q].started <= row'[h].started
    BY <1>1, <2>2, <2>3, <2>4, LatestExists
  <2>6. row'[g].started = row[g].started
    BY <2>1, <2>5 DEF Finished, Extends
  <2>7. row[g].started <= row'[h].started
    BY <2>2, <2>5, <2>6
  <2> QED BY <1>1, <2>2, <2>7
<1>2. ASSUME StartInv, StartInv', [Next]_vars
      PROVE  [\A l \in Layers : Finished(l) # {} =>
                /\ Finished(l)' # {}
                /\ row[Latest(History(l))].started <= (row[Latest(History(l))].started)']_vars
  BY <1>1, <1>2
<1> QED BY <1>2, StartInit, StartStep, PTL DEF Spec, LatestNeverOlder

-----------------------------------------------------------------------------
(* Decisions *)

\* What a worker has read, as long as nobody disturbs it, is what there is.
SeenOK(j) ==
  /\ j.pc \notin {"read", "apply"} => j.seen = <<>>
  /\ j.pc = "read" => Len(j.seen) \in 0..2
  /\ j.pc = "apply" => Len(j.seen) = 3
  /\ j.pc \in {"read", "apply"} /\ j.clean => \A i \in 1..Len(j.seen) : j.seen[i] = Summary(LayerOrder[i])
  /\ j.pc \in {"complete", "read", "apply", "ack"} => row[j.run].result # "none"
  /\ j.pc \in {"read", "apply", "ack"} => row[j.run].finished
  /\ j.pc = "ack" /\ j.clean => status \in {CurrentStatus} \cup Removed

AllSeen == \A w \in Workers : SeenOK(job[w])

DecideInv == StartInv /\ AllSeen

Early == {"idle", "waiting", "target", "execute", "results"}

\* Before its results are stored a worker has read nothing.
LEMMA SeenEarly ==
  ASSUME NEW j, j.pc \in Early, j.seen = <<>>
  PROVE  SeenOK(j) /\ SeenOK(j)'
BY DEF SeenOK, Early

\* Summaries only change when results are stored or a run is completed.
LEMMA SummariesKept ==
  ASSUME StartInv, row' = row \/ (\E w \in Workers : BeginRun(w)) \/ (\E l \in DueLayers : PublishTask(l)), NEW l
  PROVE  Summary(l)' = Summary(l)
<1>1. \A r \in Runs : row'[r].finished = row[r].finished /\ (row[r].finished => row'[r] = row[r])
  BY BeginKeeps, PublishKeeps
<1>2. \A r \in Runs : (row'[r].layer = l /\ row'[r].finished /\ row'[r].result # "none")
                      <=> (row[r].layer = l /\ row[r].finished /\ row[r].result # "none")
  BY <1>1
<1>3. Finished(l)' = Finished(l)
  BY <1>2 DEF Finished
<1>4. \A r \in Finished(l) : row'[r] = row[r]
  BY <1>1 DEF Finished
<1>5. History(l)' = History(l)
  BY <1>3, <1>4 DEF History
<1> QED BY <1>5 DEF Summary

\* A worker that does nothing, and is disturbed when summaries or the status
\* may have changed.
LEMMA SeenFrame ==
  ASSUME StartInv, [Next]_vars, NEW v \in Workers, SeenOK(job[v]),
         job'[v] \in {job[v], [job[v] EXCEPT !.clean = FALSE]},
         job'[v].clean => (\A l : Summary(l)' = Summary(l)) /\ status' \in {status} \cup Removed
  PROVE  SeenOK(job[v])'
<1>0. job[v] \in Jobs /\ TypeInv /\ Sound(v, job[v], row)
  BY DEF StartInv, TypeInv, TypeOK, WorkersSound
<1>1. /\ job'[v].pc = job[v].pc /\ job'[v].run = job[v].run /\ job'[v].seen = job[v].seen
      /\ job'[v].clean => job[v].clean
  BY <1>0 DEF Jobs
<1>2. ASSUME job[v].pc \in {"complete", "read", "apply", "ack"}
      PROVE  /\ row[job[v].run].result # "none" => row'[job[v].run].result # "none"
             /\ row[job[v].run].finished => row'[job[v].run].finished
  <2>1. job[v].run \in Runs
    BY <1>0, <1>2 DEF Sound, Running, Jobs
  <2> QED BY <2>1, RowsExtended DEF Extends
<1>3. job'[v].clean => /\ CurrentStatus' = CurrentStatus
                       /\ \A i : Summary(LayerOrder[i])' = Summary(LayerOrder[i])
  BY DEF CurrentStatus
<1>4. job'[v].pc = "ack" /\ job'[v].clean => status' \in {CurrentStatus'} \cup Removed
  BY <1>1, <1>3 DEF SeenOK, Removed
<1>5. job'[v].pc \in {"read", "apply"} /\ job'[v].clean
        => \A i \in 1..Len(job'[v].seen) : job'[v].seen[i] = Summary(LayerOrder[i])'
  BY <1>1, <1>3 DEF SeenOK
<1>6. /\ job'[v].pc \in {"complete", "read", "apply", "ack"} => row'[job'[v].run].result # "none"
      /\ job'[v].pc \in {"read", "apply", "ack"} => row'[job'[v].run].finished
  BY <1>1, <1>2 DEF SeenOK
<1>7. /\ job'[v].pc \notin {"read", "apply"} => job'[v].seen = <<>>
      /\ job'[v].pc = "read" => Len(job'[v].seen) \in 0..2
      /\ job'[v].pc = "apply" => Len(job'[v].seen) = 3
  BY <1>1 DEF SeenOK
<1> QED BY <1>4, <1>5, <1>6, <1>7 DEF SeenOK

\* The others while worker w stores, completes or decides.
LEMMA SeenDisturbed ==
  ASSUME DecideInv, [Next]_vars, NEW w \in Workers, NEW j,
         job' = Disturb([job EXCEPT ![w] = j], w),
         NEW v \in Workers, v # w
  PROVE  SeenOK(job[v])'
<1>0. job \in [Workers -> Jobs] /\ SeenOK(job[v]) /\ StartInv
  BY DEF DecideInv, AllSeen, StartInv, TypeInv, TypeOK
<1>1. job'[v] = [job[v] EXCEPT !.clean = FALSE] /\ ~job'[v].clean
  BY <1>0 DEF Disturb, Jobs
<1> QED BY <1>0, <1>1, SeenFrame

\* Steps that leave summaries and status alone, or remove the channel.
LEMMA SeenQuiet ==
  ASSUME DecideInv, [Next]_vars,
         row' = row \/ (\E w \in Workers : BeginRun(w)) \/ (\E l \in DueLayers : PublishTask(l)),
         status' \in {status} \cup Removed,
         \A v \in Workers : \/ job'[v] = job[v]
                            \/ job'[v].pc \in Early /\ job'[v].seen = <<>>
  PROVE  AllSeen'
<1>1. \A l : Summary(l)' = Summary(l)
  BY SummariesKept DEF DecideInv
<1> SUFFICES ASSUME NEW v \in Workers PROVE SeenOK(job[v])'
  BY DEF AllSeen
<1>2. CASE job'[v] = job[v]
  BY <1>1, <1>2, SeenFrame DEF DecideInv, AllSeen
<1>3. CASE job'[v].pc \in Early /\ job'[v].seen = <<>>
  BY <1>3 DEF SeenOK, Early
<1> QED BY <1>2, <1>3

\* Storing results and completing the run.
LEMMA SeenStore ==
  ASSUME DecideInv, [Next]_vars, NEW w \in Workers, UpsertProbeResults(w) \/ CompleteProbeRun(w)
  PROVE  AllSeen'
<1>0. /\ job \in [Workers -> Jobs] /\ job[w] \in Jobs /\ row \in [Runs -> Rows]
      /\ Sound(w, job[w], row) /\ SeenOK(job[w]) /\ StartInv
  BY DEF DecideInv, AllSeen, StartInv, TypeInv, TypeOK, WorkersSound
<1>1. job[w].run \in Runs
  BY <1>0 DEF Sound, Running, Jobs, UpsertProbeResults, CompleteProbeRun
<1> SUFFICES ASSUME NEW v \in Workers PROVE SeenOK(job[v])'
  BY DEF AllSeen
<1>2. CASE UpsertProbeResults(w)
  <2> DEFINE j == [job[w] EXCEPT !.pc = "complete", !.outcome = "na"]
  <2>1. job' = Disturb([job EXCEPT ![w] = j], w) /\ job'[w] = j
    BY <1>0, <1>2 DEF UpsertProbeResults, Disturb
  <2>2. j.pc = "complete" /\ j.seen = <<>> /\ j.run = job[w].run
    BY <1>0, <1>2 DEF UpsertProbeResults, SeenOK, Jobs
  <2>3. row'[job[w].run].result # "none"
    <3>1. job[w].outcome # "none"
      BY <1>0 DEF Jobs, Summaries
    <3> QED BY <1>0, <1>1, <1>2, <3>1 DEF UpsertProbeResults, Rows
  <2> HIDE DEF j
  <2>4. SeenOK(job[w])'
    BY <2>1, <2>2, <2>3 DEF SeenOK
  <2> QED BY <2>1, <2>4, SeenDisturbed
<1>3. CASE CompleteProbeRun(w)
  <2> DEFINE j == [job[w] EXCEPT !.pc = "read", !.clean = TRUE]
  <2>1. job' = Disturb([job EXCEPT ![w] = j], w) /\ job'[w] = j
    BY <1>0, <1>3 DEF CompleteProbeRun, Disturb
  <2>2. j.pc = "read" /\ j.seen = <<>> /\ j.run = job[w].run
    BY <1>0, <1>3 DEF CompleteProbeRun, SeenOK, Jobs
  <2>3. row'[job[w].run].result # "none" /\ row'[job[w].run].finished
    BY <1>0, <1>1, <1>3 DEF CompleteProbeRun, SeenOK, Rows
  <2> HIDE DEF j
  <2>4. job'[w].pc = "read" /\ job'[w].run = job[w].run /\ job'[w].seen = <<>>
    BY <2>1, <2>2
  <2>5. Len(job'[w].seen) \in 0..2 /\ \A i \in 1..Len(job'[w].seen) : job'[w].seen[i] = Summary(LayerOrder[i])'
    BY <2>4
  <2>6. SeenOK(job[w])'
    BY <2>3, <2>4, <2>5 DEF SeenOK
  <2> QED BY <2>1, <2>6, SeenDisturbed
<1> QED BY <1>2, <1>3

\* Reading the next summary.
LEMMA SeenRead ==
  ASSUME DecideInv, [Next]_vars, NEW w \in Workers, LatestLayerSummary(w)
  PROVE  AllSeen'
<1>0. /\ job \in [Workers -> Jobs] /\ job[w] \in Jobs /\ SeenOK(job[w]) /\ StartInv
      /\ job[w].pc = "read" /\ job[w].seen \in Seq(Summaries)
  BY DEF DecideInv, AllSeen, StartInv, TypeInv, TypeOK, LatestLayerSummary, Jobs
<1> DEFINE s == job[w].seen
           n == Len(s) + 1
           l == LayerOrder[n]
           t == Append(s, Summary(l))
           j == [job[w] EXCEPT !.seen = t, !.pc = IF l = "l3" THEN "apply" ELSE "read"]
<1>1. job' = [job EXCEPT ![w] = j] /\ row' = row /\ status' = status
  BY <1>0 DEF LatestLayerSummary
<1>2. Len(s) \in 0..2 /\ n \in 1..3
  <2>1. Len(job[w].seen) \in 0..2
    BY <1>0 DEF SeenOK
  <2>2. ASSUME NEW k \in 0..2 PROVE k + 1 \in 1..3
    OBVIOUS
  <2> QED BY <2>1, <2>2
<1>3. (l = "l3") = (n = 3)
  BY <1>2 DEF LayerOrder
<1>4. \A k : Summary(k)' = Summary(k)
  BY <1>0, <1>1, SummariesKept
<1>5. Summary(l) \in Summaries
  BY <1>0, SummaryType DEF StartInv, TypeInv
<1> HIDE DEF l
<1>6. /\ Len(t) = n /\ t[n] = Summary(l) /\ \A i \in 1..Len(s) : t[i] = s[i]
  BY <1>0, <1>5
<1>7. /\ j.seen = t /\ j.run = job[w].run /\ j.clean = job[w].clean
      /\ j.pc = IF l = "l3" THEN "apply" ELSE "read"
  BY <1>0 DEF Jobs
<1>8. job[w].clean => \A i \in 1..n : t[i] = Summary(LayerOrder[i])
  <2> SUFFICES ASSUME job[w].clean, NEW i \in 1..n PROVE t[i] = Summary(LayerOrder[i])
    OBVIOUS
  <2>1. CASE i = n
    BY <1>6, <2>1 DEF l
  <2>2. CASE i # n
    <3>1. i \in 1..Len(s)
      BY <1>2, <2>2
    <3> QED BY <1>0, <1>6, <3>1 DEF SeenOK
  <2> QED BY <2>1, <2>2
<1> HIDE DEF t, j
<1>9. SeenOK(job[w])'
  <2>1. job'[w] = j
    BY <1>0, <1>1
  <2>a. Len(j.seen) = n
    BY <1>6, <1>7
  <2>b. j.pc = IF n = 3 THEN "apply" ELSE "read"
    BY <1>3, <1>7
  <2> HIDE DEF n, s
  <2>2. j.pc = "read" => Len(j.seen) \in 0..2
    BY <1>2, <2>a, <2>b
  <2>3. j.pc = "apply" => Len(j.seen) = 3
    BY <2>a, <2>b
  <2>4. j.clean => \A i \in 1..Len(j.seen) : j.seen[i] = Summary(LayerOrder[i])'
    BY <1>4, <1>6, <1>7, <1>8
  <2>5. row'[j.run].result # "none" /\ row'[j.run].finished
    BY <1>0, <1>1, <1>7 DEF SeenOK
  <2>6. j.pc \in {"read", "apply"}
    BY <1>7
  <2> QED BY <2>1, <2>2, <2>3, <2>4, <2>5, <2>6 DEF SeenOK
<1>10. ASSUME NEW v \in Workers, v # w PROVE SeenOK(job[v])'
  <2>1. job'[v] = job[v]
    BY <1>0, <1>1, <1>10
  <2> QED BY <1>0, <1>1, <1>4, <2>1, SeenFrame DEF DecideInv, AllSeen
<1> QED BY <1>9, <1>10 DEF AllSeen

\* The decision.
LEMMA SeenApply ==
  ASSUME DecideInv, [Next]_vars, NEW w \in Workers, ApplyProbeStatus(w)
  PROVE  AllSeen'
<1>0. /\ job \in [Workers -> Jobs] /\ job[w] \in Jobs /\ SeenOK(job[w]) /\ StartInv
      /\ job[w].pc = "apply"
  BY DEF DecideInv, AllSeen, StartInv, TypeInv, TypeOK, ApplyProbeStatus
<1> DEFINE j == [job[w] EXCEPT !.pc = "ack", !.seen = <<>>]
           d == SynthesizeStatusWithL3(job[w].seen[1], job[w].seen[2], job[w].seen[3])
<1>1. job' = Disturb([job EXCEPT ![w] = j], w) /\ job'[w] = j /\ row' = row
  BY <1>0 DEF ApplyProbeStatus, Disturb
<1>2. j.pc = "ack" /\ j.seen = <<>> /\ j.run = job[w].run /\ j.clean = job[w].clean
  BY <1>0 DEF Jobs
<1>3. status' = d \/ status' \in Removed
  BY DEF ApplyProbeStatus
<1>4. \A k : Summary(k)' = Summary(k)
  BY <1>0, <1>1, SummariesKept
<1>5. CurrentStatus' = CurrentStatus
  BY <1>4 DEF CurrentStatus
<1>6. job[w].clean => d = CurrentStatus
  <2> SUFFICES ASSUME job[w].clean PROVE d = CurrentStatus
    OBVIOUS
  <2>1. \A i \in 1..3 : job[w].seen[i] = Summary(LayerOrder[i])
    BY <1>0 DEF SeenOK
  <2>2. LayerOrder[1] = "l1" /\ LayerOrder[2] = "l2" /\ LayerOrder[3] = "l3"
    BY DEF LayerOrder
  <2>3. job[w].seen[1] = Summary("l1") /\ job[w].seen[2] = Summary("l2") /\ job[w].seen[3] = Summary("l3")
    BY <2>1, <2>2
  <2> QED BY <2>3 DEF CurrentStatus
<1> HIDE DEF j, d
<1>7. SeenOK(job[w])'
  <2>1. row'[j.run].result # "none" /\ row'[j.run].finished
    BY <1>0, <1>1, <1>2 DEF SeenOK
  <2>2. j.clean => status' \in {CurrentStatus'} \cup Removed
    BY <1>2, <1>3, <1>5, <1>6
  <2> QED BY <1>1, <1>2, <2>1, <2>2 DEF SeenOK
<1> QED BY <1>1, <1>7, SeenDisturbed DEF AllSeen

\* Every step keeps what undisturbed workers have read up to date.
LEMMA DecideStep == DecideInv /\ [Next]_vars => DecideInv'
<1> SUFFICES ASSUME DecideInv, [Next]_vars PROVE AllSeen'
  BY StartStep DEF DecideInv
<1>0. /\ job \in [Workers -> Jobs] /\ AllSeen /\ StartInv
      /\ Idle.pc \in Early /\ Idle.seen = <<>>
  BY IdleSound DEF DecideInv, StartInv, TypeInv, TypeOK, Early
<1>1. ASSUME NEW w \in QueueWorkers, NEW r \in Runs, Deliver(w, r) PROVE AllSeen'
  <2> DEFINE j == [Idle EXCEPT !.pc = "waiting", !.run = r]
  <2>1. j.pc \in Early /\ j.seen = <<>>
    BY DEF Idle, Early
  <2>2. job' = job \/ job' = [job EXCEPT ![w] = j]
    BY <1>1 DEF Deliver
  <2> HIDE DEF j
  <2>3. \A v \in Workers : job'[v] = job[v] \/ job'[v] = j
    BY <1>0, <2>2
  <2> QED BY <1>1, <2>1, <2>3, SeenQuiet DEF Deliver
<1>2. ASSUME NEW w \in Workers, AcquireProbeSlot(w) \/ Execute(w) PROVE AllSeen'
  <2>1. job[w] \in Jobs /\ job[w].seen = <<>>
    BY <1>0, <1>2 DEF AllSeen, SeenOK, AcquireProbeSlot, Execute
  <2>2. \/ job'[w] = Idle
        \/ job'[w].pc \in {"target", "results"} /\ job'[w].seen = job[w].seen
    <3>1. CASE AcquireProbeSlot(w)
      BY <1>0, <2>1, <3>1 DEF AcquireProbeSlot, Jobs
    <3>2. CASE Execute(w)
      BY <1>0, <2>1, <3>2 DEF Execute, Jobs
    <3> QED BY <1>2, <3>1, <3>2
  <2>3. \A v \in Workers : v # w => job'[v] = job[v]
    BY <1>0, <1>2 DEF AcquireProbeSlot, Execute
  <2>4. job'[w].pc \in Early /\ job'[w].seen = <<>>
    BY <1>0, <2>1, <2>2 DEF Early
  <2> QED BY <1>2, <2>3, <2>4, SeenQuiet DEF AcquireProbeSlot, Execute
<1>3. ASSUME NEW w \in Workers, BeginRun(w) PROVE AllSeen'
  <2>1. job[w] \in Jobs /\ job[w].seen = <<>>
    BY <1>0, <1>3 DEF AllSeen, SeenOK, BeginRun
  <2>2. /\ \A v \in Workers : v # w => job'[v] = job[v]
        /\ job'[w].pc \in Early /\ job'[w].seen = <<>>
    <3>1. CASE job' = [job EXCEPT ![w] = Idle]
      BY <1>0, <3>1
    <3>2. CASE job' = [job EXCEPT ![w].pc = "execute"]
      BY <1>0, <2>1, <3>2 DEF Jobs, Early
    <3>3. CASE \E r \in Runs : job' = [job EXCEPT ![w].pc = "execute", ![w].run = r, ![w].todo = Tail(@)]
      BY <1>0, <2>1, <3>3 DEF Jobs, Early
    <3> QED BY <1>3, <3>1, <3>2, <3>3 DEF BeginRun, Terminate, Goto
  <2> QED BY <1>3, <2>2, SeenQuiet DEF BeginRun
<1>4. ASSUME NEW w \in Workers, UpsertProbeResults(w) \/ CompleteProbeRun(w) PROVE AllSeen'
  BY <1>4, SeenStore
<1>5. ASSUME NEW w \in Workers, LatestLayerSummary(w) PROVE AllSeen'
  BY <1>5, SeenRead
<1>6. ASSUME NEW w \in Workers, ApplyProbeStatus(w) PROVE AllSeen'
  BY <1>6, SeenApply
<1>7. ASSUME NEW w \in Workers, Finish(w) PROVE AllSeen'
  <2>1. NextManual(w).pc \in Early /\ NextManual(w).seen = <<>>
    BY DEF NextManual, Idle, Early
  <2>2. \A v \in Workers : job'[v] = job[v] \/ job'[v] = NextManual(w)
    BY <1>0, <1>7 DEF Finish
  <2> QED BY <1>7, <2>1, <2>2, SeenQuiet DEF Finish
<1>8. ASSUME NEW w \in Callers, ProbeNow(w) PROVE AllSeen'
  <2>1. w \in Workers /\ job[w] \in Jobs /\ job[w].seen = <<>>
    BY <1>0, <1>8 DEF AllSeen, SeenOK, ProbeNow, Workers
  <2>2. job'[w].pc \in Early /\ job'[w].seen = <<>>
    BY <1>0, <1>8, <2>1 DEF ProbeNow, Jobs, Early
  <2>3. \A v \in Workers : v # w => job'[v] = job[v]
    BY <1>0, <1>8 DEF ProbeNow
  <2> QED BY <1>8, <2>2, <2>3, SeenQuiet DEF ProbeNow
<1>9. ASSUME NEW w \in Workers, RunFails(w) \/ AckLost(w) PROVE AllSeen'
  <2>1. \A v \in Workers : job'[v] = job[v] \/ job'[v] = Idle
    BY <1>0, <1>9 DEF RunFails, AckLost
  <2> QED BY <1>0, <1>9, <2>1, SeenQuiet DEF RunFails, AckLost
<1>10. ASSUME NEW p \in Procs, Crash(p) PROVE AllSeen'
  <2>1. \A v \in Workers : job'[v] = job[v] \/ job'[v] = Idle
    BY <1>0, <1>10 DEF Crash
  <2> QED BY <1>0, <1>10, <2>1, SeenQuiet DEF Crash
<1>11. ASSUME NEW e \in BOOLEAN, SetChannelEnabled(e) PROVE AllSeen'
  <2> SUFFICES ASSUME NEW v \in Workers PROVE SeenOK(job[v])'
    BY DEF AllSeen
  <2>1. job'[v] = [job[v] EXCEPT !.clean = FALSE] /\ ~job'[v].clean
    BY <1>0, <1>11 DEF SetChannelEnabled, Jobs
  <2> QED BY <1>0, <2>1, SeenFrame DEF AllSeen
<1>12. CASE DeletePlatformChannel
  BY <1>12, SeenQuiet DEF DeletePlatformChannel, Removed
<1>13. CASE \E l \in DueLayers : PublishTask(l)
  BY <1>13, SeenQuiet DEF PublishTask
<1>14. CASE UNCHANGED <<row, status, job>>
  BY <1>14, SeenQuiet
<1>15. Tick \/ IncidentEdit \/ UNCHANGED vars => UNCHANGED <<row, status, job>>
  BY DEF Tick, IncidentEdit, CreateIncident, ReopenIncident, UpdateIncident, ResolveIncident, ByHand, vars
<1> QED BY <1>1, <1>2, <1>3, <1>4, <1>5, <1>6, <1>7, <1>8, <1>9, <1>10, <1>11, <1>12, <1>13, <1>14, <1>15
        DEF Next, Progress, WorkerStep, ChannelEdit

\* A run that nobody disturbs after it was completed leaves the channel with
\* the status of the latest results, its own included.
THEOREM UndisturbedDecides == Spec => []UndisturbedRunDecides
<1>1. Init => DecideInv
  <2> SUFFICES ASSUME Init PROVE AllSeen
    BY StartInit DEF DecideInv
  <2>1. \A w \in Workers : job[w] = Idle
    BY DEF Init
  <2> QED BY <2>1, IdleSound, SeenEarly DEF AllSeen, Early
<1>2. DecideInv => UndisturbedRunDecides
  <2> SUFFICES ASSUME DecideInv, NEW w \in Workers, job[w].pc = "ack", job[w].clean
               PROVE  /\ job[w].run \in Finished(row[job[w].run].layer)
                      /\ status \in {CurrentStatus} \cup Removed
    BY DEF UndisturbedRunDecides
  <2>1. SeenOK(job[w]) /\ job[w].run \in Runs
    BY DEF DecideInv, AllSeen, StartInv, TypeInv, TypeOK, WorkersSound, Sound, Running, Jobs
  <2> QED BY <2>1 DEF SeenOK, Finished
<1> QED BY <1>1, <1>2, DecideStep, PTL DEF Spec
=============================================================================
