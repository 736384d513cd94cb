--------------------------- MODULE ConnectorProofs ---------------------------
(***************************************************************************)
(* Proofs about the two kinds of connectors: the browser connector, the    *)
(* signed requests of an official client, its conversations and the        *)
(* protection of its account.                                              *)
(***************************************************************************)
EXTENDS BrowserConnector, ClientConversations, ClientDevices, ClientRisk, FiniteSetTheorems, TLAPS

-----------------------------------------------------------------------------
(***************************************************************************)
(* The browser connector.                                                  *)
(***************************************************************************)

BTaskRecords == [status : {"none", "queued", "claimed", "completed", "failed", "expired", "cancelled"},
                 over : BOOLEAN, lease : 0 .. MaxLeases, leaseOver : BOOLEAN,
                 prompt : BOOLEAN, answeredBy : 0 .. MaxLeases, reply : BOOLEAN, late : BOOLEAN]
BRunRecords == [pc : {"idle", "claiming", "running", "done", "answering"}, task : BTasks \cup {NoTask}, lease : 0 .. MaxLeases]

\* What a revocation has not found, while it runs or afterwards.
Cut(t) == bridge = "revoked" \/ (revocation.on /\ Free(t))

\* The prompt is there while the task is open, an answered task keeps the lease that
\* answered it, and a task that no revocation has found was late.
TaskSound(t) ==
  /\ btask[t].prompt => IsOpen(t)
  /\ btask[t].answeredBy # 0 => btask[t].answeredBy = btask[t].lease /\ ~IsOpen(t) /\ btask[t].status # "none"
  /\ Cut(t) /\ IsOpen(t) => btask[t].late

\* A run that works has a lease of its task, which is not ahead of the task's.
Works(d) == bdev[d].pc \in {"running", "done", "answering"}
RunSound(d) ==
  /\ bdev[d].task = NoTask <=> ~Works(d)
  /\ Works(d) => LET u == btask[bdev[d].task]
                 IN /\ u.status # "none"
                    /\ IsOpen(bdev[d].task) => bdev[d].lease <= u.lease
                    /\ u.answeredBy # 0 => bdev[d].lease < u.answeredBy

\* No two runs have the same lease of a task.
LeasesApart ==
  \A d, e \in BDevices : d # e /\ Works(d) /\ bdev[d].task = bdev[e].task => bdev[d].lease # bdev[e].lease

\* A handler that waits has a task that was queued.
WaitersHaveTasks ==
  \A h \in BWaiters : bwait[h].pc = "waiting" => \E t \in BTasks : bwait[h].task = t /\ btask[t].status # "none"

BrowserInv ==
  /\ BrowserTypeOK
  /\ \A t \in BTasks : TaskSound(t)
  /\ \A d \in BDevices : RunSound(d)
  /\ LeasesApart /\ WaitersHaveTasks

\* A step that at most closes t.
Quiet(t) ==
  /\ btask'[t] \in BTaskRecords
  /\ btask'[t].answeredBy = btask[t].answeredBy
  /\ btask'[t].status = "none" <=> btask[t].status = "none"
  /\ IsOpen(t)' => IsOpen(t) /\ btask'[t].lease = btask[t].lease /\ btask'[t].late = btask[t].late
  /\ ~IsOpen(t) => btask'[t].status = btask[t].status /\ btask'[t].lease = btask[t].lease
  /\ btask'[t].prompt => btask[t].prompt /\ IsOpen(t)'

\* A step that leaves the run with its task, or takes it away.
Lets(d) ==
  \/ bdev'[d] = NoRun
  \/ bdev'[d] = [bdev[d] EXCEPT !.pc = "claiming"] /\ ~Works(d)
  \/ bdev'[d] = [bdev[d] EXCEPT !.pc = "done"] /\ Works(d)
  \/ bdev'[d] = [bdev[d] EXCEPT !.pc = "answering"] /\ Works(d)
  \/ bdev'[d] = bdev[d]

\* Such steps keep what is said of tasks and runs.
LEMMA QuietKeeps ==
  ASSUME BrowserInv, btask' = [t \in BTasks |-> btask'[t]], bdev' = [d \in BDevices |-> bdev'[d]],
         \A t \in BTasks : Quiet(t), \A d \in BDevices : Lets(d),
         \A t \in BTasks : Cut(t)' => Cut(t) \/ ~IsOpen(t)'
  PROVE  /\ btask' \in [BTasks -> BTaskRecords] /\ bdev' \in [BDevices -> BRunRecords]
         /\ \A t \in BTasks : TaskSound(t)'
         /\ \A d \in BDevices : RunSound(d)'
         /\ LeasesApart'
<1> USE BrowserAssumption
<1>1. btask \in [BTasks -> BTaskRecords] /\ bdev \in [BDevices -> BRunRecords]
  BY DEF BrowserInv, BrowserTypeOK, BTaskRecords, BRunRecords
<1>2. ASSUME NEW d \in BDevices
      PROVE  /\ bdev'[d] \in BRunRecords
             /\ Works(d)' => Works(d) /\ bdev'[d].task = bdev[d].task /\ bdev'[d].lease = bdev[d].lease
             /\ bdev'[d].task = NoTask <=> ~Works(d)'
  <2>0. Lets(d) /\ bdev[d] \in BRunRecords /\ RunSound(d)
    BY <1>1 DEF BrowserInv
  <2>1. CASE bdev'[d] = NoRun
    BY <2>1 DEF NoRun, BRunRecords, Works
  <2>2. CASE bdev'[d] # NoRun
    BY <2>0, <2>2 DEF Lets, NoRun, BRunRecords, Works, RunSound
  <2> QED  BY <2>1, <2>2
<1>3. btask' \in [BTasks -> BTaskRecords] /\ bdev' \in [BDevices -> BRunRecords]
  BY <1>2 DEF Quiet
<1>4. ASSUME NEW t \in BTasks
      PROVE  TaskSound(t)'
  <2>1. Quiet(t) /\ TaskSound(t) /\ (Cut(t)' => Cut(t) \/ ~IsOpen(t)')
    BY DEF BrowserInv
  <2> HIDE DEF Cut
  <2> QED  BY <2>1 DEF Quiet, TaskSound, IsOpen
<1>5. ASSUME NEW d \in BDevices
      PROVE  RunSound(d)'
  <2>1. RunSound(d) /\ bdev[d] \in BRunRecords
    BY <1>1 DEF BrowserInv
  <2>2. CASE ~Works(d)'
    BY <1>2, <2>2 DEF RunSound, Works
  <2>3. CASE Works(d)'
    <3>1. Works(d) /\ bdev'[d].task = bdev[d].task /\ bdev'[d].lease = bdev[d].lease
      BY <1>2, <2>3
    <3>2. PICK t \in BTasks : t = bdev[d].task
      BY <2>1, <3>1 DEF RunSound, BRunRecords
    <3>3. Quiet(t)
      OBVIOUS
    <3>4. btask'[t].status # "none" /\ (btask'[t].answeredBy # 0 => bdev[d].lease < btask'[t].answeredBy)
      BY <2>1, <3>1, <3>2, <3>3 DEF RunSound, Quiet
    <3>5. IsOpen(t)' => bdev[d].lease <= btask'[t].lease
      BY <2>1, <3>1, <3>2, <3>3 DEF RunSound, Quiet, IsOpen
    <3>6. bdev'[d].task # NoTask
      BY <1>2, <2>3
    <3> QED  BY <2>3, <3>1, <3>2, <3>4, <3>5, <3>6 DEF RunSound, IsOpen
  <2> QED  BY <2>2, <2>3
<1>6. LeasesApart'
  <2> SUFFICES ASSUME NEW d \in BDevices, NEW e \in BDevices, d # e, Works(d)', bdev'[d].task = bdev'[e].task
               PROVE  bdev'[d].lease # bdev'[e].lease
    BY DEF LeasesApart
  <2>1. Works(e)'
    BY <1>2
  <2> QED  BY <1>2, <2>1 DEF BrowserInv, LeasesApart
<1> QED  BY <1>3, <1>4, <1>5, <1>6

\* The handlers and what else is not a task or a run keep their types.
BrowserRestOK ==
  /\ bridge \in {"none", "pending", "active", "revoked"} /\ pairing \in BOOLEAN
  /\ bconn \in {"none", "active", "attention", "disabled"}
  /\ bwait \in [BWaiters -> [pc : {"idle", "ready", "inserting", "waiting", "noting"}, kind : BTaskKinds,
                             task : BTasks \cup {NoTask},
                             result : {"none", "completed", "failed", "expired", "cancelled", "timeout"}]]
  /\ brisk \in RiskStates /\ bEvents \in 0 .. MaxBEvents
  /\ revocation \in [on : BOOLEAN, tasks : SUBSET BTasks, conn : BOOLEAN]

\* The type invariant in two parts.
LEMMA BrowserTypes ==
  BrowserTypeOK <=> /\ btask \in [BTasks -> BTaskRecords] /\ bdev \in [BDevices -> BRunRecords]
                    /\ BrowserRestOK
  BY DEF BrowserTypeOK, BrowserRestOK, BTaskRecords, BRunRecords

\* Closing is quiet, whatever becomes of the answer and the clock of the task.
LEMMA ClosingIsQuiet ==
  ASSUME btask \in [BTasks -> BTaskRecords], NEW t \in BTasks, TaskSound(t), IsOpen(t),
         NEW s \in {"expired", "cancelled"},
         \/ btask'[t] = Closed(t, s)
         \/ btask'[t] = [Closed(t, s) EXCEPT !.reply = FALSE]
  PROVE  Quiet(t)
<1>1. btask[t] \in BTaskRecords /\ 0 \in 0 .. MaxLeases
  BY BrowserAssumption
<1>2. /\ Closed(t, s) \in BTaskRecords /\ [Closed(t, s) EXCEPT !.reply = FALSE] \in BTaskRecords
      /\ Closed(t, s).status = s /\ Closed(t, s).prompt = FALSE /\ Closed(t, s).answeredBy = btask[t].answeredBy
  BY <1>1 DEF Closed, BTaskRecords
<1>3. /\ btask'[t] \in BTaskRecords /\ btask'[t].status = s /\ btask'[t].prompt = FALSE
      /\ btask'[t].answeredBy = btask[t].answeredBy
  BY <1>2 DEF BTaskRecords
<1> QED  BY <1>1, <1>3 DEF Quiet, IsOpen

\* So is whatever leaves status, lease, prompt and answer alone.
LEMMA RestIsQuiet ==
  ASSUME btask \in [BTasks -> BTaskRecords], NEW t \in BTasks, TaskSound(t), btask'[t] \in BTaskRecords,
         btask'[t].status = btask[t].status, btask'[t].lease = btask[t].lease,
         btask'[t].prompt = btask[t].prompt, btask'[t].answeredBy = btask[t].answeredBy,
         btask'[t].late = btask[t].late
  PROVE  Quiet(t)
  BY DEF Quiet, IsOpen, TaskSound

TasksKept ==
  /\ btask' \in [BTasks -> BTaskRecords] /\ bdev' \in [BDevices -> BRunRecords]
  /\ \A t \in BTasks : TaskSound(t)'
  /\ \A d \in BDevices : RunSound(d)'
  /\ LeasesApart'
  /\ \A t \in BTasks : btask[t].status # "none" => btask'[t].status # "none"

\* A step that leaves the connector and its revocation alone.
SameBridge == bridge' = bridge /\ revocation' = revocation

LEMMA SameBridgeCutsNoMore ==
  ASSUME SameBridge
  PROVE  \A t \in BTasks : Cut(t)' <=> Cut(t)
  BY DEF SameBridge, Cut, Free

\* InsertBrowserTask queues a task nobody works on.
LEMMA InsertKeepsTasks ==
  ASSUME BrowserInv, NEW h \in BWaiters, NEW t \in BTasks, InsertBrowserTask(h, t)
  PROVE  TasksKept
<1> USE BrowserAssumption
<1>1. btask \in [BTasks -> BTaskRecords] /\ bdev \in [BDevices -> BRunRecords]
  BY BrowserTypes DEF BrowserInv
<1>2. bdev' = bdev /\ SameBridge /\ \A u \in BTasks : u # t => btask'[u] = btask[u]
  BY <1>1 DEF InsertBrowserTask, SameBridge
<1>3. /\ btask[t].status = "none"
      /\ btask'[t] = [NewTask EXCEPT !.status = "queued", !.prompt = TRUE,
                                    !.late = revocation.on \/ bridge = "revoked"]
  BY <1>1 DEF InsertBrowserTask
<1>4. PICK b \in BOOLEAN : b = (revocation.on \/ bridge = "revoked")
  BY Zenon
<1>5. btask'[t] = [status |-> "queued", over |-> FALSE, lease |-> 0, leaseOver |-> FALSE, prompt |-> TRUE,
                   answeredBy |-> 0, reply |-> FALSE, late |-> b]
  <2>1. btask'[t] = [NewTask EXCEPT !.status = "queued", !.prompt = TRUE, !.late = b]
    BY <1>3, <1>4, Zenon
  <2> QED  BY <2>1 DEF NewTask
<1>6. btask' \in [BTasks -> BTaskRecords]
  <2>1. 0 \in 0 .. MaxLeases
    OBVIOUS
  <2>2. btask'[t] \in BTaskRecords
    BY <1>4, <1>5, <2>1 DEF BTaskRecords
  <2>3. btask' = [u \in BTasks |-> btask'[u]]
    BY <1>1 DEF InsertBrowserTask
  <2> QED  BY <1>1, <1>2, <2>2, <2>3
<1>7. ASSUME NEW u \in BTasks
      PROVE  TaskSound(u)'
  <2>1. TaskSound(u) /\ (Cut(u)' <=> Cut(u))
    BY <1>2, SameBridgeCutsNoMore DEF BrowserInv
  <2>2. CASE u = t
    <3>1. Cut(u) => btask'[u].late
      <4>1. btask'[u].late = b
        BY <1>5, <2>2
      <4>2. Cut(u) => b
        BY <1>4, Zenon DEF Cut
      <4> QED  BY <4>1, <4>2
    <3>2. btask'[u].status = "queued" /\ btask'[u].answeredBy = 0
      BY <1>5, <2>2
    <3> QED  BY <2>1, <2>2, <3>1, <3>2 DEF TaskSound, IsOpen
  <2>3. CASE u # t
    BY <1>2, <2>1, <2>3 DEF TaskSound, IsOpen
  <2> QED  BY <2>2, <2>3
<1>8. ASSUME NEW d \in BDevices
      PROVE  RunSound(d)'
  <2>1. RunSound(d) /\ bdev'[d] = bdev[d] /\ bdev[d] \in BRunRecords
    BY <1>1, <1>2 DEF BrowserInv
  <2>2. CASE ~Works(d)
    BY <2>1, <2>2 DEF RunSound, Works
  <2>3. CASE Works(d)
    <3>1. PICK u \in BTasks : u = bdev[d].task
      BY <2>1, <2>3 DEF RunSound, BRunRecords
    <3>2. u # t
      BY <1>3, <2>1, <2>3, <3>1 DEF RunSound
    <3> QED  BY <1>2, <2>1, <2>3, <3>1, <3>2 DEF RunSound, IsOpen, Works
  <2> QED  BY <2>2, <2>3
<1>9. LeasesApart'
  BY <1>2 DEF BrowserInv, LeasesApart, Works
<1>10. \A u \in BTasks : btask[u].status # "none" => btask'[u].status # "none"
  BY <1>2, <1>3
<1> QED  BY <1>1, <1>2, <1>6, <1>7, <1>8, <1>9, <1>10 DEF TasksKept

\* ClaimAIBrowserTask hands the queued task out under a lease nobody has had.
LEMMA ClaimKeepsTasks ==
  ASSUME BrowserInv, NEW d \in BDevices, NEW t \in BTasks, ClaimAIBrowserTask(d, t)
  PROVE  TasksKept
<1> USE BrowserAssumption
<1>1. btask \in [BTasks -> BTaskRecords] /\ bdev \in [BDevices -> BRunRecords]
  BY BrowserTypes DEF BrowserInv
<1>2. SameBridge /\ ~Works(d) /\ \A e \in BDevices : e # d => bdev'[e] = bdev[e]
  BY DEF ClaimAIBrowserTask, Works, SameBridge
<1>3. ASSUME NEW u \in BTasks, u # t
      PROVE  Quiet(u)
  <2>1. btask'[u] = Requeued(u)
    BY <1>3 DEF ClaimAIBrowserTask
  <2>2. TaskSound(u)
    BY DEF BrowserInv
  <2>3. CASE IsOpen(u) /\ btask[u].over
    <3>1. btask'[u] = Closed(u, "expired")
      BY <1>1, <2>1, <2>3 DEF Requeued, Expiring, Closed, BTaskRecords
    <3> QED  BY <1>1, <2>2, <2>3, <3>1, ClosingIsQuiet
  <2>4. CASE ~(IsOpen(u) /\ btask[u].over)
    <3>1. Expiring(u) = btask[u]
      BY <2>4 DEF Expiring
    <3>2. CASE btask[u].status = "claimed" /\ btask[u].leaseOver
      <4>1. btask'[u] = [btask[u] EXCEPT !.status = "queued", !.leaseOver = FALSE]
        BY <2>1, <3>1, <3>2 DEF Requeued
      <4>2. btask[u] \in BTaskRecords /\ "queued" \in {"none", "queued", "claimed", "completed", "failed", "expired", "cancelled"}
        BY <1>1
      <4>3. btask'[u] \in BTaskRecords /\ btask'[u].status = "queued" /\ btask'[u].lease = btask[u].lease
        BY <4>1, <4>2 DEF BTaskRecords
      <4>4. /\ btask'[u].prompt = btask[u].prompt /\ btask'[u].answeredBy = btask[u].answeredBy
            /\ btask'[u].late = btask[u].late
        BY <4>1, <4>2 DEF BTaskRecords
      <4> QED  BY <2>2, <3>2, <4>3, <4>4 DEF Quiet, IsOpen, TaskSound
    <3>3. CASE ~(btask[u].status = "claimed" /\ btask[u].leaseOver)
      BY <1>1, <2>1, <2>2, <3>1, <3>3, RestIsQuiet DEF Requeued
    <3> QED  BY <3>2, <3>3
  <2> QED  BY <2>3, <2>4
<1>4. /\ IsOpen(t) /\ btask[t].lease + 1 <= MaxLeases /\ btask[t].lease \in Nat
      /\ btask'[t] \in BTaskRecords
      /\ btask'[t].status = "claimed" /\ btask'[t].lease = btask[t].lease + 1
      /\ btask'[t].prompt = btask[t].prompt /\ btask'[t].answeredBy = btask[t].answeredBy
      /\ btask'[t].late = btask[t].late
  <2>1. Requeued(t).status = "queued" /\ btask[t] \in BTaskRecords /\ btask[t].lease < MaxLeases
    BY <1>1 DEF ClaimAIBrowserTask, Handed
  <2>2. IsOpen(t) /\ Expiring(t) = btask[t]
    BY <2>1 DEF Requeued, Expiring, Closed, IsOpen, BTaskRecords
  <2>3. /\ Requeued(t) \in BTaskRecords /\ Requeued(t).lease = btask[t].lease
        /\ Requeued(t).prompt = btask[t].prompt /\ Requeued(t).answeredBy = btask[t].answeredBy
        /\ Requeued(t).late = btask[t].late
    BY <2>1, <2>2 DEF Requeued, BTaskRecords
  <2>4. btask'[t] = [Requeued(t) EXCEPT !.status = "claimed", !.lease = btask[t].lease + 1]
    BY DEF ClaimAIBrowserTask, Leases
  <2>5. btask[t].lease \in Nat /\ btask[t].lease + 1 \in 0 .. MaxLeases
    BY <2>1 DEF BTaskRecords
  <2>6. btask'[t] \in BTaskRecords
    <3>1. "claimed" \in {"none", "queued", "claimed", "completed", "failed", "expired", "cancelled"}
      OBVIOUS
    <3> QED  BY <2>3, <2>4, <2>5, <3>1 DEF BTaskRecords
  <2>7. /\ btask'[t].status = "claimed" /\ btask'[t].lease = btask[t].lease + 1
        /\ btask'[t].prompt = btask[t].prompt /\ btask'[t].answeredBy = btask[t].answeredBy
        /\ btask'[t].late = btask[t].late
    BY <2>3, <2>4 DEF BTaskRecords
  <2>8. btask[t].lease + 1 <= MaxLeases
    BY <2>5
  <2> QED  BY <2>2, <2>5, <2>6, <2>7, <2>8
<1>5. bdev'[d] = NoRun \/ bdev'[d] = [pc |-> "running", task |-> t, lease |-> btask[t].lease + 1]
  BY <1>1 DEF ClaimAIBrowserTask, Leases
<1>6. btask' \in [BTasks -> BTaskRecords] /\ bdev' \in [BDevices -> BRunRecords]
  <2>1. btask' = [u \in BTasks |-> btask'[u]] /\ bdev' = [e \in BDevices |-> bdev'[e]]
    BY <1>1 DEF ClaimAIBrowserTask
  <2>2. bdev'[d] \in BRunRecords
    BY <1>4, <1>5 DEF NoRun, BRunRecords
  <2> QED  BY <1>1, <1>2, <1>3, <1>4, <2>1, <2>2 DEF Quiet
<1>7. ASSUME NEW u \in BTasks
      PROVE  TaskSound(u)'
  <2>1. TaskSound(u) /\ (u # t => Quiet(u)) /\ (Cut(u)' <=> Cut(u))
    BY <1>2, <1>3, SameBridgeCutsNoMore DEF BrowserInv
  <2>2. CASE u = t
    BY <1>4, <2>1, <2>2 DEF TaskSound, IsOpen
  <2>3. CASE u # t
    BY <2>1, <2>3 DEF TaskSound, IsOpen, Quiet
  <2> QED  BY <2>2, <2>3
<1>8. ASSUME NEW e \in BDevices
      PROVE  RunSound(e)' /\ (Works(e) /\ bdev[e].task = t => bdev[e].lease <= btask[t].lease)
  <2>1. RunSound(e) /\ bdev[e] \in BRunRecords
    BY <1>1 DEF BrowserInv
  <2>2. Works(e) /\ bdev[e].task = t => bdev[e].lease <= btask[t].lease
    BY <1>4, <2>1 DEF RunSound
  <2>3. CASE e = d
    <3>1. TaskSound(t)
      BY DEF BrowserInv
    <3> QED  BY <1>4, <1>5, <2>2, <2>3, <3>1 DEF RunSound, Works, NoRun, TaskSound, IsOpen
  <2>4. CASE e # d /\ ~Works(e)
    BY <1>2, <2>1, <2>2, <2>4 DEF RunSound, Works
  <2>5. CASE e # d /\ Works(e)
    <3>1. PICK u \in BTasks : u = bdev[e].task
      BY <2>1, <2>5 DEF RunSound, BRunRecords
    <3>2. btask'[u].status # "none" /\ (btask'[u].answeredBy # 0 => bdev[e].lease < btask'[u].answeredBy)
      BY <1>3, <1>4, <2>1, <2>5, <3>1 DEF RunSound, Quiet
    <3>3. bdev[e].lease \in Nat
      BY <2>1 DEF BRunRecords
    <3>4. IsOpen(u)' => bdev[e].lease <= btask'[u].lease
      <4>1. CASE u = t
        BY <1>4, <2>2, <2>5, <3>1, <3>3, <4>1
      <4>2. CASE u # t
        BY <1>3, <2>1, <2>5, <3>1, <4>2 DEF RunSound, Quiet, IsOpen
      <4> QED  BY <4>1, <4>2
    <3> QED  BY <1>2, <2>1, <2>2, <2>5, <3>1, <3>2, <3>4 DEF RunSound, IsOpen, Works
  <2> QED  BY <2>3, <2>4, <2>5
<1>9. LeasesApart'
  <2> SUFFICES ASSUME NEW e \in BDevices, NEW f \in BDevices, e # f, Works(e)', bdev'[e].task = bdev'[f].task
               PROVE  bdev'[e].lease # bdev'[f].lease
    BY DEF LeasesApart
  <2>1. Works(f)'
    BY <1>8 DEF RunSound
  <2>2. ASSUME NEW g \in BDevices, g # d, Works(g)', bdev'[g].task = t
        PROVE  bdev'[g].lease <= btask[t].lease /\ bdev'[g].lease \in Nat
    BY <1>1, <1>2, <1>8, <2>2 DEF Works, BRunRecords
  <2>3. CASE e # d /\ f # d
    BY <1>2, <2>3 DEF BrowserInv, LeasesApart, Works
  <2>4. ASSUME Works(d)'
        PROVE  bdev'[d].task = t /\ bdev'[d].lease = btask[t].lease + 1
    BY <1>5, <2>4 DEF Works, NoRun
  <2> QED  BY <1>4, <2>1, <2>2, <2>3, <2>4
<1>10. \A u \in BTasks : btask[u].status # "none" => btask'[u].status # "none"
  BY <1>3, <1>4 DEF Quiet
<1> QED  BY <1>6, <1>7, <1>8, <1>9, <1>10 DEF TasksKept

\* The actions that leave tasks and runs as they are, or at most close tasks and let
\* runs go.
QuietStep ==
  /\ btask' = [t \in BTasks |-> btask'[t]] /\ bdev' = [d \in BDevices |-> bdev'[d]]
  /\ \A t \in BTasks : Quiet(t)
  /\ \A d \in BDevices : Lets(d)
  /\ \A t \in BTasks : Cut(t)' => Cut(t) \/ ~IsOpen(t)'

\* A quiet step keeps what is said of tasks and runs.
LEMMA QuietStepKeeps ==
  ASSUME BrowserInv, QuietStep
  PROVE  TasksKept
<1>1. \A t \in BTasks : btask[t].status # "none" => btask'[t].status # "none"
  BY DEF QuietStep, Quiet
<1> QED  BY <1>1, QuietKeeps DEF QuietStep, TasksKept

\* CompleteAIBrowserTask takes an answer from the newest lease only.
LEMMA CompleteKeepsTasks ==
  ASSUME BrowserInv, NEW d \in BDevices, CompleteAIBrowserTask(d)
  PROVE  TasksKept
<1> USE BrowserAssumption
<1>1. btask \in [BTasks -> BTaskRecords] /\ bdev \in [BDevices -> BRunRecords]
  BY BrowserTypes DEF BrowserInv
<1>2. Works(d) /\ RunSound(d)
  BY DEF CompleteAIBrowserTask, Works, BrowserInv
<1>3. PICK t \in BTasks : t = bdev[d].task
  BY <1>1, <1>2 DEF RunSound, BRunRecords
<1>4. bdev' = [bdev EXCEPT ![d] = NoRun] /\ \A u \in BTasks : Cut(u)' <=> Cut(u)
  BY SameBridgeCutsNoMore DEF CompleteAIBrowserTask, SameBridge
<1>5. \A e \in BDevices : Lets(e)
  BY <1>1, <1>4 DEF Lets
<1>6. CASE btask' = btask
  <2>1. \A u \in BTasks : Quiet(u)
    BY <1>1, <1>6, RestIsQuiet DEF BrowserInv
  <2> QED  BY <1>1, <1>4, <1>5, <1>6, <2>1, QuietStepKeeps DEF QuietStep
<1>7. CASE btask' # btask
  <2>0. Accepted(d)
    BY <1>7 DEF CompleteAIBrowserTask
  <2>1. btask[t].status = "claimed" /\ btask[t].lease = bdev[d].lease /\ IsOpen(t)
    BY <1>3, <2>0 DEF Accepted, IsOpen
  <2>2. PICK s \in {"completed", "failed"} :
          btask' = [btask EXCEPT ![t] = [Closed(t, s) EXCEPT !.lease = btask[t].lease, !.reply = TRUE,
                                                             !.answeredBy = bdev[d].lease]]
    BY <1>3, <2>0 DEF CompleteAIBrowserTask
  <2>3. /\ btask'[t] \in BTaskRecords /\ btask'[t].status = s /\ btask'[t].lease = bdev[d].lease
        /\ btask'[t].prompt = FALSE /\ btask'[t].answeredBy = bdev[d].lease
    <3>1. btask[t] \in BTaskRecords /\ bdev[d].lease \in 0 .. MaxLeases /\ 0 \in 0 .. MaxLeases
      BY <1>1 DEF BRunRecords
    <3>2. Closed(t, s) \in BTaskRecords /\ Closed(t, s).status = s /\ Closed(t, s).prompt = FALSE
      BY <3>1 DEF Closed, BTaskRecords
    <3>3. btask'[t] = [Closed(t, s) EXCEPT !.lease = bdev[d].lease, !.reply = TRUE, !.answeredBy = bdev[d].lease]
      BY <1>1, <2>1, <2>2
    <3> QED  BY <3>1, <3>2, <3>3 DEF BTaskRecords
  <2>4. \A u \in BTasks : u # t => btask'[u] = btask[u]
    BY <1>1, <2>2
  <2>5. btask' \in [BTasks -> BTaskRecords] /\ bdev' \in [BDevices -> BRunRecords]
    <3>1. NoRun \in BRunRecords
      BY DEF NoRun, BRunRecords
    <3>2. btask' = [u \in BTasks |-> btask'[u]]
      BY <1>1, <2>2
    <3> QED  BY <1>1, <1>4, <2>3, <2>4, <3>1, <3>2
  <2>6. ASSUME NEW u \in BTasks
        PROVE  TaskSound(u)'
    <3>1. CASE u = t
      BY <2>3, <3>1 DEF TaskSound, IsOpen
    <3>2. CASE u # t
      BY <1>4, <2>4, <3>2 DEF TaskSound, IsOpen, BrowserInv
    <3> QED  BY <3>1, <3>2
  <2>7. ASSUME NEW e \in BDevices
        PROVE  RunSound(e)'
    <3>1. CASE ~Works(e)'
      <4>1. e = d \/ (bdev'[e] = bdev[e] /\ RunSound(e))
        BY <1>1, <1>4 DEF BrowserInv
      <4> QED  BY <1>1, <1>4, <3>1, <4>1 DEF RunSound, Works, NoRun
    <3>2. CASE Works(e)'
      <4>1. e # d /\ bdev'[e] = bdev[e] /\ Works(e) /\ RunSound(e) /\ bdev[e] \in BRunRecords /\ bdev[d] \in BRunRecords
        BY <1>1, <1>4, <3>2 DEF Works, NoRun, BrowserInv
      <4>2. PICK u \in BTasks : u = bdev[e].task
        BY <4>1 DEF RunSound, BRunRecords
      <4>3. CASE u = t
        <5>1. bdev[e].lease # bdev[d].lease /\ bdev[e].lease <= btask[t].lease
          BY <1>2, <1>3, <2>1, <4>1, <4>2, <4>3 DEF BrowserInv, LeasesApart, RunSound
        <5>2. bdev[e].lease \in Nat /\ bdev[d].lease \in Nat
          BY <4>1 DEF BRunRecords
        <5>3. bdev[e].lease < btask'[t].answeredBy
          BY <2>1, <2>3, <5>1, <5>2
        <5> QED  BY <2>3, <4>1, <4>2, <4>3, <5>3 DEF RunSound, IsOpen, Works
      <4>4. CASE u # t
        BY <2>4, <4>1, <4>2, <4>4 DEF RunSound, IsOpen, Works
      <4> QED  BY <4>3, <4>4
    <3> QED  BY <3>1, <3>2
  <2>8. LeasesApart'
    <3> SUFFICES ASSUME NEW e \in BDevices, NEW f \in BDevices, e # f, Works(e)', bdev'[e].task = bdev'[f].task
                 PROVE  bdev'[e].lease # bdev'[f].lease
      BY DEF LeasesApart
    <3>1. Works(f)'
      BY <2>7 DEF RunSound
    <3>2. e # d /\ f # d
      BY <1>1, <1>4, <3>1 DEF Works, NoRun
    <3> QED  BY <1>1, <1>4, <3>2 DEF BrowserInv, LeasesApart, Works
  <2>9. \A u \in BTasks : btask[u].status # "none" => btask'[u].status # "none"
    BY <2>3, <2>4
  <2> QED  BY <2>5, <2>6, <2>7, <2>8, <2>9 DEF TasksKept
<1> QED  BY <1>6, <1>7

\* A step that leaves every task alone, or every run.
LEMMA SameTasks ==
  ASSUME BrowserInv, btask' = btask
  PROVE  \A t \in BTasks : Quiet(t)
<1>1. btask \in [BTasks -> BTaskRecords]
  BY BrowserTypes DEF BrowserInv
<1> QED  BY <1>1, RestIsQuiet DEF BrowserInv

\* A run that stops, polls or is done with its work.
LEMMA OneRunGoes ==
  ASSUME BrowserInv, NEW d \in BDevices,
         \/ bdev' = [bdev EXCEPT ![d] = NoRun]
         \/ bdev' = [bdev EXCEPT ![d].pc = "claiming"] /\ bdev[d].pc = "idle"
         \/ bdev' = [bdev EXCEPT ![d].pc = "done"] /\ bdev[d].pc = "running"
         \/ bdev' = [bdev EXCEPT ![d].pc = "answering"] /\ bdev[d].pc = "done"
  PROVE  bdev' = [e \in BDevices |-> bdev'[e]] /\ \A e \in BDevices : Lets(e)
<1>1. bdev \in [BDevices -> BRunRecords]
  BY BrowserTypes DEF BrowserInv
<1> QED  BY <1>1 DEF Lets, Works

\* RevokeAIBrowserConnector finds what is open.
LEMMA RevokeIsQuiet ==
  ASSUME BrowserInv, RevokeAIBrowserConnector \/ RevocationFails
  PROVE  QuietStep
<1>1. btask \in [BTasks -> BTaskRecords] /\ bdev \in [BDevices -> BRunRecords]
  BY BrowserTypes DEF BrowserInv
<1>2. bdev' = bdev /\ btask' = btask /\ bridge' = bridge
  BY DEF RevokeAIBrowserConnector, RevocationFails
<1>3. \A t \in BTasks : Quiet(t)
  BY <1>1, <1>2, RestIsQuiet DEF BrowserInv
<1>4. \A t \in BTasks : Cut(t)' => Cut(t) \/ ~IsOpen(t)'
  BY <1>2 DEF Cut, Free, IsOpen, RevokeAIBrowserConnector, RevocationFails, NoRevocation
<1> QED  BY <1>1, <1>2, <1>3, <1>4 DEF QuietStep, Lets

\* Its commit cancels what it has found.
LEMMA CommitIsQuiet ==
  ASSUME BrowserInv, RevocationCommits
  PROVE  QuietStep
<1>1. btask \in [BTasks -> BTaskRecords] /\ bdev \in [BDevices -> BRunRecords] /\ bdev' = bdev
  BY BrowserTypes DEF BrowserInv, RevocationCommits
<1>2. ASSUME NEW t \in BTasks
      PROVE  Quiet(t) /\ (Cut(t)' => Cut(t) \/ ~IsOpen(t)')
  <2>1. btask'[t] = IF IsOpen(t) /\ ~Free(t) THEN [Closed(t, "cancelled") EXCEPT !.reply = FALSE] ELSE btask[t]
    BY DEF RevocationCommits, CancelledTasks
  <2>2. Quiet(t)
    BY <1>1, <2>1, ClosingIsQuiet, RestIsQuiet DEF BrowserInv
  <2>3. Free(t) => Cut(t)
    BY DEF RevocationCommits, Cut
  <2>4. ~Free(t) => ~IsOpen(t)'
    BY <1>1, <2>1 DEF IsOpen, Closed, BTaskRecords
  <2> QED  BY <2>2, <2>3, <2>4
<1>3. btask' = [t \in BTasks |-> btask'[t]]
  BY DEF RevocationCommits, CancelledTasks
<1> QED  BY <1>1, <1>2, <1>3 DEF QuietStep, Lets

\* The end of a wait, of a lease or of a task's time, the maintenance, and the statement
\* that closes overdue tasks before another one is inserted.
LEMMA TimeIsQuiet ==
  ASSUME BrowserInv,
         \/ \E h \in BWaiters : WaitEnds(h) \/ WaitTimesOut(h) \/ CreateAIBrowserTask(h)
         \/ \E t \in BTasks : LeaseEnds(t) \/ TaskTimeEnds(t)
         \/ \E old \in SUBSET BTasks : MaintainAIBrowserTasks(old)
  PROVE  QuietStep
<1>1. btask \in [BTasks -> BTaskRecords] /\ bdev \in [BDevices -> BRunRecords]
  BY BrowserTypes DEF BrowserInv
<1>2. bdev' = bdev /\ SameBridge
  BY DEF WaitEnds, WaitTimesOut, CreateAIBrowserTask, LeaseEnds, TaskTimeEnds, MaintainAIBrowserTasks, SameBridge
<1>3. btask' = [t \in BTasks |-> btask'[t]]
  BY <1>1 DEF WaitEnds, WaitTimesOut, CreateAIBrowserTask, LeaseEnds, TaskTimeEnds, MaintainAIBrowserTasks
<1>4. ASSUME NEW t \in BTasks
      PROVE  Quiet(t)
  <2>0. TaskSound(t) /\ btask[t] \in BTaskRecords
    BY <1>1 DEF BrowserInv
  <2>1. \/ \E b \in BOOLEAN : btask'[t] = [btask[t] EXCEPT !.reply = b]
        \/ btask'[t] = [btask[t] EXCEPT !.leaseOver = TRUE]
        \/ btask'[t] = [btask[t] EXCEPT !.over = TRUE]
        \/ btask'[t] = btask[t]
        \/ IsOpen(t) /\ btask'[t] \in {Closed(t, "expired"), [Closed(t, "expired") EXCEPT !.reply = FALSE]}
    <3>1. ASSUME NEW h \in BWaiters, WaitEnds(h)
          PROVE  \/ btask'[t] = btask[t] \/ \E b \in BOOLEAN : btask'[t] = [btask[t] EXCEPT !.reply = b]
      <4>1. PICK scrubbed \in BOOLEAN : btask' = [btask EXCEPT ![bwait[h].task].reply = @ /\ ~scrubbed]
        BY <3>1 DEF WaitEnds
      <4>2. btask'[t] = btask[t] \/ btask'[t] = [btask[t] EXCEPT !.reply = @ /\ ~scrubbed]
        BY <1>1, <4>1
      <4>3. (btask[t].reply /\ ~scrubbed) \in BOOLEAN
        BY <2>0 DEF BTaskRecords
      <4> QED  BY <4>2, <4>3
    <3>2. ASSUME NEW h \in BWaiters, WaitTimesOut(h)
          PROVE  \/ btask'[t] = btask[t] \/ btask'[t] = GivenUp(t)
      BY <1>1, <3>2 DEF WaitTimesOut
    <3>3. ASSUME NEW old \in SUBSET BTasks, MaintainAIBrowserTasks(old)
          PROVE  \/ IsOpen(t) /\ btask'[t] = [Closed(t, "expired") EXCEPT !.reply = FALSE]
                 \/ \E b \in BOOLEAN : btask'[t] = [btask[t] EXCEPT !.reply = b]
      <4>1. btask'[t] = IF IsOpen(t) /\ btask[t].over THEN [Closed(t, "expired") EXCEPT !.reply = FALSE]
                        ELSE [btask[t] EXCEPT !.reply = @ /\ t \notin old]
        BY <3>3 DEF MaintainAIBrowserTasks
      <4>2. (btask[t].reply /\ t \notin old) \in BOOLEAN
        BY <2>0 DEF BTaskRecords
      <4> QED  BY <4>1, <4>2
    <3>4. ASSUME NEW u \in BTasks, LeaseEnds(u) \/ TaskTimeEnds(u)
          PROVE  \/ btask'[t] = btask[t] \/ btask'[t] = [btask[t] EXCEPT !.leaseOver = TRUE]
                 \/ btask'[t] = [btask[t] EXCEPT !.over = TRUE]
      BY <1>1, <3>4 DEF LeaseEnds, TaskTimeEnds
    <3>5. ASSUME NEW h \in BWaiters, CreateAIBrowserTask(h)
          PROVE  btask'[t] = Expiring(t)
      BY <3>5 DEF CreateAIBrowserTask
    <3> QED  BY <3>1, <3>2, <3>3, <3>4, <3>5 DEF GivenUp, Expiring
  <2>2. CASE IsOpen(t) /\ btask'[t] \in {Closed(t, "expired"), [Closed(t, "expired") EXCEPT !.reply = FALSE]}
    BY <1>1, <2>0, <2>2, ClosingIsQuiet
  <2>3. CASE ~(IsOpen(t) /\ btask'[t] \in {Closed(t, "expired"), [Closed(t, "expired") EXCEPT !.reply = FALSE]})
    <3>1. /\ btask'[t] \in BTaskRecords /\ btask'[t].status = btask[t].status /\ btask'[t].lease = btask[t].lease
          /\ btask'[t].prompt = btask[t].prompt /\ btask'[t].answeredBy = btask[t].answeredBy
          /\ btask'[t].late = btask[t].late
      BY <2>0, <2>1, <2>3 DEF BTaskRecords
    <3> QED  BY <1>1, <2>0, <3>1, RestIsQuiet
  <2> QED  BY <2>2, <2>3
<1>5. bdev' = [d \in BDevices |-> bdev'[d]] /\ \A d \in BDevices : Lets(d)
  BY <1>1, <1>2 DEF Lets
<1>6. \A t \in BTasks : Cut(t)' <=> Cut(t)
  BY <1>2, SameBridgeCutsNoMore
<1> QED  BY <1>3, <1>4, <1>5, <1>6 DEF QuietStep

\* A device that polls and finds nothing puts lost tasks back.
LEMMA NothingToClaimIsQuiet ==
  ASSUME BrowserInv, NEW d \in BDevices, NothingToClaim(d)
  PROVE  QuietStep
<1>1. btask \in [BTasks -> BTaskRecords] /\ \A t \in BTasks : Cut(t)' <=> Cut(t)
  BY BrowserTypes, SameBridgeCutsNoMore DEF BrowserInv, NothingToClaim, SameBridge
<1>2. btask' = [t \in BTasks |-> Requeued(t)] /\ bdev' = [bdev EXCEPT ![d] = NoRun]
  BY DEF NothingToClaim
<1>3. ASSUME NEW t \in BTasks
      PROVE  Quiet(t)
  <2>0. TaskSound(t) /\ btask[t] \in BTaskRecords /\ (Free(t) => Requeued(t).status # "queued")
    BY <1>1 DEF BrowserInv, NothingToClaim, Handed
  <2>1. CASE IsOpen(t) /\ btask[t].over
    <3>1. Requeued(t) = Closed(t, "expired")
      BY <2>0, <2>1 DEF Requeued, Expiring, Closed, BTaskRecords
    <3> QED  BY <1>1, <1>2, <2>0, <2>1, <3>1, ClosingIsQuiet
  <2>2. CASE ~(IsOpen(t) /\ btask[t].over)
    <3>1. Requeued(t) = btask[t]
      <4>1. CASE Free(t)
        BY <2>0, <2>2, <4>1 DEF Requeued, Expiring, BTaskRecords
      <4>2. CASE ~Free(t)
        BY <4>2 DEF NothingToClaim, RequeueWaits
      <4> QED  BY <4>1, <4>2
    <3> QED  BY <1>1, <1>2, <2>0, <3>1, RestIsQuiet
  <2> QED  BY <2>1, <2>2
<1>4. \A e \in BDevices : Lets(e)
  BY <1>2, OneRunGoes
<1>5. bdev' = [e \in BDevices |-> bdev'[e]]
  BY <1>2, OneRunGoes
<1> QED  BY <1>1, <1>2, <1>3, <1>4, <1>5 DEF QuietStep

\* Every step keeps what is said of tasks and runs.
LEMMA BrowserTasksKept ==
  ASSUME BrowserInv, BrowserNext
  PROVE  TasksKept
<1>1. btask \in [BTasks -> BTaskRecords] /\ bdev \in [BDevices -> BRunRecords]
  BY BrowserTypes DEF BrowserInv
<1>2. CASE btask' = btask /\ bdev' = bdev /\ revocation' = revocation /\ (bridge' = "revoked" => bridge = "revoked")
  <2>1. \A t \in BTasks : Cut(t)' => Cut(t)
    BY <1>2 DEF Cut, Free
  <2> QED  BY <1>1, <1>2, <2>1, SameTasks, QuietStepKeeps DEF QuietStep, Lets
<1>3. CASE \E d \in BDevices : DevicePolls(d) \/ DeviceRuns(d) \/ AnswerIsSent(d) \/ DeviceStops(d)
  <2>1. btask' = btask /\ \A t \in BTasks : Cut(t)' <=> Cut(t)
    BY <1>3, SameBridgeCutsNoMore DEF DevicePolls, DeviceRuns, AnswerIsSent, DeviceStops, SameBridge
  <2>2. bdev' = [e \in BDevices |-> bdev'[e]] /\ \A e \in BDevices : Lets(e)
    BY <1>3, OneRunGoes DEF DevicePolls, DeviceRuns, AnswerIsSent, DeviceStops
  <2> QED  BY <1>1, <2>1, <2>2, SameTasks, QuietStepKeeps DEF QuietStep
<1>4. CASE \/ CreateAIBrowserConnector \/ PairingCodeExpires \/ PairAIBrowserConnector
           \/ CooldownEnds \/ \E paused \in BOOLEAN : SetPaused(paused)
  BY <1>2, <1>4 DEF CreateAIBrowserConnector, PairingOpens, PairingCodeExpires, PairAIBrowserConnector, CodeTaken,
                    CooldownEnds, SetPaused
<1>5. CASE \E h \in BWaiters : AskBrowser(h) \/ CreateAIBrowserConnection(h) \/ ValidateAIBrowserConnection(h)
                             \/ NoteResult(h) \/ ConnectorBusy(h)
  BY <1>2, <1>5 DEF AskBrowser, CreateAIBrowserConnection, ValidateAIBrowserConnection, LookAtLogin, NoteResult,
                    ConnectorBusy
<1>6. CASE RevokeAIBrowserConnector \/ RevocationCommits \/ RevocationFails
  BY <1>6, RevokeIsQuiet, CommitIsQuiet, QuietStepKeeps
<1>7. CASE \/ \E h \in BWaiters : WaitEnds(h) \/ WaitTimesOut(h) \/ CreateAIBrowserTask(h)
           \/ \E t \in BTasks : LeaseEnds(t) \/ TaskTimeEnds(t)
           \/ \E old \in SUBSET BTasks : MaintainAIBrowserTasks(old)
  BY <1>7, TimeIsQuiet, QuietStepKeeps
<1>8. CASE \E d \in BDevices : NothingToClaim(d)
  BY <1>8, NothingToClaimIsQuiet, QuietStepKeeps
<1>9. CASE \E h \in BWaiters, t \in BTasks : InsertBrowserTask(h, t)
  BY <1>9, InsertKeepsTasks
<1>10. CASE \E d \in BDevices, t \in BTasks : ClaimAIBrowserTask(d, t)
  BY <1>10, ClaimKeepsTasks
<1>11. CASE \E d \in BDevices : CompleteAIBrowserTask(d)
  BY <1>11, CompleteKeepsTasks
<1> QED  BY <1>3, <1>4, <1>5, <1>6, <1>7, <1>8, <1>9, <1>10, <1>11 DEF BrowserNext

\* Every step keeps the types of the rest, and a handler waits for a task it queued.
LEMMA BrowserRestKept ==
  ASSUME BrowserInv, BrowserNext, TasksKept
  PROVE  BrowserRestOK' /\ WaitersHaveTasks'
<1> DEFINE Waits == [pc : {"idle", "ready", "inserting", "waiting", "noting"}, kind : BTaskKinds, task : BTasks \cup {NoTask},
                     result : {"none", "completed", "failed", "expired", "cancelled", "timeout"}]
<1>1. BrowserRestOK /\ WaitersHaveTasks /\ btask \in [BTasks -> BTaskRecords]
  BY BrowserTypes DEF BrowserInv
<1>2. \A t \in BTasks : btask[t].status # "none" => btask'[t].status # "none"
  BY DEF TasksKept
<1>3. CASE \/ CreateAIBrowserConnector \/ PairingCodeExpires \/ PairAIBrowserConnector
           \/ RevokeAIBrowserConnector \/ RevocationCommits \/ RevocationFails
           \/ CooldownEnds \/ \E paused \in BOOLEAN : SetPaused(paused)
  <2>1. bwait' = bwait
    BY <1>3 DEF CreateAIBrowserConnector, PairingCodeExpires, PairAIBrowserConnector, RevokeAIBrowserConnector,
                RevocationCommits, RevocationFails, CooldownEnds, SetPaused
  <2>2. BEvent => bEvents' \in 0 .. MaxBEvents
    BY <1>1, BrowserAssumption DEF BEvent, BrowserRestOK
  <2>3. WaitersHaveTasks'
    BY <1>1, <1>2, <2>1 DEF WaitersHaveTasks
  <2>4. CASE CreateAIBrowserConnector \/ PairingCodeExpires \/ PairAIBrowserConnector \/ CooldownEnds
    BY <1>1, <2>1, <2>3, <2>4
       DEF BrowserRestOK, RiskStates, CreateAIBrowserConnector, PairingOpens, PairingCodeExpires,
           PairAIBrowserConnector, CodeTaken, CooldownEnds
  <2>5. CASE RevokeAIBrowserConnector \/ RevocationCommits \/ RevocationFails
    <3>1. ASSUME RevokeAIBrowserConnector
          PROVE  revocation' \in [on : BOOLEAN, tasks : SUBSET BTasks, conn : BOOLEAN]
      <4>1. {t \in BTasks : IsOpen(t)} \in SUBSET BTasks /\ (bconn # "none") \in BOOLEAN
        OBVIOUS
      <4>2. revocation' = [on |-> TRUE, tasks |-> {t \in BTasks : IsOpen(t)}, conn |-> bconn # "none"]
        BY <3>1 DEF RevokeAIBrowserConnector
      <4> QED  BY <4>1, <4>2
    <3>2. CASE RevokeAIBrowserConnector
      <4>1. /\ BEvent /\ bridge' = bridge /\ pairing' = pairing /\ bconn' = bconn /\ bwait' = bwait
            /\ brisk' = brisk
        BY <3>2 DEF RevokeAIBrowserConnector
      <4> QED  BY <1>1, <2>3, <2>2, <3>1, <3>2, <4>1 DEF BrowserRestOK
    <3>3. CASE RevocationCommits \/ RevocationFails
      <4>1. /\ pairing' \in {FALSE, pairing} /\ bwait' = bwait /\ brisk' = brisk /\ bEvents' = bEvents
            /\ bridge' \in {"revoked", bridge} /\ bconn' \in {"disabled", bconn}
            /\ revocation' = NoRevocation
        BY <3>3 DEF RevocationCommits, RevocationFails
      <4>2. NoRevocation \in [on : BOOLEAN, tasks : SUBSET BTasks, conn : BOOLEAN]
        BY DEF NoRevocation
      <4> QED  BY <1>1, <2>3, <4>1, <4>2 DEF BrowserRestOK
    <3> QED  BY <2>5, <3>2, <3>3
  <2>6. ASSUME NEW paused \in BOOLEAN, SetPaused(paused)
        PROVE  BrowserRestOK'
    BY <1>1, <2>1, <2>2, <2>6 DEF BrowserRestOK, RiskStates, SetPaused, RiskPaused
  <2> QED  BY <1>3, <2>3, <2>4, <2>5, <2>6
<1>4. ASSUME NEW h \in BWaiters,
             \/ AskBrowser(h) \/ CreateAIBrowserConnection(h) \/ ValidateAIBrowserConnection(h)
             \/ WaitEnds(h) \/ WaitTimesOut(h) \/ NoteResult(h)
             \/ CreateAIBrowserTask(h) \/ ConnectorBusy(h) \/ \E t \in BTasks : InsertBrowserTask(h, t)
      PROVE  BrowserRestOK' /\ WaitersHaveTasks'
  <2>0. bwait \in [BWaiters -> Waits] /\ bwait[h] \in Waits
    BY <1>1 DEF BrowserRestOK
  <2>1. NotWaiting \in Waits
    BY DEF NotWaiting, BTaskKinds
  <2>2. SUFFICES /\ SameBridge /\ pairing' = pairing /\ bEvents' \in 0 .. MaxBEvents
                 /\ bconn' \in {"none", "active", "attention", "disabled"} /\ brisk' \in RiskStates
                 /\ \E w \in Waits : /\ bwait' = [bwait EXCEPT ![h] = w]
                                     /\ w.pc = "waiting" => \E t \in BTasks : w.task = t /\ btask'[t].status # "none"
    <3>1. PICK w \in Waits : /\ bwait' = [bwait EXCEPT ![h] = w]
                             /\ w.pc = "waiting" => \E t \in BTasks : w.task = t /\ btask'[t].status # "none"
      BY <2>2
    <3>2. WaitersHaveTasks'
      BY <1>1, <1>2, <2>0, <3>1 DEF WaitersHaveTasks
    <3>3. bwait' \in [BWaiters -> Waits]
      BY <2>0, <3>1
    <3> QED  BY <1>1, <2>2, <3>2, <3>3 DEF BrowserRestOK, SameBridge
  <2>3. BEvent => bEvents' \in 0 .. MaxBEvents
    BY <1>1, BrowserAssumption DEF BEvent, BrowserRestOK
  <2>4. CASE AskBrowser(h)
    <3>1. [NotWaiting EXCEPT !.pc = "ready"] \in Waits
      BY DEF NotWaiting, BTaskKinds
    <3> HIDE DEF Waits
    <3>2. [NotWaiting EXCEPT !.pc = "ready"].pc # "waiting"
      BY DEF NotWaiting
    <3> QED  BY <1>1, <2>3, <2>4, <3>1, <3>2 DEF AskBrowser, BrowserRestOK, SameBridge
  <2>5. CASE CreateAIBrowserConnection(h) \/ ValidateAIBrowserConnection(h)
    <3>1. PICK kind \in {"connect", "status"} : LookAtLogin(h, kind)
      BY <2>5 DEF CreateAIBrowserConnection, ValidateAIBrowserConnection
    <3>2. /\ [NotWaiting EXCEPT !.pc = "ready", !.kind = kind] \in Waits
          /\ [NotWaiting EXCEPT !.pc = "ready", !.kind = kind].pc # "waiting"
      BY DEF NotWaiting, BTaskKinds
    <3> HIDE DEF Waits
    <3> QED  BY <1>1, <2>3, <3>1, <3>2 DEF LookAtLogin, BrowserRestOK, SameBridge
  <2>6. CASE WaitEnds(h)
    <3>1. PICK t \in BTasks : bwait[h].task = t /\ btask[t].status # "none" /\ ~IsOpen(t)
      BY <1>1, <2>6 DEF WaitEnds, WaitersHaveTasks
    <3>2. btask[t].status \in {"completed", "failed", "expired", "cancelled"}
      BY <1>1, <3>1 DEF IsOpen, BTaskRecords
    <3>3. bwait' = [bwait EXCEPT ![h] = [bwait[h] EXCEPT !.pc = "noting", !.result = btask[t].status]]
      BY <2>0, <2>6, <3>1 DEF WaitEnds
    <3>4. /\ [bwait[h] EXCEPT !.pc = "noting", !.result = btask[t].status] \in Waits
          /\ [bwait[h] EXCEPT !.pc = "noting", !.result = btask[t].status].pc # "waiting"
      BY <2>0, <3>2
    <3> HIDE DEF Waits
    <3> QED  BY <1>1, <2>6, <3>3, <3>4 DEF WaitEnds, BrowserRestOK, SameBridge
  <2>7. CASE WaitTimesOut(h)
    <3>3. bwait' = [bwait EXCEPT ![h] = [bwait[h] EXCEPT !.pc = "noting", !.result = "timeout"]]
      BY <2>0, <2>7 DEF WaitTimesOut
    <3>4. /\ [bwait[h] EXCEPT !.pc = "noting", !.result = "timeout"] \in Waits
          /\ [bwait[h] EXCEPT !.pc = "noting", !.result = "timeout"].pc # "waiting"
      BY <2>0
    <3> HIDE DEF Waits
    <3> QED  BY <1>1, <2>7, <3>3, <3>4 DEF WaitTimesOut, BrowserRestOK, SameBridge
  <2>8. CASE NoteResult(h)
    <3>1. bconn' \in {"none", "active", "attention", "disabled"}
      BY <1>1, <2>8 DEF NoteResult, AuthStatusAfter, BrowserRestOK
    <3>2. brisk' \in RiskStates
      <4>1. AfterSuccess \subseteq RiskStates
        BY <1>1 DEF AfterSuccess, BrowserRestOK, RiskStates
      <4>2. AfterFailure(bwait[h].result) \subseteq RiskStates
        BY DEF AfterFailure, RiskStates
      <4> QED  BY <1>1, <2>8, <4>1, <4>2 DEF NoteResult, BrowserRestOK, SameBridge
    <3>3. NotWaiting.pc # "waiting"
      BY DEF NotWaiting
    <3> HIDE DEF Waits
    <3> QED  BY <1>1, <2>1, <2>8, <3>1, <3>2, <3>3 DEF NoteResult, BrowserRestOK, SameBridge
  <2>9. ASSUME NEW t \in BTasks, InsertBrowserTask(h, t)
        PROVE  /\ SameBridge /\ pairing' = pairing /\ bEvents' \in 0 .. MaxBEvents
               /\ bconn' \in {"none", "active", "attention", "disabled"} /\ brisk' \in RiskStates
               /\ \E w \in Waits : /\ bwait' = [bwait EXCEPT ![h] = w]
                                   /\ w.pc = "waiting" => \E u \in BTasks : w.task = u /\ btask'[u].status # "none"
    <3>1. btask'[t].status = "queued"
      BY <1>1, <2>9 DEF InsertBrowserTask, NewTask
    <3>2. bwait' = [bwait EXCEPT ![h] = [bwait[h] EXCEPT !.pc = "waiting", !.task = t]]
      BY <2>0, <2>9 DEF InsertBrowserTask
    <3>3. /\ [bwait[h] EXCEPT !.pc = "waiting", !.task = t] \in Waits
          /\ [bwait[h] EXCEPT !.pc = "waiting", !.task = t].task = t
      BY <2>0
    <3> HIDE DEF Waits
    <3> QED  BY <1>1, <2>9, <3>1, <3>2, <3>3 DEF InsertBrowserTask, BrowserRestOK, SameBridge
  <2>10. CASE CreateAIBrowserTask(h) \/ ConnectorBusy(h)
    <3>1. \/ bwait' = [bwait EXCEPT ![h] = [bwait[h] EXCEPT !.pc = "inserting"]]
          \/ bwait' = [bwait EXCEPT ![h] = NotWaiting]
      BY <2>0, <2>10 DEF CreateAIBrowserTask, ConnectorBusy
    <3>2. /\ [bwait[h] EXCEPT !.pc = "inserting"] \in Waits
          /\ [bwait[h] EXCEPT !.pc = "inserting"].pc # "waiting"
      BY <2>0
    <3>3. NotWaiting.pc # "waiting"
      BY DEF NotWaiting
    <3> HIDE DEF Waits
    <3> QED  BY <1>1, <2>1, <2>10, <3>1, <3>2, <3>3
                DEF CreateAIBrowserTask, ConnectorBusy, BrowserRestOK, SameBridge
  <2> HIDE DEF Waits
  <2> QED  BY <1>4, <2>4, <2>5, <2>6, <2>7, <2>8, <2>9, <2>10
<1>5. CASE UNCHANGED <<bridge, pairing, bconn, bwait, brisk, revocation, bEvents>>
  BY <1>1, <1>2, <1>5 DEF BrowserRestOK, WaitersHaveTasks
<1> QED
  BY <1>3, <1>4, <1>5
     DEF BrowserNext, DevicePolls, NothingToClaim, DeviceRuns, AnswerIsSent, CompleteAIBrowserTask, DeviceStops,
         ClaimAIBrowserTask, LeaseEnds, TaskTimeEnds, MaintainAIBrowserTasks

\* The first state is sound.
LEMMA BrowserInitInv ==
  ASSUME BrowserInit
  PROVE  BrowserInv
<1>1. 0 \in 0 .. MaxLeases /\ 0 \in 0 .. MaxBEvents
  BY BrowserAssumption
<1>2. NewTask \in BTaskRecords /\ NoRun \in BRunRecords
  BY <1>1 DEF NewTask, NoRun, BTaskRecords, BRunRecords
<1>3. BrowserRestOK
  BY <1>1 DEF BrowserInit, BrowserRestOK, NotWaiting, BTaskKinds, RiskStates, NoRevocation
<1>4. BrowserTypeOK
  BY <1>2, <1>3, BrowserTypes DEF BrowserInit
<1>5. (\A t \in BTasks : TaskSound(t)) /\ WaitersHaveTasks
  BY DEF BrowserInit, TaskSound, IsOpen, NewTask, WaitersHaveTasks, NotWaiting
<1>6. (\A d \in BDevices : RunSound(d)) /\ LeasesApart
  BY DEF BrowserInit, RunSound, LeasesApart, Works, NoRun
<1> QED  BY <1>4, <1>5, <1>6 DEF BrowserInv

\* Every step keeps the invariant.
LEMMA BrowserStepInv ==
  ASSUME BrowserInv, [BrowserNext]_browserVars
  PROVE  BrowserInv'
<1>1. CASE BrowserNext
  <2>1. TasksKept /\ BrowserRestOK' /\ WaitersHaveTasks'
    BY <1>1, BrowserTasksKept, BrowserRestKept
  <2>2. BrowserTypeOK'
    BY <2>1 DEF TasksKept, BrowserTypeOK, BrowserRestOK, BTaskRecords, BRunRecords
  <2> QED  BY <2>1, <2>2 DEF TasksKept, BrowserInv
<1>2. CASE UNCHANGED browserVars
  BY <1>2 DEF browserVars, BrowserInv, BrowserTypeOK, TaskSound, Cut, Free, IsOpen, RunSound, Works, LeasesApart,
              WaitersHaveTasks
<1> QED  BY <1>1, <1>2

\* The browser connector keeps the types of its state.
THEOREM BrowserTypesHold == BrowserSpec => []BrowserTypeOK
<1>1. BrowserSpec => []BrowserInv
  BY BrowserInitInv, BrowserStepInv, PTL DEF BrowserSpec
<1>2. BrowserInv => BrowserTypeOK
  BY DEF BrowserInv
<1> QED  BY <1>1, <1>2, PTL

\* For any number of tasks, runs of the device and handlers: an answer comes from the
\* newest lease and stays the only one (CompleteAIBrowserTask, ClaimAIBrowserTask).
THEOREM AnswersComeFromTheNewestLease == BrowserSpec => []NewestLeaseAnswers
<1>1. BrowserSpec => []BrowserInv
  BY BrowserInitInv, BrowserStepInv, PTL DEF BrowserSpec
<1>2. BrowserInv => NewestLeaseAnswers
  <2> SUFFICES ASSUME BrowserInv, NEW t \in BTasks, btask[t].answeredBy # 0
               PROVE  /\ btask[t].answeredBy = btask[t].lease /\ ~IsOpen(t)
                      /\ \A d \in BDevices : bdev[d].task = t => bdev[d].lease < btask[t].answeredBy
    BY DEF NewestLeaseAnswers
  <2>1. btask[t].answeredBy = btask[t].lease /\ ~IsOpen(t)
    BY DEF BrowserInv, TaskSound
  <2>2. ASSUME NEW d \in BDevices, bdev[d].task = t
        PROVE  bdev[d].lease < btask[t].answeredBy
    BY <2>2, BrowserAssumption DEF BrowserInv, RunSound
  <2> QED  BY <2>1, <2>2
<1> QED  BY <1>1, <1>2, PTL

\* The owner's prompt is gone when its task has ended, and whatever overlaps a
\* revocation, it leaves no task open that had been inserted before it
\* (RevokeAIBrowserConnector, CreateAIBrowserTask, ExpireAIBrowserTaskForOwner,
\* MaintainAIBrowserTasks).
THEOREM PromptsGoWithTheirTask == BrowserSpec => []PromptsEndWithTheirTask
<1>1. BrowserSpec => []BrowserInv
  BY BrowserInitInv, BrowserStepInv, PTL DEF BrowserSpec
<1>2. BrowserInv => PromptsEndWithTheirTask
  BY DEF BrowserInv, TaskSound, Cut, PromptsEndWithTheirTask
<1> QED  BY <1>1, <1>2, PTL

-----------------------------------------------------------------------------
(***************************************************************************)
(* Conversations.                                                          *)
(***************************************************************************)

TurnRecords == [pc : {"idle", "read", "running", "answered", "writing"}, of : 0 .. MaxAnswers,
                read : Rows, inTime : BOOLEAN, made : 0 .. MaxAnswers]
Exists(r) == r \in Answers /\ answer[r].status # "none"

\* A row ends with its conversation, and its idle time runs from its last use.
RowSound(r) ==
  Exists(r) => /\ answer[r].absolute = began[r] + AbsoluteTime
               /\ answer[r].idle <= touched[r] + IdleTime
               /\ touched[r] <= ctime

\* What a generation knows of the row it continues is no later than the row allows.
TurnSound(g) ==
  /\ turn[g].inTime
  /\ turn[g].pc = "read" => /\ Exists(turn[g].of)
                            /\ turn[g].read.absolute = began[turn[g].of] + AbsoluteTime
                            /\ turn[g].read.idle <= touched[turn[g].of] + IdleTime
  /\ turn[g].pc \in {"running", "answered"} /\ turn[g].of # NoAnswer =>
        Exists(turn[g].of) /\ turn[g].read.absolute = began[turn[g].of] + AbsoluteTime
  /\ turn[g].pc = "writing" => Exists(turn[g].made)

ConversationsInv ==
  /\ ConversationsTypeOK
  /\ \A r \in Answers : RowSound(r)
  /\ \A g \in Turns : TurnSound(g)

\* The type invariant by its parts, as facts about single rows.
LEMMA ConversationTypes ==
  ConversationsTypeOK <=> /\ device \in {"active", "revoked"} /\ answer \in [Answers -> Rows]
                          /\ turn \in [Turns -> TurnRecords]
                          /\ began \in [Answers -> Times] /\ touched \in [Answers -> Times]
                          /\ ctime \in 0 .. MaxCTime
  BY DEF ConversationsTypeOK, TurnRecords

\* Times are natural numbers, and leave room for what is added to now.
LEMMA ConversationTimes ==
  /\ Times \subseteq Nat /\ 0 \in Times
  /\ \A c \in 0 .. MaxCTime : c \in Times /\ c + AbsoluteTime \in Times /\ c + IdleTime \in Times
  BY ConversationsAssumption DEF Times

\* A generation that has not begun.
LEMMA NoTurnTyped == NoRow \in Rows /\ NoTurn \in TurnRecords
<1>1. NoRow \in Rows
  BY ConversationTimes DEF NoRow, Rows
<1>2. 0 \in 0 .. MaxAnswers
  BY ConversationsAssumption
<1> QED  BY <1>1, <1>2 DEF NoTurn, TurnRecords, NoAnswer

\* A step of the rows keeps what is said of a row when it keeps its end and gives it no
\* more idle time.
RowLessens(r) ==
  /\ answer'[r] \in Rows
  /\ Exists(r) => answer'[r].status # "none"
  /\ Exists(r)' => Exists(r) /\ answer'[r].absolute = answer[r].absolute /\ answer'[r].idle <= answer[r].idle

\* Rows that lessen stay sound.
LEMMA RowsLessen ==
  ASSUME ConversationsInv, answer' = [r \in Answers |-> answer'[r]], \A r \in Answers : RowLessens(r),
         UNCHANGED <<began, touched>>, ctime' \in 0 .. MaxCTime, ctime <= ctime'
  PROVE  answer' \in [Answers -> Rows] /\ (\A r \in Answers : RowSound(r)') /\ (\A r \in Answers : Exists(r) => Exists(r)')
<1>1. answer' \in [Answers -> Rows] /\ \A r \in Answers : Exists(r) => Exists(r)'
  BY DEF RowLessens, Exists
<1>2. ASSUME NEW r \in Answers
      PROVE  RowSound(r)'
  <2>1. CASE ~Exists(r)'
    BY <2>1 DEF RowSound, Exists
  <2>2. CASE Exists(r)'
    <3>1. /\ answer'[r] \in Rows /\ answer[r] \in Rows /\ touched[r] \in Times /\ RowSound(r) /\ Exists(r)
          /\ answer'[r].absolute = answer[r].absolute /\ answer'[r].idle <= answer[r].idle /\ ctime \in 0 .. MaxCTime
      BY <2>2, ConversationTypes DEF ConversationsInv, RowLessens
    <3>2. answer'[r].idle \in Nat /\ answer[r].idle \in Nat /\ touched[r] \in Nat /\ touched[r] + IdleTime \in Nat
      BY <3>1, ConversationTimes, ConversationsAssumption DEF Rows
    <3> QED  BY <2>2, <3>1, <3>2, ConversationsAssumption DEF RowSound, Exists
  <2> QED  BY <2>1, <2>2
<1> QED  BY <1>1, <1>2

\* What a generation knows stays true while rows stay and their last use is not moved back.
LEMMA TurnsRemain ==
  ASSUME ConversationsInv, NEW g \in Turns, turn'[g] = turn[g],
         \A r \in Answers : Exists(r) => /\ Exists(r)' /\ began'[r] = began[r]
                                         /\ touched'[r] \in Nat /\ touched[r] <= touched'[r]
  PROVE  TurnSound(g)'
<1>1. turn[g] \in TurnRecords /\ TurnSound(g) /\ touched \in [Answers -> Times]
  BY ConversationTypes DEF ConversationsInv
<1>2. CASE turn[g].pc = "read"
  <2>1. PICK r \in Answers : r = turn[g].of
    BY <1>1, <1>2 DEF TurnSound, Exists
  <2>2. Exists(r) /\ turn[g].read.absolute = began[r] + AbsoluteTime /\ turn[g].read.idle <= touched[r] + IdleTime
    BY <1>1, <1>2, <2>1 DEF TurnSound, Exists
  <2>3. answer'[r].status # "none" /\ began'[r] = began[r]
    BY <2>2 DEF Exists
  <2>4. turn[g].read.idle <= touched'[r] + IdleTime
    <3>1. turn[g].read.idle \in Nat /\ touched[r] \in Nat /\ touched'[r] \in Nat /\ touched[r] <= touched'[r]
      BY <1>1, <2>2, ConversationTimes DEF TurnRecords, Rows
    <3> QED  BY <2>2, <3>1, ConversationsAssumption
  <2> QED  BY <1>1, <1>2, <2>1, <2>2, <2>3, <2>4 DEF TurnSound, Exists
<1>3. CASE turn[g].pc \in {"running", "answered"} /\ turn[g].of # NoAnswer
  <2>1. PICK r \in Answers : r = turn[g].of
    BY <1>1, <1>3 DEF TurnSound, Exists
  <2>2. Exists(r) /\ turn[g].read.absolute = began[r] + AbsoluteTime
    BY <1>1, <1>3, <2>1 DEF TurnSound, Exists
  <2>3. answer'[r].status # "none" /\ began'[r] = began[r]
    BY <2>2 DEF Exists
  <2> QED  BY <1>1, <1>3, <2>1, <2>2, <2>3 DEF TurnSound, Exists
<1>4. CASE turn[g].pc = "writing"
  <2>1. PICK r \in Answers : r = turn[g].made
    BY <1>1, <1>4 DEF TurnSound, Exists
  <2>2. Exists(r)
    BY <1>1, <1>4, <2>1 DEF TurnSound, Exists
  <2>3. answer'[r].status # "none"
    BY <2>2 DEF Exists
  <2> QED  BY <1>1, <1>4, <2>1, <2>3 DEF TurnSound, Exists
<1>5. CASE turn[g].pc = "idle" \/ (turn[g].pc \in {"running", "answered"} /\ turn[g].of = NoAnswer)
  BY <1>1, <1>5 DEF TurnSound
<1> QED  BY <1>1, <1>2, <1>3, <1>4, <1>5 DEF TurnRecords

\* What is known when the rows lessen, only generation g moves and time does not go back.
LEMMA RowsLessenInv ==
  ASSUME ConversationsInv, NEW g, NEW w \in TurnRecords,
         answer' = [r \in Answers |-> answer'[r]], \A r \in Answers : RowLessens(r),
         UNCHANGED <<began, touched>>, ctime' \in 0 .. MaxCTime, ctime <= ctime',
         device' \in {"active", "revoked"},
         turn' = turn \/ (turn' = [turn EXCEPT ![g] = w] /\ (g \in Turns => TurnSound(g)'))
  PROVE  ConversationsInv'
<1>1. turn \in [Turns -> TurnRecords] /\ began \in [Answers -> Times] /\ touched \in [Answers -> Times]
  BY ConversationTypes DEF ConversationsInv
<1>2. answer' \in [Answers -> Rows] /\ (\A r \in Answers : RowSound(r)') /\ (\A r \in Answers : Exists(r) => Exists(r)')
  BY RowsLessen
<1>3. turn' \in [Turns -> TurnRecords]
  BY <1>1
<1>4. ConversationsTypeOK'
  BY <1>1, <1>2, <1>3 DEF ConversationsTypeOK, TurnRecords
<1>5. ASSUME NEW h \in Turns
      PROVE  TurnSound(h)'
  <2>1. CASE turn'[h] = turn[h]
    <3>1. \A r \in Answers : touched'[r] \in Nat /\ touched[r] <= touched'[r] /\ began'[r] = began[r]
      BY <1>1, ConversationTimes
    <3> QED  BY <1>2, <2>1, <3>1, TurnsRemain
  <2>2. CASE turn'[h] # turn[h]
    BY <1>1, <2>2
  <2> QED  BY <2>1, <2>2
<1> QED  BY <1>2, <1>4, <1>5 DEF ConversationsInv

\* A row that stays, expires or is deleted lessens.
LEMMA RowsThatLessen ==
  ASSUME ConversationsInv, NEW r \in Answers,
         \/ answer'[r] = answer[r]
         \/ Exists(r) /\ answer'[r] = Deleted(r)
         \/ Exists(r) /\ answer'[r] = [answer[r] EXCEPT !.status = "expired", !.session = FALSE]
         \/ Exists(r) /\ answer'[r] = [answer[r] EXCEPT !.status = "expired"]
  PROVE  RowLessens(r)
<1>1. answer[r] \in Rows
  BY ConversationTypes DEF ConversationsInv
<1>2. answer[r].idle <= answer[r].idle
  BY <1>1, ConversationTimes DEF Rows
<1>3. CASE answer'[r] = answer[r]
  BY <1>1, <1>2, <1>3 DEF RowLessens, Exists
<1>4. CASE Exists(r) /\ answer'[r] # answer[r]
  <2>1. /\ answer'[r] \in Rows /\ answer'[r].status \in {"deleted", "expired"}
        /\ answer'[r].idle = answer[r].idle /\ answer'[r].absolute = answer[r].absolute
    BY <1>1, <1>4 DEF Deleted, Rows
  <2> QED  BY <1>2, <1>4, <2>1 DEF RowLessens, Exists
<1> QED  BY <1>3, <1>4

\* The owner, maintenance, the device and the clock.
LEMMA HousekeepingInv ==
  ASSUME ConversationsInv,
         \/ MaintainConversations \/ RevokeConversations \/ ConversationTick
         \/ \E r \in Answers : DeleteAIClientSession(r)
  PROVE  ConversationsInv'
<1>1. answer \in [Answers -> Rows] /\ ctime \in 0 .. MaxCTime /\ device \in {"active", "revoked"}
  BY ConversationTypes DEF ConversationsInv
<1>2. turn' = turn /\ UNCHANGED <<began, touched>> /\ device' \in {"active", "revoked"}
  BY <1>1 DEF MaintainConversations, RevokeConversations, ConversationTick, DeleteAIClientSession
<1>3. ctime' \in 0 .. MaxCTime /\ ctime <= ctime'
  <2>1. ctime' = ctime \/ (ctime < MaxCTime /\ ctime' = ctime + 1)
    BY DEF MaintainConversations, RevokeConversations, ConversationTick, DeleteAIClientSession
  <2> QED  BY <1>1, <2>1, ConversationsAssumption
<1>4. answer' = [r \in Answers |-> answer'[r]]
  BY <1>1 DEF MaintainConversations, RevokeConversations, ConversationTick, DeleteAIClientSession
<1>5. ASSUME NEW r \in Answers
      PROVE  RowLessens(r)
  <2>1. CASE ConversationTick
    BY <2>1, RowsThatLessen DEF ConversationTick
  <2>2. CASE MaintainConversations
    <3>1. Over(r) => Exists(r)
      BY DEF Over, Exists
    <3>2. answer'[r] = IF Over(r) THEN [answer[r] EXCEPT !.status = "expired", !.session = FALSE] ELSE answer[r]
      BY <2>2 DEF MaintainConversations
    <3> QED  BY <3>1, <3>2, RowsThatLessen
  <2>3. CASE RevokeConversations
    <3>1. answer'[r] = IF answer[r].status = "none" THEN answer[r] ELSE Deleted(r)
      BY <2>3 DEF RevokeConversations
    <3> QED  BY <3>1, RowsThatLessen DEF Exists
  <2>4. ASSUME NEW q \in Answers, DeleteAIClientSession(q)
        PROVE  RowLessens(r)
    <3>1. answer'[r] = IF r = q THEN Deleted(q) ELSE answer[r]
      BY <1>1, <2>4 DEF DeleteAIClientSession
    <3>2. Exists(q)
      BY <2>4 DEF DeleteAIClientSession, Exists
    <3> QED  BY <3>1, <3>2, RowsThatLessen
  <2> QED  BY <2>1, <2>2, <2>3, <2>4
<1> QED  BY <1>2, <1>3, <1>4, <1>5, NoTurnTyped, RowsLessenInv

\* A generation that begins, reads a row, has its answer, gives up or writes it.
LEMMA TurnStepInv ==
  ASSUME ConversationsInv, NEW g \in Turns,
         \/ StartConversation(g) \/ DeviceAnswers(g) \/ TurnFails(g) \/ WriteAnswer(g)
         \/ \E r \in Answers : ReadAnswer(g, r)
  PROVE  ConversationsInv'
<1>1. /\ answer \in [Answers -> Rows] /\ ctime \in 0 .. MaxCTime /\ device \in {"active", "revoked"}
      /\ turn \in [Turns -> TurnRecords] /\ turn[g] \in TurnRecords /\ TurnSound(g)
  BY ConversationTypes DEF ConversationsInv
<1>2. UNCHANGED <<device, began, touched, ctime>>
  BY DEF StartConversation, DeviceAnswers, TurnFails, WriteAnswer, ReadAnswer
<1>3. ctime <= ctime
  BY <1>1, ConversationsAssumption
<1>4. answer' = [r \in Answers |-> answer'[r]] /\ \A r \in Answers : RowLessens(r)
  <2>1. CASE answer' = answer
    BY <1>1, <2>1, RowsThatLessen
  <2>2. CASE answer' # answer
    <3>1. turn[g].pc = "writing" /\ answer' = [answer EXCEPT ![turn[g].made] = Deleted(turn[g].made)]
      BY <2>2 DEF StartConversation, DeviceAnswers, TurnFails, WriteAnswer, ReadAnswer
    <3>2. Exists(turn[g].made)
      BY <1>1, <3>1 DEF TurnSound
    <3> QED  BY <1>1, <3>1, <3>2, RowsThatLessen
  <2> QED  BY <2>1, <2>2
<1>5. SUFFICES \E w \in TurnRecords : turn' = [turn EXCEPT ![g] = w] /\ TurnSound(g)'
  BY <1>1, <1>2, <1>3, <1>4, <1>5, RowsLessenInv
<1>6. ASSUME turn' = [turn EXCEPT ![g] = NoTurn]
      PROVE  TurnSound(g)'
  BY <1>1, <1>6 DEF TurnSound, NoTurn
<1>7. CASE TurnFails(g) \/ WriteAnswer(g)
  BY <1>6, <1>7, NoTurnTyped DEF TurnFails, WriteAnswer
<1>8. CASE StartConversation(g)
  <2>1. turn' = [turn EXCEPT ![g] = [NoTurn EXCEPT !.pc = "running"]]
    BY <1>8 DEF StartConversation
  <2>2. [NoTurn EXCEPT !.pc = "running"] \in TurnRecords
    BY NoTurnTyped DEF TurnRecords
  <2>3. TurnSound(g)'
    BY <1>1, <2>1 DEF TurnSound, NoTurn
  <2> QED  BY <2>1, <2>2, <2>3
<1>9. CASE DeviceAnswers(g)
  <2>1. turn' = [turn EXCEPT ![g] = [turn[g] EXCEPT !.pc = "answered"]] /\ answer' = answer
    BY <1>1, <1>9 DEF DeviceAnswers
  <2>2. [turn[g] EXCEPT !.pc = "answered"] \in TurnRecords
    BY <1>1 DEF TurnRecords
  <2>3. /\ turn'[g].pc = "answered" /\ turn'[g].of = turn[g].of /\ turn'[g].read = turn[g].read
        /\ turn'[g].inTime = turn[g].inTime /\ turn[g].pc = "running"
    BY <1>1, <1>9, <2>1 DEF DeviceAnswers, TurnRecords
  <2>4. TurnSound(g)'
    BY <1>1, <1>2, <2>1, <2>3 DEF TurnSound, Exists
  <2> QED  BY <2>1, <2>2, <2>4
<1>10. ASSUME NEW r \in Answers, ReadAnswer(g, r)
       PROVE  \E w \in TurnRecords : turn' = [turn EXCEPT ![g] = w] /\ TurnSound(g)'
  <2> DEFINE w == [NoTurn EXCEPT !.pc = "read", !.of = r, !.read = answer[r]]
  <2>1. turn' = [turn EXCEPT ![g] = w] /\ answer' = answer /\ Exists(r)
    BY <1>10 DEF ReadAnswer, Exists
  <2>2. w \in TurnRecords
    <3>1. "read" \in {"idle", "read", "running", "answered", "writing"} /\ r \in 0 .. MaxAnswers /\ answer[r] \in Rows
      BY <1>1, ConversationsAssumption DEF Answers
    <3> QED  BY <3>1, NoTurnTyped DEF TurnRecords
  <2>3. w.pc = "read" /\ w.of = r /\ w.read = answer[r] /\ w.inTime
    BY DEF NoTurn
  <2>4. RowSound(r) /\ turn'[g] = w
    BY <1>1, <2>1 DEF ConversationsInv
  <2> HIDE DEF w
  <2>5. TurnSound(g)'
    <3>1. touched[r] + IdleTime = touched'[r] + IdleTime /\ began'[r] = began[r]
      BY <1>2
    <3>2. turn'[g].read.absolute = began'[r] + AbsoluteTime /\ turn'[g].read.idle <= touched'[r] + IdleTime
      BY <2>1, <2>3, <2>4, <3>1 DEF RowSound
    <3>3. answer'[r].status # "none" /\ turn'[g].of = r /\ turn'[g].pc = "read" /\ turn'[g].inTime
      BY <2>1, <2>3, <2>4 DEF Exists
    <3> QED  BY <3>2, <3>3 DEF TurnSound, Exists
  <2> QED  BY <2>1, <2>2, <2>5
<1> QED  BY <1>7, <1>8, <1>9, <1>10

\* AIClientResponseForUse continues a conversation in time.
LEMMA UseInv ==
  ASSUME ConversationsInv, NEW g \in Turns, AIClientResponseForUse(g)
  PROVE  ConversationsInv'
<1>1. /\ answer \in [Answers -> Rows] /\ ctime \in 0 .. MaxCTime /\ device \in {"active", "revoked"}
      /\ turn \in [Turns -> TurnRecords] /\ turn[g] \in TurnRecords /\ TurnSound(g)
      /\ began \in [Answers -> Times] /\ touched \in [Answers -> Times]
  BY ConversationTypes DEF ConversationsInv
<1>2. UNCHANGED <<device, began, ctime>> /\ turn[g].pc = "read"
  BY DEF AIClientResponseForUse
<1>3. PICK r \in Answers : r = turn[g].of
  BY <1>1, <1>2 DEF TurnSound, Exists
<1>4. Exists(r) /\ turn[g].read.absolute = began[r] + AbsoluteTime /\ turn[g].read.idle <= touched[r] + IdleTime
  BY <1>1, <1>2, <1>3 DEF TurnSound, Exists
<1>5. CASE ~Continues(g)
  <2>1. /\ answer' = [answer EXCEPT ![r].status = IF @ = "active" THEN "expired" ELSE @]
        /\ turn' = [turn EXCEPT ![g] = NoTurn] /\ touched' = touched
    BY <1>3, <1>5 DEF AIClientResponseForUse
  <2>2. TurnSound(g)'
    BY <1>1, <2>1 DEF TurnSound, NoTurn
  <2>3. ASSUME NEW q \in Answers
        PROVE  RowLessens(q)
    <3>1. answer'[q] = answer[q] \/ (q = r /\ answer'[q] = [answer[q] EXCEPT !.status = "expired"])
      BY <1>1, <2>1 DEF Rows
    <3> QED  BY <1>4, <3>1, RowsThatLessen
  <2>4. ctime <= ctime
    BY <1>1, ConversationsAssumption
  <2>5. answer' = [q \in Answers |-> answer'[q]]
    BY <1>1, <2>1
  <2> QED  BY <1>1, <1>2, <2>1, <2>2, <2>3, <2>4, <2>5, NoTurnTyped, RowsLessenInv
<1>6. CASE Continues(g)
  <2> DEFINE until == Earlier(ctime + IdleTime, turn[g].read.absolute)
             w == [turn[g] EXCEPT !.pc = "running", !.read = [NoRow EXCEPT !.absolute = turn[g].read.absolute],
                                  !.inTime = ctime < began[r] + AbsoluteTime /\ ctime < touched[r] + IdleTime]
  <2>1. /\ answer' = [answer EXCEPT ![r].idle = IF answer[r].status = "active" THEN until ELSE @]
        /\ turn' = [turn EXCEPT ![g] = w] /\ touched' = [touched EXCEPT ![r] = ctime]
    BY <1>1, <1>3, <1>6 DEF AIClientResponseForUse
  <2>2. /\ ctime \in Nat /\ touched[r] \in Nat /\ began[r] \in Nat /\ turn[g].read.idle \in Nat
        /\ turn[g].read.absolute \in Times /\ turn[g].read.absolute \in Nat /\ ctime \in Times /\ ctime + IdleTime \in Times
    BY <1>1, ConversationTimes DEF TurnRecords, Rows
  <2>3. ctime < began[r] + AbsoluteTime /\ ctime < touched[r] + IdleTime
    BY <1>4, <1>6, <2>2, ConversationsAssumption DEF Continues
  <2>4. until \in Times /\ until <= ctime + IdleTime
    BY <2>2, ConversationsAssumption DEF Earlier
  <2>5. touched[r] <= ctime
    BY <1>4 DEF ConversationsInv, RowSound
  <2>6. w \in TurnRecords /\ w.pc = "running" /\ w.of = r /\ w.read.absolute = turn[g].read.absolute /\ w.inTime
    <3>1. [NoRow EXCEPT !.absolute = turn[g].read.absolute] \in Rows
      BY <2>2, NoTurnTyped DEF Rows
    <3>2. [NoRow EXCEPT !.absolute = turn[g].read.absolute].absolute = turn[g].read.absolute
      BY DEF NoRow
    <3> QED  BY <1>1, <1>3, <2>3, <3>1, <3>2 DEF TurnRecords
  <2> HIDE DEF until, w
  <2>7. /\ answer'[r] \in Rows /\ answer'[r].status = answer[r].status /\ answer'[r].absolute = answer[r].absolute
        /\ answer'[r].idle \in {until, answer[r].idle}
        /\ \A q \in Answers : q # r => answer'[q] = answer[q]
    <3>1. answer[r] \in Rows /\ answer'[r] = [answer[r] EXCEPT !.idle = IF answer[r].status = "active" THEN until ELSE @]
      BY <1>1, <2>1
    <3> QED  BY <1>1, <2>1, <2>4, <3>1 DEF Rows
  <2>8. answer' \in [Answers -> Rows] /\ turn' \in [Turns -> TurnRecords] /\ touched' \in [Answers -> Times]
    <3>1. answer' = [q \in Answers |-> answer'[q]]
      BY <1>1, <2>1
    <3> QED  BY <1>1, <2>1, <2>2, <2>6, <2>7, <3>1
  <2>9. ConversationsTypeOK'
    BY <1>1, <1>2, <2>8 DEF ConversationsTypeOK, TurnRecords
  <2>10. ASSUME NEW q \in Answers
         PROVE  RowSound(q)'
    <3>1. CASE q = r
      <4>1. RowSound(r) /\ answer[r] \in Rows /\ answer[r].idle \in Nat
        BY <1>1, ConversationTimes DEF ConversationsInv, Rows
      <4>2. touched'[r] = ctime /\ began'[r] = began[r]
        BY <1>1, <1>2, <2>1
      <4>3. answer'[r].idle <= ctime + IdleTime
        BY <1>4, <2>2, <2>4, <2>5, <2>7, <4>1, ConversationsAssumption DEF RowSound
      <4>4. answer'[r].absolute = began'[r] + AbsoluteTime
        BY <1>4, <2>7, <4>1, <4>2 DEF RowSound
      <4>5. touched'[r] <= ctime'
        BY <1>2, <2>2, <4>2
      <4> QED  BY <3>1, <4>2, <4>3, <4>4, <4>5 DEF RowSound, Exists
    <3>2. CASE q # r
      BY <1>1, <1>2, <2>1, <2>7, <3>2 DEF ConversationsInv, RowSound, Exists
    <3> QED  BY <3>1, <3>2
  <2>11. ASSUME NEW q \in Answers, Exists(q)
         PROVE  Exists(q)' /\ began'[q] = began[q] /\ touched'[q] \in Nat /\ touched[q] <= touched'[q]
    <3>1. Exists(q)'
      BY <2>7, <2>11 DEF Exists
    <3>2. touched'[q] \in Nat /\ touched[q] <= touched'[q]
      BY <1>1, <2>1, <2>2, <2>5, ConversationTimes
    <3> QED  BY <1>2, <3>1, <3>2
  <2>12. ASSUME NEW h \in Turns
         PROVE  TurnSound(h)'
    <3>1. CASE h = g
      <4>1. turn'[g].pc = "running" /\ turn'[g].of = r /\ turn'[g].read.absolute = turn[g].read.absolute /\ turn'[g].inTime
        BY <1>1, <2>1, <2>6
      <4>2. answer'[r].status # "none" /\ turn'[g].read.absolute = began'[r] + AbsoluteTime
        BY <1>2, <1>4, <2>7, <4>1 DEF Exists
      <4> QED  BY <3>1, <4>1, <4>2 DEF TurnSound, Exists
    <3>2. CASE h # g
      <4>1. turn'[h] = turn[h]
        BY <1>1, <2>1, <3>2
      <4> QED  BY <2>11, <4>1, TurnsRemain
    <3> QED  BY <3>1, <3>2
  <2> QED  BY <2>9, <2>10, <2>12 DEF ConversationsInv
<1> QED  BY <1>5, <1>6

\* CreateAIClientResponse: the new row ends with the conversation it continues.
LEMMA CreateResponseInv ==
  ASSUME ConversationsInv, NEW g \in Turns, NEW r \in Answers, CreateAIClientResponse(g, r)
  PROVE  ConversationsInv'
<1>1. /\ answer \in [Answers -> Rows] /\ ctime \in 0 .. MaxCTime /\ device \in {"active", "revoked"}
      /\ turn \in [Turns -> TurnRecords] /\ turn[g] \in TurnRecords /\ TurnSound(g)
      /\ began \in [Answers -> Times] /\ touched \in [Answers -> Times]
  BY ConversationTypes DEF ConversationsInv
<1>2. UNCHANGED <<device, ctime>> /\ turn[g].pc = "answered" /\ answer[r].status = "none"
  BY DEF CreateAIClientResponse, Fresh
<1>3. ctime \in Nat /\ ctime \in Times /\ ctime + IdleTime \in Times /\ ctime + AbsoluteTime \in Times
  BY <1>1, ConversationTimes
<1> DEFINE start == IF turn[g].of = NoAnswer THEN ctime ELSE began[turn[g].of]
<1>4. start \in Times /\ Absolute(g) \in Times /\ Absolute(g) = start + AbsoluteTime
  <2>1. CASE turn[g].of = NoAnswer
    BY <1>3, <2>1 DEF Absolute
  <2>2. CASE turn[g].of # NoAnswer
    <3>1. turn[g].of \in Answers /\ turn[g].read.absolute = began[turn[g].of] + AbsoluteTime
      BY <1>1, <1>2, <2>2 DEF TurnSound, Exists
    <3>2. turn[g].read.absolute \in Times
      BY <1>1 DEF TurnRecords, Rows
    <3> QED  BY <1>1, <2>2, <3>1, <3>2 DEF Absolute
  <2> QED  BY <2>1, <2>2
<1> DEFINE row == [status |-> "active", session |-> TRUE, absolute |-> Absolute(g),
                   idle |-> Earlier(ctime + IdleTime, Absolute(g))]
<1>5. row \in Rows /\ row.status = "active" /\ row.absolute = start + AbsoluteTime /\ row.idle <= ctime + IdleTime
  <2>1. Earlier(ctime + IdleTime, Absolute(g)) \in Times /\ Earlier(ctime + IdleTime, Absolute(g)) <= ctime + IdleTime
    <3>1. ctime + IdleTime \in Nat /\ Absolute(g) \in Nat
      BY <1>3, <1>4, ConversationTimes
    <3> QED  BY <1>3, <1>4, <3>1 DEF Earlier
  <2> QED  BY <1>4, <2>1 DEF Rows
<1>6. /\ answer' = [answer EXCEPT ![r] = row] /\ began' = [began EXCEPT ![r] = start] /\ touched' = [touched EXCEPT ![r] = ctime]
      /\ turn' = [turn EXCEPT ![g] = [turn[g] EXCEPT !.pc = "writing", !.made = r]]
  BY <1>1 DEF CreateAIClientResponse
<1>7. [turn[g] EXCEPT !.pc = "writing", !.made = r] \in TurnRecords
  <2>1. r \in 0 .. MaxAnswers
    BY ConversationsAssumption DEF Answers
  <2> QED  BY <1>1, <2>1 DEF TurnRecords
<1> HIDE DEF start, row
<1>8. ConversationsTypeOK'
  <2>1. /\ answer' \in [Answers -> Rows] /\ began' \in [Answers -> Times] /\ touched' \in [Answers -> Times]
        /\ turn' \in [Turns -> TurnRecords]
    BY <1>1, <1>3, <1>4, <1>5, <1>6, <1>7
  <2> QED  BY <1>1, <1>2, <2>1 DEF ConversationsTypeOK, TurnRecords
<1>9. ASSUME NEW q \in Answers
      PROVE  RowSound(q)'
  <2>1. CASE q = r
    <3>1. answer'[r] = row /\ began'[r] = start /\ touched'[r] = ctime /\ ctime <= ctime'
      BY <1>1, <1>2, <1>3, <1>6
    <3> QED  BY <1>5, <2>1, <3>1 DEF RowSound, Exists
  <2>2. CASE q # r
    BY <1>1, <1>2, <1>6, <2>2 DEF ConversationsInv, RowSound, Exists
  <2> QED  BY <2>1, <2>2
<1>10. ASSUME NEW q \in Answers, Exists(q)
       PROVE  Exists(q)' /\ began'[q] = began[q] /\ touched'[q] \in Nat /\ touched[q] <= touched'[q]
  <2>1. q # r /\ touched[q] \in Nat
    BY <1>1, <1>2, <1>10, ConversationTimes DEF Exists
  <2> QED  BY <1>1, <1>6, <1>10, <2>1 DEF Exists
<1>11. ASSUME NEW h \in Turns
       PROVE  TurnSound(h)'
  <2>1. CASE h = g
    <3>1. turn'[g].pc = "writing" /\ turn'[g].made = r /\ turn'[g].inTime = turn[g].inTime
      BY <1>1, <1>6 DEF TurnRecords
    <3>2. answer'[r].status = "active"
      BY <1>1, <1>5, <1>6
    <3> QED  BY <1>1, <2>1, <3>1, <3>2 DEF TurnSound, Exists
  <2>2. CASE h # g
    <3>1. turn'[h] = turn[h]
      BY <1>1, <1>6, <2>2
    <3> QED  BY <1>10, <3>1, TurnsRemain
  <2> QED  BY <2>1, <2>2
<1> QED  BY <1>8, <1>9, <1>11 DEF ConversationsInv

\* Every step keeps the invariant.
LEMMA ConversationsStepInv ==
  ASSUME ConversationsInv, [ConversationsNext]_conversationVars
  PROVE  ConversationsInv'
<1>1. CASE UNCHANGED conversationVars
  BY <1>1 DEF conversationVars, ConversationsInv, ConversationsTypeOK, RowSound, TurnSound, Exists
<1> QED
  BY <1>1, HousekeepingInv, TurnStepInv, UseInv, CreateResponseInv DEF ConversationsNext

\* The first state is sound.
LEMMA ConversationsInitInv ==
  ASSUME ConversationsInit
  PROVE  ConversationsInv
<1>1. 0 \in 0 .. MaxCTime /\ 0 \in Times
  BY ConversationsAssumption, ConversationTimes
<1>2. ConversationsTypeOK
  BY <1>1, NoTurnTyped, ConversationTypes DEF ConversationsInit
<1>3. (\A r \in Answers : RowSound(r)) /\ \A g \in Turns : TurnSound(g)
  BY DEF ConversationsInit, RowSound, TurnSound, Exists, NoRow, NoTurn
<1> QED  BY <1>2, <1>3 DEF ConversationsInv

\* The conversations keep the types of their state.
THEOREM ConversationTypesHold == ConversationsSpec => []ConversationsTypeOK
<1>1. ConversationsSpec => []ConversationsInv
  BY ConversationsInitInv, ConversationsStepInv, PTL DEF ConversationsSpec
<1>2. ConversationsInv => ConversationsTypeOK
  BY DEF ConversationsInv
<1> QED  BY <1>1, <1>2, PTL

\* For any number of generations and rows and whatever the two limits are: a
\* conversation is continued within its idle time and before its end, through every
\* chain of answers (AIClientResponseForUse, CreateAIClientResponse).
THEOREM ConversationsAreContinuedInTime == ConversationsSpec => []ConversationsEnd
<1>1. ConversationsSpec => []ConversationsInv
  BY ConversationsInitInv, ConversationsStepInv, PTL DEF ConversationsSpec
<1>2. ConversationsInv => ConversationsEnd
  BY DEF ConversationsInv, TurnSound, ConversationsEnd
<1> QED  BY <1>1, <1>2, PTL

-----------------------------------------------------------------------------
(***************************************************************************)
(* Signed requests.                                                        *)
(***************************************************************************)

LinkRecords == [status : {"none", "pending", "active", "revoked"}, codeUntil : 0 .. MaxDTime + PairingTime,
                key : Installs \cup {NoInstall}, online : BOOLEAN]
PacketRecords == [by : Installs \cup {NoInstall}, ts : Int, ahead : Int]
VerifierRecords == [pc : {"idle", "verified", "admitted"}, request : Requests, at : 0 .. MaxDTime]

Signed(n) == packet[n].by # NoInstall

\* The clock that signed a request was not at the edge of what the server accepts.
WellInTime(n) == packet[n].ahead + MaxGap < MaxSkew

\* A request that has acted left a nonce that outlives its time; the nonce of one that is
\* well in time outlives every check of it.
RequestSound(n) ==
  /\ Signed(n) => packet[n].ts <= dtime + packet[n].ahead
  /\ ~Signed(n) => packet[n] = Unsent /\ acted[n] = 0
  /\ acted[n] # 0 => packet[n].ts + MaxSkew <= nonceUntil[n]
  /\ acted[n] > 1 => n \in held
  /\ acted[n] # 0 /\ WellInTime(n) => acted[n] = 1 /\ packet[n].ts + MaxSkew + MaxGap < nonceUntil[n]

\* Between the two checks of a handler the clock moves by MaxGap at most.
VerifierSound(v) ==
  verifier[v].pc = "verified" =>
    /\ Signed(verifier[v].request)
    /\ verifier[v].at <= dtime /\ dtime <= verifier[v].at + MaxGap
    /\ verifier[v].at <= packet[verifier[v].request].ts + MaxSkew
    /\ packet[verifier[v].request].ts <= verifier[v].at + MaxSkew

DevicesInv ==
  /\ DevicesTypeOK
  /\ \A n \in Requests : RequestSound(n)
  /\ \A v \in Verifiers : VerifierSound(v)

\* The type invariant by its parts.
LEMMA DeviceTypes ==
  DevicesTypeOK <=> /\ link \in LinkRecords /\ install \subseteq Installs /\ ownerActive \in BOOLEAN
                    /\ packet \in [Requests -> PacketRecords] /\ verifier \in [Verifiers -> VerifierRecords]
                    /\ nonceUntil \in [Requests -> 0 .. MaxDTime + NonceTime] /\ acted \in [Requests -> Nat]
                    /\ held \subseteq Requests /\ dtime \in 0 .. MaxDTime /\ dEvents \in 0 .. MaxDEvents
  BY DEF DevicesTypeOK, LinkRecords, PacketRecords, VerifierRecords

\* The first state is sound.
LEMMA DevicesInitInv ==
  ASSUME DevicesInit
  PROVE  DevicesInv
<1> USE DevicesAssumption
<1>1. NoVerifier \in VerifierRecords
  <2>1. (CHOOSE n \in Requests : TRUE) \in Requests /\ 0 \in 0 .. MaxDTime
    OBVIOUS
  <2> QED  BY <2>1 DEF NoVerifier, VerifierRecords
<1>2. /\ 0 \in 0 .. MaxDTime + PairingTime /\ 0 \in 0 .. MaxDTime + NonceTime /\ 0 \in 0 .. MaxDTime
      /\ 0 \in 0 .. MaxDEvents /\ 0 \in Nat /\ 0 \in Int
  OBVIOUS
<1>3. DevicesTypeOK
  BY <1>1, <1>2, DeviceTypes DEF DevicesInit, LinkRecords, PacketRecords, Unsent
<1>4. (\A n \in Requests : RequestSound(n)) /\ \A v \in Verifiers : VerifierSound(v)
  BY DEF DevicesInit, RequestSound, VerifierSound, WellInTime, Signed, Unsent, NoVerifier
<1> QED  BY <1>3, <1>4 DEF DevicesInv

\* The pairing, the heartbeat's look at the row and the owner change the link and who
\* may use it, not the requests.
LEMMA LinkStepInv ==
  ASSUME DevicesInv,
         \/ CreateAIClientConnector \/ RevokeAIClientConnector \/ ExpirePairing \/ GoesQuiet \/ OwnerChanges
         \/ \E i \in Installs : Pair(i)
  PROVE  DevicesInv'
<1> USE DevicesAssumption
<1>1. UNCHANGED <<packet, verifier, nonceUntil, acted, held, dtime>>
  BY DEF CreateAIClientConnector, RevokeAIClientConnector, ExpirePairing, GoesQuiet, OwnerChanges, Pair
<1>2. link \in LinkRecords /\ dtime \in 0 .. MaxDTime /\ dEvents \in 0 .. MaxDEvents /\ ownerActive \in BOOLEAN
  BY DeviceTypes DEF DevicesInv
<1>3. dtime + PairingTime \in 0 .. MaxDTime + PairingTime /\ 0 \in 0 .. MaxDTime + PairingTime
  BY <1>2
<1>4. link' \in LinkRecords
  <2>1. CASE link' = link
    BY <1>2, <2>1
  <2>2. CASE CreateAIClientConnector
    BY <1>2, <1>3, <2>2 DEF CreateAIClientConnector, PendingLink, LinkRecords
  <2>3. CASE RevokeAIClientConnector \/ ExpirePairing
    BY <1>2, <1>3, <2>3 DEF RevokeAIClientConnector, ExpirePairing, RevokedLink, LinkRecords
  <2>4. CASE GoesQuiet
    BY <1>2, <2>4 DEF GoesQuiet, LinkRecords
  <2>5. ASSUME NEW i \in Installs, Pair(i)
        PROVE  link' \in LinkRecords
    BY <1>2, <1>3, <2>5 DEF Pair, PairAIClientConnector, PairedLink, LinkRecords
  <2> QED  BY <2>1, <2>2, <2>3, <2>4, <2>5 DEF OwnerChanges
<1>5. install' \subseteq Installs /\ ownerActive' \in BOOLEAN /\ dEvents' \in 0 .. MaxDEvents
  <2>1. install \subseteq Installs
    BY DeviceTypes DEF DevicesInv
  <2>2. CASE OwnerChanges
    BY <1>2, <2>1, <2>2 DEF OwnerChanges
  <2>3. ASSUME NEW i \in Installs, Pair(i)
        PROVE  install' \subseteq Installs /\ ownerActive' \in BOOLEAN /\ dEvents' \in 0 .. MaxDEvents
    BY <1>2, <2>1, <2>3 DEF Pair
  <2>4. CASE UNCHANGED <<install, ownerActive, dEvents>>
    BY <1>2, <2>1, <2>4
  <2> QED
    BY <2>2, <2>3, <2>4 DEF CreateAIClientConnector, RevokeAIClientConnector, ExpirePairing, GoesQuiet
<1>6. DevicesTypeOK'
  BY <1>1, <1>4, <1>5 DEF DevicesInv, DevicesTypeOK, LinkRecords
<1> QED  BY <1>1, <1>6 DEF DevicesInv, RequestSound, VerifierSound, WellInTime, Signed

\* SignRequest uses a fresh nonce.
LEMMA SignInv ==
  ASSUME DevicesInv, NEW i \in Installs, NEW n \in Requests, NEW ahead \in Offsets, SignRequest(i, n, ahead)
  PROVE  DevicesInv'
<1> USE DevicesAssumption
<1>1. /\ packet \in [Requests -> PacketRecords] /\ dtime \in 0 .. MaxDTime /\ dtime \in Int /\ ahead \in Int
      /\ verifier \in [Verifiers -> VerifierRecords] /\ RequestSound(n)
  BY DeviceTypes DEF DevicesInv
<1>2. UNCHANGED <<link, install, ownerActive, verifier, nonceUntil, acted, held, dtime, dEvents>> /\ packet[n] = Unsent
  BY DEF SignRequest
<1>3. /\ packet' = [packet EXCEPT ![n] = [by |-> i, ts |-> dtime + ahead, ahead |-> ahead]]
      /\ [by |-> i, ts |-> dtime + ahead, ahead |-> ahead] \in PacketRecords
  BY <1>1 DEF SignRequest, PacketRecords
<1>4. ~Signed(n) /\ acted[n] = 0
  BY <1>1, <1>2 DEF Signed, Unsent, RequestSound
<1>5. DevicesTypeOK'
  BY <1>1, <1>2, <1>3 DEF DevicesInv, DevicesTypeOK, PacketRecords
<1>6. ASSUME NEW m \in Requests
      PROVE  RequestSound(m)'
  <2>1. CASE m = n
    <3>1. /\ packet'[n].ts = dtime + ahead /\ packet'[n].by = i /\ packet'[n].ahead = ahead
          /\ acted'[n] = 0
      BY <1>1, <1>2, <1>3, <1>4
    <3> QED  BY <1>1, <1>2, <2>1, <3>1 DEF RequestSound, Signed
  <2>2. CASE m # n
    BY <1>1, <1>2, <1>3, <2>2 DEF DevicesInv, RequestSound, WellInTime, Signed
  <2> QED  BY <2>1, <2>2
<1>7. ASSUME NEW v \in Verifiers
      PROVE  VerifierSound(v)'
  <2> SUFFICES ASSUME verifier[v].pc = "verified"
               PROVE  VerifierSound(v)'
    BY <1>2 DEF VerifierSound
  <2>1. PICK m \in Requests : m = verifier[v].request
    BY <1>1 DEF VerifierRecords
  <2>2. VerifierSound(v) /\ Signed(m) /\ m # n
    BY <1>4, <2>1 DEF DevicesInv, VerifierSound, Signed
  <2>3. packet'[m] = packet[m]
    BY <1>1, <1>3, <2>2
  <2> QED  BY <1>2, <2>1, <2>2, <2>3 DEF VerifierSound, Signed
<1> QED  BY <1>5, <1>6, <1>7 DEF DevicesInv

\* A handler that begins or ends its check of a request that does not act.
LEMMA VerifierStepInv ==
  ASSUME DevicesInv, NEW v \in Verifiers, NEW w \in VerifierRecords,
         link' \in LinkRecords, UNCHANGED <<install, ownerActive, packet, nonceUntil, acted, held, dtime, dEvents>>,
         verifier' = [verifier EXCEPT ![v] = w], VerifierSound(v)'
  PROVE  DevicesInv'
<1>1. verifier \in [Verifiers -> VerifierRecords]
  BY DeviceTypes DEF DevicesInv
<1>2. DevicesTypeOK'
  BY <1>1 DEF DevicesInv, DevicesTypeOK, VerifierRecords, LinkRecords
<1>3. ASSUME NEW u \in Verifiers, u # v
      PROVE  VerifierSound(u)'
  BY <1>1, <1>3 DEF DevicesInv, VerifierSound, Signed
<1> QED  BY <1>2, <1>3 DEF DevicesInv, RequestSound, WellInTime, Signed

\* The first check, and every way out of a handler.
LEMMA HandlerStepInv ==
  ASSUME DevicesInv, NEW v \in Verifiers,
         \/ HeartbeatAIClientConnector(v) \/ VerifierEnds(v) \/ \E n \in Requests : VerifyRequest(v, n)
         \/ UseOfficialClientNonce(v) /\ nonceUntil[verifier[v].request] > dtime
  PROVE  DevicesInv'
<1> USE DevicesAssumption
<1>1. /\ link \in LinkRecords /\ verifier \in [Verifiers -> VerifierRecords] /\ dtime \in 0 .. MaxDTime
      /\ packet \in [Requests -> PacketRecords]
  BY DeviceTypes DEF DevicesInv
<1>2. NoVerifier \in VerifierRecords /\ NoVerifier.pc = "idle"
  <2>1. (CHOOSE n \in Requests : TRUE) \in Requests /\ 0 \in 0 .. MaxDTime
    OBVIOUS
  <2> QED  BY <2>1 DEF NoVerifier, VerifierRecords
<1>3. UNCHANGED <<install, ownerActive, packet, nonceUntil, acted, held, dtime, dEvents>>
  BY DEF HeartbeatAIClientConnector, VerifierEnds, VerifyRequest, UseOfficialClientNonce
<1>4. link' \in LinkRecords
  BY <1>1 DEF HeartbeatAIClientConnector, VerifierEnds, VerifyRequest, UseOfficialClientNonce, SeenLink, LinkRecords
<1>5. CASE verifier' = [verifier EXCEPT ![v] = NoVerifier]
  <2>1. VerifierSound(v)'
    BY <1>1, <1>2, <1>5 DEF VerifierSound
  <2> QED  BY <1>2, <1>3, <1>4, <1>5, <2>1, VerifierStepInv
<1>6. ASSUME NEW n \in Requests, VerifyRequest(v, n)
      PROVE  DevicesInv'
  <2> DEFINE w == [pc |-> "verified", request |-> n, at |-> dtime]
  <2>1. w \in VerifierRecords /\ verifier' = [verifier EXCEPT ![v] = w]
    BY <1>1, <1>6 DEF VerifyRequest, VerifierRecords
  <2>2. Signed(n) /\ dtime <= packet[n].ts + MaxSkew /\ packet[n].ts <= dtime + MaxSkew
    <3>1. packet[n].ts \in Int
      BY <1>1 DEF PacketRecords
    <3> QED  BY <1>1, <1>6, <3>1 DEF VerifyRequest, Authenticates, InTime, Signed
  <2>3. verifier'[v].request = n /\ verifier'[v].at = dtime
    BY <1>1, <2>1
  <2>4. VerifierSound(v)'
    <3>1. dtime <= dtime /\ dtime <= dtime + MaxGap
      BY <1>1
    <3> QED  BY <1>3, <2>2, <2>3, <3>1 DEF VerifierSound, Signed
  <2> QED  BY <1>3, <1>4, <2>1, <2>4, VerifierStepInv
<1> QED  BY <1>5, <1>6 DEF HeartbeatAIClientConnector, VerifierEnds, UseOfficialClientNonce

\* UseOfficialClientNonce: a handler that acts again has checked the time before the nonce
\* ended, which takes a request that is not well in time.
LEMMA ActInv ==
  ASSUME DevicesInv, NEW v \in Verifiers, UseOfficialClientNonce(v), ~(nonceUntil[verifier[v].request] > dtime)
  PROVE  DevicesInv'
<1> USE DevicesAssumption
<1>1. /\ verifier \in [Verifiers -> VerifierRecords] /\ dtime \in 0 .. MaxDTime
      /\ packet \in [Requests -> PacketRecords]
      /\ nonceUntil \in [Requests -> 0 .. MaxDTime + NonceTime] /\ acted \in [Requests -> Nat]
  BY DeviceTypes DEF DevicesInv
<1>2. PICK n \in Requests : n = verifier[v].request
  BY <1>1 DEF VerifierRecords
<1>3. /\ UNCHANGED <<link, install, ownerActive, packet, dtime, dEvents>> /\ verifier[v].pc = "verified"
      /\ nonceUntil' = [nonceUntil EXCEPT ![n] = dtime + 2 * MaxSkew]
      /\ acted' = [acted EXCEPT ![n] = @ + 1]
      /\ verifier' = [verifier EXCEPT ![v].pc = "admitted"]
      /\ held' = IF acted[n] > 0 /\ verifier[v].at <= nonceUntil[n] THEN held \cup {n} ELSE held
  BY <1>2 DEF UseOfficialClientNonce, NonceLife
<1>4. /\ Signed(n) /\ verifier[v].at <= packet[n].ts + MaxSkew /\ dtime <= verifier[v].at + MaxGap
      /\ packet[n].ts <= verifier[v].at + MaxSkew /\ verifier[v].at <= dtime
      /\ RequestSound(n) /\ nonceUntil[n] <= dtime
  <2>1. ~(nonceUntil[n] > dtime) /\ nonceUntil[n] \in Nat
    BY <1>1, <1>2
  <2>2. VerifierSound(v)
    BY DEF DevicesInv
  <2> QED  BY <1>1, <1>2, <1>3, <2>1, <2>2 DEF DevicesInv, VerifierSound, Signed
<1>5. /\ packet[n].ts \in Int /\ packet[n].ahead \in Int /\ verifier[v].at \in Nat /\ nonceUntil[n] \in Nat
      /\ acted[n] \in Nat
  BY <1>1 DEF PacketRecords, VerifierRecords
<1>6. (acted[n] # 0 => n \in held') /\ (WellInTime(n) => acted[n] = 0)
  <2>1. acted[n] # 0 => verifier[v].at <= nonceUntil[n]
    BY <1>4, <1>5 DEF RequestSound
  <2>2. WellInTime(n) => acted[n] = 0
    BY <1>1, <1>4, <1>5 DEF RequestSound
  <2> QED  BY <1>3, <1>5, <2>1, <2>2
<1>7. DevicesTypeOK'
  <2>1. dtime + 2 * MaxSkew \in 0 .. MaxDTime + NonceTime
    BY <1>1
  <2>2. nonceUntil' \in [Requests -> 0 .. MaxDTime + NonceTime] /\ acted' \in [Requests -> Nat]
    BY <1>1, <1>3, <2>1
  <2>3. verifier' \in [Verifiers -> VerifierRecords]
    BY <1>1, <1>3 DEF VerifierRecords
  <2>4. held' \subseteq Requests
    BY <1>3 DEF DevicesInv, DevicesTypeOK
  <2> QED  BY <1>3, <2>2, <2>3, <2>4 DEF DevicesInv, DevicesTypeOK, VerifierRecords
<1>8. ASSUME NEW m \in Requests
      PROVE  RequestSound(m)'
  <2>1. CASE m = n
    <3>1. WellInTime(n) => packet[n].ts + MaxSkew + MaxGap < dtime + 2 * MaxSkew
      BY <1>1, <1>4, <1>5 DEF RequestSound, WellInTime
    <3>2. acted'[n] = acted[n] + 1 /\ nonceUntil'[n] = dtime + 2 * MaxSkew /\ packet' = packet /\ dtime' = dtime
      BY <1>1, <1>3
    <3>3. packet[n].ts + MaxSkew <= dtime + 2 * MaxSkew
      BY <1>1, <1>4, <1>5
    <3>4. acted'[n] > 1 => n \in held'
      BY <1>5, <1>6, <3>2
    <3>5. WellInTime(n)' <=> WellInTime(n)
      BY <3>2 DEF WellInTime
    <3>6. WellInTime(n) => acted'[n] = 1
      BY <1>6, <3>2
    <3> HIDE DEF WellInTime
    <3> QED  BY <1>4, <2>1, <3>1, <3>2, <3>3, <3>4, <3>5, <3>6 DEF RequestSound, Signed
  <2>2. CASE m # n
    <3>1. m \in held => m \in held'
      BY <1>3
    <3> QED  BY <1>1, <1>3, <2>2, <3>1 DEF DevicesInv, RequestSound, WellInTime, Signed
  <2> QED  BY <2>1, <2>2
<1>9. ASSUME NEW u \in Verifiers
      PROVE  VerifierSound(u)'
  <2>1. CASE u = v
    BY <1>1, <1>3, <2>1 DEF VerifierSound, VerifierRecords
  <2>2. CASE u # v
    BY <1>1, <1>3, <2>2 DEF DevicesInv, VerifierSound, Signed
  <2> QED  BY <2>1, <2>2
<1> QED  BY <1>7, <1>8, <1>9 DEF DevicesInv

\* Time passes; no handler is between its checks for longer than MaxGap.
LEMMA DeviceTickInv ==
  ASSUME DevicesInv, DeviceTick
  PROVE  DevicesInv'
<1> USE DevicesAssumption
<1>1. /\ verifier \in [Verifiers -> VerifierRecords] /\ dtime \in 0 .. MaxDTime
      /\ packet \in [Requests -> PacketRecords]
  BY DeviceTypes DEF DevicesInv
<1>2. /\ UNCHANGED <<link, install, ownerActive, packet, verifier, nonceUntil, acted, held, dEvents>>
      /\ dtime' = dtime + 1 /\ dtime < MaxDTime
      /\ \A v \in Verifiers : verifier[v].pc = "verified" => dtime < verifier[v].at + MaxGap
  BY DEF DeviceTick
<1>3. DevicesTypeOK'
  BY <1>1, <1>2 DEF DevicesInv, DevicesTypeOK
<1>4. ASSUME NEW n \in Requests
      PROVE  RequestSound(n)'
  <2>1. packet[n].ts \in Int /\ packet[n].ahead \in Int /\ RequestSound(n)
    BY <1>1 DEF PacketRecords, DevicesInv
  <2>2. Signed(n) => packet[n].ts <= dtime' + packet[n].ahead
    BY <1>1, <1>2, <2>1 DEF RequestSound
  <2> QED  BY <1>2, <2>1, <2>2 DEF RequestSound, WellInTime, Signed
<1>5. ASSUME NEW v \in Verifiers, verifier[v].pc = "verified"
      PROVE  VerifierSound(v)'
  <2>1. verifier[v].at \in Nat /\ VerifierSound(v)
    BY <1>1 DEF VerifierRecords, DevicesInv
  <2>2. verifier[v].at <= dtime' /\ dtime' <= verifier[v].at + MaxGap
    BY <1>1, <1>2, <1>5, <2>1 DEF VerifierSound
  <2> QED  BY <1>2, <1>5, <2>1, <2>2 DEF VerifierSound, Signed
<1>6. \A v \in Verifiers : VerifierSound(v)'
  BY <1>2, <1>5 DEF VerifierSound
<1> QED  BY <1>3, <1>4, <1>6 DEF DevicesInv

\* Every step keeps the invariant.
LEMMA DevicesStepInv ==
  ASSUME DevicesInv, [DevicesNext]_deviceVars
  PROVE  DevicesInv'
<1>1. CASE UNCHANGED deviceVars
  BY <1>1 DEF deviceVars, DevicesInv, DevicesTypeOK, RequestSound, VerifierSound, WellInTime, Signed
<1>2. CASE DevicesNext
  BY <1>2, LinkStepInv, SignInv, HandlerStepInv, ActInv, DeviceTickInv DEF DevicesNext
<1> QED  BY <1>1, <1>2

\* Pairing and signed requests keep the types of their state.
THEOREM DeviceTypesHold == DevicesSpec => []DevicesTypeOK
<1>1. DevicesSpec => []DevicesInv
  BY DevicesInitInv, DevicesStepInv, PTL DEF DevicesSpec
<1>2. DevicesInv => DevicesTypeOK
  BY DEF DevicesInv
<1> QED  BY <1>1, <1>2, PTL

\* For any number of installations, requests and handlers, any clocks and any skew the
\* server allows: a signed request acts again only through a handler that checked its
\* time before the nonce ended, and once if its clock is less than MaxSkew - MaxGap ahead,
\* since the nonce is kept for twice the skew (VerifyRequest, UseOfficialClientNonce).
THEOREM ReplaysDoNotAct == DevicesSpec => []SignedRequestActsOnce
<1>1. DevicesSpec => []DevicesInv
  BY DevicesInitInv, DevicesStepInv, PTL DEF DevicesSpec
<1>2. DevicesInv => SignedRequestActsOnce
  <2> SUFFICES ASSUME DevicesInv, NEW n \in Requests
               PROVE  (acted[n] <= 1 \/ n \in held) /\ (WellInTime(n) => acted[n] <= 1)
    BY DEF SignedRequestActsOnce, WellInTime
  <2>1. acted[n] \in Nat /\ RequestSound(n)
    BY DeviceTypes DEF DevicesInv
  <2> QED  BY <2>1 DEF RequestSound
<1> QED  BY <1>1, <1>2, PTL

-----------------------------------------------------------------------------
(***************************************************************************)
(* The account-protection state: its windows.                              *)
(*                                                                         *)
(* The times under which requests were let through form a sequence a.  A   *)
(* window starts at a time start, is length long and has let count         *)
(* requests through, the last of the sequence; extra is what the windows   *)
(* that moved back have cost.                                              *)
(***************************************************************************)

AmongFirst(a, m, from, length) == {i \in 1 .. m : a[i] \in from .. (from + length - 1)}
AllIn(a, from, length) == {i \in DOMAIN a : a[i] \in from .. (from + length - 1)}

\* Of the first m: no more than twice the limit in any stretch, than the limit in one
\* that ends within the window that starts now, and none in one that begins in it.
EarlierFew(a, m, start, length, limit, extra, from) ==
  /\ Cardinality(AmongFirst(a, m, from, length)) <= extra + 2 * limit
  /\ start < from + length => Cardinality(AmongFirst(a, m, from, length)) <= extra + limit
  /\ start <= from => Cardinality(AmongFirst(a, m, from, length)) <= extra

\* The window has counted what came after the first m, all of it in the window.
WindowSound(a, start, length, count, limit, extra) ==
  \E m \in 0 .. Len(a) :
    /\ Len(a) - m <= count
    /\ \A i \in (m + 1) .. Len(a) : start <= a[i] /\ a[i] < start + length
    /\ \A from \in Nat : EarlierFew(a, m, start, length, limit, extra, from)

\* A union has no more elements than its parts together.
LEMMA UnionAtMost ==
  ASSUME NEW S, IsFiniteSet(S), NEW T, IsFiniteSet(T)
  PROVE  /\ IsFiniteSet(S \cup T) /\ Cardinality(S \cup T) \in Nat
         /\ Cardinality(S \cup T) <= Cardinality(S) + Cardinality(T)
<1>1. IsFiniteSet(S \cup T) /\ Cardinality(S \cup T) = Cardinality(S) + Cardinality(T) - Cardinality(S \cap T)
  BY FS_Union
<1>2. IsFiniteSet(S \cap T)
  BY FS_Intersection
<1>3. Cardinality(S) \in Nat /\ Cardinality(T) \in Nat /\ Cardinality(S \cup T) \in Nat /\ Cardinality(S \cap T) \in Nat
  BY <1>1, <1>2, FS_CardinalityType
<1> QED  BY <1>1, <1>3

\* The numbers after m up to n.
LEMMA IntervalAfter ==
  ASSUME NEW m \in Nat, NEW n \in Nat, m <= n
  PROVE  IsFiniteSet((m + 1) .. n) /\ Cardinality((m + 1) .. n) = n - m
<1>1. PICK from \in Int : from = m + 1
  OBVIOUS
<1>2. IsFiniteSet(from .. n) /\ Cardinality(from .. n) = IF from > n THEN 0 ELSE n - from + 1
  BY FS_Interval
<1>3. (IF from > n THEN 0 ELSE n - from + 1) = n - m
  BY <1>1
<1> QED  BY <1>1, <1>2, <1>3

\* What lies in a stretch lies in it among the first m, or came later.
LEMMA StretchSplits ==
  ASSUME NEW a \in Seq(Nat), NEW m \in 0 .. Len(a), NEW from \in Nat, NEW length \in Nat
  PROVE  /\ Cardinality(AmongFirst(a, m, from, length)) \in Nat /\ Cardinality(AllIn(a, from, length)) \in Nat
         /\ Cardinality(AllIn(a, from, length)) <= Cardinality(AmongFirst(a, m, from, length)) + (Len(a) - m)
         /\ (\A i \in (m + 1) .. Len(a) : a[i] \notin from .. (from + length - 1)) =>
              Cardinality(AllIn(a, from, length)) <= Cardinality(AmongFirst(a, m, from, length))
<1> DEFINE F == AmongFirst(a, m, from, length)
           A == AllIn(a, from, length)
           L == (m + 1) .. Len(a)
<1>1. DOMAIN a = 1 .. Len(a) /\ Len(a) \in Nat /\ m \in Nat /\ m <= Len(a)
  OBVIOUS
<1>2. IsFiniteSet(1 .. m) /\ IsFiniteSet(L) /\ IsFiniteSet(1 .. Len(a)) /\ Cardinality(L) = Len(a) - m
  <2>1. IsFiniteSet(1 .. m) /\ IsFiniteSet(1 .. Len(a))
    BY <1>1, FS_Interval
  <2> QED  BY <1>1, <2>1, IntervalAfter
<1>3. F \in SUBSET (1 .. m) /\ A \in SUBSET (1 .. Len(a))
  BY <1>1 DEF AmongFirst, AllIn
<1>4. IsFiniteSet(F) /\ IsFiniteSet(A) /\ Cardinality(F) \in Nat /\ Cardinality(A) \in Nat
  BY <1>2, <1>3, FS_Subset, FS_CardinalityType
<1>5. Cardinality(A) <= Cardinality(F) + (Len(a) - m)
  <2>1. A \in SUBSET (F \cup L)
    BY <1>1 DEF AmongFirst, AllIn
  <2>2. /\ IsFiniteSet(F \cup L) /\ Cardinality(F \cup L) \in Nat
        /\ Cardinality(F \cup L) <= Cardinality(F) + Cardinality(L)
    BY <1>2, <1>4, UnionAtMost
  <2>3. Cardinality(A) <= Cardinality(F \cup L)
    BY <2>1, <2>2, FS_Subset
  <2> HIDE DEF F, A, L
  <2> QED  BY <1>1, <1>2, <1>4, <2>2, <2>3
<1>6. ASSUME \A i \in L : a[i] \notin from .. (from + length - 1)
      PROVE  Cardinality(A) <= Cardinality(F)
  <2>1. A \in SUBSET F
    BY <1>1, <1>6 DEF AmongFirst, AllIn
  <2> QED  BY <1>4, <2>1, FS_Subset
<1> QED  BY <1>4, <1>5, <1>6

\* At first nothing was let through.
LEMMA WindowInit ==
  ASSUME NEW length \in Nat, NEW limit \in Nat
  PROVE  WindowSound(<<>>, 0, length, 0, limit, 0)
<1>1. Len(<<>>) = 0 /\ Cardinality({}) = 0
  BY FS_EmptySet
<1>2. ASSUME NEW from \in Nat
      PROVE  EarlierFew(<<>>, 0, 0, length, limit, 0, from)
  <2>1. AmongFirst(<<>>, 0, from, length) = {}
    BY DEF AmongFirst
  <2>2. 0 <= 0 + 2 * limit /\ 0 <= 0 + limit /\ 0 <= 0
    OBVIOUS
  <2>3. Cardinality(AmongFirst(<<>>, 0, from, length)) = 0
    BY <1>1, <2>1
  <2> QED  BY <2>2, <2>3 DEF EarlierFew
<1>3. 0 \in 0 .. Len(<<>>) /\ Len(<<>>) - 0 <= 0 /\ (0 + 1) .. Len(<<>>) = {}
  BY <1>1
<1> QED  BY <1>2, <1>3 DEF WindowSound

\* Any stretch as long as a window meets two windows at most.
LEMMA WindowsTwice ==
  ASSUME NEW a \in Seq(Nat), NEW start \in Nat, NEW length \in Nat, NEW count \in Nat, NEW limit \in Nat,
         NEW extra \in Nat, count <= limit, WindowSound(a, start, length, count, limit, extra), NEW from \in Nat
  PROVE  /\ Cardinality(AllIn(a, from, length)) \in Nat
         /\ Cardinality(AllIn(a, from, length)) <= extra + 2 * limit
<1>1. PICK m \in 0 .. Len(a) :
        /\ Len(a) - m <= count
        /\ \A i \in (m + 1) .. Len(a) : start <= a[i] /\ a[i] < start + length
        /\ EarlierFew(a, m, start, length, limit, extra, from)
  BY DEF WindowSound
<1>2. /\ Cardinality(AmongFirst(a, m, from, length)) \in Nat /\ Cardinality(AllIn(a, from, length)) \in Nat
      /\ Cardinality(AllIn(a, from, length)) <= Cardinality(AmongFirst(a, m, from, length)) + (Len(a) - m)
      /\ (\A i \in (m + 1) .. Len(a) : a[i] \notin from .. (from + length - 1)) =>
           Cardinality(AllIn(a, from, length)) <= Cardinality(AmongFirst(a, m, from, length))
  BY StretchSplits
<1>3. CASE start < from + length
  <2>1. Cardinality(AmongFirst(a, m, from, length)) <= extra + limit
    BY <1>1, <1>3 DEF EarlierFew
  <2>2. Len(a) - m \in Int /\ Len(a) - m <= limit
    BY <1>1
  <2> QED  BY <1>2, <2>1, <2>2
<1>4. CASE ~(start < from + length)
  <2>1. \A i \in (m + 1) .. Len(a) : a[i] \notin from .. (from + length - 1)
    BY <1>1, <1>4
  <2>2. Cardinality(AmongFirst(a, m, from, length)) <= extra + 2 * limit
    BY <1>1 DEF EarlierFew
  <2> QED  BY <1>2, <2>1, <2>2
<1> QED  BY <1>3, <1>4

\* An empty window after everything that was let through.
LEMMA EmptyWindow ==
  ASSUME NEW a \in Seq(Nat), NEW now \in Nat, NEW length \in Nat, NEW limit \in Nat, NEW extra \in Nat,
         \A from \in Nat :
           /\ Cardinality(AllIn(a, from, length)) <= extra + 2 * limit
           /\ now < from + length => Cardinality(AllIn(a, from, length)) <= extra + limit
           /\ now <= from => Cardinality(AllIn(a, from, length)) <= extra
  PROVE  WindowSound(a, now, length, 0, limit, extra)
<1>1. Len(a) \in Nat /\ DOMAIN a = 1 .. Len(a)
  OBVIOUS
<1>2. \A from \in Nat : AmongFirst(a, Len(a), from, length) = AllIn(a, from, length)
  BY <1>1 DEF AmongFirst, AllIn
<1>3. \A from \in Nat : EarlierFew(a, Len(a), now, length, limit, extra, from)
  BY <1>2 DEF EarlierFew
<1>4. Len(a) \in 0 .. Len(a) /\ Len(a) - Len(a) <= 0 /\ (Len(a) + 1) .. Len(a) = {}
  BY <1>1
<1> QED  BY <1>3, <1>4 DEF WindowSound

\* A window that is over is followed by an empty one.
LEMMA WindowRestarts ==
  ASSUME NEW a \in Seq(Nat), NEW start \in Nat, NEW length \in Nat, NEW count \in Nat, NEW limit \in Nat,
         NEW extra \in Nat, NEW now \in Nat, count <= limit, start + length <= now,
         WindowSound(a, start, length, count, limit, extra)
  PROVE  WindowSound(a, now, length, 0, limit, extra)
<1>1. ASSUME NEW from \in Nat
      PROVE  /\ Cardinality(AllIn(a, from, length)) <= extra + 2 * limit
             /\ now < from + length => Cardinality(AllIn(a, from, length)) <= extra + limit
             /\ now <= from => Cardinality(AllIn(a, from, length)) <= extra
  <2>1. PICK m \in 0 .. Len(a) :
          /\ Len(a) - m <= count
          /\ \A i \in (m + 1) .. Len(a) : start <= a[i] /\ a[i] < start + length
          /\ EarlierFew(a, m, start, length, limit, extra, from)
    BY DEF WindowSound
  <2>2. /\ Cardinality(AmongFirst(a, m, from, length)) \in Nat /\ Cardinality(AllIn(a, from, length)) \in Nat
        /\ Cardinality(AllIn(a, from, length)) <= Cardinality(AmongFirst(a, m, from, length)) + (Len(a) - m)
        /\ (\A i \in (m + 1) .. Len(a) : a[i] \notin from .. (from + length - 1)) =>
             Cardinality(AllIn(a, from, length)) <= Cardinality(AmongFirst(a, m, from, length))
    BY StretchSplits
  <2>3. Cardinality(AllIn(a, from, length)) <= extra + 2 * limit
    BY WindowsTwice
  <2>4. ASSUME now < from + length
        PROVE  Cardinality(AllIn(a, from, length)) <= extra + limit
    <3>1. start <= from
      BY <2>4
    <3>2. Cardinality(AmongFirst(a, m, from, length)) <= extra
      BY <2>1, <3>1 DEF EarlierFew
    <3>3. Len(a) - m \in Int /\ Len(a) - m <= limit
      BY <2>1
    <3> QED  BY <2>2, <3>2, <3>3
  <2>5. ASSUME now <= from
        PROVE  Cardinality(AllIn(a, from, length)) <= extra
    <3>1. Cardinality(AmongFirst(a, m, from, length)) <= extra
      BY <2>1, <2>5 DEF EarlierFew
    <3>2. \A i \in (m + 1) .. Len(a) : a[i] \notin from .. (from + length - 1)
      BY <2>1, <2>5
    <3> QED  BY <2>2, <3>1, <3>2
  <2> QED  BY <2>3, <2>4, <2>5
<1> QED  BY <1>1, EmptyWindow

\* A window that moves back is empty, at the price of two limits.
LEMMA WindowMovesBack ==
  ASSUME NEW a \in Seq(Nat), NEW start \in Nat, NEW length \in Nat, NEW count \in Nat, NEW limit \in Nat,
         NEW extra \in Nat, NEW more \in Nat, NEW now \in Nat, count <= limit, extra + 2 * limit <= more,
         WindowSound(a, start, length, count, limit, extra)
  PROVE  WindowSound(a, now, length, 0, limit, more)
<1>1. \A from \in Nat : /\ Cardinality(AllIn(a, from, length)) \in Nat
                        /\ Cardinality(AllIn(a, from, length)) <= extra + 2 * limit
  BY WindowsTwice
<1>2. ASSUME NEW c \in Nat, c <= extra + 2 * limit
      PROVE  c <= more + 2 * limit /\ c <= more + limit /\ c <= more
  BY <1>2
<1>3. \A from \in Nat : /\ Cardinality(AllIn(a, from, length)) <= more + 2 * limit
                        /\ Cardinality(AllIn(a, from, length)) <= more + limit
                        /\ Cardinality(AllIn(a, from, length)) <= more
  BY <1>1, <1>2
<1> QED  BY <1>3, EmptyWindow

\* What the other window costs does not harm this one.
LEMMA WindowAllowsMore ==
  ASSUME NEW a \in Seq(Nat), NEW start \in Nat, NEW length \in Nat, NEW count \in Nat, NEW limit \in Nat,
         NEW extra \in Nat, NEW more \in Nat, extra <= more, WindowSound(a, start, length, count, limit, extra)
  PROVE  WindowSound(a, start, length, count, limit, more)
<1>1. PICK m \in 0 .. Len(a) :
        /\ Len(a) - m <= count
        /\ \A i \in (m + 1) .. Len(a) : start <= a[i] /\ a[i] < start + length
        /\ \A from \in Nat : EarlierFew(a, m, start, length, limit, extra, from)
  BY DEF WindowSound
<1>2. ASSUME NEW from \in Nat
      PROVE  EarlierFew(a, m, start, length, limit, more, from)
  <2>1. Cardinality(AmongFirst(a, m, from, length)) \in Nat
    BY StretchSplits
  <2>2. EarlierFew(a, m, start, length, limit, extra, from)
    BY <1>1
  <2> QED  BY <2>1, <2>2 DEF EarlierFew
<1> QED  BY <1>1, <1>2 DEF WindowSound

\* normalizeAIClientRisk, for one window.
LEMMA WindowNormalized ==
  ASSUME NEW a \in Seq(Nat), NEW start \in Nat, NEW length \in Nat, NEW count \in Nat, NEW limit \in Nat,
         NEW extra \in Nat, NEW more \in Nat, NEW now \in Nat, count <= limit, extra <= more,
         now < start => extra + 2 * limit <= more, WindowSound(a, start, length, count, limit, extra)
  PROVE  WindowSound(a, IF Restarts(start, length, now) THEN now ELSE start, length,
                     IF Restarts(start, length, now) THEN 0 ELSE count, limit, more)
<1>1. CASE now < start
  <2>1. Restarts(start, length, now)
    BY <1>1 DEF Restarts
  <2>2. WindowSound(a, now, length, 0, limit, more)
    BY <1>1, WindowMovesBack
  <2> QED  BY <2>1, <2>2
<1>2. CASE start + length <= now
  <2>1. Restarts(start, length, now)
    BY <1>2 DEF Restarts
  <2>2. WindowSound(a, now, length, 0, limit, extra)
    BY <1>2, WindowRestarts
  <2>3. 0 \in Nat
    OBVIOUS
  <2>4. WindowSound(a, now, length, 0, limit, more)
    BY <2>2, <2>3, WindowAllowsMore
  <2> QED  BY <2>1, <2>4
<1>3. CASE ~(now < start) /\ ~(start + length <= now)
  <2>1. ~Restarts(start, length, now)
    BY <1>3 DEF Restarts
  <2>2. WindowSound(a, start, length, count, limit, more)
    BY WindowAllowsMore
  <2> QED  BY <2>1, <2>2
<1> QED  BY <1>1, <1>2, <1>3

\* A request let through in the window is counted in it.
LEMMA WindowAppends ==
  ASSUME NEW a \in Seq(Nat), NEW start \in Nat, NEW length \in Nat, NEW count \in Nat, NEW limit \in Nat,
         NEW extra \in Nat, NEW now \in Nat, start <= now, now < start + length,
         WindowSound(a, start, length, count, limit, extra)
  PROVE  WindowSound(Append(a, now), start, length, count + 1, limit, extra)
<1> DEFINE b == Append(a, now)
<1>1. /\ Len(b) = Len(a) + 1 /\ Len(a) \in Nat /\ b[Len(a) + 1] = now
      /\ \A i \in 1 .. Len(a) : b[i] = a[i]
  OBVIOUS
<1>2. PICK m \in 0 .. Len(a) :
        /\ Len(a) - m <= count
        /\ \A i \in (m + 1) .. Len(a) : start <= a[i] /\ a[i] < start + length
        /\ \A from \in Nat : EarlierFew(a, m, start, length, limit, extra, from)
  BY DEF WindowSound
<1>3. \A from \in Nat : AmongFirst(b, m, from, length) = AmongFirst(a, m, from, length)
  BY <1>1 DEF AmongFirst
<1>4. \A from \in Nat : EarlierFew(b, m, start, length, limit, extra, from)
  BY <1>2, <1>3 DEF EarlierFew
<1>5. m \in 0 .. Len(b) /\ Len(b) - m <= count + 1
  BY <1>1, <1>2
<1>6. ASSUME NEW i \in (m + 1) .. Len(b)
      PROVE  start <= b[i] /\ b[i] < start + length
  <2>1. CASE i = Len(a) + 1
    BY <1>1, <2>1
  <2>2. CASE i # Len(a) + 1
    <3>1. i \in (m + 1) .. Len(a) /\ i \in 1 .. Len(a)
      BY <1>1, <2>2
    <3> QED  BY <1>1, <1>2, <3>1
  <2> QED  BY <2>1, <2>2
<1> QED  BY <1>4, <1>5, <1>6 DEF WindowSound

-----------------------------------------------------------------------------
(***************************************************************************)
(* The account-protection state: its row.                                  *)
(***************************************************************************)

RiskRecords == [state : States, cooldown : {Never} \cup Nat, hourStart : Nat, dayStart : Nat,
                rateStart : Nat, hour : 0..HourlyLimit, day : 0..DailyLimit, rate : Nat,
                last : {Never} \cup Nat]
HandlerRecords == [pc : {"idle", "reserve", "create", "running", "record", "copy", "confirm", "validation"},
                   kind : {"generate", "validate"}, now : Nat,
                   outcome : Failures \cup {"ok", "mismatch"}, copy : States]
ConnectionRecords == [status : {"active", "attention", "disabled"},
                      auth : {"active", "attention", "reauth_required", "disabled"}, verified : BOOLEAN]

\* A row in cooldown has an end of it, at the time now.
CooldownEndsBy(r, now) ==
  (r.state = "cooldown" <=> r.cooldown # Never) /\ r.cooldown <= now + RateLimitWait(MaxRetryAfter)

\* What the row says of its two windows is true of the requests a that were let through,
\* k transactions having found a window that begins later.
CountsTrue(r, a, k) ==
  /\ WindowSound(a, r.hourStart, Hour, r.hour, HourlyLimit, k * (2 * HourlyLimit))
  /\ WindowSound(a, r.dayStart, Day, r.day, DailyLimit, k * (2 * DailyLimit))

RiskInv ==
  /\ RiskTypeOK
  /\ CooldownEndsBy(risk, clock)
  /\ \A h \in Handlers : handler[h].now <= clock
  /\ CountsTrue(risk, admitted, regressions)

\* The type invariant by its parts.
LEMMA RiskTypes ==
  RiskTypeOK <=> /\ risk \in RiskRecords /\ connection \in ConnectionRecords /\ connector \in {"active", "revoked"}
                 /\ handler \in [Handlers -> HandlerRecords] /\ clock \in Nat /\ admitted \in Seq(Nat)
                 /\ regressions \in Nat
  BY DEF RiskTypeOK, RiskRecords, ConnectionRecords, HandlerRecords

\* The constants are numbers.
LEMMA RiskNumbers ==
  /\ MinInterval \in Nat /\ Hour \in Nat /\ Day \in Nat /\ HourlyLimit \in Nat /\ DailyLimit \in Nat
  /\ FaultCooldown \in Nat /\ RateCooldown \in Nat /\ FaultCooldown <= RateCooldown /\ Hour > 0 /\ Day > 0
  /\ MaxRetryAfter \in Nat /\ Never = -1
  BY RiskAssumption DEF Never

\* Waits stay between an hour and the longest one.
LEMMA WaitFacts ==
  /\ RateLimitWait(MaxRetryAfter) \in Nat /\ FaultCooldown <= RateLimitWait(MaxRetryAfter)
  /\ \A wait \in 0 .. MaxRetryAfter : /\ RateLimitWait(wait) \in Nat
                                      /\ RateLimitWait(wait) <= RateLimitWait(MaxRetryAfter)
  BY RiskNumbers DEF RateLimitWait

\* normalizeAIClientRisk keeps the row's type, ends cooldowns and never begins one, and
\* restarts a window with an empty count; a transaction that does not regress restarts
\* only a window that is over.
LEMMA NormalizeFacts ==
  ASSUME NEW r \in RiskRecords, NEW now \in Nat, NEW now2 \in Nat, CooldownEndsBy(r, now2)
  PROVE  /\ Normalize(r, now) \in RiskRecords
         /\ CooldownEndsBy(Normalize(r, now), now2)
<1> USE RiskNumbers
<1>1. /\ r.hourStart \in Nat /\ r.dayStart \in Nat /\ r.rateStart \in Nat /\ r.hour \in 0..HourlyLimit
      /\ r.day \in 0..DailyLimit /\ r.rate \in Nat /\ r.state \in States /\ r.cooldown \in {Never} \cup Nat
      /\ r.last \in {Never} \cup Nat /\ 0 \in 0..HourlyLimit /\ 0 \in 0..DailyLimit /\ "normal" \in States
  BY DEF RiskRecords, States
<1> DEFINE n == Normalize(r, now)
<1>2. /\ n.state = IF Cooled(r, now) THEN "normal" ELSE r.state
      /\ n.cooldown = IF Cooled(r, now) THEN Never ELSE r.cooldown
  BY DEF Normalize, RiskRecords
<1>3. n \in RiskRecords
  <2>1. PICK hs \in Nat : hs = IF Restarts(r.hourStart, Hour, now) THEN now ELSE r.hourStart
    BY <1>1
  <2>2. PICK hc \in 0..HourlyLimit : hc = IF Restarts(r.hourStart, Hour, now) THEN 0 ELSE r.hour
    BY <1>1
  <2>3. PICK ds \in Nat : ds = IF Restarts(r.dayStart, Day, now) THEN now ELSE r.dayStart
    BY <1>1
  <2>4. PICK dc \in 0..DailyLimit : dc = IF Restarts(r.dayStart, Day, now) THEN 0 ELSE r.day
    BY <1>1
  <2>5. PICK rs \in Nat : rs = IF Restarts(r.rateStart, Day, now) THEN now ELSE r.rateStart
    BY <1>1
  <2>6. PICK rc \in Nat : rc = IF Restarts(r.rateStart, Day, now) THEN 0 ELSE r.rate
    BY <1>1
  <2>7. PICK st \in States : st = IF Cooled(r, now) THEN "normal" ELSE r.state
    BY <1>1
  <2>8. PICK cd \in {Never} \cup Nat : cd = IF Cooled(r, now) THEN Never ELSE r.cooldown
    BY <1>1
  <2>9. n = [r EXCEPT !.hourStart = hs, !.hour = hc, !.dayStart = ds, !.day = dc,
                       !.rateStart = rs, !.rate = rc, !.state = st, !.cooldown = cd]
    BY <2>1, <2>2, <2>3, <2>4, <2>5, <2>6, <2>7, <2>8 DEF Normalize
  <2>10. [r EXCEPT !.hourStart = hs, !.hour = hc, !.dayStart = ds, !.day = dc,
                   !.rateStart = rs, !.rate = rc, !.state = st, !.cooldown = cd] \in RiskRecords
    BY DEF RiskRecords
  <2> QED  BY <2>9, <2>10
<1>4. CooldownEndsBy(n, now2)
  <2>1. CASE Cooled(r, now)
    BY <1>2, <2>1, WaitFacts DEF CooldownEndsBy
  <2>2. CASE ~Cooled(r, now)
    BY <1>2, <2>2 DEF CooldownEndsBy
  <2> QED  BY <2>1, <2>2
<1> QED  BY <1>3, <1>4

\* One more transaction costs two limits more.
LEMMA Products ==
  ASSUME NEW k \in Nat, NEW limit \in Nat
  PROVE  /\ k * (2 * limit) \in Nat /\ (k + 1) * (2 * limit) \in Nat
         /\ (k + 1) * (2 * limit) = k * (2 * limit) + 2 * limit
         /\ k * (2 * limit) + 2 * limit = 2 * (1 + k) * limit
  OBVIOUS

\* What is true of the counts before is true after, and the windows have the time.
LEMMA NormalizeCounts ==
  ASSUME NEW r \in RiskRecords, NEW a \in Seq(Nat), NEW now \in Nat, NEW k \in Nat, NEW k2 \in {k, k + 1},
         CountsTrue(r, a, k), now < r.hourStart \/ now < r.dayStart => k2 = k + 1
  PROVE  LET n == Normalize(r, now)
         IN /\ CountsTrue(n, a, k2)
            /\ n.hourStart <= now /\ now < n.hourStart + Hour
            /\ n.dayStart <= now /\ now < n.dayStart + Day
<1> USE RiskNumbers
<1> DEFINE n == Normalize(r, now)
<1>1. /\ r.hourStart \in Nat /\ r.dayStart \in Nat /\ r.hour \in Nat /\ r.hour <= HourlyLimit
      /\ r.day \in Nat /\ r.day <= DailyLimit
  BY DEF RiskRecords
<1>2. /\ n.hourStart = IF Restarts(r.hourStart, Hour, now) THEN now ELSE r.hourStart
      /\ n.hour = IF Restarts(r.hourStart, Hour, now) THEN 0 ELSE r.hour
      /\ n.dayStart = IF Restarts(r.dayStart, Day, now) THEN now ELSE r.dayStart
      /\ n.day = IF Restarts(r.dayStart, Day, now) THEN 0 ELSE r.day
  BY DEF Normalize, RiskRecords
<1>3. ASSUME NEW limit \in Nat
      PROVE  \E e, m \in Nat : /\ e = k * (2 * limit) /\ m = k2 * (2 * limit) /\ e <= m
                               /\ now < r.hourStart => e + 2 * limit <= m
                               /\ now < r.dayStart => e + 2 * limit <= m
  <2>1. PICK e \in Nat, e2 \in Nat : /\ e = k * (2 * limit) /\ e2 = (k + 1) * (2 * limit)
                                    /\ e2 = e + 2 * limit
    BY Products
  <2>2. CASE k2 = k
    <3>1. e = k2 * (2 * limit) /\ e <= e /\ ~(now < r.hourStart) /\ ~(now < r.dayStart)
      BY <2>1, <2>2
    <3> QED  BY <2>1, <3>1
  <2>3. CASE k2 = k + 1
    <3>1. e2 = k2 * (2 * limit) /\ e <= e2 /\ e + 2 * limit <= e2
      BY <2>1, <2>3
    <3> QED  BY <2>1, <3>1
  <2> QED  BY <2>2, <2>3
<1>4. /\ WindowSound(a, r.hourStart, Hour, r.hour, HourlyLimit, k * (2 * HourlyLimit))
      /\ WindowSound(a, r.dayStart, Day, r.day, DailyLimit, k * (2 * DailyLimit))
  BY DEF CountsTrue
<1>5. PICK extra \in Nat, more \in Nat :
        /\ extra = k * (2 * HourlyLimit) /\ more = k2 * (2 * HourlyLimit) /\ extra <= more
        /\ now < r.hourStart => extra + 2 * HourlyLimit <= more
        /\ WindowSound(a, r.hourStart, Hour, r.hour, HourlyLimit, extra)
  BY <1>3, <1>4
<1>6. WindowSound(a, IF Restarts(r.hourStart, Hour, now) THEN now ELSE r.hourStart, Hour,
                  IF Restarts(r.hourStart, Hour, now) THEN 0 ELSE r.hour, HourlyLimit, more)
  <2>1. /\ extra <= more /\ WindowSound(a, r.hourStart, Hour, r.hour, HourlyLimit, extra)
        /\ now < r.hourStart => extra + 2 * HourlyLimit <= more
    BY <1>5
  <2> QED  BY <1>1, <2>1, WindowNormalized
<1>7. PICK extraD \in Nat, moreD \in Nat :
        /\ extraD = k * (2 * DailyLimit) /\ moreD = k2 * (2 * DailyLimit) /\ extraD <= moreD
        /\ now < r.dayStart => extraD + 2 * DailyLimit <= moreD
        /\ WindowSound(a, r.dayStart, Day, r.day, DailyLimit, extraD)
  BY <1>3, <1>4
<1>8. WindowSound(a, IF Restarts(r.dayStart, Day, now) THEN now ELSE r.dayStart, Day,
                   IF Restarts(r.dayStart, Day, now) THEN 0 ELSE r.day, DailyLimit, moreD)
  <2>1. /\ extraD <= moreD /\ WindowSound(a, r.dayStart, Day, r.day, DailyLimit, extraD)
        /\ now < r.dayStart => extraD + 2 * DailyLimit <= moreD
    BY <1>7
  <2> QED  BY <1>1, <2>1, WindowNormalized
<1>9. n.hourStart <= now /\ now < n.hourStart + Hour
  BY <1>1, <1>2 DEF Restarts
<1>10. n.dayStart <= now /\ now < n.dayStart + Day
  BY <1>1, <1>2 DEF Restarts
<1>11. /\ WindowSound(a, n.hourStart, Hour, n.hour, HourlyLimit, k2 * (2 * HourlyLimit))
       /\ WindowSound(a, n.dayStart, Day, n.day, DailyLimit, k2 * (2 * DailyLimit))
  BY <1>2, <1>5, <1>6, <1>7, <1>8
<1> HIDE DEF n
<1>12. CountsTrue(n, a, k2)
  BY <1>11 DEF CountsTrue
<1> QED  BY <1>9, <1>10, <1>12 DEF n

\* RecordAIClientResult gives every cooldown an end and leaves the counts alone.
LEMMA RecordedFacts ==
  ASSUME NEW r \in RiskRecords, NEW o \in Failures \cup {"ok", "mismatch"}, NEW wait \in 0 .. MaxRetryAfter,
         NEW now \in Nat, NEW now2 \in Nat, now <= now2, CooldownEndsBy(r, now2)
  PROVE  /\ Recorded(r, o, wait, now) \in RiskRecords /\ CooldownEndsBy(Recorded(r, o, wait, now), now2)
         /\ Recorded(r, o, wait, now).hourStart = r.hourStart /\ Recorded(r, o, wait, now).hour = r.hour
         /\ Recorded(r, o, wait, now).dayStart = r.dayStart /\ Recorded(r, o, wait, now).day = r.day
<1> USE RiskNumbers
<1>1. r.rate \in Nat /\ r.rate + 1 \in Nat /\ r.state \in States /\ r.cooldown \in {Never} \cup Nat
  BY DEF RiskRecords
<1>2. /\ now + RateLimitWait(wait) \in Nat /\ now + FaultCooldown \in Nat
      /\ now + FaultCooldown <= now2 + RateLimitWait(MaxRetryAfter)
      /\ now + RateLimitWait(wait) <= now2 + RateLimitWait(MaxRetryAfter)
      /\ Never <= now2 + RateLimitWait(MaxRetryAfter) /\ Never \notin Nat
  BY WaitFacts
<1> DEFINE n == Recorded(r, o, wait, now)
<1>3. CASE o = "ok"
  <2>1. n = [r EXCEPT !.state = IF @ = "cooldown" THEN "normal" ELSE @,
                      !.cooldown = IF r.state = "cooldown" THEN Never ELSE @]
    BY <1>3 DEF Recorded
  <2>2. n.state = (IF r.state = "cooldown" THEN "normal" ELSE r.state)
        /\ n.cooldown = (IF r.state = "cooldown" THEN Never ELSE r.cooldown)
    BY <2>1 DEF RiskRecords
  <2>3. n \in RiskRecords
    BY <1>1, <2>1 DEF RiskRecords, States
  <2>4. CooldownEndsBy(n, now2)
    BY <1>1, <1>2, <2>2 DEF CooldownEndsBy
  <2> QED  BY <2>1, <2>3, <2>4 DEF RiskRecords
<1>4. CASE o \in {"unauthorized", "security", "policy"}
  <2>1. PICK s \in {"reauth_required", "security_locked", "policy_locked"} : n = [r EXCEPT !.state = s, !.cooldown = Never]
    BY <1>4 DEF Recorded
  <2>2. n \in RiskRecords /\ n.state = s /\ n.cooldown = Never
    BY <2>1 DEF RiskRecords, States
  <2>3. CooldownEndsBy(n, now2)
    BY <1>2, <2>2 DEF CooldownEndsBy
  <2> QED  BY <2>1, <2>2, <2>3 DEF RiskRecords
<1>5. CASE o = "rate_limited"
  <2>1. n = [r EXCEPT !.rate = @ + 1, !.state = IF r.rate + 1 >= 2 THEN "manual_recovery" ELSE "cooldown",
                      !.cooldown = IF r.rate + 1 >= 2 THEN Never ELSE now + RateLimitWait(wait)]
    BY <1>5 DEF Recorded
  <2>2. /\ n \in RiskRecords /\ n.state = (IF r.rate + 1 >= 2 THEN "manual_recovery" ELSE "cooldown")
        /\ n.cooldown = (IF r.rate + 1 >= 2 THEN Never ELSE now + RateLimitWait(wait))
    BY <1>1, <1>2, <2>1 DEF RiskRecords, States
  <2>3. CooldownEndsBy(n, now2)
    BY <1>2, <2>2 DEF CooldownEndsBy
  <2> QED  BY <2>1, <2>2, <2>3 DEF RiskRecords
<1>6. CASE o \in {"timeout", "incomplete", "other", "mismatch"}
  <2>1. n = [r EXCEPT !.state = "cooldown", !.cooldown = now + FaultCooldown]
    BY <1>6 DEF Recorded
  <2>2. n \in RiskRecords /\ n.state = "cooldown" /\ n.cooldown = now + FaultCooldown
    BY <1>2, <2>1 DEF RiskRecords, States
  <2>3. CooldownEndsBy(n, now2)
    BY <1>2, <2>2 DEF CooldownEndsBy
  <2> QED  BY <2>1, <2>2, <2>3 DEF RiskRecords
<1> QED  BY <1>3, <1>4, <1>5, <1>6 DEF Failures

\* A handler's next record, in type and not ahead of the clock.
HandlerMoves(h) ==
  \E w \in HandlerRecords : handler' = [handler EXCEPT ![h] = w] /\ w.now <= clock

\* How the actions move a handler.
Begins(h) ==
  \/ handler' = [handler EXCEPT ![h] = [Idle EXCEPT !.pc = "reserve", !.now = clock]]
  \/ handler' = [handler EXCEPT ![h] = [Idle EXCEPT !.pc = "create", !.kind = "validate"]]
GoesOn(h) ==
  \/ \E pc \in {"create", "running", "copy"} : At(h, pc)
  \/ handler' = [handler EXCEPT ![h].pc = "record", ![h].now = clock]
  \/ \E o \in Outcomes, pc \in {"record", "confirm", "validation"} :
        handler' = [handler EXCEPT ![h].outcome = o, ![h].now = clock, ![h].pc = pc]
  \/ \E s \in States : handler' = [handler EXCEPT ![h].pc = "copy", ![h].copy = s]
  \/ \E s \in States, o \in {"ok", "mismatch"} :
        handler' = [handler EXCEPT ![h].pc = "validation", ![h].copy = s, ![h].outcome = o]

\* A handler that begins, ends or goes on moves in type.
LEMMA HandlersMove ==
  ASSUME RiskInv, NEW h \in Handlers, Begins(h) \/ GoesOn(h) \/ Done(h)
  PROVE  HandlerMoves(h)
<1>1. handler \in [Handlers -> HandlerRecords] /\ clock \in Nat /\ handler[h] \in HandlerRecords /\ handler[h].now <= clock
  BY RiskTypes DEF RiskInv
<1>2. Idle \in HandlerRecords /\ Idle.now <= clock /\ clock <= clock
  BY <1>1 DEF Idle, HandlerRecords, States
<1>3. CASE Done(h)
  BY <1>2, <1>3 DEF Done, HandlerMoves
<1>4. CASE handler' = [handler EXCEPT ![h] = [Idle EXCEPT !.pc = "reserve", !.now = clock]]
  <2>1. [Idle EXCEPT !.pc = "reserve", !.now = clock] \in HandlerRecords
    BY <1>1, <1>2 DEF HandlerRecords
  <2>2. [Idle EXCEPT !.pc = "reserve", !.now = clock].now <= clock
    BY <1>2 DEF Idle
  <2> QED  BY <1>4, <2>1, <2>2 DEF HandlerMoves
<1>5. CASE handler' = [handler EXCEPT ![h] = [Idle EXCEPT !.pc = "create", !.kind = "validate"]]
  <2>1. [Idle EXCEPT !.pc = "create", !.kind = "validate"] \in HandlerRecords
    BY <1>2 DEF HandlerRecords
  <2>2. [Idle EXCEPT !.pc = "create", !.kind = "validate"].now <= clock
    BY <1>2 DEF Idle
  <2> QED  BY <1>5, <2>1, <2>2 DEF HandlerMoves
<1>6. ASSUME NEW pc \in {"create", "running", "copy"}, At(h, pc)
      PROVE  HandlerMoves(h)
  <2>1. handler' = [handler EXCEPT ![h] = [handler[h] EXCEPT !.pc = pc]]
    BY <1>1, <1>6 DEF At
  <2>2. [handler[h] EXCEPT !.pc = pc] \in HandlerRecords /\ [handler[h] EXCEPT !.pc = pc].now <= clock
    BY <1>1 DEF HandlerRecords
  <2> QED  BY <2>1, <2>2 DEF HandlerMoves
<1>7. CASE handler' = [handler EXCEPT ![h].pc = "record", ![h].now = clock]
  <2>1. handler' = [handler EXCEPT ![h] = [handler[h] EXCEPT !.pc = "record", !.now = clock]]
    BY <1>1, <1>7
  <2>2. /\ [handler[h] EXCEPT !.pc = "record", !.now = clock] \in HandlerRecords
        /\ [handler[h] EXCEPT !.pc = "record", !.now = clock].now <= clock
    BY <1>1, <1>2 DEF HandlerRecords
  <2> QED  BY <2>1, <2>2 DEF HandlerMoves
<1>8. ASSUME NEW o \in Outcomes, NEW pc \in {"record", "confirm", "validation"},
             handler' = [handler EXCEPT ![h].outcome = o, ![h].now = clock, ![h].pc = pc]
      PROVE  HandlerMoves(h)
  <2>1. handler' = [handler EXCEPT ![h] = [handler[h] EXCEPT !.outcome = o, !.now = clock, !.pc = pc]]
    BY <1>1, <1>8
  <2>2. o \in Failures \cup {"ok", "mismatch"}
    BY OutcomesAssumption
  <2>3. /\ [handler[h] EXCEPT !.outcome = o, !.now = clock, !.pc = pc] \in HandlerRecords
        /\ [handler[h] EXCEPT !.outcome = o, !.now = clock, !.pc = pc].now <= clock
    BY <1>1, <1>2, <2>2 DEF HandlerRecords
  <2> QED  BY <2>1, <2>3 DEF HandlerMoves
<1>9. ASSUME NEW s \in States, handler' = [handler EXCEPT ![h].pc = "copy", ![h].copy = s]
      PROVE  HandlerMoves(h)
  <2>1. handler' = [handler EXCEPT ![h] = [handler[h] EXCEPT !.pc = "copy", !.copy = s]]
    BY <1>1, <1>9
  <2>2. /\ [handler[h] EXCEPT !.pc = "copy", !.copy = s] \in HandlerRecords
        /\ [handler[h] EXCEPT !.pc = "copy", !.copy = s].now <= clock
    BY <1>1 DEF HandlerRecords
  <2> QED  BY <2>1, <2>2 DEF HandlerMoves
<1>10. ASSUME NEW s \in States, NEW o \in {"ok", "mismatch"},
              handler' = [handler EXCEPT ![h].pc = "validation", ![h].copy = s, ![h].outcome = o]
       PROVE  HandlerMoves(h)
  <2>1. handler' = [handler EXCEPT ![h] = [handler[h] EXCEPT !.pc = "validation", !.copy = s, !.outcome = o]]
    BY <1>1, <1>10
  <2>2. /\ [handler[h] EXCEPT !.pc = "validation", !.copy = s, !.outcome = o] \in HandlerRecords
        /\ [handler[h] EXCEPT !.pc = "validation", !.copy = s, !.outcome = o].now <= clock
    BY <1>1 DEF HandlerRecords
  <2> QED  BY <2>1, <2>2 DEF HandlerMoves
<1>11. Begins(h) => HandlerMoves(h)
  BY <1>4, <1>5 DEF Begins
<1>12. GoesOn(h) => HandlerMoves(h)
  BY <1>6, <1>7, <1>8, <1>9, <1>10 DEF GoesOn
<1> QED  BY <1>3, <1>11, <1>12

\* A move of one handler, or of none, and a sound row.
LEMMA RiskMoveInv ==
  ASSUME RiskInv, UNCHANGED clock, handler' = handler \/ \E h \in Handlers : HandlerMoves(h),
         connection' \in ConnectionRecords, connector' \in {"active", "revoked"},
         risk' \in RiskRecords, CooldownEndsBy(risk', clock), admitted' \in Seq(Nat), regressions' \in Nat,
         CountsTrue(risk', admitted', regressions')
  PROVE  RiskInv'
<1>1. handler \in [Handlers -> HandlerRecords] /\ clock \in Nat /\ \A h \in Handlers : handler[h].now <= clock
  BY RiskTypes DEF RiskInv
<1>2. handler' \in [Handlers -> HandlerRecords] /\ \A h \in Handlers : handler'[h].now <= clock
  BY <1>1 DEF HandlerMoves
<1>3. RiskTypeOK'
  BY <1>1, <1>2 DEF RiskTypeOK, RiskRecords, HandlerRecords, ConnectionRecords
<1>4. (\A h \in Handlers : handler[h].now <= clock)'
  BY <1>2
<1>5. CooldownEndsBy(risk, clock)' /\ CountsTrue(risk, admitted, regressions)'
  BY DEF CooldownEndsBy, CountsTrue, WindowSound, EarlierFew, AmongFirst
<1> QED  BY <1>3, <1>4, <1>5 DEF RiskInv

\* Steps that leave the row alone.
LEMMA RowStaysInv ==
  ASSUME RiskInv, NEW h \in Handlers,
         \/ StartGeneration(h) \/ CreateTask(h) \/ CreateTaskFails(h) \/ CallFails(h) \/ CopyRisk(h)
         \/ StartValidation(h) \/ UpdateValidation(h) \/ \E o \in Outcomes : FinishTask(h, o)
  PROVE  RiskInv'
<1>1. /\ risk \in RiskRecords /\ connection \in ConnectionRecords /\ connector \in {"active", "revoked"}
      /\ handler \in [Handlers -> HandlerRecords] /\ admitted \in Seq(Nat) /\ regressions \in Nat
  BY RiskTypes DEF RiskInv
<1>2. UNCHANGED <<risk, connector, clock, admitted, regressions>>
  BY DEF StartGeneration, CreateTask, CreateTaskFails, CallFails, CopyRisk, StartValidation, UpdateValidation, FinishTask
<1>3. CASE connection' \in ConnectionRecords /\ HandlerMoves(h)
  <2>1. CooldownEndsBy(risk', clock) /\ CountsTrue(risk', admitted', regressions')
    BY <1>2 DEF RiskInv
  <2> QED  BY <1>1, <1>2, <1>3, <2>1, RiskMoveInv
<1>4. CASE StartGeneration(h) \/ StartValidation(h)
  <2>1. Begins(h) /\ connection' = connection
    BY <1>4 DEF StartGeneration, StartValidation, Begins
  <2> QED  BY <1>1, <1>3, <2>1, HandlersMove
<1>5. CASE CreateTaskFails(h) \/ CallFails(h)
  BY <1>1, <1>3, <1>5, HandlersMove DEF CreateTaskFails, CallFails
<1>6. CASE CreateTask(h)
  <2>1. GoesOn(h) /\ connection' = connection
    BY <1>6 DEF CreateTask, GoesOn
  <2> QED  BY <1>1, <1>3, <2>1, HandlersMove
<1>7. ASSUME NEW o \in Outcomes, FinishTask(h, o)
      PROVE  RiskInv'
  <2>1. GoesOn(h) /\ connection' = connection
    <3>1. PICK pc \in {"record", "confirm", "validation"} :
            handler' = [handler EXCEPT ![h].outcome = o, ![h].now = clock, ![h].pc = pc]
      BY <1>7 DEF FinishTask
    <3>2. GoesOn(h)
      BY <3>1 DEF GoesOn
    <3> QED  BY <1>7, <3>2 DEF FinishTask
  <2> QED  BY <1>1, <1>3, <2>1, HandlersMove
<1>8. CASE CopyRisk(h)
  <2>1. Shown(handler[h].copy) \in ConnectionRecords
    BY <1>1 DEF Shown, ConnectionRecords
  <2> QED  BY <1>3, <1>8, <2>1, HandlersMove DEF CopyRisk
<1>9. CASE UpdateValidation(h)
  <2>1. connection' \in ConnectionRecords
    BY <1>1, <1>9 DEF UpdateValidation, ConnectionRecords
  <2>2. GoesOn(h)
    BY <1>9 DEF UpdateValidation, GoesOn
  <2> QED  BY <1>3, <2>1, <2>2, HandlersMove
<1> QED  BY <1>4, <1>5, <1>6, <1>7, <1>8, <1>9

\* ReserveAIClientRequest counts a request in the windows it is let through in.
LEMMA ReserveInv ==
  ASSUME RiskInv, NEW h \in Handlers, Reserve(h)
  PROVE  RiskInv'
<1> USE RiskNumbers
<1>1. /\ risk \in RiskRecords /\ connection \in ConnectionRecords /\ connector \in {"active", "revoked"}
      /\ handler \in [Handlers -> HandlerRecords] /\ admitted \in Seq(Nat) /\ regressions \in Nat /\ clock \in Nat
      /\ CooldownEndsBy(risk, clock)
  BY RiskTypes DEF RiskInv
<1>2. PICK now \in Nat : now = handler[h].now
  BY <1>1 DEF HandlerRecords
<1>3. PICK r : r = Normalize(risk, now)
  OBVIOUS
<1>4. r \in RiskRecords /\ CooldownEndsBy(r, clock)
  BY <1>1, <1>3, NormalizeFacts
<1>5. UNCHANGED <<connection, connector, clock>> /\ regressions' = Regressed(now)
  BY <1>2 DEF Reserve
<1>6. /\ regressions' \in {regressions, regressions + 1} /\ regressions' \in Nat
      /\ now < risk.hourStart \/ now < risk.dayStart => regressions' = regressions + 1
  BY <1>1, <1>5 DEF Regressed
<1>7. /\ CountsTrue(r, admitted, regressions') /\ r.hourStart <= now /\ now < r.hourStart + Hour
      /\ r.dayStart <= now /\ now < r.dayStart + Day
  <2>1. CountsTrue(risk, admitted, regressions)
    BY DEF RiskInv
  <2> QED  BY <1>1, <1>3, <1>6, <2>1, NormalizeCounts
<1>8. CASE Allowed(r, now)
  <2>1. /\ risk' = [r EXCEPT !.hour = @ + 1, !.day = @ + 1, !.last = now]
        /\ admitted' = Append(admitted, now) /\ At(h, "create")
    BY <1>2, <1>3, <1>8 DEF Reserve
  <2>2. /\ r.hour \in Nat /\ r.hour + 1 \in 0..HourlyLimit /\ r.day \in Nat /\ r.day + 1 \in 0..DailyLimit
        /\ r.hourStart \in Nat /\ r.dayStart \in Nat
    BY <1>4, <1>8 DEF Allowed, RiskRecords
  <2>3. risk' \in RiskRecords
    BY <1>4, <2>1, <2>2 DEF RiskRecords
  <2>4. /\ risk'.state = r.state /\ risk'.cooldown = r.cooldown /\ risk'.hourStart = r.hourStart
        /\ risk'.dayStart = r.dayStart /\ risk'.hour = r.hour + 1 /\ risk'.day = r.day + 1
    BY <1>4, <2>1 DEF RiskRecords
  <2>5. CooldownEndsBy(risk', clock)
    BY <1>4, <2>4 DEF CooldownEndsBy
  <2>6. CountsTrue(risk', admitted', regressions')
    <3>1. PICK extra \in Nat, extraD \in Nat : /\ extra = regressions' * (2 * HourlyLimit)
                                              /\ extraD = regressions' * (2 * DailyLimit)
      BY <1>6, Products
    <3>2. /\ WindowSound(admitted, r.hourStart, Hour, r.hour, HourlyLimit, extra)
          /\ WindowSound(admitted, r.dayStart, Day, r.day, DailyLimit, extraD)
      BY <1>7, <3>1 DEF CountsTrue
    <3>3. WindowSound(Append(admitted, now), r.hourStart, Hour, r.hour + 1, HourlyLimit, extra)
      BY <1>1, <1>7, <2>2, <3>2, WindowAppends
    <3>4. WindowSound(Append(admitted, now), r.dayStart, Day, r.day + 1, DailyLimit, extraD)
      BY <1>1, <1>7, <2>2, <3>2, WindowAppends
    <3> QED  BY <2>1, <2>4, <3>1, <3>3, <3>4 DEF CountsTrue
  <2>7. HandlerMoves(h)
    BY <2>1, HandlersMove DEF GoesOn
  <2>8. admitted' \in Seq(Nat)
    BY <1>1, <2>1
  <2> QED  BY <1>1, <1>5, <1>6, <2>3, <2>5, <2>6, <2>7, <2>8, RiskMoveInv
<1>9. CASE ~Allowed(r, now)
  <2>1. risk' = r /\ admitted' = admitted /\ Done(h)
    BY <1>2, <1>3, <1>9 DEF Reserve
  <2> QED  BY <1>1, <1>4, <1>5, <1>6, <1>7, <2>1, HandlersMove, RiskMoveInv
<1> QED  BY <1>8, <1>9

\* RecordAIClientResult and ConfirmAIClientIdentity decide on the normalised row.
LEMMA RecordInv ==
  ASSUME RiskInv, NEW h \in Handlers, Record(h) \/ \E matched \in BOOLEAN : ConfirmIdentity(h, matched)
  PROVE  RiskInv'
<1> USE RiskNumbers
<1>1. /\ risk \in RiskRecords /\ connection \in ConnectionRecords /\ connector \in {"active", "revoked"}
      /\ handler \in [Handlers -> HandlerRecords] /\ admitted \in Seq(Nat) /\ regressions \in Nat /\ clock \in Nat
      /\ CooldownEndsBy(risk, clock)
  BY RiskTypes DEF RiskInv
<1>2. PICK now \in Nat : now = handler[h].now /\ now <= clock
  BY <1>1 DEF HandlerRecords, RiskInv
<1>3. PICK n : n = Normalize(risk, now)
  OBVIOUS
<1>4. n \in RiskRecords /\ CooldownEndsBy(n, clock)
  BY <1>1, <1>3, NormalizeFacts
<1>5. UNCHANGED <<connection, connector, clock, admitted>> /\ regressions' = Regressed(now)
  BY <1>2 DEF Record, ConfirmIdentity
<1>6. /\ regressions' \in {regressions, regressions + 1} /\ regressions' \in Nat
      /\ now < risk.hourStart \/ now < risk.dayStart => regressions' = regressions + 1
  BY <1>1, <1>5 DEF Regressed
<1>7. CountsTrue(n, admitted, regressions')
  <2>1. CountsTrue(risk, admitted, regressions)
    BY DEF RiskInv
  <2> QED  BY <1>1, <1>3, <1>6, <2>1, NormalizeCounts
<1>8. ASSUME NEW r \in RiskRecords, CooldownEndsBy(r, clock), risk' = r, HandlerMoves(h),
             r.hourStart = n.hourStart, r.hour = n.hour, r.dayStart = n.dayStart, r.day = n.day
      PROVE  RiskInv'
  <2>1. CountsTrue(risk', admitted', regressions')
    BY <1>5, <1>7, <1>8 DEF CountsTrue
  <2> QED  BY <1>1, <1>5, <1>6, <1>8, <2>1, RiskMoveInv
<1>9. CASE Record(h)
  <2>1. PICK o \in Failures \cup {"ok", "mismatch"} : o = handler[h].outcome
    BY <1>1 DEF HandlerRecords
  <2>2. PICK wait \in 0 .. MaxRetryAfter : risk' = Recorded(n, o, wait, now)
    BY <1>2, <1>3, <1>9, <2>1 DEF Record
  <2>3. PICK r : r = Recorded(n, o, wait, now) /\ risk' = r
    BY <2>2
  <2>4. /\ r \in RiskRecords /\ CooldownEndsBy(r, clock)
        /\ r.hourStart = n.hourStart /\ r.hour = n.hour /\ r.dayStart = n.dayStart /\ r.day = n.day
    <3>1. now <= clock /\ clock \in Nat
      BY <1>1, <1>2
    <3>2. /\ Recorded(n, o, wait, now) \in RiskRecords /\ CooldownEndsBy(Recorded(n, o, wait, now), clock)
          /\ Recorded(n, o, wait, now).hourStart = n.hourStart /\ Recorded(n, o, wait, now).hour = n.hour
          /\ Recorded(n, o, wait, now).dayStart = n.dayStart /\ Recorded(n, o, wait, now).day = n.day
      BY <1>4, <3>1, RecordedFacts
    <3> QED  BY <2>3, <3>2
  <2>5. risk' = r
    BY <2>3
  <2>6. HandlerMoves(h)
    <3>1. Done(h) \/ \E s \in {"normal", r.state} : handler' = [handler EXCEPT ![h].pc = "copy", ![h].copy = s]
      BY <1>2, <1>3, <1>9, <2>1, <2>3 DEF Record
    <3>2. {"normal", r.state} \subseteq States
      BY <2>4 DEF RiskRecords, States
    <3> QED  BY <3>1, <3>2, HandlersMove DEF GoesOn
  <2> QED  BY <1>8, <2>4, <2>5, <2>6
<1>10. ASSUME NEW matched \in BOOLEAN, ConfirmIdentity(h, matched)
       PROVE  RiskInv'
  <2>1. PICK r : r = IF matched THEN [n EXCEPT !.state = IF @ = "reauth_required" THEN "paused" ELSE @]
                     ELSE [n EXCEPT !.state = "security_locked", !.cooldown = Never]
    OBVIOUS
  <2>2. risk' = r /\ \E o \in {"ok", "mismatch"} :
                        handler' = [handler EXCEPT ![h].pc = "validation", ![h].copy = r.state, ![h].outcome = o]
    BY <1>2, <1>3, <1>10, <2>1 DEF ConfirmIdentity
  <2>3. r \in RiskRecords
    <3>1. "paused" \in States /\ "security_locked" \in States
      BY DEF States
    <3> QED  BY <1>4, <2>1, <3>1 DEF RiskRecords
  <2>4. r.hourStart = n.hourStart /\ r.hour = n.hour /\ r.dayStart = n.dayStart /\ r.day = n.day
    BY <1>4, <2>1 DEF RiskRecords
  <2>5. CooldownEndsBy(r, clock)
    <3>1. CASE matched
      <4>1. r.cooldown = n.cooldown /\ (r.state = "cooldown" <=> n.state = "cooldown")
        BY <1>4, <2>1, <3>1 DEF RiskRecords
      <4> QED  BY <1>4, <4>1 DEF CooldownEndsBy
    <3>2. CASE ~matched
      <4>1. r.cooldown = Never /\ r.state = "security_locked"
        BY <1>4, <2>1, <3>2 DEF RiskRecords
      <4> QED  BY <1>1, <4>1, WaitFacts DEF CooldownEndsBy
    <3> QED  BY <3>1, <3>2
  <2>6. HandlerMoves(h)
    <3>1. r.state \in States
      BY <2>3 DEF RiskRecords
    <3> QED  BY <2>2, <3>1, HandlersMove DEF GoesOn
  <2> QED  BY <1>8, <2>2, <2>3, <2>4, <2>5, <2>6
<1> QED  BY <1>9, <1>10

\* The owner pauses, resumes and revokes; time passes.
LEMMA OwnerStepInv ==
  ASSUME RiskInv, Pause \/ Resume \/ RevokeConnector \/ RiskTick
  PROVE  RiskInv'
<1> USE RiskNumbers
<1>1. /\ risk \in RiskRecords /\ connection \in ConnectionRecords /\ connector \in {"active", "revoked"}
      /\ handler \in [Handlers -> HandlerRecords] /\ admitted \in Seq(Nat) /\ regressions \in Nat /\ clock \in Nat
      /\ CooldownEndsBy(risk, clock)
  BY RiskTypes DEF RiskInv
<1>2. CASE RiskTick
  <2>1. UNCHANGED <<risk, connection, connector, handler, admitted, regressions>> /\ clock' = clock + 1
    BY <1>2 DEF RiskTick
  <2>2. RiskTypeOK'
    BY <1>1, <2>1 DEF RiskInv, RiskTypeOK
  <2>3. CooldownEndsBy(risk, clock)'
    <3>1. risk.cooldown \in Int /\ RateLimitWait(MaxRetryAfter) \in Nat
      BY <1>1, WaitFacts DEF RiskRecords
    <3> QED  BY <1>1, <2>1, <3>1 DEF CooldownEndsBy
  <2>4. (\A h \in Handlers : handler[h].now <= clock)'
    <3>1. \A h \in Handlers : handler[h].now <= clock /\ handler[h].now \in Nat
      BY <1>1 DEF RiskInv, HandlerRecords
    <3> QED  BY <1>1, <2>1, <3>1
  <2>5. CountsTrue(risk, admitted, regressions)'
    BY <2>1 DEF RiskInv, CountsTrue, WindowSound, EarlierFew, AmongFirst
  <2> QED  BY <2>2, <2>3, <2>4, <2>5 DEF RiskInv
<1>3. CASE RevokeConnector
  <2>1. connection' \in ConnectionRecords /\ connector' = "revoked"
    BY <1>1, <1>3 DEF RevokeConnector, ConnectionRecords
  <2>2. UNCHANGED <<risk, handler, clock, admitted, regressions>>
    BY <1>3 DEF RevokeConnector
  <2>3. CooldownEndsBy(risk', clock) /\ CountsTrue(risk', admitted', regressions')
    BY <2>2 DEF RiskInv
  <2> QED  BY <1>1, <2>1, <2>2, <2>3, RiskMoveInv
<1>4. CASE Pause \/ Resume
  <2>1. UNCHANGED <<connector, handler, clock, admitted, regressions>> /\ connection' \in ConnectionRecords
    BY <1>1, <1>4 DEF Pause, Resume, Shown, ConnectionRecords
  <2>2. /\ risk' \in RiskRecords /\ risk'.hourStart = risk.hourStart /\ risk'.hour = risk.hour
        /\ risk'.dayStart = risk.dayStart /\ risk'.day = risk.day
        /\ risk'.cooldown = risk.cooldown /\ (risk'.state = "cooldown" <=> risk.state = "cooldown")
    <3>1. CASE Pause
      BY <1>1, <3>1 DEF Pause, RiskRecords, States
    <3>2. CASE Resume
      BY <1>1, <3>2 DEF Resume, MayResume, RiskRecords, States
    <3> QED  BY <1>4, <3>1, <3>2
  <2>3. CooldownEndsBy(risk', clock)
    BY <1>1, <2>2 DEF CooldownEndsBy
  <2>4. CountsTrue(risk', admitted', regressions')
    BY <2>1, <2>2 DEF RiskInv, CountsTrue
  <2> QED  BY <1>1, <2>1, <2>2, <2>3, <2>4, RiskMoveInv
<1> QED  BY <1>2, <1>3, <1>4

\* Every step keeps the invariant.
LEMMA RiskStepInv ==
  ASSUME RiskInv, [RiskNext]_riskVars
  PROVE  RiskInv'
<1>1. CASE UNCHANGED riskVars
  <2>1. RiskTypeOK' /\ (\A h \in Handlers : handler[h].now <= clock)'
    BY <1>1 DEF riskVars, RiskInv, RiskTypeOK
  <2>2. CooldownEndsBy(risk, clock)'
    BY <1>1 DEF riskVars, RiskInv, CooldownEndsBy
  <2>3. CountsTrue(risk, admitted, regressions)'
    BY <1>1 DEF riskVars, RiskInv, CountsTrue, WindowSound, EarlierFew, AmongFirst
  <2> QED  BY <2>1, <2>2, <2>3 DEF RiskInv
<1>2. CASE RiskNext
  BY <1>2, RowStaysInv, ReserveInv, RecordInv, OwnerStepInv DEF RiskNext, ValidateAIClientConnection, SetAIClientConnectionPause
<1> QED  BY <1>1, <1>2

\* The first state is sound.
LEMMA RiskInitInv ==
  ASSUME RiskInit
  PROVE  RiskInv
<1> USE RiskNumbers
<1>1. RiskTypeOK
  <2>1. risk \in RiskRecords
    <3>1. 0 \in 0..HourlyLimit /\ 0 \in 0..DailyLimit /\ "normal" \in States /\ Never \in {Never} \cup Nat
      BY DEF States
    <3> QED  BY <3>1 DEF RiskInit, RiskRecords
  <2>2. connection \in ConnectionRecords /\ connector \in {"active", "revoked"} /\ clock \in Nat /\ regressions \in Nat
    BY DEF RiskInit, ConnectionRecords
  <2>3. handler \in [Handlers -> HandlerRecords]
    BY DEF RiskInit, Idle, HandlerRecords, States
  <2>4. admitted \in Seq(Nat)
    BY DEF RiskInit
  <2> QED  BY <2>1, <2>2, <2>3, <2>4, RiskTypes
<1>2. CooldownEndsBy(risk, clock)
  BY WaitFacts DEF RiskInit, CooldownEndsBy
<1>3. \A h \in Handlers : handler[h].now <= clock
  BY DEF RiskInit, Idle
<1>4. CountsTrue(risk, admitted, regressions)
  <2>1. 0 * (2 * HourlyLimit) = 0 /\ 0 * (2 * DailyLimit) = 0
    OBVIOUS
  <2> QED  BY <2>1, WindowInit DEF RiskInit, CountsTrue
<1> QED  BY <1>1, <1>2, <1>3, <1>4 DEF RiskInv

\* The account-protection state keeps its types, the window counters their limits.
THEOREM RiskTypesHold == RiskSpec => []RiskTypeOK
<1>1. RiskSpec => []RiskInv
  BY RiskInitInv, RiskStepInv, PTL DEF RiskSpec
<1>2. RiskInv => RiskTypeOK
  BY DEF RiskInv
<1> QED  BY <1>1, <1>2, PTL

\* For any number of handlers, any limits and whatever the client asks to wait: every
\* cooldown has an end, an hour or the longest Retry-After away at most
\* (RecordAIClientResult, normalizeAIClientRisk, SetAIClientConnectionPaused).
THEOREM CooldownsEnd == RiskSpec => []NoEndlessCooldown
<1>1. RiskSpec => []RiskInv
  BY RiskInitInv, RiskStepInv, PTL DEF RiskSpec
<1>2. RiskInv => NoEndlessCooldown
  BY DEF RiskInv, CooldownEndsBy, NoEndlessCooldown
<1> QED  BY <1>1, <1>2, PTL

\* For any windows and limits, any number of handlers and times read before the row is
\* locked: no hour and no day sees more than twice its limit, and as much again for every
\* transaction that found a window that begins later than its own time
\* (ReserveAIClientRequest, normalizeAIClientRisk).
THEOREM TwiceTheLimitAtMost == RiskSpec => []TwiceLimitPerWindow
<1>1. RiskSpec => []RiskInv
  BY RiskInitInv, RiskStepInv, PTL DEF RiskSpec
<1>2. RiskInv => TwiceLimitPerWindow
  <2> SUFFICES ASSUME RiskInv, NEW from \in 0..MaxTime
               PROVE  /\ Cardinality(Within(from, Hour)) <= 2 * (1 + regressions) * HourlyLimit
                      /\ Cardinality(Within(from, Day)) <= 2 * (1 + regressions) * DailyLimit
    BY DEF TwiceLimitPerWindow
  <2>1. /\ risk.hourStart \in Nat /\ risk.hour \in Nat /\ risk.hour <= HourlyLimit
        /\ risk.dayStart \in Nat /\ risk.day \in Nat /\ risk.day <= DailyLimit
        /\ admitted \in Seq(Nat) /\ from \in Nat /\ regressions \in Nat
    BY RiskTypes, RiskNumbers DEF RiskInv, RiskRecords
  <2>2. PICK extra \in Nat, extraD \in Nat :
          /\ extra = regressions * (2 * HourlyLimit) /\ extra + 2 * HourlyLimit = 2 * (1 + regressions) * HourlyLimit
          /\ extraD = regressions * (2 * DailyLimit) /\ extraD + 2 * DailyLimit = 2 * (1 + regressions) * DailyLimit
    BY <2>1, RiskNumbers, Products
  <2>3. /\ WindowSound(admitted, risk.hourStart, Hour, risk.hour, HourlyLimit, extra)
        /\ WindowSound(admitted, risk.dayStart, Day, risk.day, DailyLimit, extraD)
    BY <2>2 DEF RiskInv, CountsTrue
  <2>4. Cardinality(AllIn(admitted, from, Hour)) <= extra + 2 * HourlyLimit
    BY <2>1, <2>3, RiskNumbers, WindowsTwice
  <2>5. Cardinality(AllIn(admitted, from, Day)) <= extraD + 2 * DailyLimit
    BY <2>1, <2>3, RiskNumbers, WindowsTwice
  <2> QED  BY <2>2, <2>4, <2>5 DEF AllIn, Within
<1> QED  BY <1>1, <1>2, PTL
=============================================================================
