--------------------------- MODULE GatewayProofs ---------------------------
(***************************************************************************)
(* Theorems about Gateway for any number of requests, processes and        *)
(* upstreams, any limits and any durations that satisfy SlotCoversRequest, *)
(* and about UpstreamStreams for any number of tool calls and of parts.    *)
(***************************************************************************)
EXTENDS Gateway, UpstreamStreams, FiniteSetTheorems, TLAPS

\* What the calls of a route may still take.
Cost(S) == 2 * CallTime * Cardinality(S)

\* The slot of a running request outlasts the call it waits for, its
\* repetition and the calls of the rest of the route.
Covered(q, n) ==
  q.pc \in {"plan", "next", "call", "stream"} =>
    n > q.left + (IF q.pc = "call" /\ q.retry THEN CallTime ELSE 0) + Cost(q.todo)

\* How far a request has come and what it has left behind.
Local(q) ==
  /\ q.pc \notin {"call", "stream"} => q.left = 0
  /\ q.pc \in {"call", "stream"} => q.chan \in Channels
  /\ q.called => q.pc \notin {"new", "authenticated", "reserved", "plan"}
  /\ q.bytes # {} => q.pc \in {"stream", "end", "done", "dead"}
  /\ \A c, d \in q.bytes : c = d
  /\ q.rows \in {0, 1}
  /\ q.rows = 1 => q.pc \in {"end", "done", "dead"}
  /\ q.called /\ q.caller /\ q.pc \in {"end", "done"} => q.rows = 1

RequestsSound == \A r \in Requests : Local(req[r]) /\ Covered(req[r], slot[r])
HeldBounded == Cardinality(Held) <= Concurrency
QuotaCounted == Cardinality(AdmittedRequests) <= key.used

DeletedIsRevoked == key.deleted => key.status = "revoked"

Inv == TypeOK /\ RequestsSound /\ HeldBounded /\ QuotaCounted /\ DeletedIsRevoked

-----------------------------------------------------------------------------
\* Parts of the constant assumptions as the steps use them.
LEMMA Constants ==
  /\ IsFiniteSet(Requests) /\ IsFiniteSet(Channels)
  /\ Home \in [Requests -> Servers] /\ None \notin Channels
  /\ Quotas \subseteq Nat
  /\ Concurrency \in Nat /\ CallTime \in Nat /\ SlotTTL \in Nat /\ CircuitTTL \in Nat
BY ConstantsAssumption DEF ConstantsAssumption

\* The cost of a route is a number below the life of a slot.
LEMMA CostBound ==
  ASSUME NEW S \in SUBSET Channels
  PROVE  Cost(S) \in Nat /\ Cost(S) < SlotTTL
<1>1. Cardinality(S) \in Nat /\ Cardinality(Channels) \in Nat /\ Cardinality(S) <= Cardinality(Channels)
  BY Constants, FS_Subset, FS_CardinalityType
<1>2. ASSUME NEW a \in Nat, NEW b \in Nat, NEW t \in Nat, a <= b
      PROVE  2 * t * a <= 2 * t * b /\ 2 * t * a \in Nat /\ 2 * t * b \in Nat
  <2>1. PICK d \in Nat : b = a + d
    BY <1>2
  <2>2. 2 * t * (a + d) = 2 * t * a + 2 * t * d /\ 2 * t * d \in Nat
    BY SMT
  <2> QED BY <2>1, <2>2, SMT
<1>3. 2 * CallTime * Cardinality(S) <= 2 * CallTime * Cardinality(Channels)
      /\ 2 * CallTime * Cardinality(S) \in Nat /\ 2 * CallTime * Cardinality(Channels) \in Nat
  BY <1>1, <1>2, Constants
<1> QED BY <1>3, SlotCoversRequest, Constants DEF Cost, SlotCoversRequest

\* Part of a route costs no more than the route.
LEMMA CostSubset ==
  ASSUME NEW S \in SUBSET Channels, NEW T \in SUBSET S
  PROVE  Cost(T) <= Cost(S)
<1>1. Cardinality(S) \in Nat /\ Cardinality(T) \in Nat /\ Cardinality(T) <= Cardinality(S)
  BY Constants, FS_Subset, FS_CardinalityType
<1>2. PICK d \in Nat : Cardinality(S) = Cardinality(T) + d
  <2>1. Cardinality(S) - Cardinality(T) \in Nat
    BY <1>1
  <2> QED BY <1>1, <2>1
<1>3. ASSUME NEW a \in Nat, NEW t \in Nat, NEW e \in Nat
      PROVE  2 * t * (a + e) = 2 * t * a + 2 * t * e /\ 2 * t * e \in Nat /\ 2 * t * a \in Nat
  BY SMT
<1> QED BY <1>1, <1>2, <1>3, Constants DEF Cost

\* Every upstream of the route stands for two calls.
LEMMA CostRemove ==
  ASSUME NEW S \in SUBSET Channels, NEW c \in S
  PROVE  Cost(S) = Cost(S \ {c}) + 2 * CallTime
<1>1. IsFiniteSet(S) /\ Cardinality(S) \in Nat
  BY Constants, FS_Subset, FS_CardinalityType
<1>2. Cardinality(S \ {c}) \in Nat /\ Cardinality(S \ {c}) = Cardinality(S) - 1
  BY <1>1, FS_RemoveElement, FS_CardinalityType
<1>3. ASSUME NEW a \in Nat, NEW t \in Nat
      PROVE  2 * t * (a + 1) = 2 * t * a + 2 * t
  BY SMT
<1>4. Cardinality(S) = Cardinality(S \ {c}) + 1
  BY <1>1, <1>2
<1> QED BY <1>2, <1>3, <1>4, Constants DEF Cost

-----------------------------------------------------------------------------
\* What a step of the request r does to the requests and their slots.
Effect(r) ==
  /\ req' \in [Requests -> RequestRecords] /\ slot' \in [Requests -> Nat]
  /\ \A x \in Requests \ {r} : req'[x] = req[x] /\ slot'[x] = slot[x]
  /\ Local(req'[r]) /\ Covered(req'[r], slot'[r])

\* A request that leaves its loop needs its slot no longer.
LEMMA ReturnedRecord ==
  ASSUME NEW q \in RequestRecords, NEW pc \in {"end", "done", "dead"}
  PROVE  /\ Returned(q, pc) \in RequestRecords
         /\ Returned(q, pc).pc = pc /\ Returned(q, pc).left = 0 /\ Returned(q, pc).called = q.called
         /\ Returned(q, pc).bytes = q.bytes /\ Returned(q, pc).rows = q.rows
         /\ Returned(q, pc).caller = q.caller
BY DEF RequestRecords, Returned, NoCall

\* An effect from the new record and the new slot of the request.
LEMMA EffectFrom ==
  ASSUME Inv, NEW r \in Requests, NEW p \in RequestRecords, NEW n \in Nat,
         req' = [req EXCEPT ![r] = p], slot' = [slot EXCEPT ![r] = n] \/ (slot' = slot /\ n = slot[r]),
         Local(p), Covered(p, n)
  PROVE  Effect(r)
BY DEF Inv, TypeOK, Effect

\* Authentication.
LEMMA AuthenticateEffect ==
  ASSUME Inv, NEW r \in Requests, Authenticate(r)
  PROVE  Effect(r)
<1>1. req[r] \in RequestRecords /\ Local(req[r]) /\ req[r].pc = "new"
  BY DEF Inv, TypeOK, RequestsSound, Authenticate, InState
<1>2. slot' = slot
  BY DEF Authenticate, redisVars
<1> QED BY <1>1, <1>2 DEF Inv, TypeOK, Effect, Authenticate, Local, Covered, RequestRecords

\* A refusal before the quota is touched.
LEMMA RefusedEffect ==
  ASSUME Inv, NEW r \in Requests, Refused(r)
  PROVE  Effect(r)
<1>1. req[r] \in RequestRecords /\ Local(req[r]) /\ req[r].pc = "authenticated"
  BY DEF Inv, TypeOK, RequestsSound, Refused, InState
<1>2. slot' = slot
  BY DEF Refused, redisVars
<1>3. req' = [req EXCEPT ![r] = Returned(req[r], "done")]
  BY DEF Refused, Return
<1> QED BY <1>1, <1>2, <1>3, ReturnedRecord DEF Inv, TypeOK, Effect, Local, Covered

\* The reservation.
LEMMA ReserveEffect ==
  ASSUME Inv, NEW r \in Requests, ReserveGatewayKeyRequest(r)
  PROVE  Effect(r)
<1>1. req[r] \in RequestRecords /\ Local(req[r]) /\ req[r].pc = "authenticated"
  BY DEF Inv, TypeOK, RequestsSound, ReserveGatewayKeyRequest, InState
<1>2. slot' = slot
  BY DEF ReserveGatewayKeyRequest, redisVars
<1>3. CASE req' = [req EXCEPT ![r] = Returned(req[r], "done")]
  BY <1>1, <1>2, <1>3, ReturnedRecord DEF Inv, TypeOK, Effect, Local, Covered
<1>4. CASE req' = [req EXCEPT ![r].pc = "reserved"]
  BY <1>1, <1>2, <1>4 DEF Inv, TypeOK, Effect, Local, Covered, RequestRecords
<1> QED BY <1>3, <1>4 DEF ReserveGatewayKeyRequest, Return, Goto

\* A new slot covers the whole route.
LEMMA AcquireEffect ==
  ASSUME Inv, NEW r \in Requests, AcquireConcurrency(r)
  PROVE  Effect(r)
<1>1. req[r] \in RequestRecords /\ Local(req[r]) /\ req[r].pc = "reserved" /\ slot \in [Requests -> Nat]
  BY DEF Inv, TypeOK, RequestsSound, AcquireConcurrency, InState
<1>2. CASE req' = [req EXCEPT ![r] = Returned(req[r], "done")] /\ slot' = slot
  BY <1>1, <1>2, ReturnedRecord DEF Inv, TypeOK, Effect, Local, Covered
<1>3. CASE req' = [req EXCEPT ![r].pc = "plan"] /\ slot' = [slot EXCEPT ![r] = SlotTTL]
  <2>1. Cost(req[r].todo) \in Nat /\ Cost(req[r].todo) < SlotTTL
    BY <1>1, CostBound DEF RequestRecords
  <2> DEFINE p == [req[r] EXCEPT !.pc = "plan"]
  <2>2. p \in RequestRecords /\ p.pc = "plan" /\ p.left = 0 /\ p.todo = req[r].todo
    BY <1>1 DEF RequestRecords, Local
  <2>3. Local(p)
    BY <1>1 DEF RequestRecords, Local
  <2>4. req' = [req EXCEPT ![r] = p]
    BY <1>3
  <2> HIDE DEF p
  <2>5. Covered(p, SlotTTL)
    BY <2>1, <2>2, Constants DEF Covered
  <2> QED BY <1>3, <2>2, <2>3, <2>4, <2>5, Constants, EffectFrom
<1> QED BY <1>2, <1>3 DEF AcquireConcurrency, Return, Goto

\* A payload that cannot be read.
LEMMA BadPayloadEffect ==
  ASSUME Inv, NEW r \in Requests, BadPayload(r)
  PROVE  Effect(r)
<1>1. req[r] \in RequestRecords /\ Local(req[r]) /\ req[r].pc = "plan"
  BY DEF Inv, TypeOK, RequestsSound, BadPayload, InState
<1>2. slot' = slot
  BY DEF BadPayload, redisVars
<1>3. req' = [req EXCEPT ![r] = Returned(req[r], "end")]
  BY DEF BadPayload, Return
<1> QED BY <1>1, <1>2, <1>3, ReturnedRecord DEF Inv, TypeOK, Effect, Local, Covered

\* The end of a request that was running, with its row.
LEMMA RecordedEffect ==
  ASSUME Inv, NEW r \in Requests, Running(r), slot' = slot, EndRecorded(r)
  PROVE  Effect(r)
<1> DEFINE q == Returned(req[r], "end")
<1>1. req[r] \in RequestRecords /\ Local(req[r]) /\ req[r].rows = 0
  BY DEF Inv, TypeOK, RequestsSound, Running, Local
<1>2. q \in RequestRecords /\ q.pc = "end" /\ q.left = 0 /\ q.called = req[r].called
      /\ q.bytes = req[r].bytes /\ q.rows = req[r].rows /\ q.caller = req[r].caller
  BY <1>1, ReturnedRecord
<1>3. req' = [req EXCEPT ![r] = [q EXCEPT !.rows = Recorded(req[r])]]
  BY DEF EndRecorded
<1> HIDE DEF q
<1>4. Recorded(req[r]) = IF req[r].caller THEN 1 ELSE 0
  BY <1>1 DEF Recorded
<1> DEFINE p == [q EXCEPT !.rows = Recorded(req[r])]
<1>5. p \in RequestRecords /\ p.pc = "end" /\ p.left = 0 /\ p.called = req[r].called
      /\ p.bytes = req[r].bytes /\ p.rows = Recorded(req[r]) /\ p.caller = req[r].caller
  BY <1>2, <1>4 DEF RequestRecords
<1>6. req' = [req EXCEPT ![r] = p] /\ slot[r] \in Nat
  BY <1>3 DEF Inv, TypeOK
<1> HIDE DEF p
<1>7. Local(p) /\ Covered(p, slot[r])
  BY <1>1, <1>4, <1>5 DEF Local, Covered, RequestRecords
<1> QED BY <1>5, <1>6, <1>7, EffectFrom

\* The route is part of the upstreams read at authentication.
LEMMA PlanEffect ==
  ASSUME Inv, NEW r \in Requests, PlanRoute(r)
  PROVE  Effect(r)
<1> DEFINE route == {c \in req[r].todo : ~CircuitOpen(Home[r], c)}
           p == [req[r] EXCEPT !.pc = "next", !.todo = route]
<1>1. req[r] \in RequestRecords /\ Local(req[r]) /\ Covered(req[r], slot[r]) /\ req[r].pc = "plan"
      /\ slot[r] \in Nat /\ slot' = slot
  BY DEF Inv, TypeOK, RequestsSound, PlanRoute, InState, redisVars
<1>2. CASE EndRecorded(r)
  BY <1>1, <1>2, RecordedEffect DEF Running
<1>3. CASE req' = [req EXCEPT ![r].pc = "next", ![r].todo = route]
  <2>1. route \in SUBSET req[r].todo /\ req[r].todo \in SUBSET Channels
    BY <1>1 DEF RequestRecords
  <2> HIDE DEF route
  <2>2. Cost(route) \in Nat /\ Cost(req[r].todo) \in Nat /\ Cost(route) <= Cost(req[r].todo)
    BY <2>1, CostBound, CostSubset
  <2>3. p \in RequestRecords /\ p.pc = "next" /\ p.left = 0 /\ p.todo = route /\ Local(p)
    BY <1>1, <2>1 DEF RequestRecords, Local
  <2>4. req' = [req EXCEPT ![r] = p]
    BY <1>3
  <2> HIDE DEF p
  <2>5. Covered(p, slot[r])
    BY <1>1, <2>2, <2>3, Constants DEF Covered, Local
  <2> QED BY <1>1, <2>3, <2>4, <2>5, EffectFrom
<1> QED BY <1>2, <1>3 DEF PlanRoute

\* A skipped upstream makes the route shorter.
LEMMA SkipEffect ==
  ASSUME Inv, NEW r \in Requests, SkipUpstream(r)
  PROVE  Effect(r)
<1>1. req[r] \in RequestRecords /\ Local(req[r]) /\ Covered(req[r], slot[r]) /\ req[r].pc = "next"
      /\ slot[r] \in Nat /\ slot' = slot
  BY DEF Inv, TypeOK, RequestsSound, SkipUpstream, InState, redisVars
<1>2. PICK c \in req[r].todo : req' = [req EXCEPT ![r].todo = RouteAfter(req[r].todo, c)]
  BY DEF SkipUpstream
<1> DEFINE route == req[r].todo \ {c}
           p == [req[r] EXCEPT !.todo = route]
<1>3. route \in SUBSET req[r].todo /\ req[r].todo \in SUBSET Channels
  BY <1>1 DEF RequestRecords
<1>4. req' = [req EXCEPT ![r] = p]
  BY <1>2 DEF RouteAfter
<1> HIDE DEF route
<1>5. Cost(route) \in Nat /\ Cost(req[r].todo) \in Nat /\ Cost(route) <= Cost(req[r].todo)
  BY <1>3, CostBound, CostSubset
<1>6. p \in RequestRecords /\ p.pc = "next" /\ p.left = 0 /\ p.todo = route /\ Local(p)
  BY <1>1, <1>3 DEF RequestRecords, Local
<1> HIDE DEF p
<1>7. Covered(p, slot[r])
  BY <1>1, <1>5, <1>6, Constants DEF Covered, Local
<1> QED BY <1>1, <1>4, <1>6, <1>7, EffectFrom

\* A call and its repetition take what the upstream stood for in the route.
LEMMA CallEffect ==
  ASSUME Inv, NEW r \in Requests, CallUpstream(r)
  PROVE  Effect(r)
<1>1. req[r] \in RequestRecords /\ Local(req[r]) /\ Covered(req[r], slot[r]) /\ req[r].pc = "next"
      /\ slot[r] \in Nat /\ slot' = slot
  BY DEF Inv, TypeOK, RequestsSound, CallUpstream, InState, redisVars
<1>2. PICK c \in req[r].todo :
        req' = [req EXCEPT ![r] = [req[r] EXCEPT !.pc = "call", !.chan = c, !.todo = RouteAfter(req[r].todo, c),
                                   !.retry = TRUE, !.left = CallTime, !.called = TRUE]]
  BY <1>1 DEF CallUpstream, RequestRecords
<1> DEFINE route == req[r].todo \ {c}
           p == [req[r] EXCEPT !.pc = "call", !.chan = c, !.todo = route,
                 !.retry = TRUE, !.left = CallTime, !.called = TRUE]
<1>3. route \in SUBSET Channels /\ req[r].todo \in SUBSET Channels /\ c \in Channels
  BY <1>1 DEF RequestRecords
<1>4. req' = [req EXCEPT ![r] = p]
  BY <1>2 DEF RouteAfter
<1>5. Cost(route) \in Nat /\ Cost(req[r].todo) \in Nat /\ Cost(req[r].todo) = Cost(route) + 2 * CallTime
  BY <1>3, CostBound, CostRemove
<1> HIDE DEF route
<1>6. p \in RequestRecords /\ p.pc = "call" /\ p.left = CallTime /\ p.retry = TRUE /\ p.todo = route /\ Local(p)
  BY <1>1, <1>3, Constants DEF RequestRecords, Local
<1> HIDE DEF p
<1>7. Covered(p, slot[r])
  <2>1. slot[r] > 0 + 0 + Cost(req[r].todo)
    BY <1>1 DEF Covered, Local
  <2>2. slot[r] > CallTime + CallTime + Cost(route)
    BY <1>1, <1>5, <2>1, Constants
  <2> QED BY <1>6, <2>2 DEF Covered
<1> QED BY <1>1, <1>4, <1>6, <1>7, EffectFrom

\* The end of the route.
LEMMA AllFailedEffect ==
  ASSUME Inv, NEW r \in Requests, AllUpstreamsFailed(r)
  PROVE  Effect(r)
BY RecordedEffect DEF AllUpstreamsFailed, InState, Running, redisVars

\* The end of a stream.
LEMMA StreamEndsEffect ==
  ASSUME Inv, NEW r \in Requests, StreamEnds(r)
  PROVE  Effect(r)
BY RecordedEffect DEF StreamEnds, InState, Running, redisVars

\* A whole answer is recorded and written.
LEMMA AnswersEffect ==
  ASSUME Inv, NEW r \in Requests, CallAnswers(r)
  PROVE  Effect(r)
<1> DEFINE q == Returned(req[r], "end")
           p == [q EXCEPT !.rows = 1, !.bytes = {req[r].chan}]
<1>1. req[r] \in RequestRecords /\ Local(req[r]) /\ req[r].pc = "call" /\ req[r].rows = 0 /\ req[r].caller
      /\ req[r].bytes = {} /\ req[r].chan \in Channels /\ slot[r] \in Nat /\ slot' = slot
  BY DEF Inv, TypeOK, RequestsSound, CallAnswers, InState, redisVars, Local
<1>2. q \in RequestRecords /\ q.pc = "end" /\ q.left = 0 /\ q.called = req[r].called
      /\ q.bytes = {} /\ q.rows = 0 /\ q.caller = req[r].caller
  BY <1>1, ReturnedRecord
<1>3. req' = [req EXCEPT ![r] = [q EXCEPT !.rows = Recorded(req[r]), !.bytes = req[r].bytes \cup {req[r].chan}]]
  BY DEF CallAnswers
<1> HIDE DEF q
<1>4. Recorded(req[r]) = 1
  BY <1>1 DEF Recorded
<1>5. [q EXCEPT !.rows = Recorded(req[r]), !.bytes = req[r].bytes \cup {req[r].chan}] = p
  BY <1>1, <1>2, <1>4 DEF RequestRecords
<1>6. p \in RequestRecords /\ p.pc = "end" /\ p.left = 0 /\ p.bytes = {req[r].chan} /\ p.rows = 1
  BY <1>1, <1>2 DEF RequestRecords
<1>7. req' = [req EXCEPT ![r] = p]
  BY <1>3, <1>5
<1> HIDE DEF p
<1>8. Local(p) /\ Covered(p, slot[r])
  BY <1>6 DEF Local, Covered, RequestRecords
<1> QED BY <1>1, <1>6, <1>7, <1>8, EffectFrom

\* The first bytes of a stream.
LEMMA StreamStartsEffect ==
  ASSUME Inv, NEW r \in Requests, StreamStarts(r)
  PROVE  Effect(r)
<1> DEFINE p == [req[r] EXCEPT !.pc = "stream", !.bytes = {req[r].chan}]
<1>1. req[r] \in RequestRecords /\ Local(req[r]) /\ Covered(req[r], slot[r]) /\ req[r].pc = "call"
      /\ req[r].bytes = {} /\ req[r].chan \in Channels /\ slot[r] \in Nat /\ slot' = slot
  BY DEF Inv, TypeOK, RequestsSound, StreamStarts, InState, redisVars, Local
<1>2. req' = [req EXCEPT ![r] = p]
  BY <1>1 DEF StreamStarts, RequestRecords
<1>3. p \in RequestRecords /\ p.pc = "stream" /\ p.left = req[r].left /\ p.todo = req[r].todo /\ Local(p)
  BY <1>1 DEF RequestRecords, Local
<1>4. req[r].left \in Nat /\ Cost(req[r].todo) \in Nat
  BY <1>1, CostBound DEF RequestRecords
<1> HIDE DEF p
<1>5. Covered(p, slot[r])
  BY <1>1, <1>3, <1>4, Constants DEF Covered
<1> QED BY <1>1, <1>2, <1>3, <1>5, EffectFrom

\* The repetition takes the time set aside for it.
LEMMA RejectedEffect ==
  ASSUME Inv, NEW r \in Requests, CallRejected(r)
  PROVE  Effect(r)
<1> DEFINE p == [req[r] EXCEPT !.retry = FALSE, !.left = CallTime]
<1>1. req[r] \in RequestRecords /\ Local(req[r]) /\ Covered(req[r], slot[r]) /\ req[r].pc = "call"
      /\ req[r].retry /\ slot[r] \in Nat /\ slot' = slot
  BY DEF Inv, TypeOK, RequestsSound, CallRejected, InState, redisVars
<1>2. req' = [req EXCEPT ![r] = p]
  BY <1>1 DEF CallRejected, RequestRecords
<1>3. p \in RequestRecords /\ p.pc = "call" /\ p.left = CallTime /\ p.retry = FALSE /\ p.todo = req[r].todo
      /\ Local(p)
  BY <1>1, Constants DEF RequestRecords, Local
<1>4. req[r].left \in Nat /\ Cost(req[r].todo) \in Nat
  BY <1>1, CostBound DEF RequestRecords
<1> HIDE DEF p
<1>5. slot[r] > req[r].left + CallTime + Cost(req[r].todo)
  BY <1>1 DEF Covered
<1>6. Covered(p, slot[r])
  BY <1>1, <1>3, <1>4, <1>5, Constants DEF Covered
<1> QED BY <1>1, <1>2, <1>3, <1>6, EffectFrom

\* A failed call before the first byte goes back to the route.
LEMMA FailsEffect ==
  ASSUME Inv, NEW r \in Requests, CallFails(r)
  PROVE  Effect(r)
<1> DEFINE p == [NoCall(req[r]) EXCEPT !.pc = "next"]
<1>1. req[r] \in RequestRecords /\ Local(req[r]) /\ Covered(req[r], slot[r]) /\ req[r].pc = "call"
      /\ slot[r] \in Nat /\ slot' = slot
  BY DEF Inv, TypeOK, RequestsSound, CallFails, InState
<1>2. req' = [req EXCEPT ![r] = p]
  BY DEF CallFails
<1>3. p \in RequestRecords /\ p.pc = "next" /\ p.left = 0 /\ p.todo = req[r].todo /\ Local(p)
  BY <1>1 DEF RequestRecords, Local, NoCall
<1>4. req[r].left \in Nat /\ Cost(req[r].todo) \in Nat
  BY <1>1, CostBound DEF RequestRecords
<1> HIDE DEF p
<1>5. Covered(p, slot[r])
  BY <1>1, <1>3, <1>4, Constants DEF Covered
<1> QED BY <1>1, <1>2, <1>3, <1>5, EffectFrom

\* The release.
LEMMA ReleaseEffect ==
  ASSUME Inv, NEW r \in Requests, ReleaseConcurrency(r)
  PROVE  Effect(r)
<1> DEFINE p == Returned(req[r], "done")
<1>1. req[r] \in RequestRecords /\ Local(req[r]) /\ req[r].pc = "end" /\ slot[r] \in Nat
  BY DEF Inv, TypeOK, RequestsSound, ReleaseConcurrency, InState
<1>2. req' = [req EXCEPT ![r] = p] /\ (slot' = slot \/ slot' = [slot EXCEPT ![r] = 0])
  BY DEF ReleaseConcurrency, Return
<1>3. p \in RequestRecords /\ p.pc = "done" /\ p.left = 0 /\ p.called = req[r].called
      /\ p.bytes = req[r].bytes /\ p.rows = req[r].rows /\ p.caller = req[r].caller
  BY <1>1, ReturnedRecord
<1> HIDE DEF p
<1>4. Local(p) /\ \A n \in Nat : Covered(p, n)
  BY <1>1, <1>3 DEF Local, Covered, RequestRecords
<1> QED BY <1>1, <1>2, <1>3, <1>4, EffectFrom

\* Every step of a request keeps it sound.
LEMMA RequestEffect ==
  ASSUME Inv, NEW r \in Requests, RequestStep(r)
  PROVE  Effect(r)
BY AuthenticateEffect, RefusedEffect, ReserveEffect, AcquireEffect, BadPayloadEffect, PlanEffect,
   SkipEffect, CallEffect, AllFailedEffect, AnswersEffect, StreamStartsEffect, StreamEndsEffect,
   RejectedEffect, FailsEffect, ReleaseEffect
   DEF RequestStep

-----------------------------------------------------------------------------
\* Slots that are given back or run out leave the bound alone.
LEMMA FewerHeld ==
  ASSUME Inv, \A x \in Requests : slot'[x] > 0 => slot[x] > 0
  PROVE  HeldBounded'
<1>1. Held' \subseteq Held /\ Held \subseteq Requests
  BY DEF Held
<1>2. IsFiniteSet(Held) /\ Cardinality(Held) \in Nat
  BY <1>1, Constants, FS_Subset, FS_CardinalityType
<1>3. Cardinality(Held') <= Cardinality(Held) /\ Cardinality(Held') \in Nat
  BY <1>1, <1>2, FS_Subset, FS_CardinalityType
<1> QED BY <1>2, <1>3, Constants DEF Inv, HeldBounded

\* The script of AcquireConcurrency counts before it adds.
LEMMA OneMoreHeld ==
  ASSUME Inv, NEW r \in Requests, SlotFree, slot' = [slot EXCEPT ![r] = SlotTTL]
  PROVE  HeldBounded'
<1>1. Held' \subseteq Held \cup {r} /\ Held \subseteq Requests
  BY DEF Held, Inv, TypeOK
<1>2. IsFiniteSet(Held) /\ Cardinality(Held) \in Nat
  BY <1>1, Constants, FS_Subset, FS_CardinalityType
<1>3. /\ IsFiniteSet(Held \cup {r}) /\ Cardinality(Held \cup {r}) \in Nat
      /\ Cardinality(Held \cup {r}) <= Cardinality(Held) + 1
  <2>1. IsFiniteSet(Held \cup {r})
    BY <1>2, FS_AddElement
  <2>2. Cardinality(Held \cup {r}) = IF r \in Held THEN Cardinality(Held) ELSE Cardinality(Held) + 1
    BY <1>2, FS_AddElement
  <2> QED BY <1>2, <2>1, <2>2
<1>4. Cardinality(Held') <= Cardinality(Held \cup {r}) /\ Cardinality(Held') \in Nat
  BY <1>1, <1>3, FS_Subset, FS_CardinalityType
<1> QED BY <1>2, <1>3, <1>4, Constants DEF SlotFree, HeldBounded

\* The slots that a step of a request may change.
LEMMA RequestSlots ==
  ASSUME Inv, NEW r \in Requests, RequestStep(r)
  PROVE  HeldBounded'
<1>1. CASE AcquireConcurrency(r)
  <2>1. slot' = slot \/ (SlotFree /\ slot' = [slot EXCEPT ![r] = SlotTTL])
    BY <1>1 DEF AcquireConcurrency
  <2> QED BY <2>1, FewerHeld, OneMoreHeld
<1>2. CASE ReleaseConcurrency(r)
  <2>1. slot' = slot \/ slot' = [slot EXCEPT ![r] = 0]
    BY <1>2 DEF ReleaseConcurrency
  <2>2. \A x \in Requests : slot'[x] > 0 => slot[x] > 0
    BY <2>1 DEF Inv, TypeOK
  <2> QED BY <2>2, FewerHeld
<1>3. CASE slot' = slot
  BY <1>3, FewerHeld
<1> QED BY <1>1, <1>2, <1>3 DEF RequestStep, Authenticate, Refused, ReserveGatewayKeyRequest, BadPayload,
     PlanRoute, SkipUpstream, CallUpstream, AllUpstreamsFailed, CallAnswers, StreamStarts, StreamEnds,
     CallRejected, CallFails, redisVars

\* Requests that end, and changes of the key that leave its counters alone.
LEMMA FewerAdmitted ==
  ASSUME Inv, \A x \in Requests : Admitted(req'[x]) => Admitted(req[x]),
         key'.used = key.used
  PROVE  QuotaCounted' /\ QuotaStep
<1>1. AdmittedRequests' \subseteq AdmittedRequests /\ AdmittedRequests \subseteq Requests
  BY DEF AdmittedRequests, Admitted
<1>2. IsFiniteSet(AdmittedRequests) /\ Cardinality(AdmittedRequests) \in Nat
  BY <1>1, Constants, FS_Subset, FS_CardinalityType
<1>3. Cardinality(AdmittedRequests') <= Cardinality(AdmittedRequests) /\ Cardinality(AdmittedRequests') \in Nat
  BY <1>1, <1>2, FS_Subset, FS_CardinalityType
<1>4. key.used \in Nat
  BY DEF Inv, TypeOK
<1> QED BY <1>2, <1>3, <1>4 DEF Inv, QuotaCounted, QuotaStep

\* ReserveGatewayKeyRequest counts the request it admits.
LEMMA OneMoreAdmitted ==
  ASSUME Inv, NEW r \in Requests, \A x \in Requests \ {r} : req'[x] = req[x],
         key.used < key.quota, key' = [key EXCEPT !.used = @ + 1]
  PROVE  QuotaCounted' /\ QuotaStep
<1>1. AdmittedRequests' \subseteq AdmittedRequests \cup {r} /\ AdmittedRequests \subseteq Requests
  BY DEF AdmittedRequests, Admitted
<1>2. IsFiniteSet(AdmittedRequests) /\ Cardinality(AdmittedRequests) \in Nat
  BY <1>1, Constants, FS_Subset, FS_CardinalityType
<1>3. /\ IsFiniteSet(AdmittedRequests \cup {r}) /\ Cardinality(AdmittedRequests \cup {r}) \in Nat
      /\ Cardinality(AdmittedRequests \cup {r}) <= Cardinality(AdmittedRequests) + 1
  <2>1. IsFiniteSet(AdmittedRequests \cup {r})
    BY <1>2, FS_AddElement
  <2>2. Cardinality(AdmittedRequests \cup {r}) = IF r \in AdmittedRequests THEN Cardinality(AdmittedRequests) ELSE Cardinality(AdmittedRequests) + 1
    BY <1>2, FS_AddElement
  <2> QED BY <1>2, <2>1, <2>2
<1>4. Cardinality(AdmittedRequests') <= Cardinality(AdmittedRequests \cup {r})
      /\ Cardinality(AdmittedRequests') \in Nat
  BY <1>1, <1>3, FS_Subset, FS_CardinalityType
<1>5. key.used \in Nat /\ key.quota \in Nat /\ key'.used = key.used + 1
  BY Constants DEF Inv, TypeOK
<1> QED BY <1>2, <1>3, <1>4, <1>5 DEF Inv, QuotaCounted, QuotaStep

\* The requests that a step of a request adds to the admitted ones.
LEMMA RequestQuota ==
  ASSUME Inv, NEW r \in Requests, RequestStep(r)
  PROVE  QuotaCounted' /\ QuotaStep
<1>1. Effect(r)
  BY RequestEffect
<1>2. req \in [Requests -> RequestRecords] /\ req[r] \in RequestRecords
  BY DEF Inv, TypeOK
<1>3. CASE key' = [key EXCEPT !.used = @ + 1] /\ MayReserve(r)
  BY <1>1, <1>3, OneMoreAdmitted DEF Effect, MayReserve
<1>4. CASE key' = key /\ (Admitted(req'[r]) => Admitted(req[r]))
  BY <1>1, <1>4, FewerAdmitted DEF Effect
<1>5. ASSUME key' = key, NEW pc \in {"end", "done"}, Return(r, pc)
      PROVE  QuotaCounted' /\ QuotaStep
  <2>1. req'[r] = Returned(req[r], pc)
    BY <1>2, <1>5 DEF Return
  <2>2. req'[r].pc = pc /\ req'[r].called = req[r].called
    BY <1>2, <2>1, ReturnedRecord
  <2> QED BY <1>4, <1>5, <2>2 DEF Admitted
<1>6. CASE Authenticate(r)
  <2>1. key' = key
    BY <1>6 DEF Authenticate, rowVars
  <2>2. req'[r].called = req[r].called /\ req'[r].pc \in {"authenticated", "done"}
    BY <1>2, <1>6 DEF Authenticate, RequestRecords
  <2> QED BY <1>4, <2>1, <2>2 DEF Admitted
<1>7. CASE key' = key /\ (Running(r) \/ InState(r, "reserved"))
  BY <1>4, <1>7 DEF Running, InState, Admitted
<1>8. CASE Refused(r) \/ ReleaseConcurrency(r)
  BY <1>5, <1>8 DEF Refused, ReleaseConcurrency, rowVars
<1>9. CASE AcquireConcurrency(r) \/ BadPayload(r) \/ PlanRoute(r) \/ SkipUpstream(r) \/ CallUpstream(r)
           \/ AllUpstreamsFailed(r) \/ CallAnswers(r) \/ StreamStarts(r) \/ StreamEnds(r) \/ CallRejected(r)
           \/ CallFails(r)
  BY <1>7, <1>9 DEF AcquireConcurrency, BadPayload, PlanRoute, SkipUpstream, CallUpstream, AllUpstreamsFailed,
     CallAnswers, StreamStarts, StreamEnds, CallRejected, CallFails, InState, Running, rowVars
<1>10. CASE ReserveGatewayKeyRequest(r)
  BY <1>3, <1>5, <1>10 DEF ReserveGatewayKeyRequest
<1> QED BY <1>6, <1>8, <1>9, <1>10 DEF RequestStep

\* The other variables keep their types.
LEMMA RequestTypes ==
  ASSUME Inv, NEW r \in Requests, RequestStep(r)
  PROVE  TypeOK'
<1>1. req' \in [Requests -> RequestRecords] /\ slot' \in [Requests -> Nat]
  BY RequestEffect DEF Effect
<1>2. gateway' = gateway /\ eligible' = eligible /\ edit' = edit /\ redis' = redis /\ events' = events
  BY DEF RequestStep, Authenticate, Refused, ReserveGatewayKeyRequest, AcquireConcurrency, BadPayload,
     PlanRoute, SkipUpstream, CallUpstream, AllUpstreamsFailed, CallAnswers, StreamStarts, StreamEnds,
     CallRejected, CallFails, ReleaseConcurrency, rowVars, redisVars
<1>3. key' = key \/ key' = [key EXCEPT !.used = @ + 1]
  BY DEF RequestStep, Authenticate, Refused, ReserveGatewayKeyRequest, AcquireConcurrency, BadPayload,
     PlanRoute, SkipUpstream, CallUpstream, AllUpstreamsFailed, CallAnswers, StreamStarts, StreamEnds,
     CallRejected, CallFails, ReleaseConcurrency, rowVars, redisVars
<1>4. key' \in [status : KeyStatuses, deleted : BOOLEAN, quota : Quotas, used : Nat]
  BY <1>3 DEF Inv, TypeOK
<1>5. (circuit' = circuit /\ memory' = memory) \/ OpenCircuit(r)
  BY DEF RequestStep, Authenticate, Refused, ReserveGatewayKeyRequest, AcquireConcurrency, BadPayload,
     PlanRoute, SkipUpstream, CallUpstream, AllUpstreamsFailed, CallAnswers, StreamStarts, StreamEnds,
     CallRejected, CallFails, ReleaseConcurrency, rowVars, redisVars
<1>6. circuit' \in [Channels -> Nat] /\ memory' \in [Servers -> [Channels -> Nat]]
  <2>1. circuit \in [Channels -> Nat] /\ memory \in [Servers -> [Channels -> Nat]] /\ Home[r] \in Servers
    BY Constants DEF Inv, TypeOK
  <2>2. \A c : [circuit EXCEPT ![c] = CircuitTTL] \in [Channels -> Nat]
    BY <2>1, Constants
  <2>3. \A c : [memory[Home[r]] EXCEPT ![c] = CircuitTTL] \in [Channels -> Nat]
    BY <2>1, Constants
  <2> QED BY <1>5, <2>1, <2>2, <2>3 DEF OpenCircuit
<1> QED BY <1>1, <1>2, <1>4, <1>6 DEF Inv, TypeOK

\* A step of a request keeps the invariant.
LEMMA RequestInv ==
  ASSUME Inv, NEW r \in Requests, RequestStep(r)
  PROVE  Inv' /\ QuotaStep
<1>1. RequestsSound'
  BY RequestEffect DEF Inv, RequestsSound, Effect
<1>2. key' = key \/ key' = [key EXCEPT !.used = @ + 1]
  BY DEF RequestStep, Authenticate, Refused, ReserveGatewayKeyRequest, AcquireConcurrency, BadPayload,
     PlanRoute, SkipUpstream, CallUpstream, AllUpstreamsFailed, CallAnswers, StreamStarts, StreamEnds,
     CallRejected, CallFails, ReleaseConcurrency, rowVars, redisVars
<1>3. DeletedIsRevoked'
  BY <1>2 DEF Inv, TypeOK, DeletedIsRevoked
<1> QED BY <1>1, <1>3, RequestTypes, RequestSlots, RequestQuota DEF Inv

-----------------------------------------------------------------------------
\* Administration does not touch requests, slots and counters.
LEMMA AdministerInv ==
  ASSUME Inv, Administer
  PROVE  Inv' /\ QuotaStep
<1>1. requestVars' = requestVars
  BY DEF Administer, EditKeyRead, EditKeyWrite, BulkUpdateKeys, RevokeKey, DeleteKey, UpdateGateway, UpstreamsChange
<1>2. req' = req /\ slot' = slot /\ redis' = redis /\ circuit' = circuit /\ memory' = memory
  BY <1>1 DEF requestVars, redisVars
<1>3. /\ key' \in [status : KeyStatuses, deleted : BOOLEAN, quota : Quotas, used : Nat]
      /\ key'.used = key.used
  BY DEF Inv, TypeOK, KeyStatuses, EditableStatuses, Administer, EditKeyRead, EditKeyWrite, BulkUpdateKeys,
     RevokeKey, DeleteKey, UpdateGateway, SetGatewayStatus, UpstreamsChange
<1>4. gateway' \in GatewayStatuses /\ eligible' \subseteq Channels
  BY DEF Inv, TypeOK, Administer, EditKeyRead, EditKeyWrite, BulkUpdateKeys,
     RevokeKey, DeleteKey, UpdateGateway, SetGatewayStatus, UpstreamsChange
<1>5. edit' \in BOOLEAN
  BY Zenon DEF Inv, TypeOK, Administer, EditKeyRead, EditKeyWrite, BulkUpdateKeys,
     RevokeKey, DeleteKey, UpdateGateway, UpstreamsChange
<1>6. events' = events \/ events' = events + 1
  BY DEF Administer, EditKeyRead, EditKeyWrite, BulkUpdateKeys,
     RevokeKey, DeleteKey, UpdateGateway, UpstreamsChange, Event
<1>7. events' \in Nat
  BY <1>6 DEF Inv, TypeOK
<1>8. TypeOK'
  BY <1>2, <1>3, <1>4, <1>5, <1>7 DEF Inv, TypeOK
<1>9. RequestsSound'
  BY <1>2 DEF Inv, RequestsSound
<1>10. DeletedIsRevoked'
  BY DEF Inv, TypeOK, DeletedIsRevoked, EditKeyAllowed, Administer, EditKeyRead, EditKeyWrite, BulkUpdateKeys,
     RevokeKey, DeleteKey, UpdateGateway, SetGatewayStatus, UpstreamsChange
<1> QED BY <1>2, <1>3, <1>8, <1>9, <1>10, FewerHeld, FewerAdmitted DEF Inv

\* A caller that leaves, a dead process and Redis outages.
LEMMA FaultInv ==
  ASSUME Inv, (\E r \in Requests : CallerLeaves(r)) \/ (\E s \in Servers : ServerCrash(s))
              \/ RedisFails \/ RedisRecovers
  PROVE  Inv' /\ QuotaStep
<1>1. slot' = slot /\ circuit' = circuit /\ key' = key /\ gateway' = gateway /\ eligible' = eligible
      /\ edit' = edit /\ redis' \in BOOLEAN /\ events' \in Nat
  <2>1. slot' = slot /\ circuit' = circuit /\ key' = key /\ gateway' = gateway /\ eligible' = eligible
        /\ edit' = edit
    BY DEF CallerLeaves, ServerCrash, RedisFails, RedisRecovers, rowVars, redisVars
  <2>2. redis' \in BOOLEAN
    BY Zenon DEF Inv, TypeOK, CallerLeaves, ServerCrash, RedisFails, RedisRecovers, redisVars
  <2>3. events' = events \/ events' = events + 1
    BY DEF CallerLeaves, ServerCrash, RedisFails, RedisRecovers, Event
  <2>4. events' \in Nat
    BY <2>3 DEF Inv, TypeOK
  <2> QED BY <2>1, <2>2, <2>4
<1>2. memory' \in [Servers -> [Channels -> Nat]]
  BY DEF Inv, TypeOK, CallerLeaves, ServerCrash, RedisFails, RedisRecovers
<1>3. req \in [Requests -> RequestRecords] /\ slot \in [Requests -> Nat]
  BY DEF Inv, TypeOK
<1>4. /\ req' \in [Requests -> RequestRecords]
      /\ \A x \in Requests : \/ req'[x] = req[x]
                             \/ req'[x] = [req[x] EXCEPT !.caller = FALSE]
                             \/ req'[x] = Returned(req[x], "dead")
  <2>1. CASE \E r \in Requests : CallerLeaves(r)
    <3>1. PICK r \in Requests : CallerLeaves(r)
      BY <2>1
    <3> DEFINE p == [req[r] EXCEPT !.caller = FALSE]
    <3>2. p \in RequestRecords
      BY <1>3 DEF RequestRecords
    <3>3. req' = [req EXCEPT ![r] = p]
      BY <1>3, <3>1 DEF CallerLeaves
    <3> HIDE DEF p
    <3>4. req' \in [Requests -> RequestRecords] /\ req'[r] = p /\ \A x \in Requests \ {r} : req'[x] = req[x]
      BY <1>3, <3>2, <3>3
    <3> QED BY <3>4 DEF p
  <2>2. CASE \E s \in Servers : ServerCrash(s)
    BY <1>3, <2>2, ReturnedRecord DEF ServerCrash
  <2>3. CASE RedisFails \/ RedisRecovers
    BY <1>3, <2>3 DEF RedisFails, RedisRecovers
  <2> QED BY <2>1, <2>2, <2>3
<1>5. ASSUME NEW x \in Requests
      PROVE  Local(req'[x]) /\ Covered(req'[x], slot[x]) /\ (Admitted(req'[x]) => Admitted(req[x]))
  <2>1. req[x] \in RequestRecords /\ Local(req[x]) /\ Covered(req[x], slot[x])
    BY <1>3 DEF Inv, RequestsSound
  <2>2. CASE req'[x] = req[x]
    BY <2>1, <2>2
  <2>3. CASE req'[x] = [req[x] EXCEPT !.caller = FALSE]
    <3>1. /\ req'[x].pc = req[x].pc /\ req'[x].left = req[x].left /\ req'[x].called = req[x].called
          /\ req'[x].bytes = req[x].bytes /\ req'[x].rows = req[x].rows /\ req'[x].chan = req[x].chan
          /\ req'[x].todo = req[x].todo /\ req'[x].retry = req[x].retry /\ req'[x].caller = FALSE
      BY <2>1, <2>3 DEF RequestRecords
    <3> QED BY <2>1, <3>1 DEF Local, Covered, Admitted
  <2>4. CASE req'[x] = Returned(req[x], "dead")
    <3>1. /\ req'[x].pc = "dead" /\ req'[x].left = 0 /\ req'[x].called = req[x].called
          /\ req'[x].bytes = req[x].bytes /\ req'[x].rows = req[x].rows
      BY <2>1, <2>4, ReturnedRecord
    <3> QED BY <2>1, <3>1 DEF Local, Covered, Admitted
  <2> QED BY <1>4, <2>2, <2>3, <2>4
<1>6. TypeOK'
  BY <1>1, <1>2, <1>4 DEF Inv, TypeOK
<1>7. RequestsSound'
  BY <1>1, <1>5 DEF RequestsSound
<1>8. DeletedIsRevoked'
  BY <1>1 DEF Inv, DeletedIsRevoked
<1> QED BY <1>1, <1>5, <1>6, <1>7, <1>8, FewerHeld, FewerAdmitted DEF Inv

\* Slots and calls grow older together.
LEMMA TickInv ==
  ASSUME Inv, Tick
  PROVE  Inv' /\ QuotaStep
<1>1. req \in [Requests -> RequestRecords] /\ slot \in [Requests -> Nat]
  BY DEF Inv, TypeOK
<1>2. ASSUME NEW n \in Nat
      PROVE  Down(n) \in Nat /\ Aged(n) = Down(n) /\ (n > 0 => Down(n) = n - 1) /\ (Down(n) > 0 => n > 0)
  BY DEF Down, Aged
<1>3. slot' \in [Requests -> Nat] /\ \A x \in Requests : slot'[x] = Down(slot[x])
  BY <1>1, <1>2 DEF Tick
<1>4. circuit' \in [Channels -> Nat] /\ memory' \in [Servers -> [Channels -> Nat]]
  BY <1>2 DEF Inv, TypeOK, Tick
<1>5. ASSUME NEW x \in Requests
      PROVE  /\ req'[x] \in RequestRecords /\ Local(req'[x]) /\ Covered(req'[x], slot'[x])
             /\ (Admitted(req'[x]) => Admitted(req[x]))
  <2>1. req[x] \in RequestRecords /\ Local(req[x]) /\ Covered(req[x], slot[x]) /\ slot[x] \in Nat
        /\ req[x].pc \notin {"plan", "next", "end"}
    BY <1>1 DEF Inv, RequestsSound, Tick, TimePasses
  <2>2. CASE req[x].pc \notin {"call", "stream"}
    <3>1. req'[x] = req[x]
      BY <2>2 DEF Tick
    <3> QED BY <2>1, <2>2, <3>1 DEF Covered, RequestRecords
  <2>3. CASE req[x].pc \in {"call", "stream"}
    <3>1. req[x].left \in Nat /\ req[x].left > 0 /\ req[x].retry \in BOOLEAN
      BY <2>1, <2>3 DEF Tick, TimePasses, RequestRecords
    <3>2. req'[x] = [req[x] EXCEPT !.left = req[x].left - 1]
      BY <2>3 DEF Tick
    <3>3. /\ req'[x] \in RequestRecords /\ req'[x].left = req[x].left - 1
          /\ req'[x].pc = req[x].pc /\ req'[x].called = req[x].called
          /\ req'[x].bytes = req[x].bytes /\ req'[x].rows = req[x].rows /\ req'[x].chan = req[x].chan
          /\ req'[x].todo = req[x].todo /\ req'[x].retry = req[x].retry /\ req'[x].caller = req[x].caller
      BY <2>1, <3>1, <3>2 DEF RequestRecords
    <3>4. Cost(req[x].todo) \in Nat
      BY <2>1, CostBound DEF RequestRecords
    <3> DEFINE spare == IF req[x].pc = "call" /\ req[x].retry THEN CallTime ELSE 0
    <3>5. spare \in Nat
      BY Constants
    <3>6. slot[x] > req[x].left + spare + Cost(req[x].todo)
      BY <2>1, <2>3 DEF Covered
    <3> HIDE DEF spare
    <3>7. slot'[x] = slot[x] - 1
      BY <1>2, <1>3, <2>1, <3>1, <3>4, <3>5, <3>6
    <3>8. slot'[x] > (req[x].left - 1) + spare + Cost(req[x].todo)
      BY <2>1, <3>1, <3>4, <3>5, <3>6, <3>7
    <3>9. Covered(req'[x], slot'[x])
      BY <3>3, <3>8 DEF Covered, spare
    <3> QED BY <2>1, <2>3, <3>3, <3>9 DEF Local, Admitted
  <2> QED BY <2>2, <2>3
<1>6. req' \in [Requests -> RequestRecords]
  BY <1>5 DEF Tick
<1>7. TypeOK'
  BY <1>3, <1>4, <1>6 DEF Inv, TypeOK, Tick, rowVars
<1>8. RequestsSound'
  BY <1>5 DEF RequestsSound
<1>9. HeldBounded'
  BY <1>1, <1>2, <1>3, FewerHeld
<1>10. QuotaCounted' /\ QuotaStep
  BY <1>5, FewerAdmitted DEF Tick, rowVars
<1>11. DeletedIsRevoked'
  BY DEF Inv, DeletedIsRevoked, Tick, rowVars
<1> QED BY <1>7, <1>8, <1>9, <1>10, <1>11 DEF Inv

\* No request, no slot and nothing counted at the start.
LEMMA InitInv == Init => Inv
<1> SUFFICES ASSUME Init PROVE Inv
  OBVIOUS
<1>1. TypeOK
  <2>1. Fresh \in RequestRecords
    BY DEF Fresh, RequestRecords
  <2>2. key \in [status : KeyStatuses, deleted : BOOLEAN, quota : Quotas, used : Nat]
    BY DEF Init, KeyStatuses, EditableStatuses
  <2>3. circuit \in [Channels -> Nat] /\ memory \in [Servers -> [Channels -> Nat]] /\ slot \in [Requests -> Nat]
    BY DEF Init
  <2>4. req \in [Requests -> RequestRecords]
    BY <2>1 DEF Init
  <2>5. gateway \in GatewayStatuses /\ eligible \subseteq Channels /\ events \in Nat
    BY DEF Init, GatewayStatuses
  <2>6. edit \in BOOLEAN /\ redis \in BOOLEAN
    BY DEF Init
  <2> QED BY <2>2, <2>3, <2>4, <2>5, <2>6 DEF TypeOK
<1>2. RequestsSound
  BY DEF Init, RequestsSound, Fresh, Local, Covered
<1>3. Held = {} /\ AdmittedRequests = {}
  BY DEF Init, Held, AdmittedRequests, Admitted, Fresh
<1>4. key.used = 0 /\ key.quota \in Nat
  BY Constants DEF Init
<1>5. DeletedIsRevoked
  BY DEF Init, DeletedIsRevoked
<1> QED BY <1>1, <1>2, <1>3, <1>4, <1>5, FS_EmptySet, Constants DEF Inv, HeldBounded, QuotaCounted

\* The invariant holds in every reachable state.
THEOREM GatewayInvariant == Spec => []Inv
<1>1. Inv /\ [Next]_vars => Inv'
  <2> SUFFICES ASSUME Inv, [Next]_vars PROVE Inv'
    OBVIOUS
  <2>1. CASE \E r \in Requests : RequestStep(r)
    BY <2>1, RequestInv
  <2>2. CASE Administer
    BY <2>2, AdministerInv
  <2>3. CASE Environment
    BY <2>3, FaultInv, TickInv DEF Environment
  <2>4. CASE UNCHANGED vars
    BY <2>4 DEF Inv, TypeOK, RequestsSound, HeldBounded, QuotaCounted, DeletedIsRevoked, Held, AdmittedRequests, vars
  <2> QED BY <2>1, <2>2, <2>3, <2>4 DEF Next
<1> QED BY <1>1, InitInv, PTL DEF Spec

\* The rows, Redis, the memory of the processes and the requests keep their
\* declared shape.
THEOREM GatewayTypes == Spec => []TypeOK
<1>1. Inv => TypeOK
  BY DEF Inv
<1> QED BY <1>1, GatewayInvariant, PTL

\* acquireExperimentalGatewaySlot: the slot of a request does not run out while
\* the request may still call an upstream.
THEOREM SlotsOutliveRequests == Spec => []SlotOutlivesRequest
<1>1. Inv => SlotOutlivesRequest
  <2> SUFFICES ASSUME Inv, NEW r \in Requests, Running(r) PROVE slot[r] > 0
    BY DEF SlotOutlivesRequest
  <2>1. req[r] \in RequestRecords /\ Covered(req[r], slot[r]) /\ slot[r] \in Nat
    BY DEF Inv, TypeOK, RequestsSound
  <2>2. Cost(req[r].todo) \in Nat /\ req[r].left \in Nat
    BY <2>1, CostBound DEF RequestRecords
  <2> QED BY <2>1, <2>2, Constants DEF Covered, Running
<1> QED BY <1>1, GatewayInvariant, PTL

\* experimentalGatewayLimits: the gateway never has more requests at work than
\* its concurrency, for any number of processes, upstreams and faults.
THEOREM ConcurrencyIsKept == Spec => []ConcurrencyKept
<1>1. Inv /\ SlotOutlivesRequest => ConcurrencyKept
  <2> SUFFICES ASSUME Inv, SlotOutlivesRequest PROVE ConcurrencyKept
    OBVIOUS
  <2> DEFINE R == {r \in Requests : Running(r)}
  <2>1. R \subseteq Held /\ Held \subseteq Requests
    BY DEF SlotOutlivesRequest, Held
  <2> HIDE DEF R
  <2>2. IsFiniteSet(Held) /\ Cardinality(Held) \in Nat
    BY <2>1, Constants, FS_Subset, FS_CardinalityType
  <2>3. Cardinality(R) <= Cardinality(Held) /\ Cardinality(R) \in Nat
    BY <2>1, <2>2, FS_Subset, FS_CardinalityType
  <2>4. Cardinality(R) <= Concurrency
    BY <2>2, <2>3, Constants DEF Inv, HeldBounded
  <2> QED BY <2>4 DEF ConcurrencyKept, R
<1> QED BY <1>1, GatewayInvariant, SlotsOutliveRequests, PTL

\* docs/API.md: a response that has started does not switch upstreams.
THEOREM OneUpstream == Spec => []OneUpstreamAnswers
<1>1. Inv => OneUpstreamAnswers
  <2> SUFFICES ASSUME Inv, NEW r \in Requests PROVE Cardinality(req[r].bytes) <= 1
    BY DEF OneUpstreamAnswers
  <2>1. \A c, d \in req[r].bytes : c = d
    BY DEF Inv, RequestsSound, Local
  <2>2. req[r].bytes = {} \/ \E c : req[r].bytes = {c}
    BY <2>1
  <2>3. CASE req[r].bytes = {}
    <3>1. Cardinality(req[r].bytes) = 0
      BY <2>3, FS_EmptySet
    <3> QED BY <3>1
  <2>4. CASE \E c : req[r].bytes = {c}
    <3>1. PICK c : req[r].bytes = {c}
      BY <2>4
    <3>2. Cardinality({c}) = 1
      BY FS_Singleton
    <3> QED BY <3>1, <3>2
  <2> QED BY <2>2, <2>3, <2>4
<1> QED BY <1>1, GatewayInvariant, PTL

\* recordGatewaySuccess, recordGatewayFailure: one row for each request that
\* called an upstream and whose caller waited for the answer.
THEOREM UsageIsRecordedOnce == Spec => []UsageRecordedOnce
<1>1. Inv => UsageRecordedOnce
  BY DEF Inv, RequestsSound, Local, UsageRecordedOnce
<1> QED BY <1>1, GatewayInvariant, PTL

\* ReserveGatewayKeyRequest: requests are admitted only within the quota of the
\* key, whatever happens to the row between two of them.
THEOREM QuotaIsKept == Spec => QuotaHolds
<1>1. Inv /\ [Next]_vars => [QuotaStep]_vars
  <2> SUFFICES ASSUME Inv, Next PROVE QuotaStep
    BY DEF vars
  <2>1. CASE \E r \in Requests : RequestStep(r)
    BY <2>1, RequestInv
  <2>2. CASE Administer
    BY <2>2, AdministerInv
  <2>3. CASE Environment
    BY <2>3, FaultInv, TickInv DEF Environment
  <2> QED BY <2>1, <2>2, <2>3 DEF Next
<1> QED BY <1>1, GatewayInvariant, PTL DEF Spec, QuotaHolds

\* DeleteGatewayKeyForOrg is final: no step changes the row of a deleted key.
THEOREM DeletionIsFinal == Spec => DeletedKeyIsFinal
<1>1. Inv /\ [Next]_vars => [key.deleted => key' = key]_vars
  <2> SUFFICES ASSUME Inv, Next, key.deleted PROVE key' = key
    BY DEF vars
  <2>1. CASE \E r \in Requests : RequestStep(r)
    BY <2>1 DEF RequestStep, Authenticate, Refused, ReserveGatewayKeyRequest, MayReserve, AcquireConcurrency,
       BadPayload, PlanRoute, SkipUpstream, CallUpstream, AllUpstreamsFailed, CallAnswers, StreamStarts,
       StreamEnds, CallRejected, CallFails, ReleaseConcurrency, rowVars
  <2>2. CASE Administer
    BY <2>2 DEF Inv, DeletedIsRevoked, Administer, EditKeyRead, EditKeyWrite, EditKeyAllowed, BulkUpdateKeys,
       RevokeKey, DeleteKey, UpdateGateway, SetGatewayStatus, UpstreamsChange
  <2>3. CASE Environment
    BY <2>3 DEF Environment, CallerLeaves, ServerCrash, RedisFails, RedisRecovers, Tick, rowVars
  <2> QED BY <2>1, <2>2, <2>3 DEF Next
<1> QED BY <1>1, GatewayInvariant, PTL DEF Spec, DeletedKeyIsFinal

-----------------------------------------------------------------------------
(***************************************************************************)
(* Answers of the upstreams.                                               *)
(***************************************************************************)

\* The records of the next state are typed when each of them is.
LEMMA NextTypes ==
  ASSUME upstream' \in UpstreamRecords, translator' \in TranslatorRecords, caller' \in CallerRecords,
         result' \in {"idle", "running", "ok", "client_disconnected", "interrupted", "failed"}
  PROVE  StreamsTypeOK'
  BY DEF StreamsTypeOK

\* A call that was announced has one index for both its names, and the caller collects it
\* there; its arguments arrived in parts, or are still to be written.
Announced == {c \in Calls : upstream.calls[c].stage # "none"}
Index(c) == translator.index[<<c, "item">>]
CallSound(c) ==
  /\ translator.index[<<c, "call">>] = Index(c)
  /\ c \notin Announced => Index(c) = NoIndex /\ upstream.calls[c].args = 0
  /\ c \in Announced => /\ Index(c) < translator.next
                        /\ caller.part[Index(c)] = [call |-> {c}, args |-> upstream.calls[c].args]
  /\ upstream.calls[c].stage # "done" =>
        (<<c, upstream.calls[c].by>> \in translator.deltas <=> upstream.calls[c].args > 0)

\* Indexes are given one by one, to different calls, and nothing is collected elsewhere.
CallsSound ==
  /\ \A c \in Calls : CallSound(c)
  /\ \A c, d \in Announced : Index(c) = Index(d) => c = d
  /\ \A i \in Indexes : caller.part[i] # NoPart => \E c \in Announced : Index(c) = i
  /\ translator.next = Cardinality(Announced)
  /\ translator.wroteTools <=> Announced # {}

NothingCollected == \A i \in Indexes : caller.part[i] = NoPart

StreamSound ==
  /\ upstream.order = <<>>
  /\ upstream.reason # "stop" => upstream.adapter = "gemini"
  /\ Streaming => caller.text = upstream.text
  /\ Streaming /\ upstream.adapter = "raw" => caller.spaced = upstream.spaced
  /\ translator.wroteText => upstream.text > 0
  /\ upstream.adapter # "codex" => Announced = {}
  /\ IF upstream.adapter = "codex" /\ Streaming THEN CallsSound ELSE NothingCollected

StreamsInv ==
  /\ StreamsTypeOK
  /\ result = "idle" => StreamsInit
  /\ result = "running" => StreamSound
  /\ result # "ok" => ~caller.done
  /\ CompleteAnswerIsWhole

\* There are enough indexes for the calls, and for a block of text before them.
LEMMA IndexNumbers ==
  /\ IsFiniteSet(Calls) /\ Cardinality(Calls) \in Nat /\ MaxParts \in Nat /\ 1 <= MaxParts
  /\ NoIndex \in Nat /\ Indexes = 0..(NoIndex - 1)
  /\ \A S \in SUBSET Calls : /\ IsFiniteSet(S) /\ Cardinality(S) \in Nat
                             /\ Cardinality(S) <= NoIndex
                             /\ S # {} => Cardinality(S) + 1 <= NoIndex
<1>1. IsFiniteSet(Calls) /\ Cardinality(Calls) \in Nat /\ MaxParts \in Nat /\ 1 <= MaxParts
  BY StreamsAssumption, FS_CardinalityType
<1>2. IsFiniteSet({"call", "item"}) /\ Cardinality({"call", "item"}) = 2
  <2>1. {"call", "item"} = {"call"} \cup {"item"} /\ "item" \notin {"call"}
    OBVIOUS
  <2>2. IsFiniteSet({"call"}) /\ Cardinality({"call"}) = 1
    BY FS_Singleton
  <2>3. /\ IsFiniteSet({"call"} \cup {"item"})
        /\ Cardinality({"call"} \cup {"item"}) = Cardinality({"call"}) + 1
    BY <2>1, <2>2, FS_AddElement
  <2> QED  BY <2>1, <2>2, <2>3
<1>3. NoIndex = Cardinality(Calls) * 2
  BY <1>1, <1>2, FS_Product DEF NoIndex, Names
<1>4. ASSUME NEW S \in SUBSET Calls
      PROVE  IsFiniteSet(S) /\ Cardinality(S) \in Nat /\ Cardinality(S) <= Cardinality(Calls)
  BY <1>1, FS_Subset, FS_CardinalityType
<1>5. ASSUME NEW S \in SUBSET Calls, S # {}
      PROVE  1 <= Cardinality(S)
  BY <1>4, <1>5, FS_EmptySet
<1> QED  BY <1>1, <1>3, <1>4, <1>5 DEF Indexes

\* As many indexes as calls, when each call has one and each index is of one.
LEMMA OneForEach ==
  ASSUME NEW S \in SUBSET Calls, NEW J, NEW f \in [S -> J],
         \A c, d \in S : f[c] = f[d] => c = d, \A j \in J : \E c \in S : f[c] = j
  PROVE  Cardinality(J) = Cardinality(S)
<1>1. f \in Bijection(S, J)
  BY DEF Bijection, Injection, Surjection, IsInjective
<1> QED  BY <1>1, IndexNumbers, FS_Bijection DEF ExistsBijection

\* The parts that are in use.
InUse(part) == {i \in Indexes : part[i] # NoPart}

\* Each part in use is a call of S with its arguments, and each call is in one part.
Places(f, S, calls, part) ==
  /\ f \in [S -> InUse(part)]
  /\ \A c, d \in S : f[c] = f[d] => c = d
  /\ \A i \in InUse(part) : \E c \in S : f[c] = i
  /\ \A c \in S : part[f[c]] = [call |-> {c}, args |-> calls[c].args]

\* Then the parts are the calls, one for each.
InParts(part) == {<<part[i].call, part[i].args>> : i \in InUse(part)}
InCalls(S, calls) == {<<c, calls[c].args>> : c \in S}
AsParts(A) == {<<{said[1]}, said[2]>> : said \in A}

LEMMA WholeAnswer ==
  ASSUME NEW S \in SUBSET Calls, NEW calls, NEW part, NEW f, Places(f, S, calls, part)
  PROVE  /\ InParts(part) = AsParts(InCalls(S, calls))
         /\ Cardinality(InUse(part)) = Cardinality(InCalls(S, calls))
         /\ InCalls(S, calls) # {} <=> S # {}
<1> DEFINE A == InCalls(S, calls)
<1> USE DEF Places
<1>1. Cardinality(InUse(part)) = Cardinality(S)
  BY OneForEach
<1>2. Cardinality(A) = Cardinality(S)
  <2> DEFINE g == [c \in S |-> <<c, calls[c].args>>]
  <2>1. /\ g \in [S -> A]
        /\ \A c, d \in S : g[c] = g[d] => c = d
        /\ \A j \in A : \E c \in S : g[c] = j
    BY DEF InCalls
  <2> HIDE DEF g, A
  <2> QED  BY <2>1, OneForEach
<1>3. ASSUME NEW c \in S
      PROVE  f[c] \in InUse(part) /\ part[f[c]].call = {c} /\ part[f[c]].args = calls[c].args
  <2>1. part[f[c]] = [call |-> {c}, args |-> calls[c].args] /\ f[c] \in InUse(part)
    OBVIOUS
  <2> QED  BY <2>1
<1>4. /\ \A c \in S : <<c, calls[c].args>> \in A
      /\ \A said \in A : \E c \in S : said = <<c, calls[c].args>>
  BY DEF InCalls
<1> HIDE DEF A
<1>5. ASSUME NEW i \in InUse(part)
      PROVE  \E said \in A : <<part[i].call, part[i].args>> = <<{said[1]}, said[2]>>
  <2>1. PICK c \in S : f[c] = i
    OBVIOUS
  <2>2. <<c, calls[c].args>> \in A
    BY <1>4
  <2> QED  BY <1>3, <2>1, <2>2
<1>6. ASSUME NEW said \in A
      PROVE  \E i \in InUse(part) : <<part[i].call, part[i].args>> = <<{said[1]}, said[2]>>
  <2>1. PICK c \in S : said = <<c, calls[c].args>>
    BY <1>4
  <2>2. f[c] \in InUse(part) /\ <<part[f[c]].call, part[f[c]].args>> = <<{said[1]}, said[2]>>
    BY <1>3, <2>1
  <2> QED  BY <2>2
<1>7. A # {} <=> S # {}
  BY <1>4
<1>8. InParts(part) = AsParts(A)
  <2>1. /\ \A i \in InUse(part) : <<part[i].call, part[i].args>> \in InParts(part)
        /\ \A e \in InParts(part) : \E i \in InUse(part) : e = <<part[i].call, part[i].args>>
    BY DEF InParts
  <2>2. /\ \A said \in A : <<{said[1]}, said[2]>> \in AsParts(A)
        /\ \A e \in AsParts(A) : \E said \in A : e = <<{said[1]}, said[2]>>
    BY DEF AsParts
  <2>3. InParts(part) \subseteq AsParts(A)
    BY <1>5, <2>1, <2>2
  <2>4. AsParts(A) \subseteq InParts(part)
    <3> SUFFICES ASSUME NEW e \in AsParts(A)
                 PROVE  e \in InParts(part)
      OBVIOUS
    <3>1. PICK said \in A : e = <<{said[1]}, said[2]>>
      BY <2>2
    <3>2. PICK i \in InUse(part) : <<part[i].call, part[i].args>> = <<{said[1]}, said[2]>>
      BY <1>6
    <3> QED  BY <2>1, <3>1, <3>2
  <2> QED  BY <2>3, <2>4
<1> QED  BY <1>1, <1>2, <1>7, <1>8 DEF A

\* The first n numbers from base on, where n calls are, in any order.
LEMMA ListedCalls ==
  ASSUME NEW S \in SUBSET Calls, NEW order \in Orders(S), NEW base \in 0..1
  PROVE  /\ order \in Seq(Calls) /\ Len(order) = Cardinality(S)
         /\ base..(base + Len(order) - 1) \subseteq Indexes
         /\ \A i \in base..(base + Len(order) - 1) : order[i - base + 1] \in S
         /\ \E f \in [S -> base..(base + Len(order) - 1)] :
              /\ \A c \in S : order[f[c] - base + 1] = c
              /\ \A c, d \in S : f[c] = f[d] => c = d
              /\ \A i \in base..(base + Len(order) - 1) : \E c \in S : f[c] = i
<1> DEFINE n == Cardinality(S)
<1>1. n \in Nat /\ n <= NoIndex /\ (S # {} => n + 1 <= NoIndex) /\ NoIndex \in Nat /\ Indexes = 0..(NoIndex - 1)
      /\ (S = {} => n = 0)
  BY IndexNumbers, FS_EmptySet
<1>2. /\ order \in [1..n -> S]
      /\ \A i, j \in 1..n : order[i] = order[j] => i = j
      /\ \A c \in S : \E i \in 1..n : order[i] = c
  BY DEF Orders, Bijection, Injection, Surjection, IsInjective
<1> HIDE DEF n
<1>3. order \in Seq(Calls) /\ Len(order) = n
  <2>1. order \in [1..n -> Calls]
    BY <1>2
  <2> QED  BY <1>1, <2>1
<1>4. base..(base + n - 1) \subseteq Indexes
  BY <1>1
<1>5. \A i \in base..(base + n - 1) : i - base + 1 \in 1..n
  BY <1>1
<1> DEFINE place == [c \in S |-> CHOOSE i \in 1..n : order[i] = c]
           f == [c \in S |-> base + place[c] - 1]
<1>6. \A c \in S : place[c] \in 1..n /\ order[place[c]] = c
  BY <1>2
<1> HIDE DEF place
<1>7. /\ f \in [S -> base..(base + n - 1)]
      /\ \A c \in S : f[c] - base + 1 = place[c]
  BY <1>1, <1>6
<1>8. \A i \in base..(base + n - 1) : f[order[i - base + 1]] = i
  <2> SUFFICES ASSUME NEW i \in base..(base + n - 1)
               PROVE  f[order[i - base + 1]] = i
    OBVIOUS
  <2>1. i - base + 1 \in 1..n /\ order[i - base + 1] \in S
    BY <1>2, <1>5
  <2>2. place[order[i - base + 1]] = i - base + 1
    BY <1>2, <1>6, <2>1
  <2> QED  BY <1>1, <2>1, <2>2
<1> HIDE DEF f
<1>9. \A c \in S : order[f[c] - base + 1] = c
  BY <1>6, <1>7
<1>10. \A i \in base..(base + n - 1) : order[i - base + 1] \in S
  BY <1>2, <1>5
<1>11. /\ \A c, d \in S : f[c] = f[d] => c = d
       /\ \A i \in base..(base + n - 1) : \E c \in S : f[c] = i
  BY <1>8, <1>9, <1>10
<1>12. \E g \in [S -> base..(base + n - 1)] :
         /\ \A c \in S : order[g[c] - base + 1] = c
         /\ \A c, d \in S : g[c] = g[d] => c = d
         /\ \A i \in base..(base + n - 1) : \E c \in S : g[c] = i
  BY <1>7, <1>9, <1>11
<1>13. Len(order) = Cardinality(S) /\ n = Len(order)
  BY <1>3 DEF n
<1> QED  BY <1>3, <1>4, <1>10, <1>12, <1>13

\* Facts about the records of a state.
LEMMA PartsTyped ==
  /\ NoPart \in Parts
  /\ \A c \in Calls, n \in 0..2 * MaxParts : [call |-> {c}, args |-> n] \in Parts /\ [call |-> {c}, args |-> n] # NoPart
<1>1. NoPart \in Parts
  BY IndexNumbers DEF NoPart, Parts
<1>2. ASSUME NEW c \in Calls, NEW n \in 0..2 * MaxParts
      PROVE  [call |-> {c}, args |-> n] \in Parts /\ [call |-> {c}, args |-> n] # NoPart
  BY DEF NoPart, Parts
<1> QED  BY <1>1, <1>2

\* An answer that ends without its caller being told.
LEMMA Untold ==
  ASSUME StreamsTypeOK', ~caller'.done, result' \notin {"idle", "running", "ok"}
  PROVE  StreamsInv'
  BY DEF StreamsInv, CompleteAnswerIsWhole

LEMMA Unread ==
  ASSUME StreamsTypeOK', ~caller'.done, ~caller'.present, result' = "ok"
  PROVE  StreamsInv'
  BY DEF StreamsInv, CompleteAnswerIsWhole

\* An answer that ends with its caller being told.
LEMMA Told ==
  ASSUME StreamsTypeOK', result' = "ok", caller'.done, upstream'.end = "completed", caller'.text = upstream'.text,
         upstream'.adapter = "raw" => caller'.spaced = upstream'.spaced,
         NEW S, S = Called(upstream'.calls), NEW f, Places(f, S, upstream'.calls, caller'.part),
         upstream'.framing = "stream" => caller'.finish = IF S # {} THEN "tool_calls" ELSE upstream'.reason
  PROVE  StreamsInv'
<1>1. S \in SUBSET Calls
  BY DEF Called
<1>2. /\ Said' = InCalls(S, upstream'.calls)
      /\ Collected' = InParts(caller'.part)
      /\ \A A : {<<{said[1]}, said[2]>> : said \in A} = AsParts(A)
  BY DEF Said, Collected, InUse, InParts, InCalls, AsParts
<1>3. /\ Collected' = AsParts(Said')
      /\ Cardinality(InUse(caller'.part)) = Cardinality(Said')
      /\ Said' # {} <=> S # {}
  BY <1>1, <1>2, WholeAnswer
<1>4. CompleteAnswerIsWhole'
  BY <1>3 DEF CompleteAnswerIsWhole, Streaming, InUse, AsParts
<1> QED  BY <1>4 DEF StreamsInv

\* One whose calls are listed in the completed response.
LEMMA ToldFromResponse ==
  ASSUME StreamsInv, result = "running", NothingCollected, NEW base \in 0..1, NEW words \in CallerRecords,
         words.part = caller.part, NEW reason \in Finishes,
         upstream' \in UpstreamRecords, upstream'.end = "completed", words.text = upstream'.text,
         upstream'.adapter # "raw",
         upstream'.order \in Orders(Called(upstream'.calls)), translator' = translator, result' = "ok",
         caller' = [WithToolCalls(words, upstream', base) EXCEPT !.done = TRUE, !.finish = reason],
         upstream'.framing = "stream" =>
           reason = IF Called(upstream'.calls) # {} THEN "tool_calls" ELSE upstream'.reason
  PROVE  StreamsInv'
<1> DEFINE S == Called(upstream'.calls)
           order == upstream'.order
           last == base + Len(order) - 1
           part == [i \in Indexes |-> IF i \in base..last THEN ToolCall(upstream', i - base + 1) ELSE NoPart]
<1>1. S \in SUBSET Calls /\ order \in Orders(S) /\ caller \in CallerRecords /\ upstream'.calls \in [Calls -> CallStates]
  BY DEF StreamsTypeOK, Called, StreamsInv, UpstreamRecords
<1>2. /\ base..last \subseteq Indexes
      /\ \A i \in base..last : order[i - base + 1] \in S
  BY <1>1, ListedCalls
<1>3. PICK f \in [S -> base..last] : /\ \A c \in S : order[f[c] - base + 1] = c
                                     /\ \A c, d \in S : f[c] = f[d] => c = d
                                     /\ \A i \in base..last : \E c \in S : f[c] = i
  BY <1>1, ListedCalls
<1> HIDE DEF last, order
<1>4. /\ caller'.part = part /\ caller'.text = words.text /\ caller'.done /\ caller'.finish = reason
      /\ caller'.present = words.present
  <2>1. caller.part = [i \in Indexes |-> NoPart]
    BY <1>1 DEF NothingCollected, CallerRecords
  <2> QED  BY <2>1 DEF WithToolCalls, CallerRecords, last, order
<1>5. \A i \in base..last : part[i] = [call |-> {order[i - base + 1]}, args |-> upstream'.calls[order[i - base + 1]].args]
  BY <1>2 DEF ToolCall, order
<1>6. \A i \in base..last : part[i] \in Parts /\ part[i] # NoPart
  <2> SUFFICES ASSUME NEW i \in base..last
               PROVE  part[i] \in Parts /\ part[i] # NoPart
    OBVIOUS
  <2>1. PICK c \in S : c = order[i - base + 1]
    BY <1>2
  <2>2. part[i] = [call |-> {c}, args |-> upstream'.calls[c].args]
    BY <1>5, <2>1
  <2>3. c \in Calls /\ upstream'.calls[c].args \in 0..2 * MaxParts
    BY <1>1, IndexNumbers DEF CallStates
  <2> HIDE DEF part
  <2> QED  BY <2>2, <2>3, PartsTyped
<1>7. InUse(part) = base..last
  BY <1>2, <1>6 DEF InUse
<1>8. part \in [Indexes -> Parts]
  BY <1>6, PartsTyped
<1>9. \A c \in S : part[f[c]] = [call |-> {c}, args |-> upstream'.calls[c].args]
  BY <1>3, <1>5
<1> HIDE DEF part
<1>10. caller' \in CallerRecords
  BY <1>4, <1>8 DEF CallerRecords, WithToolCalls
<1>11. StreamsTypeOK'
  BY <1>10, NextTypes DEF StreamsInv, StreamsTypeOK
<1>12. Places(f, S, upstream'.calls, caller'.part)
  BY <1>3, <1>4, <1>7, <1>9 DEF Places
<1>13. /\ caller'.text = upstream'.text /\ caller'.done
       /\ upstream'.framing = "stream" => caller'.finish = IF S # {} THEN "tool_calls" ELSE upstream'.reason
  BY <1>4
<1> QED  BY <1>11, <1>12, <1>13, Told

\* An answer that goes on.
LEMMA GoesOn ==
  ASSUME StreamsTypeOK', ~caller'.done, result' = "running", StreamSound'
  PROVE  StreamsInv'
  BY DEF StreamsInv, CompleteAnswerIsWhole

LEMMA Goes ==
  ASSUME StreamsInv, result = "running"
  PROVE  /\ upstream \in UpstreamRecords /\ translator \in TranslatorRecords /\ caller \in CallerRecords
         /\ ~caller.done /\ StreamSound
         /\ Streaming <=> upstream.framing = "stream"
  BY DEF StreamsTypeOK, StreamsInv, Streaming

\* Steps that are not about calls.
LEMMA CallsStay ==
  ASSUME upstream'.calls = upstream.calls, caller'.part = caller.part,
         translator'.index = translator.index, translator'.next = translator.next,
         translator'.deltas = translator.deltas, translator'.wroteTools = translator.wroteTools
  PROVE  Announced' = Announced /\ (CallsSound => CallsSound') /\ (NothingCollected => NothingCollected')
<1>1. Announced' = Announced /\ (NothingCollected => NothingCollected')
  BY DEF Announced, NothingCollected
<1>2. \A c \in Calls : Index(c)' = Index(c)
  BY DEF Index
<1>3. ASSUME NEW c \in Calls, CallSound(c)
      PROVE  CallSound(c)'
  BY <1>1, <1>2, <1>3 DEF CallSound
<1>4. Announced \subseteq Calls
  BY DEF Announced
<1>5. ASSUME CallsSound
      PROVE  CallsSound'
  <2>1. /\ \A c \in Calls : CallSound(c)'
        /\ \A c, d \in Announced : Index(c) = Index(d) => c = d
        /\ \A i \in Indexes : caller.part[i] # NoPart => \E c \in Announced : Index(c) = i
        /\ translator.next = Cardinality(Announced)
        /\ translator.wroteTools <=> Announced # {}
    BY <1>3, <1>5 DEF CallsSound
  <2>2. \A c, d \in Announced : Index(c)' = Index(d)' => c = d
    BY <1>2, <1>4, <2>1
  <2>3. \A i \in Indexes : caller'.part[i] # NoPart => \E c \in Announced : Index(c)' = i
    BY <1>2, <1>4, <2>1
  <2> QED  BY <1>1, <2>1, <2>2, <2>3 DEF CallsSound
<1> QED  BY <1>1, <1>5

\* A fragment of the text, of any upstream.
LEMMA TextArrives ==
  ASSUME StreamsInv, NEW f \in Fragments, CodexText(f) \/ GeminiText(f) \/ RawBytes(f)
  PROVE  StreamsInv'
<1> DEFINE n == AsString(f)
<1>1. /\ result = "running" /\ upstream.text + n <= MaxParts
      /\ upstream' = [upstream EXCEPT !.text = @ + n, !.spaced = @ \/ f # "words"]
  BY DEF CodexText, GeminiText, RawBytes, Answering, Copies, Says
<1>2. /\ upstream \in UpstreamRecords /\ translator \in TranslatorRecords /\ caller \in CallerRecords
      /\ ~caller.done /\ StreamSound /\ (Streaming <=> upstream.framing = "stream")
      /\ translator.wroteText \in BOOLEAN /\ translator.seenPayload \in BOOLEAN /\ caller.spaced \in BOOLEAN
      /\ upstream.text \in 0..MaxParts /\ caller.text \in 0..MaxParts /\ upstream.spaced \in BOOLEAN
      /\ n \in {0, 1} /\ (n = 0 <=> f = "blank") /\ MaxParts \in Nat
  <2>1. n \in {0, 1} /\ (n = 0 <=> f = "blank")
    BY DEF AsString
  <2>2. /\ upstream \in UpstreamRecords /\ translator \in TranslatorRecords /\ caller \in CallerRecords
        /\ ~caller.done /\ StreamSound /\ (Streaming <=> upstream.framing = "stream")
    BY <1>1, Goes
  <2> HIDE DEF n
  <2> QED  BY <2>1, <2>2, IndexNumbers DEF UpstreamRecords, TranslatorRecords, CallerRecords
<1> HIDE DEF n
<1>3. PICK b \in BOOLEAN : b = (upstream.spaced \/ f # "words")
  OBVIOUS
<1>4. upstream' = [upstream EXCEPT !.text = @ + n, !.spaced = b]
  BY <1>1, <1>3
<1>5. /\ upstream' \in UpstreamRecords /\ upstream'.text = upstream.text + n /\ upstream'.spaced = b
      /\ upstream'.calls = upstream.calls /\ upstream'.reason = upstream.reason
      /\ upstream'.adapter = upstream.adapter /\ upstream'.framing = upstream.framing
      /\ upstream'.order = upstream.order
  <2>1. upstream.text + n \in 0..MaxParts
    BY <1>1, <1>2
  <2> QED  BY <1>2, <1>4, <2>1 DEF UpstreamRecords
<1> DEFINE Goes1(w, s, e) ==
      /\ translator' = [translator EXCEPT !.wroteText = w, !.seenPayload = s] /\ result' = result
      /\ IF Streaming THEN caller' = [caller EXCEPT !.text = @ + n, !.spaced = e] ELSE caller' = caller
    Stops == ~caller.present /\ result' = "client_disconnected" /\ UNCHANGED <<caller, translator>>
<1>6. PICK w \in BOOLEAN, s \in BOOLEAN, e \in BOOLEAN :
        /\ w => translator.wroteText \/ upstream'.text > 0
        /\ Streaming /\ upstream.adapter = "raw" => e = b
        /\ Goes1(w, s, e) \/ Stops
  <2>1. /\ \A x \in BOOLEAN : /\ [translator EXCEPT !.wroteText = x]
                                 = [translator EXCEPT !.wroteText = x, !.seenPayload = translator.seenPayload]
                              /\ [translator EXCEPT !.seenPayload = x]
                                 = [translator EXCEPT !.wroteText = translator.wroteText, !.seenPayload = x]
        /\ translator = [translator EXCEPT !.wroteText = translator.wroteText, !.seenPayload = translator.seenPayload]
    BY <1>2 DEF TranslatorRecords
  <2>2. /\ [caller EXCEPT !.text = @ + 1] = [caller EXCEPT !.text = @ + 1, !.spaced = caller.spaced]
        /\ caller = [caller EXCEPT !.text = @ + 0, !.spaced = caller.spaced]
    <3>1. [caller EXCEPT !.text = caller.text + 1] = [caller EXCEPT !.text = caller.text + 1, !.spaced = caller.spaced]
      BY <1>2 DEF CallerRecords
    <3>2. caller.text + 0 = caller.text
      BY <1>2
    <3>3. caller = [caller EXCEPT !.text = caller.text, !.spaced = caller.spaced]
      BY <1>2 DEF CallerRecords
    <3> QED  BY <3>1, <3>2, <3>3
  <2>3. CASE CodexText(f)
    <3>1. upstream.adapter # "raw"
      BY <2>3 DEF CodexText, Answering
    <3>2. CASE f # "blank"
      <4>1. n = 1 /\ upstream'.text > 0
        BY <1>2, <1>5, <3>2
      <4>2. Write([caller EXCEPT !.text = @ + 1], [translator EXCEPT !.wroteText = TRUE])
        BY <2>3, <3>2 DEF CodexText
      <4>3. \/ Goes1(TRUE, translator.seenPayload, caller.spaced)
            \/ Goes1(translator.wroteText, translator.seenPayload, caller.spaced)
            \/ Stops
        BY <2>1, <2>2, <4>1, <4>2 DEF Write
      <4> QED  BY <1>2, <3>1, <4>1, <4>3
    <3>3. CASE f = "blank"
      <4>1. n = 0 /\ UNCHANGED <<translator, caller, result>>
        BY <1>2, <2>3, <3>3 DEF CodexText
      <4>2. Goes1(translator.wroteText, translator.seenPayload, caller.spaced)
        BY <2>1, <2>2, <4>1
      <4> QED  BY <1>2, <3>1, <4>2
    <3> QED  BY <3>2, <3>3
  <2>4. CASE GeminiText(f)
    <3>1. upstream.adapter # "raw"
      BY <2>4 DEF GeminiText, Answering
    <3>2. CASE f # "blank"
      <4>1. n = 1
        BY <1>2, <3>2
      <4>2. Write([caller EXCEPT !.text = @ + 1], [translator EXCEPT !.seenPayload = TRUE])
        BY <2>4, <3>2 DEF GeminiText
      <4>3. \/ Goes1(translator.wroteText, TRUE, caller.spaced)
            \/ Goes1(translator.wroteText, translator.seenPayload, caller.spaced)
            \/ Stops
        BY <2>1, <2>2, <4>1, <4>2 DEF Write
      <4> QED  BY <1>2, <3>1, <4>3
    <3>3. CASE f = "blank"
      <4>1. n = 0 /\ UNCHANGED <<caller, result>> /\ translator' = [translator EXCEPT !.seenPayload = TRUE]
        BY <1>2, <2>4, <3>3 DEF GeminiText
      <4>2. Goes1(translator.wroteText, TRUE, caller.spaced)
        BY <2>1, <2>2, <4>1
      <4> QED  BY <1>2, <3>1, <4>2
    <3> QED  BY <3>2, <3>3
  <2>5. CASE RawBytes(f)
    <3>1. PICK e \in BOOLEAN : e = (caller.spaced \/ f # "words")
      OBVIOUS
    <3>2. Write([caller EXCEPT !.text = @ + n, !.spaced = e], translator)
      BY <2>5, <3>1 DEF RawBytes, n
    <3>3. Goes1(translator.wroteText, translator.seenPayload, e) \/ Stops
      BY <2>1, <3>2 DEF Write
    <3>4. Streaming /\ upstream.adapter = "raw" => e = b
      BY <1>2, <1>3, <3>1 DEF StreamSound
    <3> QED  BY <1>2, <3>3, <3>4
  <2> QED  BY <2>3, <2>4, <2>5
<1>7. CASE Goes1(w, s, e)
  <2>1. /\ translator' \in TranslatorRecords /\ translator'.wroteText = w
        /\ translator'.index = translator.index /\ translator'.next = translator.next
        /\ translator'.deltas = translator.deltas /\ translator'.wroteTools = translator.wroteTools
    BY <1>2, <1>7 DEF TranslatorRecords
  <2>2. /\ caller'.part = caller.part /\ caller'.done = caller.done
        /\ Streaming => caller'.text = caller.text + n /\ caller'.spaced = e
    BY <1>2, <1>7 DEF CallerRecords
  <2>3. caller' \in CallerRecords
    <3>1. Streaming => caller.text + n \in 0..MaxParts
      BY <1>1, <1>2 DEF StreamSound
    <3> QED  BY <1>2, <1>7, <3>1 DEF CallerRecords
  <2>4. StreamSound'
    <3>1. w => upstream'.text > 0
      BY <1>2, <1>5, <1>6 DEF StreamSound
    <3>2. Streaming => caller'.text = upstream'.text
      BY <1>2, <1>5, <2>2 DEF StreamSound
    <3> QED  BY <1>2, <1>5, <1>6, <2>1, <2>2, <3>1, <3>2, CallsStay DEF StreamSound, Streaming
  <2>5. StreamsTypeOK'
    BY <1>1, <1>5, <1>7, <2>1, <2>3, NextTypes
  <2> QED  BY <1>1, <1>2, <1>7, <2>2, <2>4, <2>5, GoesOn
<1>8. CASE Stops
  <2>1. StreamsTypeOK'
    BY <1>2, <1>5, <1>8, NextTypes
  <2> QED  BY <1>2, <1>8, <2>1, Untold
<1> QED  BY <1>6, <1>7, <1>8

\* The index of an announced call is one of those that were given.
LEMMA IndexGiven ==
  ASSUME CallsSound, NEW c \in Announced,
         translator.index \in [Names -> Indexes \cup {NoIndex}], translator.next \in 0..NoIndex
  PROVE  Index(c) \in Indexes /\ Index(c) < translator.next
<1>1. CallSound(c) /\ <<c, "item">> \in Names
  BY DEF CallsSound, Announced, Names
<1>2. Index(c) < translator.next
  BY <1>1 DEF CallSound
<1>3. Index(c) \in Indexes \cup {NoIndex}
  BY <1>1 DEF Index
<1> QED  BY <1>2, <1>3, IndexNumbers

\* An announced call receives arguments, or is complete.
LEMMA CallMoves ==
  ASSUME CallsSound, NEW c \in Announced, NEW k \in CallStates, k.stage # "none", k.by = upstream.calls[c].by,
         upstream.calls \in [Calls -> CallStates], caller.part \in [Indexes -> Parts],
         translator.index \in [Names -> Indexes \cup {NoIndex}], translator.next \in 0..NoIndex,
         upstream'.calls = [upstream.calls EXCEPT ![c] = k],
         caller'.part = [caller.part EXCEPT ![Index(c)] = [call |-> {c}, args |-> k.args]],
         translator'.index = translator.index, translator'.next = translator.next, translator'.wroteTools = TRUE,
         \A d \in Calls \ {c}, by \in {"call", "item"} :
            <<d, by>> \in translator'.deltas <=> <<d, by>> \in translator.deltas,
         k.stage # "done" => (<<c, k.by>> \in translator'.deltas <=> k.args > 0)
  PROVE  CallsSound'
<1>1. c \in Calls /\ Announced \subseteq Calls /\ Announced' = Announced
  BY DEF Announced
<1>2. \A d \in Calls : Index(d)' = Index(d)
  BY DEF Index
<1>3. /\ \A d \in Calls : CallSound(d)
      /\ \A d, e \in Announced : Index(d) = Index(e) => d = e
      /\ \A i \in Indexes : caller.part[i] # NoPart => \E d \in Announced : Index(d) = i
      /\ translator.next = Cardinality(Announced)
  BY DEF CallsSound
<1>4. CallSound(c)'
  <2>1. upstream'.calls[c] = k /\ caller'.part[Index(c)] = [call |-> {c}, args |-> k.args]
    BY <1>1, IndexGiven
  <2>2. CallSound(c)
    BY <1>1, <1>3
  <2> QED  BY <1>1, <1>2, <2>1, <2>2 DEF CallSound
<1>5. ASSUME NEW d \in Calls, d # c
      PROVE  CallSound(d)'
  <2>1. upstream'.calls[d] = upstream.calls[d]
    BY <1>1, <1>5
  <2>2. upstream.calls[d].by \in {"call", "item"}
    BY DEF CallStates
  <2>3. d \in Announced => Index(d) # Index(c)
    BY <1>3, <1>5
  <2>4. d \in Announced => caller'.part[Index(d)] = caller.part[Index(d)]
    BY <2>3, IndexGiven
  <2>5. CallSound(d)
    BY <1>3
  <2> QED  BY <1>1, <1>2, <1>5, <2>1, <2>2, <2>4, <2>5 DEF CallSound
<1>6. \A i \in Indexes : caller'.part[i] # NoPart => \E d \in Announced : Index(d) = i
  BY <1>3, IndexGiven
<1>7. /\ \A d, e \in Announced : Index(d)' = Index(e)' => d = e
      /\ \A i \in Indexes : caller'.part[i] # NoPart => \E d \in Announced : Index(d)' = i
  BY <1>1, <1>2, <1>3, <1>6
<1>8. \A d \in Calls : CallSound(d)'
  BY <1>4, <1>5
<1> QED  BY <1>1, <1>3, <1>7, <1>8 DEF CallsSound

\* A call is announced under the next index.
LEMMA CallAnnounced ==
  ASSUME CallsSound, NEW c \in Calls \ Announced, NEW k \in CallStates, k.stage = "added",
         k.by = upstream.calls[c].by, k.args = 0,
         upstream.calls \in [Calls -> CallStates], caller.part \in [Indexes -> Parts],
         translator.index \in [Names -> Indexes \cup {NoIndex}], translator.next \in 0..NoIndex,
         upstream'.calls = [upstream.calls EXCEPT ![c] = k],
         caller'.part = [caller.part EXCEPT ![translator.next] = [call |-> {c}, args |-> 0]],
         translator'.index = [translator.index EXCEPT ![<<c, "call">>] = translator.next,
                                                      ![<<c, "item">>] = translator.next],
         translator'.next = translator.next + 1, translator'.wroteTools = TRUE, translator'.deltas = translator.deltas
  PROVE  CallsSound' /\ translator.next \in Indexes
<1> DEFINE n == translator.next
<1>1. Announced \subseteq Calls /\ Announced' = Announced \cup {c} /\ c \in Calls /\ c \notin Announced
  BY DEF Announced
<1>2. /\ \A d \in Calls : CallSound(d)
      /\ \A d, e \in Announced : Index(d) = Index(e) => d = e
      /\ \A i \in Indexes : caller.part[i] # NoPart => \E d \in Announced : Index(d) = i
      /\ n = Cardinality(Announced)
  BY DEF CallsSound
<1>3. Cardinality(Announced') = n + 1 /\ n \in Nat /\ n \in Indexes /\ n # NoIndex
  <2>1. IsFiniteSet(Announced) /\ n \in Nat
    BY <1>1, <1>2, IndexNumbers
  <2>2. Cardinality(Announced \cup {c}) = Cardinality(Announced) + 1
    BY <1>1, <2>1, FS_AddElement
  <2>3. Cardinality(Announced \cup {c}) <= NoIndex
    BY <1>1, IndexNumbers
  <2> QED  BY <1>1, <1>2, <2>1, <2>2, <2>3, IndexNumbers
<1>4. \A d \in Calls : <<d, "call">> \in Names /\ <<d, "item">> \in Names
  BY DEF Names
<1>5. Index(c)' = n /\ translator'.index[<<c, "call">>] = n
  BY <1>1, <1>4 DEF Index
<1>6. ASSUME NEW d \in Calls, d # c
      PROVE  Index(d)' = Index(d) /\ translator'.index[<<d, "call">>] = translator.index[<<d, "call">>]
  <2>1. <<d, "call">> \notin {<<c, "call">>, <<c, "item">>} /\ <<d, "item">> \notin {<<c, "call">>, <<c, "item">>}
    BY <1>6
  <2> QED  BY <1>4, <2>1 DEF Index
<1>7. \A d \in Announced : Index(d) \in Indexes /\ Index(d) < n /\ Index(d) # n
  BY <1>3, IndexGiven, IndexNumbers
<1>8. caller'.part[n] = [call |-> {c}, args |-> 0] /\ \A i \in Indexes \ {n} : caller'.part[i] = caller.part[i]
  BY <1>3
<1>9. CallSound(c)'
  <2>1. upstream'.calls[c] = k /\ CallSound(c)
    BY <1>1, <1>2
  <2>2. upstream.calls[c].stage # "done" /\ upstream.calls[c].args = 0
    BY <1>1, <2>1 DEF Announced, CallSound
  <2>3. <<c, k.by>> \notin translator'.deltas
    BY <2>1, <2>2 DEF CallSound
  <2>4. n < translator'.next
    BY <1>3
  <2>5. c \in Announced' /\ upstream'.calls[c].args = 0 /\ upstream'.calls[c].by = k.by
    BY <1>1, <2>1
  <2>6. caller'.part[n] = [call |-> {c}, args |-> upstream'.calls[c].args]
    BY <1>8, <2>5
  <2>7. <<c, upstream'.calls[c].by>> \in translator'.deltas <=> upstream'.calls[c].args > 0
    BY <2>3, <2>5
  <2> HIDE DEF n
  <2> QED  BY <1>5, <2>4, <2>5, <2>6, <2>7 DEF CallSound
<1>10. ASSUME NEW d \in Calls, d # c
       PROVE  CallSound(d)'
  <2>1. upstream'.calls[d] = upstream.calls[d] /\ CallSound(d) /\ (d \in Announced' <=> d \in Announced)
    BY <1>1, <1>2, <1>10
  <2>2. Index(d)' = Index(d) /\ translator'.index[<<d, "call">>] = translator.index[<<d, "call">>]
    BY <1>6, <1>10
  <2>3. CASE d \in Announced
    <3>1. caller'.part[Index(d)] = caller.part[Index(d)]
      BY <1>7, <1>8, <2>3
    <3>2. Index(d) < translator'.next
      BY <1>3, <1>7, <2>3, IndexNumbers
    <3> QED  BY <2>1, <2>2, <2>3, <3>1, <3>2 DEF CallSound
  <2>4. CASE d \notin Announced
    BY <2>1, <2>2, <2>4 DEF CallSound
  <2> QED  BY <2>3, <2>4
<1>11. \A d, e \in Announced' : Index(d)' = Index(e)' => d = e
  <2>1. \A d \in Announced : d \in Calls /\ d # c
    BY <1>1
  <2>2. \A d \in Announced : Index(d)' # n /\ Index(d)' = Index(d)
    <3> HIDE DEF n
    <3> QED  BY <1>6, <1>7, <2>1
  <2> QED  BY <1>1, <1>2, <1>5, <2>2
<1>12. ASSUME NEW i \in Indexes, caller'.part[i] # NoPart
       PROVE  \E d \in Announced' : Index(d)' = i
  <2>1. CASE i = n
    BY <1>1, <1>5, <2>1
  <2>2. CASE i # n
    <3>1. PICK d \in Announced : Index(d) = i
      BY <1>2, <1>8, <1>12, <2>2
    <3> QED  BY <1>1, <1>6, <3>1
  <2> QED  BY <2>1, <2>2
<1>13. \A d \in Calls : CallSound(d)'
  BY <1>9, <1>10
<1>14. Announced' # {} /\ translator'.next = Cardinality(Announced')
  BY <1>1, <1>3
<1> QED  BY <1>3, <1>11, <1>12, <1>13, <1>14 DEF CallsSound

\* A step about one call, which is told to the caller of a stream.
LEMMA CallStep ==
  ASSUME StreamsInv, Answering("codex"), NEW c \in Calls, NEW k \in CallStates,
         NEW b \in BOOLEAN,
         upstream' = [upstream EXCEPT !.calls = [upstream.calls EXCEPT ![c] = k], !.spaced = b],
         NEW p, NEW t,
         \/ Write([caller EXCEPT !.part = p], t)
         \/ UNCHANGED <<translator, caller, result>> /\ p = caller.part /\ t = translator,
         Streaming => /\ p \in [Indexes -> Parts] /\ t \in TranslatorRecords /\ t.wroteText = translator.wroteText
                      /\ caller'.part = p /\ translator' = t => CallsSound'
  PROVE  StreamsInv'
<1>1. /\ upstream \in UpstreamRecords /\ translator \in TranslatorRecords /\ caller \in CallerRecords
      /\ ~caller.done /\ StreamSound /\ (Streaming <=> upstream.framing = "stream")
      /\ result = "running" /\ upstream.adapter = "codex"
  BY Goes DEF Answering
<1>2. [upstream.calls EXCEPT ![c] = k] \in [Calls -> CallStates]
  BY <1>1 DEF UpstreamRecords
<1>3. /\ upstream' \in UpstreamRecords /\ upstream'.text = upstream.text /\ upstream'.reason = upstream.reason
      /\ upstream'.adapter = upstream.adapter /\ upstream'.framing = upstream.framing
      /\ upstream'.order = upstream.order
  BY <1>1, <1>2 DEF UpstreamRecords
<1>4. CASE Streaming /\ \/ caller' = [caller EXCEPT !.part = p] /\ translator' = t /\ UNCHANGED result
                        \/ UNCHANGED <<translator, caller, result>> /\ p = caller.part /\ t = translator
  <2>1. /\ caller' \in CallerRecords /\ caller'.part = p /\ translator' = t /\ result' = result
        /\ caller'.text = caller.text /\ caller'.done = caller.done
    BY <1>1, <1>4 DEF CallerRecords
  <2>2. StreamSound'
    BY <1>1, <1>3, <1>4, <2>1 DEF StreamSound, Streaming
  <2>3. StreamsTypeOK'
    BY <1>1, <1>3, <1>4, <2>1, NextTypes
  <2> QED  BY <1>1, <2>1, <2>2, <2>3, GoesOn
<1>5. CASE Streaming /\ ~caller.present /\ result' = "client_disconnected" /\ UNCHANGED <<caller, translator>>
  <2>1. StreamsTypeOK'
    BY <1>1, <1>3, <1>5, NextTypes
  <2> QED  BY <1>1, <1>5, <2>1, Untold
<1>6. CASE ~Streaming /\ UNCHANGED <<caller, translator, result>>
  <2>1. StreamSound'
    BY <1>1, <1>3, <1>6 DEF StreamSound, Streaming, NothingCollected
  <2>2. StreamsTypeOK'
    BY <1>1, <1>3, <1>6, NextTypes
  <2> QED  BY <1>1, <1>6, <2>1, <2>2, GoesOn
<1> QED  BY <1>4, <1>5, <1>6 DEF Write

\* While a stream is translated, its records say what the lemmas on calls ask for.
LEMMA CallRecords ==
  ASSUME StreamsInv, Answering("codex")
  PROVE  /\ upstream \in UpstreamRecords /\ translator \in TranslatorRecords /\ caller \in CallerRecords
         /\ upstream.calls \in [Calls -> CallStates] /\ caller.part \in [Indexes -> Parts]
         /\ translator.index \in [Names -> Indexes \cup {NoIndex}] /\ translator.next \in 0..NoIndex
         /\ translator.deltas \in SUBSET Names
         /\ Streaming => CallsSound
<1>1. /\ upstream \in UpstreamRecords /\ translator \in TranslatorRecords /\ caller \in CallerRecords
      /\ StreamSound /\ upstream.adapter = "codex"
  BY Goes DEF Answering
<1> QED  BY <1>1 DEF UpstreamRecords, TranslatorRecords, CallerRecords, StreamSound

LEMMA ItemAdded ==
  ASSUME StreamsInv, NEW c \in Calls, CodexItemAdded(c)
  PROVE  StreamsInv'
<1> DEFINE k == [upstream.calls[c] EXCEPT !.stage = "added"]
           i == IndexOf(<<c, "call">>)
           p == [caller.part EXCEPT ![i] = [caller.part[i] EXCEPT !.call = @ \cup {c}]]
           t == [translator EXCEPT !.wroteTools = TRUE, !.next = NextAfter(<<c, "call">>),
                                   !.index[<<c, "call">>] = i, !.index[<<c, "item">>] = i]
<1>1. Answering("codex") /\ upstream.calls[c].stage = "none" /\ c \notin Announced
  BY DEF CodexItemAdded, Announced
<1>2. /\ upstream \in UpstreamRecords /\ translator \in TranslatorRecords /\ caller \in CallerRecords
      /\ upstream.calls \in [Calls -> CallStates] /\ caller.part \in [Indexes -> Parts]
      /\ translator.index \in [Names -> Indexes \cup {NoIndex}] /\ translator.next \in 0..NoIndex
  BY <1>1, CallRecords
<1>3. k \in CallStates /\ k.stage = "added" /\ k.by = upstream.calls[c].by /\ k.args = upstream.calls[c].args
  BY <1>2 DEF CallStates
<1>4. /\ upstream' = [upstream EXCEPT !.calls = [upstream.calls EXCEPT ![c] = k], !.spaced = upstream.spaced]
      /\ upstream.spaced \in BOOLEAN
  <2>1. upstream' = [upstream EXCEPT !.calls = [upstream.calls EXCEPT ![c] = k]]
    BY DEF CodexItemAdded
  <2> HIDE DEF k
  <2> QED  BY <1>2, <2>1 DEF UpstreamRecords
<1>5. Write([caller EXCEPT !.part = p], t)
  BY DEF CodexItemAdded
<1>6. ASSUME Streaming
      PROVE  /\ p \in [Indexes -> Parts] /\ t \in TranslatorRecords /\ t.wroteText = translator.wroteText
             /\ caller'.part = p /\ translator' = t => CallsSound'
  <2>1. CallsSound /\ CallSound(c)
    BY <1>1, <1>6, CallRecords DEF CallsSound
  <2>2. translator.index[<<c, "call">>] = NoIndex /\ k.args = 0
    BY <1>1, <1>3, <2>1 DEF CallSound
  <2>3. i = translator.next /\ NextAfter(<<c, "call">>) = translator.next + 1
    BY <2>2 DEF IndexOf, NextAfter
  <2>4. \A d \in Announced : Index(d) # translator.next
    BY <1>2, <2>1, IndexGiven, IndexNumbers
  <2>5. i \in Indexes
    <3>1. Announced \cup {c} \subseteq Calls /\ Announced \subseteq Calls /\ translator.next = Cardinality(Announced)
      BY <2>1 DEF Announced, CallsSound
    <3>2. IsFiniteSet(Announced) /\ Cardinality(Announced) \in Nat /\ Cardinality(Announced \cup {c}) <= NoIndex
      BY <3>1, IndexNumbers
    <3>3. Cardinality(Announced \cup {c}) = Cardinality(Announced) + 1
      BY <1>1, <3>2, FS_AddElement
    <3> QED  BY <2>3, <3>1, <3>2, <3>3, IndexNumbers
  <2>6. caller.part[i] = NoPart
    BY <2>1, <2>3, <2>4, <2>5 DEF CallsSound
  <2>7. p = [caller.part EXCEPT ![translator.next] = [call |-> {c}, args |-> 0]]
    BY <2>3, <2>6 DEF NoPart
  <2>8. p \in [Indexes -> Parts]
    <3>1. [call |-> {c}, args |-> 0] \in Parts
      BY PartsTyped, IndexNumbers
    <3> QED  BY <1>2, <2>7, <3>1
  <2>9. /\ t.index = [translator.index EXCEPT ![<<c, "call">>] = translator.next, ![<<c, "item">>] = translator.next]
        /\ t.next = translator.next + 1 /\ t.wroteTools = TRUE /\ t.deltas = translator.deltas
        /\ t.wroteText = translator.wroteText
    BY <1>2, <2>3 DEF TranslatorRecords
  <2>10. t \in TranslatorRecords
    <3>1. <<c, "call">> \in Names /\ <<c, "item">> \in Names /\ translator.next + 1 \in 0..NoIndex
      BY <2>3, <2>5, IndexNumbers DEF Names
    <3> QED  BY <1>2, <2>3, <2>5, <3>1 DEF TranslatorRecords
  <2>11. upstream'.calls = [upstream.calls EXCEPT ![c] = k]
    BY <1>2, <1>4 DEF UpstreamRecords
  <2>12. ASSUME caller'.part = p, translator' = t
         PROVE  CallsSound'
    <3>1. /\ translator'.index = t.index /\ translator'.next = t.next /\ translator'.deltas = t.deltas
          /\ translator'.wroteTools = TRUE /\ caller'.part = p
      BY <2>9, <2>12
    <3>2. c \in Calls \ Announced
      BY <1>1
    <3> HIDE DEF k, p, t, i
    <3>3. /\ caller'.part = [caller.part EXCEPT ![translator.next] = [call |-> {c}, args |-> 0]]
          /\ translator'.index = [translator.index EXCEPT ![<<c, "call">>] = translator.next,
                                                         ![<<c, "item">>] = translator.next]
          /\ translator'.next = translator.next + 1 /\ translator'.deltas = translator.deltas
      BY <2>7, <2>9, <3>1
    <3> QED  BY <1>2, <1>3, <2>1, <2>2, <2>11, <3>1, <3>2, <3>3, CallAnnounced
  <2> QED  BY <2>8, <2>9, <2>10, <2>12
<1> HIDE DEF k, p, t
<1> QED  BY <1>1, <1>3, <1>4, <1>5, <1>6, CallStep

LEMMA BlankArguments ==
  ASSUME StreamsInv, NEW c \in Calls, CodexArgumentsDelta(c, "blank")
  PROVE  StreamsInv'
<1>1. /\ Answering("codex") /\ UNCHANGED <<translator, caller, result>>
      /\ upstream' = [upstream EXCEPT !.calls[c].args = @ + 0, !.spaced = @ \/ TRUE]
  BY DEF CodexArgumentsDelta, AsString
<1>2. /\ upstream \in UpstreamRecords /\ upstream.calls \in [Calls -> CallStates] /\ caller \in CallerRecords
      /\ translator \in TranslatorRecords
      /\ Streaming => CallsSound
  BY <1>1, CallRecords
<1>3. upstream' = [upstream EXCEPT !.calls = [upstream.calls EXCEPT ![c] = upstream.calls[c]], !.spaced = TRUE]
  <2>1. \A k \in CallStates : [k EXCEPT !.args = @ + 0] = k
    BY IndexNumbers DEF CallStates
  <2>2. upstream.calls[c] \in CallStates
    BY <1>2
  <2> QED  BY <1>1, <2>1, <2>2
<1>4. upstream'.calls = upstream.calls
  BY <1>2, <1>3 DEF UpstreamRecords
<1>5. Streaming => CallsSound'
  BY <1>1, <1>2, <1>4, CallsStay
<1>6. upstream.calls[c] \in CallStates /\ caller.part \in [Indexes -> Parts]
  BY <1>2 DEF CallerRecords
<1> QED  BY <1>1, <1>2, <1>3, <1>5, <1>6, CallStep

LEMMA ArgumentsDelta ==
  ASSUME StreamsInv, NEW c \in Calls, NEW f \in Fragments \ {"blank"}, CodexArgumentsDelta(c, f)
  PROVE  StreamsInv'
<1> DEFINE k == [upstream.calls[c] EXCEPT !.args = @ + 1]
           name == <<c, upstream.calls[c].by>>
           i == IndexOf(name)
           p == [caller.part EXCEPT ![i] = [caller.part[i] EXCEPT !.args = @ + 1]]
           t == [translator EXCEPT !.wroteTools = TRUE, !.next = NextAfter(name),
                                   !.index[name] = i, !.deltas = @ \cup {name}]
<1>1. /\ Answering("codex") /\ upstream.calls[c].stage = "added" /\ c \in Announced
      /\ upstream.calls[c].args + 1 <= MaxParts /\ AsString(f) = 1
  BY DEF CodexArgumentsDelta, Announced, AsString
<1>2. /\ upstream \in UpstreamRecords /\ translator \in TranslatorRecords /\ caller \in CallerRecords
      /\ upstream.calls \in [Calls -> CallStates] /\ caller.part \in [Indexes -> Parts]
      /\ translator.index \in [Names -> Indexes \cup {NoIndex}] /\ translator.next \in 0..NoIndex
      /\ translator.deltas \in SUBSET Names
  BY <1>1, CallRecords
<1>3. /\ k \in CallStates /\ k.stage = "added" /\ k.by = upstream.calls[c].by
      /\ k.args = upstream.calls[c].args + 1 /\ k.args > 0
  <2>1. upstream.calls[c] \in CallStates
    BY <1>2
  <2>2. ASSUME NEW r \in CallStates, r.args + 1 <= MaxParts
        PROVE  LET q == [r EXCEPT !.args = @ + 1]
               IN q \in CallStates /\ q.stage = r.stage /\ q.by = r.by /\ q.args = r.args + 1 /\ q.args > 0
    BY <2>2, IndexNumbers DEF CallStates
  <2> QED  BY <1>1, <2>1, <2>2
<1>4. PICK b \in BOOLEAN : upstream' = [upstream EXCEPT !.calls = [upstream.calls EXCEPT ![c] = k], !.spaced = b]
  <2>1. PICK b \in BOOLEAN : b = (upstream.spaced \/ f # "words")
    OBVIOUS
  <2> QED  BY <1>1, <2>1 DEF CodexArgumentsDelta
<1>5. Write([caller EXCEPT !.part = p], t)
  BY DEF CodexArgumentsDelta
<1>6. name \in Names /\ upstream.calls[c].by \in {"call", "item"}
  BY <1>2 DEF Names, CallStates
<1>7. ASSUME Streaming
      PROVE  /\ p \in [Indexes -> Parts] /\ t \in TranslatorRecords /\ t.wroteText = translator.wroteText
             /\ caller'.part = p /\ translator' = t => CallsSound'
  <2>1. CallsSound /\ CallSound(c)
    BY <1>1, <1>7, CallRecords DEF CallsSound
  <2>2. Index(c) \in Indexes /\ Index(c) # NoIndex
    BY <1>1, <1>2, <2>1, IndexGiven, IndexNumbers
  <2>3. translator.index[name] = Index(c)
    BY <1>6, <2>1 DEF CallSound, Index
  <2>4. i = Index(c) /\ NextAfter(name) = translator.next
    BY <2>2, <2>3 DEF IndexOf, NextAfter
  <2>5. caller.part[Index(c)] = [call |-> {c}, args |-> upstream.calls[c].args]
    BY <1>1, <2>1 DEF CallSound
  <2>6. p = [caller.part EXCEPT ![Index(c)] = [call |-> {c}, args |-> k.args]]
    <3> DEFINE n == upstream.calls[c].args
    <3>1. [caller.part[i] EXCEPT !.args = @ + 1] = [[call |-> {c}, args |-> n] EXCEPT !.args = @ + 1]
      BY <2>4, <2>5
    <3> HIDE DEF n
    <3>2. [[call |-> {c}, args |-> n] EXCEPT !.args = @ + 1] = [call |-> {c}, args |-> n + 1]
      OBVIOUS
    <3>3. k.args = n + 1
      BY <1>3 DEF n
    <3>4. [caller.part[i] EXCEPT !.args = @ + 1] = [call |-> {c}, args |-> k.args]
      <4> HIDE DEF k, i
      <4> QED  BY <3>1, <3>2, <3>3
    <3>5. p = [caller.part EXCEPT ![i] = [caller.part[i] EXCEPT !.args = @ + 1]]
      OBVIOUS
    <3> HIDE DEF p, i, k
    <3> QED  BY <2>4, <3>4, <3>5
  <2>7. p \in [Indexes -> Parts]
    <3>1. k.args \in 0..2 * MaxParts
      BY <1>3, IndexNumbers DEF CallStates
    <3>2. [call |-> {c}, args |-> k.args] \in Parts
      BY <3>1, PartsTyped
    <3> HIDE DEF p, k
    <3> QED  BY <1>2, <2>6, <3>2
  <2>8. /\ t.index = translator.index /\ t.next = translator.next /\ t.wroteTools = TRUE
        /\ t.deltas = translator.deltas \cup {name} /\ t.wroteText = translator.wroteText
    <3>1. [translator.index EXCEPT ![name] = Index(c)] = translator.index
      BY <1>2, <1>6, <2>3
    <3> QED  BY <1>2, <2>4, <3>1 DEF TranslatorRecords
  <2>9. t \in TranslatorRecords
    <3>1. translator.deltas \cup {name} \in SUBSET Names
      BY <1>2, <1>6
    <3>2. t = [translator EXCEPT !.wroteTools = TRUE, !.next = translator.next, !.index = translator.index,
                                !.deltas = translator.deltas \cup {name}]
      BY <1>2, <2>4, <2>8 DEF TranslatorRecords
    <3> HIDE DEF t
    <3> QED  BY <1>2, <3>1, <3>2 DEF TranslatorRecords
  <2>10. upstream'.calls = [upstream.calls EXCEPT ![c] = k]
    BY <1>2, <1>4 DEF UpstreamRecords
  <2>11. \A d \in Calls \ {c}, by \in {"call", "item"} : <<d, by>> \in t.deltas <=> <<d, by>> \in translator.deltas
    BY <2>8
  <2>12. <<c, k.by>> \in t.deltas
    BY <1>3, <2>8
  <2>13. ASSUME caller'.part = p, translator' = t
         PROVE  CallsSound'
    <3> HIDE DEF k, p, t, name
    <3> QED  BY <1>1, <1>2, <1>3, <2>1, <2>6, <2>8, <2>10, <2>11, <2>12, <2>13, CallMoves
  <2> QED  BY <2>7, <2>8, <2>9, <2>13
<1> HIDE DEF k, p, t
<1> QED  BY <1>1, <1>3, <1>4, <1>5, <1>7, CallStep

\* Arguments that arrived in parts are not written again.
LEMMA ArgumentsDone ==
  ASSUME StreamsInv, NEW c \in Calls, NEW n \in 0..MaxParts, CodexArgumentsDone(c, n)
  PROVE  StreamsInv'
<1> DEFINE k == [upstream.calls[c] EXCEPT !.stage = "done", !.args = n]
           name == <<c, upstream.calls[c].by>>
           i == IndexOf(name)
           p == [caller.part EXCEPT ![i] = [caller.part[i] EXCEPT !.args = @ + n]]
           t == [translator EXCEPT !.wroteTools = TRUE, !.next = NextAfter(name), !.index[name] = i]
<1>1. /\ Answering("codex") /\ upstream.calls[c].stage = "added" /\ c \in Announced
      /\ n = upstream.calls[c].args \/ upstream.calls[c].args = 0
  BY DEF CodexArgumentsDone, Announced
<1>2. /\ upstream \in UpstreamRecords /\ translator \in TranslatorRecords /\ caller \in CallerRecords
      /\ upstream.calls \in [Calls -> CallStates] /\ caller.part \in [Indexes -> Parts]
      /\ translator.index \in [Names -> Indexes \cup {NoIndex}] /\ translator.next \in 0..NoIndex
  BY <1>1, CallRecords
<1>3. /\ k \in CallStates /\ k.stage = "done" /\ k.by = upstream.calls[c].by /\ k.args = n
      /\ upstream.calls[c].args \in 0..MaxParts
  <2>1. upstream.calls[c] \in CallStates
    BY <1>2
  <2>2. ASSUME NEW r \in CallStates
        PROVE  LET q == [r EXCEPT !.stage = "done", !.args = n]
               IN q \in CallStates /\ q.stage = "done" /\ q.by = r.by /\ q.args = n /\ r.args \in 0..MaxParts
    BY DEF CallStates
  <2> QED  BY <2>1, <2>2
<1>4. /\ upstream' = [upstream EXCEPT !.calls = [upstream.calls EXCEPT ![c] = k], !.spaced = upstream.spaced]
      /\ upstream.spaced \in BOOLEAN
  <2>1. upstream' = [upstream EXCEPT !.calls = [upstream.calls EXCEPT ![c] = k]]
    BY DEF CodexArgumentsDone
  <2> HIDE DEF k
  <2> QED  BY <1>2, <2>1 DEF UpstreamRecords
<1>5. upstream'.calls = [upstream.calls EXCEPT ![c] = k]
  BY <1>2, <1>4 DEF UpstreamRecords
<1>6. name \in Names /\ upstream.calls[c].by \in {"call", "item"}
  BY <1>2 DEF Names, CallStates
<1>7. ASSUME Streaming
      PROVE  /\ CallsSound /\ CallSound(c)
             /\ Index(c) \in Indexes /\ Index(c) # NoIndex /\ translator.index[name] = Index(c)
             /\ caller.part[Index(c)] = [call |-> {c}, args |-> upstream.calls[c].args]
             /\ name \in translator.deltas <=> upstream.calls[c].args > 0
             /\ [call |-> {c}, args |-> n] \in Parts
  <2>1. CallsSound /\ CallSound(c)
    BY <1>1, <1>7, CallRecords DEF CallsSound
  <2>2. Index(c) \in Indexes /\ Index(c) # NoIndex
    BY <1>1, <1>2, <2>1, IndexGiven, IndexNumbers
  <2>3. translator.index[name] = Index(c)
    BY <1>6, <2>1 DEF CallSound, Index
  <2>4. n \in 0..2 * MaxParts
    BY IndexNumbers
  <2> QED  BY <1>1, <2>1, <2>2, <2>3, <2>4, PartsTyped DEF CallSound
<1>8. CASE ArgumentsPending(name, n)
  <2>1. Write([caller EXCEPT !.part = p], t)
    BY <1>8 DEF CodexArgumentsDone
  <2>2. ASSUME Streaming
        PROVE  /\ p \in [Indexes -> Parts] /\ t \in TranslatorRecords /\ t.wroteText = translator.wroteText
               /\ caller'.part = p /\ translator' = t => CallsSound'
    <3>1. i = Index(c) /\ NextAfter(name) = translator.next
      BY <1>7, <2>2 DEF IndexOf, NextAfter
    <3>2. upstream.calls[c].args = 0
      BY <1>3, <1>7, <1>8, <2>2 DEF ArgumentsPending
    <3>3. p = [caller.part EXCEPT ![Index(c)] = [call |-> {c}, args |-> n]]
      <4>1. n + 0 = n /\ 0 + n = n /\ caller.part[i] = [call |-> {c}, args |-> 0]
        BY <1>7, <2>2, <3>1, <3>2
      <4>2. \A r : r = [call |-> {c}, args |-> 0] => [r EXCEPT !.args = @ + n] = [call |-> {c}, args |-> n]
        <5> SUFFICES ASSUME NEW r, r = [call |-> {c}, args |-> 0]
                     PROVE  [r EXCEPT !.args = r.args + n] = [call |-> {c}, args |-> n]
          OBVIOUS
        <5>1. r.args + n = n
          BY <4>1
        <5>2. [r EXCEPT !.args = n] = [call |-> {c}, args |-> n]
          OBVIOUS
        <5> QED  BY <5>1, <5>2
      <4> QED  BY <3>1, <4>1, <4>2
    <3>4. p \in [Indexes -> Parts]
      <4> HIDE DEF p
      <4> QED  BY <1>2, <1>7, <2>2, <3>3
    <3>5. [translator.index EXCEPT ![name] = Index(c)] = translator.index
      BY <1>2, <1>6, <1>7, <2>2
    <3>6. t = [translator EXCEPT !.wroteTools = TRUE, !.next = translator.next, !.index = translator.index]
      BY <1>2, <3>1, <3>5 DEF TranslatorRecords
    <3> HIDE DEF t, p, k, name
    <3>7. /\ t.index = translator.index /\ t.next = translator.next /\ t.wroteTools = TRUE
          /\ t.deltas = translator.deltas /\ t.wroteText = translator.wroteText /\ t \in TranslatorRecords
      BY <1>2, <3>6 DEF TranslatorRecords
    <3>8. ASSUME caller'.part = p, translator' = t
          PROVE  CallsSound'
      BY <1>1, <1>2, <1>3, <1>5, <1>7, <2>2, <3>3, <3>7, <3>8, CallMoves
    <3> QED  BY <3>4, <3>7, <3>8
  <2> HIDE DEF k, p, t
  <2> QED  BY <1>1, <1>3, <1>4, <2>1, <2>2, CallStep
<1>9. CASE ~ArgumentsPending(name, n)
  <2>1. UNCHANGED <<translator, caller, result>>
    BY <1>9 DEF CodexArgumentsDone
  <2>2. ASSUME Streaming
        PROVE  CallsSound'
    <3>1. n = upstream.calls[c].args
      BY <1>1, <1>3, <1>7, <1>9, <2>2 DEF ArgumentsPending
    <3>2. caller.part = [caller.part EXCEPT ![Index(c)] = [call |-> {c}, args |-> n]]
      BY <1>2, <1>7, <2>2, <3>1
    <3>3. translator.wroteTools = TRUE
      BY <1>1, <1>2, <1>7, <2>2 DEF CallsSound, TranslatorRecords
    <3> HIDE DEF k, name
    <3> QED  BY <1>1, <1>2, <1>3, <1>5, <1>7, <2>1, <2>2, <3>2, <3>3, CallMoves
  <2>3. Streaming => caller.part \in [Indexes -> Parts] /\ translator \in TranslatorRecords
    BY <1>2
  <2> HIDE DEF k
  <2> QED  BY <1>1, <1>3, <1>4, <2>1, <2>2, <2>3, CallStep
<1> QED  BY <1>8, <1>9

\* What the completed response of a Codex upstream adds to what was streamed.
LEMMA CompletedResponse ==
  ASSUME StreamsInv, CodexCompleted
  PROVE  /\ upstream' \in UpstreamRecords /\ upstream'.end = "completed" /\ upstream'.reason = "stop"
         /\ upstream'.adapter = upstream.adapter /\ upstream'.framing = upstream.framing
         /\ upstream'.order \in Orders(Called(upstream'.calls))
         /\ upstream.text > 0 => upstream'.text = upstream.text
         /\ Announced # {} => upstream'.calls = upstream.calls /\ Called(upstream'.calls) = Announced
<1>1. Answering("codex") /\ \A c \in Calls : upstream.calls[c].stage # "added"
  BY DEF CodexCompleted
<1>2. /\ upstream \in UpstreamRecords /\ StreamSound /\ upstream.adapter = "codex"
      /\ upstream.calls \in [Calls -> CallStates]
  BY <1>1, Goes DEF Answering, UpstreamRecords
<1>3. PICK words \in 0..MaxParts, spaced \in {upstream.spaced, TRUE}, extra \in SUBSET Calls, n \in 0..1 :
        ResponseHolds(words, spaced, extra, n)
  BY DEF CodexCompleted
<1>4. PICK order \in Orders(Called(upstream.calls) \cup extra) :
        upstream' = [upstream EXCEPT !.text = words, !.spaced = spaced, !.end = "completed", !.order = order,
                     !.calls = [c \in Calls |-> IF c \in extra
                                 THEN [upstream.calls[c] EXCEPT !.stage = "done", !.args = n]
                                 ELSE upstream.calls[c]]]
  BY <1>3 DEF ResponseHolds
<1> DEFINE after == [c \in Calls |-> IF c \in extra
                                     THEN [upstream.calls[c] EXCEPT !.stage = "done", !.args = n]
                                     ELSE upstream.calls[c]]
<1>5. /\ after \in [Calls -> CallStates]
      /\ \A c \in Calls : after[c].stage = "done" <=> c \in extra \/ upstream.calls[c].stage = "done"
  <2>1. n \in 0..MaxParts
    BY IndexNumbers
  <2>2. ASSUME NEW r \in CallStates
        PROVE  LET q == [r EXCEPT !.stage = "done", !.args = n] IN q \in CallStates /\ q.stage = "done"
    BY <2>1 DEF CallStates
  <2> QED  BY <1>2, <2>2
<1>6. extra = {} => after = upstream.calls
  BY <1>2
<1>7. upstream' = [upstream EXCEPT !.text = words, !.spaced = spaced, !.end = "completed", !.order = order, !.calls = after]
  BY <1>4
<1> HIDE DEF after
<1>8. Called(after) = Called(upstream.calls) \cup extra
  BY <1>5 DEF Called
<1>9. order \in Seq(Calls)
  <2>1. Called(after) \in SUBSET Calls
    BY DEF Called
  <2> QED  BY <1>4, <1>8, <2>1, ListedCalls
<1>10. /\ upstream' \in UpstreamRecords /\ upstream'.end = "completed" /\ upstream'.reason = upstream.reason
       /\ upstream'.adapter = upstream.adapter /\ upstream'.framing = upstream.framing
       /\ upstream'.order = order /\ upstream'.text = words /\ upstream'.calls = after
  <2>1. spaced \in BOOLEAN
    BY <1>2 DEF UpstreamRecords
  <2> QED  BY <1>2, <1>5, <1>7, <1>9, <2>1 DEF UpstreamRecords
<1>11. Announced # {} => extra = {} /\ Called(upstream.calls) = Announced
  BY <1>1, <1>2, <1>3 DEF Announced, Called, CallStates, ResponseHolds
<1>12. upstream.reason = "stop"
  BY <1>2 DEF StreamSound
<1>13. upstream.text > 0 => words = upstream.text
  BY <1>3 DEF ResponseHolds
<1> QED  BY <1>4, <1>6, <1>8, <1>10, <1>11, <1>12, <1>13

\* Nothing was collected of calls that were not announced.
LEMMA NoneAnnounced ==
  ASSUME CallsSound, Announced = {}
  PROVE  NothingCollected
  BY DEF CallsSound, NothingCollected

\* A streamed call is where its index says.
LEMMA StreamedPlaces ==
  ASSUME CallsSound, caller.part \in [Indexes -> Parts],
         translator.index \in [Names -> Indexes \cup {NoIndex}], translator.next \in 0..NoIndex
  PROVE  Places([c \in Announced |-> Index(c)], Announced, upstream.calls, caller.part)
<1> DEFINE f == [c \in Announced |-> Index(c)]
<1>1. \A c \in Announced : /\ Index(c) \in Indexes /\ c \in Calls
                            /\ caller.part[Index(c)] = [call |-> {c}, args |-> upstream.calls[c].args]
  BY IndexGiven DEF CallsSound, CallSound, Announced
<1>2. \A c \in Announced : Index(c) \in InUse(caller.part)
  <2> SUFFICES ASSUME NEW c \in Announced
               PROVE  caller.part[Index(c)] # NoPart
    BY <1>1 DEF InUse
  <2>1. \A n : [call |-> {c}, args |-> n].call # NoPart.call
    BY DEF NoPart
  <2> QED  BY <1>1, <2>1
<1>3. /\ \A c, d \in Announced : Index(c) = Index(d) => c = d
      /\ \A i \in InUse(caller.part) : \E c \in Announced : Index(c) = i
  BY DEF CallsSound, InUse
<1> QED  BY <1>1, <1>2, <1>3 DEF Places

\* The text of a body, in the caller's record.
LEMMA TextOfBody ==
  ASSUME NEW collected \in CallerRecords, NEW said \in UpstreamRecords
  PROVE  LET r == WithText(collected, said)
         IN /\ r \in CallerRecords /\ r.part = collected.part /\ r.text = said.text
            /\ said.adapter = "raw" => r.spaced = said.spaced
<1>1. PICK b \in BOOLEAN : b = (said.spaced /\ said.adapter = "raw")
  OBVIOUS
<1>2. WithText(collected, said) = [collected EXCEPT !.text = said.text, !.spaced = b]
  BY <1>1 DEF WithText
<1>3. said.adapter = "raw" => b = said.spaced
  <2>1. said.spaced \in BOOLEAN
    BY DEF UpstreamRecords
  <2> QED  BY <1>1, <2>1
<1> QED  BY <1>2, <1>3 DEF CallerRecords, UpstreamRecords

\* The caller is told all of it, or has left.
LEMMA Completed ==
  ASSUME StreamsInv, CodexCompleted
  PROVE  StreamsInv'
<1> DEFINE said == upstream'
           S == Called(said.calls)
           withText == IF translator.wroteText THEN caller ELSE WithText(caller, said)
           all == WithText(caller, said)
<1>1. /\ result = "running" /\ upstream.adapter = "codex"
      /\ IF Streaming THEN CompleteCodexChat(said) ELSE MapCodexEventResponse(said)
  BY DEF CodexCompleted, Answering
<1>2. /\ upstream \in UpstreamRecords /\ translator \in TranslatorRecords /\ caller \in CallerRecords
      /\ ~caller.done /\ StreamSound /\ (Streaming <=> upstream.framing = "stream")
      /\ translator' = translator
  BY <1>1, Goes DEF CompleteCodexChat, MapCodexEventResponse
<1>3. /\ said \in UpstreamRecords /\ said.end = "completed" /\ said.reason = "stop"
      /\ said.framing = upstream.framing /\ said.order \in Orders(S) /\ said.adapter # "raw"
      /\ upstream.text > 0 => said.text = upstream.text
      /\ Announced # {} => said.calls = upstream.calls /\ S = Announced
  BY <1>1, CompletedResponse
<1>4. FinishReason(said) \in Finishes /\ FinishReason(said) = IF S # {} THEN "tool_calls" ELSE said.reason
  BY <1>3 DEF FinishReason, Finishes
<1>5. all \in CallerRecords /\ all.part = caller.part /\ all.text = said.text
  BY <1>2, <1>3, TextOfBody
<1> HIDE DEF all, S
<1>6. CASE Streaming
  <2>1. withText \in CallerRecords /\ withText.part = caller.part /\ withText.text = said.text
    <3>1. CASE translator.wroteText
      BY <1>2, <1>3, <1>6, <3>1 DEF StreamSound
    <3>2. CASE ~translator.wroteText
      BY <1>5, <3>2 DEF all
    <3> QED  BY <3>1, <3>2
  <2> DEFINE whole == IF translator.wroteTools THEN withText ELSE WithToolCalls(withText, said, 0)
             reason == IF translator.wroteTools THEN "tool_calls" ELSE FinishReason(said)
  <2>2. Finish(whole, reason)
    BY <1>1, <1>6 DEF CompleteCodexChat
  <2>3. CallsSound /\ (translator.wroteTools <=> Announced # {})
    BY <1>1, <1>2, <1>6 DEF StreamSound, CallsSound
  <2> HIDE DEF withText
  <2>4. CASE caller' = [whole EXCEPT !.done = TRUE, !.finish = reason] /\ result' = "ok" /\ ~translator.wroteTools
    <3>1. caller' = [WithToolCalls(withText, said, 0) EXCEPT !.done = TRUE, !.finish = FinishReason(said)]
      BY <2>4
    <3>2. NothingCollected
      BY <2>3, <2>4, NoneAnnounced
    <3>3. 0 \in 0..1
      OBVIOUS
    <3> HIDE DEF whole, reason
    <3>4. result = "running" /\ result' = "ok" /\ translator' = translator
      BY <1>1, <1>2, <2>4
    <3>5. /\ said \in UpstreamRecords /\ said.end = "completed" /\ said.order \in Orders(Called(said.calls))
          /\ FinishReason(said) \in Finishes /\ said.adapter # "raw"
          /\ said.framing = "stream" => FinishReason(said) = IF Called(said.calls) # {} THEN "tool_calls" ELSE said.reason
      BY <1>3, <1>4 DEF S
    <3> HIDE DEF said
    <3> QED  BY <2>1, <3>1, <3>2, <3>3, <3>4, <3>5, ToldFromResponse DEF said
  <2>5. CASE caller' = [whole EXCEPT !.done = TRUE, !.finish = reason] /\ result' = "ok" /\ translator.wroteTools
    <3>1. caller' = [withText EXCEPT !.done = TRUE, !.finish = "tool_calls"]
      BY <2>5
    <3>2. /\ caller' \in CallerRecords /\ caller'.done /\ caller'.finish = "tool_calls"
          /\ caller'.part = caller.part /\ caller'.text = said.text
      BY <2>1, <3>1 DEF CallerRecords, Finishes
    <3>3. StreamsTypeOK'
      BY <1>2, <1>3, <2>5, <3>2, NextTypes
    <3>4. S = Announced /\ S # {} /\ said.calls = upstream.calls
      BY <1>3, <2>3, <2>5
    <3> DEFINE f == [c \in S |-> Index(c)]
    <3>5. Places(f, S, said.calls, caller'.part)
      BY <1>1, <2>3, <3>2, <3>4, CallRecords, StreamedPlaces DEF Answering
    <3> QED  BY <1>3, <2>5, <3>2, <3>3, <3>4, <3>5, Told DEF S
  <2>6. CASE ~caller.present /\ result' = "client_disconnected" /\ UNCHANGED caller
    <3>1. StreamsTypeOK'
      BY <1>2, <1>3, <2>6, NextTypes
    <3> QED  BY <1>2, <2>6, <3>1, Untold
  <2> QED  BY <2>2, <2>4, <2>5, <2>6 DEF Finish
<1>7. CASE ~Streaming
  <2>1. PICK base \in 0..1 : Deliver(WithToolCalls(all, said, base), FinishReason(said))
    BY <1>1, <1>7 DEF MapCodexEventResponse, DeliverAnthropic, AnthropicMessage, all
  <2>2. NothingCollected /\ said.framing # "stream"
    BY <1>2, <1>3, <1>7 DEF StreamSound
  <2>3. CASE caller.present
    <3>1. caller' = [WithToolCalls(all, said, base) EXCEPT !.done = TRUE, !.finish = FinishReason(said)]
          /\ result' = "ok"
      BY <2>1, <2>3 DEF Deliver
    <3> QED  BY <1>1, <1>2, <1>3, <1>4, <1>5, <2>2, <3>1, ToldFromResponse DEF S
  <2>4. CASE ~caller.present
    <3>1. UNCHANGED caller /\ result' = "ok"
      BY <2>1, <2>4 DEF Deliver
    <3>2. StreamsTypeOK'
      BY <1>2, <1>3, <3>1, NextTypes
    <3> QED  BY <1>2, <2>4, <3>1, <3>2, Unread
  <2> QED  BY <2>3, <2>4
<1> QED  BY <1>6, <1>7

\* A stream that failed, or was cut, ends without its caller being told.
LEMMA GivenUp ==
  ASSUME StreamsInv, CodexFailed \/ GeminiError \/ CodexBodyEnds \/ BodyBreaks
  PROVE  StreamsInv'
<1>1. PICK end \in {"failed", "cut"} : result = "running" /\ upstream' = [upstream EXCEPT !.end = end] /\ GiveUp
  BY DEF CodexFailed, GeminiError, CodexBodyEnds, BodyBreaks, Answering
<1>2. /\ upstream \in UpstreamRecords /\ translator \in TranslatorRecords /\ caller \in CallerRecords /\ ~caller.done
      /\ UNCHANGED <<caller, translator>> /\ result' \in {"interrupted", "failed"}
  BY <1>1, Goes DEF GiveUp
<1>3. upstream' \in UpstreamRecords
  BY <1>1, <1>2 DEF UpstreamRecords
<1>4. StreamsTypeOK'
  BY <1>2, <1>3, NextTypes
<1> QED  BY <1>2, <1>4, Untold

\* An answer without calls, of an upstream that is not Codex, ends with its caller being told.
LEMMA ToldTheText ==
  ASSUME StreamsInv, result = "running", upstream.adapter # "codex",
         NEW words \in CallerRecords, words.part = caller.part, words.text = upstream.text,
         upstream.adapter = "raw" => words.spaced = upstream.spaced,
         upstream' = [upstream EXCEPT !.end = "completed"], translator' = translator, result' = "ok",
         NEW reason \in Finishes, caller' = [words EXCEPT !.done = TRUE, !.finish = reason],
         Streaming => reason = upstream.reason
  PROVE  StreamsInv'
<1>1. /\ upstream \in UpstreamRecords /\ translator \in TranslatorRecords /\ caller \in CallerRecords
      /\ StreamSound /\ (Streaming <=> upstream.framing = "stream")
  BY Goes
<1>2. /\ upstream' \in UpstreamRecords /\ upstream'.end = "completed" /\ upstream'.text = upstream.text
      /\ upstream'.calls = upstream.calls /\ upstream'.framing = upstream.framing /\ upstream'.reason = upstream.reason
      /\ upstream'.adapter = upstream.adapter /\ upstream'.spaced = upstream.spaced
  BY <1>1 DEF UpstreamRecords
<1>3. /\ caller' \in CallerRecords /\ caller'.done /\ caller'.finish = reason /\ caller'.text = upstream'.text
      /\ caller'.part = caller.part /\ caller'.spaced = words.spaced
  BY <1>2 DEF CallerRecords
<1>4. StreamsTypeOK'
  BY <1>1, <1>2, <1>3, NextTypes
<1>5. Announced = {} /\ NothingCollected
  BY <1>1 DEF StreamSound
<1>6. Called(upstream'.calls) = {}
  BY <1>2, <1>5 DEF Called, Announced
<1>7. InUse(caller'.part) = {}
  BY <1>3, <1>5 DEF InUse, NothingCollected
<1>8. Places([c \in {} |-> 0], {}, upstream'.calls, caller'.part)
  BY <1>7 DEF Places
<1> QED  BY <1>1, <1>2, <1>3, <1>4, <1>6, <1>8, Told

\* A response that lists no call adds none.
LEMMA NoCallsListed ==
  ASSUME NEW words \in CallerRecords, NEW said, said.order = <<>>, NEW base \in 0..1
  PROVE  WithToolCalls(words, said, base) = words
<1>1. base..(base + Len(said.order) - 1) = {}
  BY IndexNumbers
<1>2. words.part = [i \in Indexes |-> words.part[i]] /\ words = [words EXCEPT !.part = words.part]
  BY DEF CallerRecords
<1> QED  BY <1>1, <1>2 DEF WithToolCalls

\* The body of a Gemini stream ends, or that of an upstream whose answer is copied.
LEMMA BodyEnds ==
  ASSUME StreamsInv, GeminiBodyEnds \/ RawBodyEnds
  PROVE  StreamsInv'
<1> DEFINE all == WithText(caller, upstream)
<1>1. result = "running" /\ upstream.adapter # "codex" /\ upstream' = [upstream EXCEPT !.end = "completed"]
  BY DEF GeminiBodyEnds, RawBodyEnds, Answering, Copies
<1>2. /\ upstream \in UpstreamRecords /\ translator \in TranslatorRecords /\ caller \in CallerRecords
      /\ ~caller.done /\ StreamSound /\ (Streaming <=> upstream.framing = "stream")
      /\ upstream.order = <<>> /\ upstream.reason \in Finishes /\ "stop" \in Finishes
  BY <1>1, Goes DEF StreamSound, UpstreamRecords, Finishes
<1>3. upstream' \in UpstreamRecords
  BY <1>1, <1>2 DEF UpstreamRecords
<1>4. /\ all \in CallerRecords /\ all.part = caller.part /\ all.text = upstream.text
      /\ upstream.adapter = "raw" => all.spaced = upstream.spaced
  BY <1>2, TextOfBody
<1> HIDE DEF all
<1>5. ASSUME NEW words \in CallerRecords, words.part = caller.part, words.text = upstream.text,
             upstream.adapter = "raw" => words.spaced = upstream.spaced,
             NEW reason \in Finishes, Streaming => reason = upstream.reason, translator' = translator,
             Deliver(words, reason)
      PROVE  StreamsInv'
  <2>1. CASE caller.present
    BY <1>1, <1>5, <2>1, ToldTheText DEF Deliver
  <2>2. CASE ~caller.present
    <3>1. UNCHANGED caller /\ result' = "ok"
      BY <1>5, <2>2 DEF Deliver
    <3>2. StreamsTypeOK'
      BY <1>2, <1>3, <1>5, <3>1, NextTypes
    <3> QED  BY <1>2, <2>2, <3>1, <3>2, Unread
  <2> QED  BY <2>1, <2>2
<1>6. ASSUME DeliverAnthropic(upstream, "stop"), translator' = translator
      PROVE  StreamsInv'
  <2>1. AnthropicMessage(upstream) = all
    BY <1>2, <1>4, NoCallsListed DEF AnthropicMessage, all
  <2> QED  BY <1>2, <1>4, <1>5, <1>6, <2>1 DEF DeliverAnthropic
<1>7. ASSUME Deliver(all, "stop"), upstream.framing = "json", translator' = translator
      PROVE  StreamsInv'
  BY <1>2, <1>4, <1>5, <1>7
<1>8. CASE RawBodyEnds
  <2>1. upstream.reason = "stop" /\ translator' = translator
    BY <1>2, <1>8 DEF StreamSound, RawBodyEnds, Answering, Copies
  <2>2. CASE Streaming /\ Deliver(caller, "stop")
    <3>1. caller.text = upstream.text /\ (upstream.adapter = "raw" => caller.spaced = upstream.spaced)
      BY <1>2, <2>2 DEF StreamSound
    <3> QED  BY <1>2, <1>5, <2>1, <2>2, <3>1
  <2> QED  BY <1>6, <1>7, <1>8, <2>1, <2>2 DEF RawBodyEnds, all
<1>9. CASE GeminiBodyEnds
  <2>1. CASE Streaming /\ Finish(caller, upstream.reason) /\ UNCHANGED translator
    <3>1. caller.text = upstream.text /\ (upstream.adapter = "raw" => caller.spaced = upstream.spaced)
      BY <1>2, <2>1 DEF StreamSound
    <3>2. CASE caller.present
      BY <1>1, <1>2, <2>1, <3>1, <3>2, ToldTheText DEF Finish
    <3>3. CASE ~caller.present
      <4>1. UNCHANGED caller /\ result' = "client_disconnected"
        BY <2>1, <3>3 DEF Finish
      <4>2. StreamsTypeOK'
        BY <1>2, <1>3, <2>1, <4>1, NextTypes
      <4> QED  BY <1>2, <4>1, <4>2, Untold
    <3> QED  BY <3>2, <3>3
  <2>2. CASE Streaming /\ GiveUp
    <3>1. UNCHANGED <<caller, translator>> /\ result' = "interrupted"
      BY <2>2 DEF GiveUp
    <3>2. StreamsTypeOK'
      BY <1>2, <1>3, <3>1, NextTypes
    <3> QED  BY <1>2, <3>1, <3>2, Untold
  <2>3. CASE MapGeminiResponse
    BY <1>6, <1>7, <2>3 DEF MapGeminiResponse, all
  <2> QED  BY <1>9, <2>1, <2>2, <2>3 DEF GeminiBodyEnds
<1> QED  BY <1>8, <1>9

\* A body that is longer than the gateway reads.
LEMMA TooLong ==
  ASSUME StreamsInv, BodyTooLong
  PROVE  StreamsInv'
<1>1. result = "running" /\ ~Streaming /\ upstream' = [upstream EXCEPT !.end = "oversize"]
  BY DEF BodyTooLong
<1>2. /\ upstream \in UpstreamRecords /\ translator \in TranslatorRecords /\ caller \in CallerRecords /\ ~caller.done
      /\ "stop" \in Finishes
  BY <1>1, Goes DEF Finishes
<1>3. upstream' \in UpstreamRecords /\ upstream'.end = "oversize" /\ upstream'.framing = upstream.framing
  BY <1>1, <1>2 DEF UpstreamRecords
<1>4. CASE GiveUp
  <2>1. UNCHANGED <<caller, translator>> /\ result' = "failed"
    BY <1>1, <1>4 DEF GiveUp
  <2>2. StreamsTypeOK'
    BY <1>2, <1>3, <2>1, NextTypes
  <2> QED  BY <1>2, <2>1, <2>2, Untold
<1>5. ASSUME NEW words \in CallerRecords, Deliver(words, "stop"), translator' = translator
      PROVE  StreamsInv'
  <2>1. result' = "ok" /\ caller' \in CallerRecords
    BY <1>2, <1>5 DEF Deliver, CallerRecords
  <2>2. StreamsTypeOK'
    BY <1>2, <1>3, <1>5, <2>1, NextTypes
  <2>3. caller'.present => caller'.done
    BY <1>2, <1>5 DEF Deliver, CallerRecords
  <2>4. CompleteAnswerIsWhole'
    BY <1>1, <1>3, <2>1, <2>3 DEF CompleteAnswerIsWhole, Streaming
  <2> QED  BY <2>1, <2>2, <2>4 DEF StreamsInv
<1>6. WithText(caller, upstream) \in CallerRecords
  BY <1>2, TextOfBody
<1> QED  BY <1>2, <1>4, <1>5, <1>6 DEF BodyTooLong

\* A payload of a Gemini upstream that holds only its finish reason.
LEMMA ReasonArrives ==
  ASSUME StreamsInv, NEW reason \in {"length", "content_filter"}, GeminiFinishReason(reason)
  PROVE  StreamsInv'
<1>1. /\ result = "running" /\ upstream.adapter = "gemini" /\ upstream' = [upstream EXCEPT !.reason = reason]
      /\ translator' = [translator EXCEPT !.seenPayload = TRUE] /\ UNCHANGED <<caller, result>>
  BY DEF GeminiFinishReason, Answering
<1>2. /\ upstream \in UpstreamRecords /\ translator \in TranslatorRecords /\ caller \in CallerRecords
      /\ ~caller.done /\ StreamSound
  BY <1>1, Goes
<1>3. /\ upstream' \in UpstreamRecords /\ upstream'.text = upstream.text /\ upstream'.calls = upstream.calls
      /\ upstream'.adapter = upstream.adapter /\ upstream'.framing = upstream.framing
      /\ upstream'.order = upstream.order /\ upstream'.spaced = upstream.spaced
  BY <1>1, <1>2 DEF UpstreamRecords
<1>4. /\ translator' \in TranslatorRecords /\ translator'.wroteText = translator.wroteText
      /\ translator'.index = translator.index /\ translator'.next = translator.next
      /\ translator'.deltas = translator.deltas /\ translator'.wroteTools = translator.wroteTools
  BY <1>1, <1>2 DEF TranslatorRecords
<1>5. StreamSound'
  BY <1>1, <1>2, <1>3, <1>4, CallsStay DEF StreamSound, Streaming
<1>6. StreamsTypeOK'
  BY <1>1, <1>2, <1>3, <1>4, NextTypes
<1> QED  BY <1>1, <1>2, <1>5, <1>6, GoesOn

LEMMA Leaves ==
  ASSUME StreamsInv, CallerDisconnects
  PROVE  StreamsInv'
<1>1. /\ result = "running" /\ caller' = [caller EXCEPT !.present = FALSE]
      /\ UNCHANGED <<upstream, translator, result>>
  BY DEF CallerDisconnects
<1>2. /\ upstream \in UpstreamRecords /\ translator \in TranslatorRecords /\ caller \in CallerRecords
      /\ ~caller.done /\ StreamSound
  BY <1>1, Goes
<1>3. /\ caller' \in CallerRecords /\ caller'.text = caller.text /\ caller'.part = caller.part
      /\ caller'.done = caller.done /\ caller'.spaced = caller.spaced
  BY <1>1, <1>2 DEF CallerRecords
<1>4. StreamSound'
  BY <1>1, <1>2, <1>3, CallsStay DEF StreamSound, Streaming
<1>5. StreamsTypeOK'
  BY <1>1, <1>2, <1>3, NextTypes
<1> QED  BY <1>1, <1>2, <1>3, <1>4, <1>5, GoesOn

LEMMA StreamsInitInv == StreamsInit => StreamsInv
<1> SUFFICES ASSUME StreamsInit
             PROVE  StreamsInv
  OBVIOUS
<1>1. /\ Unsaid("item") \in CallStates /\ NoPart \in Parts
      /\ <<>> \in Seq(Calls) /\ 0 \in 0..MaxParts /\ 0 \in 0..NoIndex
  BY IndexNumbers, PartsTyped DEF Unsaid, CallStates
<1>2. upstream \in UpstreamRecords
  BY <1>1 DEF StreamsInit, UpstreamRecords, Adapters
<1>3. translator \in TranslatorRecords
  BY <1>1 DEF StreamsInit, TranslatorRecords
<1>4. caller \in CallerRecords /\ ~caller.done
  BY <1>1 DEF StreamsInit, CallerRecords, Finishes
<1>5. result = "idle"
  BY DEF StreamsInit
<1>6. StreamsTypeOK
  BY <1>2, <1>3, <1>4, <1>5 DEF StreamsTypeOK
<1> QED  BY <1>4, <1>5, <1>6 DEF StreamsInv, CompleteAnswerIsWhole

\* An answer begins with nothing said and nothing collected.
LEMMA Begins ==
  ASSUME StreamsInv, NEW kind \in Adapters, NEW form \in {"stream", "json", "anthropic"},
         AnswerBegins(kind, form)
  PROVE  StreamsInv'
<1>1. result = "idle" /\ result' = "running" /\ UNCHANGED <<translator, caller>> /\ StreamsInit
  BY DEF AnswerBegins, StreamsInv
<1>2. PICK said \in [Calls -> {Unsaid("call"), Unsaid("item")}] :
        upstream' = [upstream EXCEPT !.adapter = kind, !.framing = form, !.calls = said]
  BY DEF AnswerBegins
<1>3. /\ upstream \in UpstreamRecords /\ translator \in TranslatorRecords /\ caller \in CallerRecords
  BY DEF StreamsTypeOK, StreamsInv
<1>4. \A c \in Calls : said[c] \in CallStates /\ said[c].stage = "none" /\ said[c].args = 0
  BY IndexNumbers DEF Unsaid, CallStates
<1>5. said \in [Calls -> CallStates]
  BY <1>4
<1>6. /\ upstream' \in UpstreamRecords /\ upstream'.adapter = kind /\ upstream'.framing = form
      /\ upstream'.calls = said /\ upstream'.order = <<>> /\ upstream'.reason = "stop" /\ upstream'.text = 0
      /\ upstream'.spaced = FALSE
  BY <1>1, <1>2, <1>3, <1>5 DEF StreamsInit, UpstreamRecords
<1>7. /\ translator'.wroteText = FALSE /\ translator'.wroteTools = FALSE /\ translator'.deltas = {}
      /\ translator'.next = 0 /\ translator'.index = [n \in Names |-> NoIndex]
      /\ caller'.text = 0 /\ caller'.spaced = FALSE /\ caller'.done = FALSE /\ caller'.part = [i \in Indexes |-> NoPart]
  BY <1>1 DEF StreamsInit
<1>8. Announced' = {}
  BY <1>4, <1>6 DEF Announced
<1>9. NothingCollected'
  BY <1>7 DEF NothingCollected
<1>10. CallsSound'
  <2>1. ASSUME NEW c \in Calls
        PROVE  CallSound(c)'
    <3>1. <<c, "call">> \in Names /\ <<c, "item">> \in Names
      BY DEF Names
    <3>2. upstream'.calls[c].args = 0 /\ c \notin Announced'
      BY <1>4, <1>6, <1>8
    <3> QED  BY <1>7, <3>1, <3>2 DEF CallSound, Index
  <2>2. Cardinality({}) = 0
    BY FS_EmptySet
  <2> QED  BY <1>7, <1>8, <1>9, <2>1, <2>2 DEF CallsSound, NothingCollected
<1>11. StreamSound'
  BY <1>6, <1>7, <1>8, <1>9, <1>10 DEF StreamSound, Streaming
<1>12. StreamsTypeOK'
  BY <1>1, <1>3, <1>6, NextTypes
<1> QED  BY <1>1, <1>7, <1>11, <1>12, GoesOn

LEMMA StreamsStep == StreamsInv /\ [StreamsNext]_streamVars => StreamsInv'
<1> SUFFICES ASSUME StreamsInv, [StreamsNext]_streamVars
             PROVE  StreamsInv'
  OBVIOUS
<1>1. CASE UNCHANGED streamVars
  <2>1. UNCHANGED <<upstream, translator, caller, result>>
    BY <1>1 DEF streamVars
  <2>2. StreamsTypeOK' = StreamsTypeOK /\ StreamsInit' = StreamsInit
    BY <2>1 DEF StreamsTypeOK, StreamsInit
  <2>3. Said' = Said /\ Collected' = Collected /\ Streaming' = Streaming
    BY <2>1 DEF Said, Collected, Streaming
  <2>4. CompleteAnswerIsWhole' = CompleteAnswerIsWhole
    BY <2>1, <2>3 DEF CompleteAnswerIsWhole
  <2>5. StreamSound => StreamSound'
    BY <2>1, <2>3, CallsStay DEF StreamSound
  <2> QED  BY <2>1, <2>2, <2>4, <2>5 DEF StreamsInv
<1>2. ASSUME NEW kind \in Adapters, NEW form \in {"stream", "json", "anthropic"},
             AnswerBegins(kind, form)
      PROVE  StreamsInv'
  BY <1>2, Begins
<1>3. ASSUME NEW f \in Fragments, CodexText(f) \/ GeminiText(f) \/ RawBytes(f)
      PROVE  StreamsInv'
  BY <1>3, TextArrives
<1>4. CASE CodexCompleted
  BY <1>4, Completed
<1>5. CASE CodexFailed \/ GeminiError \/ CodexBodyEnds \/ BodyBreaks \/ BodyTooLong
  BY <1>5, GivenUp, TooLong
<1>6. ASSUME NEW c \in Calls, \/ CodexItemAdded(c)
                              \/ \E f \in Fragments : CodexArgumentsDelta(c, f)
                              \/ \E n \in 0..MaxParts : CodexArgumentsDone(c, n)
      PROVE  StreamsInv'
  <2>1. ASSUME NEW f \in Fragments, CodexArgumentsDelta(c, f)
        PROVE  StreamsInv'
    BY <2>1, ArgumentsDelta, BlankArguments
  <2> QED  BY <1>6, <2>1, ItemAdded, ArgumentsDone
<1>7. CASE GeminiBodyEnds \/ RawBodyEnds
  BY <1>7, BodyEnds
<1>8. ASSUME NEW reason \in {"length", "content_filter"}, GeminiFinishReason(reason)
      PROVE  StreamsInv'
  BY <1>8, ReasonArrives
<1>9. CASE CallerDisconnects
  BY <1>9, Leaves
<1> QED  BY <1>1, <1>2, <1>3, <1>4, <1>5, <1>6, <1>7, <1>8, <1>9 DEF StreamsNext

\* The records of an answer keep their types: indexes and parts stay within their bounds
\* (streamCodexChatResponse, streamGeminiResponse, JSONWithAuth).
THEOREM StreamTypesHold == StreamsSpec => []StreamsTypeOK
<1>1. StreamsInv => StreamsTypeOK
  BY DEF StreamsInv
<1> QED  BY <1>1, StreamsInitInv, StreamsStep, PTL DEF StreamsSpec

\* A caller who is told that the answer is complete has all the words of its text, and each
\* tool call once, under one index, with the words of its arguments once, in whatever order
\* the upstream streams, names or lists them and wherever it sends blanks; the white space too
\* when the answer is copied.  Only a body that is too long to be read is told to be complete
\* without being so (streamCodexChatResponse, streamGeminiResponse, JSONWithAuth).
THEOREM AnswersAreWhole == StreamsSpec => []CompleteAnswerIsWhole
<1>1. StreamsInv => CompleteAnswerIsWhole
  BY DEF StreamsInv
<1> QED  BY <1>1, StreamsInitInv, StreamsStep, PTL DEF StreamsSpec
=============================================================================
