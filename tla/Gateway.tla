------------------------------ MODULE Gateway ------------------------------
(***************************************************************************)
(* One experimental gateway (managed OAuth upstreams), its key, and the    *)
(* generation requests that go through it.                                 *)
(*                                                                         *)
(* A request authenticates against the key and gateway rows, is counted in *)
(* the key row, takes a concurrency slot in Redis, plans its route from    *)
(* the upstreams it read when it authenticated, and tries them one by one  *)
(* until the first byte has been written.  Administrators edit, revoke and *)
(* delete the key and the gateway meanwhile; Redis may be unreachable and  *)
(* a server process may die.                                               *)
(*                                                                         *)
(* Time is counted down: every timer holds what is left of it.  It passes  *)
(* while upstreams work; the steps between two calls take none.            *)
(***************************************************************************)
EXTENDS Integers, FiniteSets

CONSTANTS
  Requests,     \* generation requests, each handled once
  Servers,      \* gateway processes
  Home,         \* the process that handles a request
  Channels,     \* upstream channels that serve the requested model
  None,         \* no channel
  Quotas,       \* values of quota_month the key may have
  Concurrency,  \* experimentalGatewayLimits: slots of the gateway
  CallTime,     \* longest call of an upstream, its credential included
  SlotTTL,      \* life of a concurrency slot
  CircuitTTL,   \* life of an open circuit
  MaxEvents     \* bound on administrative changes, outages, crashes and
                \* callers that leave, together

ASSUME ConstantsAssumption ==
  /\ IsFiniteSet(Requests) /\ IsFiniteSet(Channels)
  /\ Home \in [Requests -> Servers]
  /\ None \notin Channels
  /\ Quotas \subseteq Nat \ {0}
  /\ {Concurrency, CallTime, SlotTTL, CircuitTTL, MaxEvents} \subseteq Nat

\* A slot outlives every call its request may make: one hour against at most
\* two calls of five minutes for each channel of the model.
ASSUME SlotCoversRequest == 2 * CallTime * Cardinality(Channels) < SlotTTL

VARIABLES
  key,       \* gateway_keys: status, deleted_at, quota_month, requests_used
  gateway,   \* gateways.status
  eligible,  \* upstreams that are enabled and healthy or degraded
  edit,      \* is a key update between its read and its write?
  redis,     \* is Redis reachable?
  slot,      \* Redis: what is left of a request's concurrency slot, 0 without
  circuit,   \* Redis: what is left of a channel's open circuit
  memory,    \* the same in the memory of each process
  req,       \* the requests
  events

rowVars == <<key, gateway, eligible, edit>>
redisVars == <<redis, slot, circuit>>
vars == <<key, gateway, eligible, edit, redis, slot, circuit, memory, req, events>>

EditableStatuses == {"active", "expired"}
KeyStatuses == EditableStatuses \cup {"revoked"}
GatewayStatuses == {"active", "paused", "deleted"}
RequestRecords ==
  [pc : {"new", "authenticated", "reserved", "plan", "next", "call", "stream", "end", "done", "dead"},
   todo : SUBSET Channels,      \* upstreams not tried yet
   chan : Channels \cup {None}, \* upstream being called
   retry : BOOLEAN,             \* may the call be repeated with a fresh credential?
   left : Nat,                  \* what is left of the call
   called : BOOLEAN,            \* has an upstream been called?
   bytes : SUBSET Channels,     \* upstreams whose bytes reached the caller
   rows : Nat,                  \* rows in gateway_request_events
   caller : BOOLEAN]            \* is the caller still there?
Fresh == [pc |-> "new", todo |-> {}, chan |-> None, retry |-> FALSE, left |-> 0,
          called |-> FALSE, bytes |-> {}, rows |-> 0, caller |-> TRUE]

TypeOK ==
  /\ key \in [status : KeyStatuses, deleted : BOOLEAN, quota : Quotas, used : Nat]
  /\ gateway \in GatewayStatuses
  /\ eligible \subseteq Channels
  /\ edit \in BOOLEAN
  /\ redis \in BOOLEAN
  /\ slot \in [Requests -> Nat]
  /\ circuit \in [Channels -> Nat] /\ memory \in [Servers -> [Channels -> Nat]]
  /\ req \in [Requests -> RequestRecords]
  /\ events \in Nat

Init ==
  /\ \E q \in Quotas : key = [status |-> "active", deleted |-> FALSE, quota |-> q, used |-> 0]
  /\ gateway = "active"
  /\ eligible = Channels
  /\ edit = FALSE
  /\ redis = TRUE
  /\ slot = [r \in Requests |-> 0]
  /\ circuit = [c \in Channels |-> 0]
  /\ memory = [s \in Servers |-> [c \in Channels |-> 0]]
  /\ req = [r \in Requests |-> Fresh]
  /\ events = 0

Event == events < MaxEvents /\ events' = events + 1

-----------------------------------------------------------------------------
(* A generation request *)

InState(r, pc) == req[r].pc = pc
Running(r) == req[r].pc \in {"plan", "next", "call", "stream"}
Goto(r, pc) == req' = [req EXCEPT ![r].pc = pc]

\* The locals of the loop over the route, and of the handler, go out of scope.
NoCall(q) == [q EXCEPT !.chan = None, !.retry = FALSE, !.left = 0]
Returned(q, pc) == [NoCall(q) EXCEPT !.pc = pc, !.todo = {}]
Return(r, pc) == req' = [req EXCEPT ![r] = Returned(@, pc)]

\* recordGatewaySuccess and recordGatewayFailure write with the context of the
\* request: the row is lost when the caller has left.
Recorded(q) == IF q.caller THEN q.rows + 1 ELSE q.rows
EndRecorded(r) == req' = [req EXCEPT ![r] = [Returned(@, "end") EXCEPT !.rows = Recorded(req[r])]]

\* AuthenticateGatewayKey: the rows are read, the upstreams with them.
Authenticate(r) ==
  /\ InState(r, "new")
  /\ req' = IF key.status = "active" /\ ~key.deleted /\ gateway = "active"
            THEN [req EXCEPT ![r].pc = "authenticated", ![r].todo = eligible]
            ELSE [req EXCEPT ![r].pc = "done"]
  /\ UNCHANGED <<rowVars, redisVars, memory, events>>

\* The QPS limit, or a failed query.
Refused(r) ==
  /\ InState(r, "authenticated")
  /\ Return(r, "done")
  /\ UNCHANGED <<rowVars, redisVars, memory, events>>

\* Mutant: the quota admits one request more.
MayReserveOneMore(r) == key.status = "active" /\ ~key.deleted /\ key.used <= key.quota

\* The where clause of ReserveGatewayKeyRequest, on the row as it is now.
MayReserve(r) == key.status = "active" /\ ~key.deleted /\ key.used < key.quota

ReserveGatewayKeyRequest(r) ==
  /\ InState(r, "authenticated")
  /\ IF req[r].caller /\ MayReserve(r)
     THEN key' = [key EXCEPT !.used = @ + 1] /\ Goto(r, "reserved")
     ELSE UNCHANGED key /\ Return(r, "done")
  /\ UNCHANGED <<gateway, eligible, edit, redisVars, memory, events>>

Held == {r \in Requests : slot[r] > 0}
\* Mutant: a full gateway admits one request more.
SlotFreeOneMore == Cardinality(Held) <= Concurrency
SlotFree == Cardinality(Held) < Concurrency

\* acquireExperimentalGatewaySlot: closed when Redis does not answer.
AcquireConcurrency(r) ==
  /\ InState(r, "reserved")
  /\ IF redis /\ req[r].caller /\ SlotFree
     THEN slot' = [slot EXCEPT ![r] = SlotTTL] /\ Goto(r, "plan")
     ELSE UNCHANGED slot /\ Return(r, "done")
  /\ UNCHANGED <<rowVars, redis, circuit, memory, events>>

BadPayload(r) ==
  /\ InState(r, "plan")
  /\ Return(r, "end")
  /\ UNCHANGED <<rowVars, redisVars, memory, events>>

\* The memory of the process answers only when Redis does not.
CircuitOpen(s, c) == IF redis THEN circuit[c] > 0 ELSE memory[s][c] > 0

\* availableGatewayCandidates, from the upstreams read at authentication.
PlanRoute(r) ==
  /\ InState(r, "plan")
  /\ LET route == {c \in req[r].todo : ~CircuitOpen(Home[r], c)} IN
     \/ route = {} /\ EndRecorded(r)
     \/ route # {} /\ req' = [req EXCEPT ![r].pc = "next", ![r].todo = route]
  /\ UNCHANGED <<rowVars, redisVars, memory, events>>

\* The loop over the candidates goes on after c.  PlanGatewayRoute sorts them by
\* latency, success rate or cost as they were measured: any order is possible.
RouteAfter(route, c) == route \ {c}

\* gatewayUpstreamAuthorization fails: the upstream is skipped.
SkipUpstream(r) ==
  /\ InState(r, "next")
  /\ \E c \in req[r].todo : req' = [req EXCEPT ![r].todo = RouteAfter(@, c)]
  /\ UNCHANGED <<rowVars, redisVars, memory, events>>

CallUpstream(r) ==
  /\ InState(r, "next") /\ req[r].caller
  /\ \E c \in req[r].todo :
       req' = [req EXCEPT ![r] = [req[r] EXCEPT !.pc = "call", !.chan = c, !.todo = RouteAfter(req[r].todo, c),
                                  !.retry = TRUE, !.left = CallTime, !.called = TRUE]]
  /\ UNCHANGED <<rowVars, redisVars, memory, events>>

\* Mutant: only answered requests are recorded.
AllUpstreamsFailedSilently(r) ==
  /\ InState(r, "next") /\ req[r].todo = {}
  /\ Return(r, "end")
  /\ UNCHANGED <<rowVars, redisVars, memory, events>>

AllUpstreamsFailed(r) ==
  /\ InState(r, "next") /\ req[r].todo = {}
  /\ EndRecorded(r)
  /\ UNCHANGED <<rowVars, redisVars, memory, events>>

\* The usage is recorded, then the body is written.
CallAnswers(r) ==
  /\ InState(r, "call") /\ req[r].caller
  /\ req' = [req EXCEPT ![r] = [Returned(@, "end") EXCEPT !.rows = Recorded(req[r]),
                                                       !.bytes = req[r].bytes \cup {req[r].chan}]]
  /\ UNCHANGED <<rowVars, redisVars, memory, events>>

StreamStarts(r) ==
  /\ InState(r, "call") /\ req[r].caller
  /\ req' = [req EXCEPT ![r].pc = "stream", ![r].bytes = @ \cup {req[r].chan}]
  /\ UNCHANGED <<rowVars, redisVars, memory, events>>

\* At its end or broken: bytes were written, so no other upstream is tried.
StreamEnds(r) ==
  /\ InState(r, "stream")
  /\ EndRecorded(r)
  /\ UNCHANGED <<rowVars, redisVars, memory, events>>

OpenCircuit(r) ==
  /\ circuit' = IF redis THEN [circuit EXCEPT ![req[r].chan] = CircuitTTL] ELSE circuit
  /\ memory' = [memory EXCEPT ![Home[r]] = [@ EXCEPT ![req[r].chan] = CircuitTTL]]

\* A 401 or 403 before the first byte, and the credential could be refreshed.
CallRejected(r) ==
  /\ InState(r, "call") /\ req[r].retry /\ req[r].caller
  /\ req' = [req EXCEPT ![r].retry = FALSE, ![r].left = CallTime]
  /\ UNCHANGED <<rowVars, redisVars, memory, events>>

\* An error before the first byte, a timeout or a caller that left included.
CallFails(r) ==
  /\ InState(r, "call")
  /\ OpenCircuit(r)
  /\ req' = [req EXCEPT ![r] = [NoCall(@) EXCEPT !.pc = "next"]]
  /\ UNCHANGED <<rowVars, redis, slot, events>>

\* The deferred release, with a context of its own.
ReleaseConcurrency(r) ==
  /\ InState(r, "end")
  /\ slot' = IF redis THEN [slot EXCEPT ![r] = 0] ELSE slot
  /\ Return(r, "done")
  /\ UNCHANGED <<rowVars, redis, circuit, memory, events>>

RequestStep(r) ==
  \/ Authenticate(r) \/ Refused(r) \/ ReserveGatewayKeyRequest(r) \/ AcquireConcurrency(r)
  \/ BadPayload(r) \/ PlanRoute(r) \/ SkipUpstream(r) \/ CallUpstream(r) \/ AllUpstreamsFailed(r)
  \/ CallAnswers(r) \/ StreamStarts(r) \/ StreamEnds(r) \/ CallRejected(r) \/ CallFails(r)
  \/ ReleaseConcurrency(r)

-----------------------------------------------------------------------------
(* Administration and the prober *)

requestVars == <<redisVars, memory, req>>

\* UpdateGatewayKeyForOrg reads the row, checks its status and writes later.
EditKeyRead ==
  /\ ~edit /\ edit' = TRUE
  /\ ~key.deleted /\ gateway # "deleted" /\ key.status # "revoked"
  /\ UNCHANGED <<key, gateway, eligible, requestVars, events>>

\* The where clause of the update; it does not look at the status again.
EditKeyAllowed == ~key.deleted /\ gateway # "deleted"

\* The status and the quota written are the ones read, or the ones asked for.
EditKeyWrite ==
  /\ edit /\ edit' = FALSE
  /\ \E status \in EditableStatuses, quota \in Quotas :
       key' = IF EditKeyAllowed THEN [key EXCEPT !.status = status, !.quota = quota] ELSE key
  /\ UNCHANGED <<gateway, eligible, requestVars, events>>

\* One transaction, with the row locked by the select.
BulkUpdateKeys ==
  /\ Event
  /\ ~key.deleted /\ gateway # "deleted" /\ key.status # "revoked"
  /\ \E status \in EditableStatuses : key' = [key EXCEPT !.status = status]
  /\ UNCHANGED <<gateway, eligible, edit, requestVars>>

RevokeKey ==
  /\ Event
  /\ ~key.deleted /\ gateway # "deleted"
  /\ key' = [key EXCEPT !.status = "revoked"]
  /\ UNCHANGED <<gateway, eligible, edit, requestVars>>

DeleteKey ==
  /\ Event
  /\ ~key.deleted
  /\ key' = [key EXCEPT !.status = "revoked", !.deleted = TRUE]
  /\ UNCHANGED <<gateway, eligible, edit, requestVars>>

\* A gateway that becomes deleted takes its active keys with it.
SetGatewayStatus(status) ==
  /\ gateway' = status
  /\ key' = IF status = "deleted" /\ key.status = "active" THEN [key EXCEPT !.status = "revoked"] ELSE key

\* UpdateGatewayForOrg, BulkUpdateGatewaysForOrg, DeleteGatewayForOrg: a status
\* that an update read earlier is one it may write.
UpdateGateway ==
  /\ Event
  /\ gateway # "deleted"
  /\ \E status \in GatewayStatuses : SetGatewayStatus(status)
  /\ UNCHANGED <<eligible, edit, requestVars>>

\* The prober, or an administrator, changes which upstreams are eligible.
UpstreamsChange ==
  /\ Event
  /\ \E e \in SUBSET Channels : eligible' = e
  /\ UNCHANGED <<key, gateway, edit, requestVars>>

-----------------------------------------------------------------------------
(* Faults and time *)

CallerLeaves(r) ==
  /\ Event
  /\ req[r].caller /\ req[r].pc \notin {"new", "done", "dead"}
  /\ req' = [req EXCEPT ![r].caller = FALSE]
  /\ UNCHANGED <<rowVars, redisVars, memory>>

ServerCrash(s) ==
  /\ Event
  /\ req' = [r \in Requests |-> IF Home[r] = s /\ req[r].pc \notin {"new", "done"}
                               THEN Returned(req[r], "dead") ELSE req[r]]
  /\ memory' = [memory EXCEPT ![s] = [c \in Channels |-> 0]]
  /\ UNCHANGED <<rowVars, redisVars>>

RedisFails ==
  /\ Event
  /\ redis /\ redis' = FALSE
  /\ UNCHANGED <<rowVars, slot, circuit, memory, req>>

RedisRecovers ==
  /\ ~redis /\ redis' = TRUE
  /\ UNCHANGED <<rowVars, slot, circuit, memory, req, events>>

\* What is left of a timer one unit later; a slot whose score has passed is
\* removed by the next acquisition and no longer counts.
Down(n) == IF n = 0 THEN 0 ELSE n - 1
\* Mutant: slots are never removed by their score.
NeverAged(n) == n
Aged(n) == Down(n)

\* Time passes while every request with a slot waits for an upstream, and no
\* call goes on after its deadline.
TimePasses ==
  /\ \A r \in Requests : /\ req[r].pc \notin {"plan", "next", "end"}
                         /\ req[r].pc \in {"call", "stream"} => req[r].left > 0
  /\ \/ \E r \in Requests : slot[r] > 0
     \/ \E c \in Channels : circuit[c] > 0 \/ \E s \in Servers : memory[s][c] > 0

Tick ==
  /\ TimePasses
  /\ slot' = [r \in Requests |-> Aged(slot[r])]
  /\ circuit' = [c \in Channels |-> Down(circuit[c])]
  /\ memory' = [s \in Servers |-> [c \in Channels |-> Down(memory[s][c])]]
  /\ req' = [r \in Requests |-> IF req[r].pc \in {"call", "stream"}
                               THEN [req[r] EXCEPT !.left = @ - 1] ELSE req[r]]
  /\ UNCHANGED <<rowVars, redis, events>>

Administer ==
  \/ EditKeyRead \/ EditKeyWrite \/ BulkUpdateKeys \/ RevokeKey \/ DeleteKey
  \/ UpdateGateway \/ UpstreamsChange
Environment ==
  \/ \E r \in Requests : CallerLeaves(r)
  \/ \E s \in Servers : ServerCrash(s)
  \/ RedisFails \/ RedisRecovers \/ Tick
Next == (\E r \in Requests : RequestStep(r)) \/ Administer \/ Environment

\* Handlers keep running, every upstream call ends by its deadline at the
\* latest, and time passes.
Fairness == (\A r \in Requests : WF_vars(RequestStep(r))) /\ WF_vars(Tick)

Spec == Init /\ [][Next]_vars /\ Fairness

-----------------------------------------------------------------------------
(* What must hold *)

\* A request that works on the gateway still has its slot: the hour of the
\* slot (acquireExperimentalGatewaySlot) is not over before the last of the
\* calls, retries with a refreshed credential included.
SlotOutlivesRequest == \A r \in Requests : Running(r) => slot[r] > 0

\* experimentalGatewayLimits: never more requests at work on the gateway than
\* its concurrency, over all processes, Redis outages and crashes included.
ConcurrencyKept == Cardinality({r \in Requests : Running(r)}) <= Concurrency

\* docs/API.md: once a response has started it does not switch upstreams; the
\* caller of one request gets bytes of one upstream.
OneUpstreamAnswers == \A r \in Requests : Cardinality(req[r].bytes) <= 1

\* A request is recorded at most once, and a request that called an upstream
\* is recorded before it ends unless its caller has left.
UsageRecordedOnce ==
  \A r \in Requests :
    /\ req[r].rows <= 1
    /\ req[r].called /\ req[r].caller /\ req[r].pc \in {"end", "done"} => req[r].rows = 1

\* Requests that were counted in the key row and may call, or have called, an
\* upstream.
Admitted(q) == q.called \/ q.pc \in {"reserved", "plan", "next", "call", "stream"}
AdmittedRequests == {r \in Requests : Admitted(req[r])}

\* ReserveGatewayKeyRequest: however the requests of all processes and edits of
\* the quota interleave, a request is admitted only while the requests admitted
\* before it are fewer than the quota of that moment.
QuotaStep ==
  Cardinality(AdmittedRequests') > Cardinality(AdmittedRequests) =>
    Cardinality(AdmittedRequests') <= key.quota
QuotaHolds == [][QuotaStep]_vars

\* A deleted key is final: no edit that was under way, no bulk update and no
\* request changes the row again.
DeletedKeyIsFinal == [][key.deleted => key' = key]_vars

\* store/gateway.go says that revoked gateway keys cannot be edited: a revoked
\* key never becomes usable again.
RevokedKeyStaysRevoked == [][key.status = "revoked" => key'.status = "revoked"]_vars

\* Every request comes to an end, whatever its upstreams do, and its slot is
\* given back for good, also when the release is lost to a Redis outage or to a
\* crash of the process.
RequestsSettle == <>[](\A r \in Requests : req[r].pc \in {"done", "dead"} /\ slot[r] = 0)
=============================================================================
