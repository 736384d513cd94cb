# TokHub: a TLA+ verification project

TokHub manages AI services for teams: it keeps the credentials of AI providers,
relays requests through gateway keys, drives official clients on the users'
machines, and probes public channels to publish their status.  This directory
holds TLA+ modules of the parts of the server whose correctness depends on how
concurrent requests, background workers, remote processes and failures
interleave, the TLC configurations that check them on small instances, and
proofs that TLAPS checks for every value of the constants.

All paths below are relative to the repository.  `PROJECT.json` gives, for each
definition that models code, the lines it translates; the list of hazards, each
with the properties that would catch it; and for each property a mutant of the
model that breaks it.

```
cd tla
tlc -workers 2 -config ClientTasksLive.cfg MCClientTasks     # one run
tlapm ProbesProofs.tla                                       # one proof module
```

## 1. The system

The server is one Go binary (`cmd/tokhub`) that may run as several
processes.  State lives in PostgreSQL (`internal/store`), short-lived state in
Redis, probe tasks in NATS JetStream, and a little in the memory of a process.
Two more programs run on the users' machines and poll the server: the official
client connector (`cmd/tokhub-client-connector`, `internal/clientconnector`) and the
browser connector (`cmd/tokhub-opencli-connector`).

| Component | State | Operations | What is hard |
|---|---|---|---|
| Official-client task queue (`store/client_connectors.go`, `api/client_connector_handlers.go`, `clientconnector/`) | `ai_client_tasks` rows, encrypted prompts and results in Redis, waiting HTTP handlers, claim requests, connector processes | create, sweep, claim under a lease, monitor, complete, cancel, expire, revoke | every call is its own statement: handler, claim, completion, cancellation, maintenance and revocation race for one row; a response may be lost after the claim committed; the prompt must not run twice |
| Official-client account risk (`store/client_connectors.go`) | `ai_client_account_risk`, its copy in `ai_connections.status` | reserve, record result, normalise, pause, resume, confirm identity, revoke | time is read before the row lock; several transactions per request; cooldowns and locks must survive late results |
| OAuth credential refresh (`events/credential_refresh_runtime.go`, `store/connection_auth.go`, `connections/`) | `ai_connections`, `ai_connection_secrets` with a version, a Redis lock that expires, the provider's accepted tokens | sweep, refresh, save under a version, mark reauthorization, reauthorize, validate, delete | rotating refresh tokens, two writers in opposite lock order, an expired lock, a save after a crash |
| Gateway request path (`api/gateway_handlers.go`, `store/gateway.go`, `gateway/`) | `gateway_keys`, `gateways`, concurrency slots and circuits in Redis and in memory, usage rows | authenticate, reserve, acquire slot, plan route, call, refresh and repeat, fall back, stream, record, release | limits across processes, Redis outages, crashes holding a slot, callers that leave, edits that write back what they read |
| Probe runtime and scheduler (`events/probe_runtime.go`) | JetStream messages, the probe slot of each process | publish, deliver, ack, nak, term, redeliver | at-least-once delivery, stale tasks, one slot for three subscriptions |
| Prober and channel status (`prober/`, `store/probe.go`) | `probe_runs`, `probe_results`, `channels.status`, incidents | run a layer, store results, complete, synthesise, apply | a decision is made from results read in several statements while other runs store theirs |
| Connections and quick relay (`store/connections.go`, `api/connection_handlers.go`) | connections, models, idempotency keys, one-time reveals | create, validate, rotate, delete with cascade, quick setup | a verdict recorded after the key it is about was rotated; repeated requests; the cascade into channels, gateways and keys |
| Authorization attempts (`connections/authorization_store.go`, `api/connection_auth_handlers.go`) | single-use transactions bound to user and session, attempt rows, step-up grants | begin, complete, cancel, expire, step-up | a callback that races a cancellation, arrives twice, or brings another account |
| Browser connector (`store/browser_connectors.go`) | its own tasks, leases and results | pair, queue, claim, answer, expire, revoke | a lease that ends puts the task back while its first run still works |
| Pairing and signed requests (`store/client_connectors.go`, `clientconnector/`) | pairing codes, device keys, nonces | pair, sign, verify, remember the nonce | a code or nonce used twice at the same time; clocks that differ |
| Official-client conversations (`store/client_connectors.go`, `api/gateway_handlers.go`) | `ai_client_responses` | answer, continue, delete, expire | two limits on the life of a chain that is continued by several requests |
| Gateway upstream client (`gateway/upstream.go`) | the state of a translation, the caller's stream | translate events, finish, fail | events out of step, streams that break off, errors inside the stream |
| Accounts and sessions (`store/accounts.go`, `auth/`, `store/admin_governance.go`) | users, sessions, mailed tokens, agent tokens | register, log in, reset, change role or status, delete, in bulk | checks and writes in separate statements; the last owner |
| Workspaces (`store/workspace.go`, `store/admin_governance.go`, `store/gateway.go`) | organizations, members, gateways, keys | invite, change, remove, suspend, replan, delete | a role checked in one statement and used in another, while the organization is closed |
| Channels (`store/admin_channels.go`, `store/gateway.go`) | channels, credentials, upstreams of gateways | create, redirect, rotate, disable, delete, attach | upstreams that outlive what they point to |
| Alerts (`store/phase7.go`) | rules, deliveries, notification channels | evaluate, insert, send, record | overlapping evaluations, failed and dropped deliveries |
| Status pages, reports, public site, mail formatting, web console, deployment | mostly read-only queries, single-row edits, rendering | | little that a test does not reach |

How they interact: a gateway request whose key belongs to an official-client
connection reserves its slot in the risk row (ClientRisk), then creates a task
and waits for it (ClientTasks).  A gateway request to managed OAuth upstreams
(Gateway) uses stored credentials and refreshes a rejected one
(CredentialRefresh).  The probe status of a channel (Probes) decides whether a
gateway may route to it (the variable `eligible` of Gateway changes freely),
and the scheduler (ProbeSchedule) decides which probe is run.  Authorization
writes the connections that Connections and CredentialRefresh keep; Accounts,
Tenancy and Channels decide who may use which gateway and what it routes to, and
UpstreamStreams is what happens inside one call of Gateway.  Each pair meets in one
or two values only, so each module leaves its neighbour
free to answer anything it may answer; what one module concludes does not rest
on an assumption about another.

## 2. Modules and their correspondence to the code

### ClientTasks, OnceTask, MCClientTasks, ClientTasksProofs

One connector.  Statements filter on `connector_id`, so rows of two connectors
never meet.  Each SQL statement or transaction, each Redis call and each HTTP
response is an action of its own.

* Handlers: `PutPayload`, the sweep and the insert of `CreateAIClientTask`
  (with the partial unique index as its guard), `waitForAIClientTask` polling
  the row, cancellation on deadline or disconnect, reading the result, cleanup.
* Claims: `ClaimAIClientTask` draws a new lease token; the prompt is loaded and
  deleted; a failed load gives the row back; the answer may be lost.
* Processes: receive, check the time left, run with the lease monitor, store the
  result, complete under the lease.
* Maintenance, revocation of the connector, crashes of servers and processes,
  lost responses, and a clock.

`OnceTask` is the abstract promise: one open task at a time, run at most once,
success only after a run, a final outcome.  `ImplementsOnceTask` says that the
queue implements it, with `Outcome` and `delivered` as refinement mapping.

### ClientRisk (theorems in ConnectorProofs)

The risk row of one connection.  Every operation is one transaction on the
locked row, but a handler makes several and passes a time it read earlier;
`now` of a handler is that time.  `Normalize` is `normalizeAIClientRisk`,
`Record` is `RecordAIClientResult` with its classification of error codes and the
wait that the client asks for (`RateLimitWait`: up to seven days, an hour at least;
identity checks ask for none), the owner pauses and resumes, an identity check runs without a reservation, and
`CopyRisk` writes the copy that was read before.  The model also contains that
pausing, resuming or a late copy takes the connection of a revoked connector out
of `disabled`; no document says that it must stay there, and the connector row
itself stays revoked.

`regressions` counts the transactions that ran with a time older than the window
they found; each may start that window anew and admit as much again, which
`TwiceLimitPerWindow` allows for, so that nothing is exempt from it.  Two
statements of `docs/AI_WEB_AUTH_OPERATIONS.md` are not what the code does, and
the properties say what it does:

* Lines 257 and 258 promise at most 20 requests an hour and 80 in the last 24
  hours.  `normalizeAIClientRisk` (`client_connectors.go:1089-1098`) keeps fixed
  windows, so an hour or a day that straddles two of them sees up to twice that
  many.
* Line 268 says that the first 429 is waited out for `max(Retry-After, 1 hour)`.
  An identity check asks nothing of the risk row; when it fails for an
  unclassified reason meanwhile (`client_connector_handlers.go:452`, the default
  branch at `client_connectors.go:860`), the end of the cooldown becomes five
  minutes from then.  This is finding 2 for a weaker state.

### CredentialRefresh, CredentialRefreshProofs

One OAuth credential.  A transaction takes its two row locks one by one (`rowC`,
`rowS`), in the order of the code: a save locks the secret first, everybody else
the connection first, and PostgreSQL aborts one of two transactions that wait
for each other.  Tokens carry their grant (which login they descend from) and
generation (how often they were rotated); the provider accepts the newest
generation of a grant that was not revoked.  The Redis lock may expire while its
holder works.  `lost` records that a failure destroyed the only good token (a
crash, a lost answer or a deadlock between the exchange and the save); no code
could avoid that, so two properties exclude it.

### Gateway, MCGateway, GatewayProofs

One experimental gateway, one key, requests on several processes.  The stages of
a generation request are the values of `pc`; administrators edit
the key in the two statements of `UpdateGatewayKeyForOrg` (read, then write), in
bulk, revoke and delete.  Redis may be unreachable (its data survives), a process
may die, a caller may leave at any time.  Time passes only while upstreams work.
Facts of the code that the model contains and no property forbids:
`requests_used` is never reset, so `quota_month` acts as a quota for the life of
the key; the quota may be lowered below what was used, hence `QuotaHolds` speaks
of the moment of admission; circuits in memory are ignored when Redis answers; a
caller that leaves in the middle of a call opens the circuit of that upstream for
everybody; a usage row is lost when the caller has left.  `README.md:227`
describes a fallback to all enabled upstreams that the code does not have; the
repository's test for it agrees with the code, so it is not modelled.

### Probes, MCProbes, ProbesProofs

One platform channel.  `PublishTask` is `publishDue`, `Deliver` the callback of a
JetStream subscription with `MaxAckPending(1)`, `AcquireProbeSlot` the slot that
the subscriptions of one process share.  A run is `BeginRun` (target and
`UpsertProbeRun`), `Execute`, then the statements of `persistProbeOutcome`:
results, completion, the three summaries one by one, and the status under the
row lock.  Callers of the API run layers in order without a task.
`SynthesizeStatusWithL3` is translated rule by rule; the result of a layer is
abstracted to the five summaries the rules tell apart.  Facts contained: a task
redelivered after `AckWait` (five minutes) is always older than `MaxAge` (two
minutes) and is terminated; a probe that is cut short is stored as down; an l3
result outranks newer l1 and l2 results whatever its age; incidents of deleted
channels stay open; two processes, or a process and a caller, can leave an older
decision until the next run, which is why `UndisturbedRunDecides` speaks of runs
that nobody disturbs.

Proofs also cover what the runs no longer repeat: one execution per run, removed
channels, results that never go back, manual incidents.

### ProbeSchedule (theorems in ChannelProofs)

The scheduler over a fleet of channels: `PublishDue` is one tick of `publishDue`,
with `scheduledProbeTasks`, `probeLayerDue`, `firstDueProbeLayer` and the cursor
as operators.  Tasks may be lost, the scheduler restarts (its cursor is in
memory), probes on request reset an age, channels come, go and change status.
`EveryChannelIsProbed` bounds how long a due first layer waits.  It speaks of
first layers only: l1 is looked at first, and when about thirty healthy channels
use up every tick, l2 and l3 are not repeated
(`TestProbeSchedulerCadenceCoversCurrentPlatformFleet` covers l1 only).

### Accounts (theorems in AccountProofs)

`AllOperations` are the administrative requests.  Each goes through `Choose`
(the handler admits the actor), `ReadUsers`, `EnsureOwner` and `WriteUsers`,
because these are statements of their own; `HoldsRow` marks the two operations
that lock what they read.  The session epoch of an account counts the events
that must end its sessions.  `access` is what serves in the workspace of a person: any
operator of that workspace may switch gateways and keys on (`RequireUser`,
`OpenGateway`), whoever it belongs to.  The account is not looked at again, neither
by the console (`console_handlers.go:487-528`) nor by `AuthenticateGatewayKey`
(`gateway.go:1288-1304`): what colleagues switch on after a suspension serves until
someone switches it off (`late`), and a key that is inserted while a deactivation
runs survives it (`missed`).  `AccessEndsWithAccount` therefore says that the
deactivation ends what was on before it, not that nothing serves afterwards.  Logins
compare the password in one statement and
insert the session in another; the flag `late` marks the ones that were
overtaken, and `raced` a write that was overtaken by another.

### Tenancy (theorems in AccountProofs)

A console or administrator request (`Wishes`) is admitted on a role, checked and
written in three steps.  `DeactivateInactiveOrgs` and `DeactivateDeletedOrgs` are
the two clean-up helpers; `BulkUpdateAdminOrgPlans` calls the second one, as the
code does.  `late` marks what a request admitted earlier wrote after the
organization was closed.

### Channels (theorems in ChannelProofs)

Platform and private channels with their credential and proof, and the upstreams
of personal and team gateways.  Each transaction is one action; choosing upstreams
and rotating a platform credential read first and write later, and are
overtaken by what happens in between (`ChoicesOvertaken`, `RotationsOvertaken`).

### Alerts (theorems in ChannelProofs)

An evaluation walks through the rules (`EvaluateAlertRule`), inserts deliveries
in later statements and sends them at the end.  `twin` marks a delivery whose
evaluation looked before another one inserted.  `reach` says where a message got:
`sendMail` (`mail.go:31-39`) leaves mail in the outbox when `SMTP_URL` is empty and
still reports "sent", which suppresses the next alert; `SentMeansTold` names this
exception.  `deploy/scripts/preflight.sh:200` warns of an empty `SMTP_URL`.

### Connections (theorems in ConnectionProofs)

Handlers ask the provider about a credential and then write in a transaction
that checks again.  A credential is a value, a version counts rotations, and
`provedBy` remembers which credential a validation used.  `CreateQuickRelay` is
one transaction under the advisory lock of the caller's key; `answers` collects
what callers were given.

### Authorization (theorems in ConnectionProofs)

Attempt rows, the transaction in Redis (taken once, by the session that began),
step-up grants, and finishing requests that exchange the answer, verify the
account and write.

### BrowserConnector (theorems in ConnectorProofs)

A device that runs twice (two claims of it may be under way), waiting handlers,
and the connection's status.  Leases are numbered, so that an overtaken run is
visible.  Prompts are stored in the row itself.

`RevokeAIBrowserConnector` is a transaction of several statements: from its first
statement to its commit (`revocation`) others read the rows as they were, writers of
a row that it changed wait, and it may fail.  `CreateAIBrowserTask` closes what is
overdue, then inserts by a statement that reads the connector's status without a
lock (`browser_connectors.go:328-337`), so a task may be inserted while a revocation
runs, or after it by a statement that read the status before.  Such a task (`late`)
stays open, with its prompt, until its time ends or its handler gives it up, and a
device that was authenticated before the commit may still claim and answer it.
`PromptsEndWithTheirTask` says that no other task is open on a revoked connector.

### ClientDevices, ClientConversations (theorems in ConnectorProofs)

Pairing, and the two checks of a signed request (signature and time, then the
nonce in Redis), with requests lost, delayed and repeated, by devices whose clocks
are ahead by less than, exactly and more than the skew.  The nonce lives exactly as
long as the window in which its request is accepted (`client_connector_handlers.go:632`).
A request that was signed by a clock at the edge of that window, and that a handler
holds between its two checks while the nonce expires, acts again (`held`); this is
the only way, and `SignedRequestActsOnce` says so for every clock.
`docs/releases/v2.0.0-rc.2.md:20` calls nonces one-time without this exception.  Conversations are
rows with an idle and an absolute end; reading a row, extending it and storing
the next one are statements of their own.

### UpstreamStreams (theorems in GatewayProofs)

One answer of a Codex, Gemini, Anthropic or pass-through upstream.  Text and
arguments are counted in fragments with words; white space around the words of a
fragment, or in one that holds nothing else, is remembered as having been there
(`spaced`).  `AsString` is `asString`, which trims (`upstream.go:1836-1843`): the
adapters that translate lose the white space at the joints of fragments and skip
blank ones, so the words of an answer run together although `docs/API.md:413` speaks
of streams that are passed through.  `CompleteAnswerIsWhole` promises the words, and
white space only where an answer is copied.  `BodyTooLong` is the limit of 16 MiB on
a body that is read (lines 128 and 160), which cuts without an error: such an answer
counts as a success, cut where it is copied and empty where it has to be decoded,
except that a Codex body then lacks its completed event and fails.  Requests to
Gemini and Anthropic upstreams pass no tools on.  Calls are known under two names and an index, and a completed
response lists them in any order (`order`).  The caller
collects a stream, a JSON object or an Anthropic message.

### MCAdministration, MCConnectors

These compose components that share no variable.  The constant-valued variable
`focus` names the one that moves, so that a run explores the sum of the instances
and not their product.  Where a component needs two settings (accounts with
mailed tokens or with agent tokens) or three (the risk row with requests, checks and
the owner over a few ticks, with requests that overtake each other, and with one
stream of requests over more than a day) it has as many values of `focus`.

Facts of the code that these modules contain and no property forbids:

* `UpdateAdminUser` writes back the status and role it read; a password set there
  ends no session.  Deleting a user does not delete the personal organization.
* `CreateGateway` and `CreateGatewayKey` look at the organization in a statement
  of their own, so they may write into one that was closed meanwhile.
* A Super-VIP operator may add platform upstreams in another's workspace;
  `ImportPlatformChannels` may bring back a deleted platform channel, and
  `RotatePlatformCredential` may leave a live credential on one.
* `firstNotificationChannel` (`phase7.go:1804`) compares with `sql.ErrNoRows`,
  which pgx does not return, so "no channel" ends an evaluation with an error.
* The expiry that `quickRelayReplayTx` writes is rolled back by the error it
  returns; maintenance writes it later.
* An attempt stays `validating` when the request that finishes it is lost.
* A browser lease that ends puts the prompt back into the queue, so a prompt may
  run twice; `SetAIBrowserConnectionAuthStatus` and a late creation may overwrite
  `disabled` after a revocation, and a failed result may overwrite an owner's
  pause; an error while waiting leaves the task queued until it expires.
* A lost pairing answer leaves an active connector that nobody can use.
* A gateway that a deleted connection paused may be given a new key later; its
  upstreams stay off, so the key routes nothing.
* Deleting an account removes its memberships (`admin_governance.go:990`); Tenancy
  has no deletion of accounts.
* `AIClientResponseForUse` expires a row without scrubbing its session, and
  maintenance scrubs active rows only; a conversation that is being continued
  while it is deleted stores another row.
* Gemini answers that are not streamed always report `stop`; a Gemini body that
  ends cleanly without a finish reason counts as complete; error events inside a
  pass-through stream count as success.  The Codex translation relies on a call
  being announced before its arguments and named the same way in them
  (`TestCodexChatStreamKeepsFunctionItemAndCallOnOneToolIndex`).

## 3. Runs

Each run asks one question.  "Faults" are crashes, lost messages, failed
statements and outages; all bounds are constants of the configuration.

| Run | Instance | Shows |
|---|---|---|
| `tasks_queue` | 2 tasks, 1 process, 1 fault | the queue implements `OnceTask`: one active row, an outcome that is final, whatever handlers, claims and revocation do |
| `tasks_live` | 1 task, 2 processes, 1 fault, fairness | a prompt is delivered at most once, results of refused completions are deleted, the caller is told what happened; the connector is freed, every request is answered, a run whose caller left ends |
| `tasks_disconnect` | violation | see finding 1 |
| `risk_lock` | violation | see finding 2 |
| `refresh` | 1 worker, 1 gateway request, 1 session, 1 fault, 3 versions, 2 grants | a newer authorization is never overwritten nor marked invalid, no conflict throws away the only good token, every due credential settles, a spurious mark heals |
| `gateway` | 2 requests on 2 processes, 2 upstreams, 1 slot, quotas 1 and 2, 1 event | concurrency and quota hold, one usage row, everything settles |
| `gateway_revoked` | violation | see finding 3 |
| `probes` | 2 processes, 1 caller, 2 runs, 2 events | decisions of undisturbed runs, incidents that match, every task is acknowledged or terminated |
| `administration` | 2 people and 2 administrative requests; 2 users, 3 organizations, 1 gateway; 2 channels, 2 gateways; 2 rules, 2 evaluations; 3 channels in the schedule | sessions and access end with the account, the last owner is lost only in a race, owners keep their workspace, suspended organizations are closed, enabled upstreams are usable, alerts are not repeated and "sent" is true, every channel is probed |
| `owner_race` | violation | see finding 4 |
| `org_plan` | violation | see finding 5 |
| `connectors` | 3 connections, 2 callers, 2 relays; 3 attempts, 2 finishing requests; 2 browser tasks, 2 runs of the device; 2 risk handlers; 1 signed request, 2 deliveries; 2 conversation turns; 2 tool calls | cooldowns end and limits hold, verdicts belong to the stored credential, relays are made once and end with their connection, attempts make one connection and keep the account, the newest lease answers, prompts end with their task, signed requests act once, conversations end, complete answers are whole |

Why the bounds are enough for the questions asked:

* Tasks.  The lease is as long as the life of a task, which is `LeaseCoversTask`.  A
  row has one claimant at a time, so two processes give every order of
  claim, loss and second claim; two tasks are what the unique index needs to be
  contested.  The clock passes the end of the task and of the lease.
* Risk.  Two handlers are one late and one early transaction; one stream of
  requests over more than a day crosses the joints of windows.  Windows and limits
  are scaled down together and keep their order (interval < hour < day).
* Refresh.  A worker and a gateway request are the two kinds of refreshers, which
  differ in how they start; two grants make a token old; three versions let a
  save hold, conflict and hold again.
* Gateway.  Two requests and one slot contest the limit, and one of two upstreams
  always remains for a fallback.  `SlotTTL` is the smallest that satisfies
  `SlotCoversRequest`.
* Probes.  Two runs are an older and a newer one; with two processes and a caller
  each order of results, completion, reads and decision occurs.  `MaxAge` 0 and
  `AckWait` 1 are the smallest with `MaxAge < AckWait`.  One event of a person does
  not disable a channel and enable it again; `IncidentsMatch` covers that.
* Accounts, Tenancy, Channels.  A check and a write of one request can only be
  separated by the write of another, so two requests give every overlap; two
  owners can be removed only by two requests.  `MCOperations` and `MCWishes` hold
  every kind of request.
* Alerts.  Two evaluations overlap in every way; three deliveries are an alert, its
  recovery and the next alert.  The four events of the run do not reach a second
  recovery; for that part of `AlertsNotRepeated` the theorem stands alone.
* Schedule.  With three channels the first layers alone can take every tick, which
  is when the cursor matters.
* Devices' clocks are ahead by 1, 3 and 4 ticks against a skew of 3.
* Connections, authorization, browser.  One request that is at the provider and one
  that overtakes it; two credentials, accounts, sessions and leases distinguish
  old from new.
* Devices, conversations.  One request delivered twice; the clock passes the skew,
  the nonce's life, the idle and the absolute end.
* Streams.  Two calls in parts of two make every order of announcements,
  arguments and completion.

Deadlock is not checked: in every model tasks, requests and runs are finite in
number and the system may come to rest.

### Findings

1. `tasks_disconnect`: `README.md:92` says that after the caller disconnects
   TokHub cancels the task lease.  `waitForAIClientTask` polls with the request's
   own context; when the caller leaves while that query runs, the loop returns
   without cancelling and the row stays active until it expires.
   `DisconnectStopsRun` and `ConnectorFreed` show that this ends.
2. `risk_lock`: `docs/AI_WEB_AUTH_OPERATIONS.md:266` says that `security_locked`
   is indefinite.  An identity check looks at no lock, and when it fails for an
   unclassified reason its record replaces the lock by a five-minute cooldown.
3. `gateway_revoked`: `internal/store/gateway.go:970` refuses to edit revoked
   keys, but checks the status it read in an earlier statement and writes the
   status back, so an edit that overlaps a revocation makes the key usable
   again.  A deleted key stays deleted (theorem `DeletionIsFinal`).
4. `owner_race`: `internal/store/admin_governance.go:18` promises that "at least
   one active owner must remain".  The owners are counted in a statement of its
   own that locks none of them, so two administrators who demote or deactivate
   two different owners at the same time leave none.  `OwnerLostOnlyInRace`
   shows that this needs such a race.
5. `org_plan`: `BulkUpdateAdminOrgPlans` calls the clean-up of deleted
   organizations (`deactivateDeletedOrgsRuntimeResourcesTx`) on live ones, while
   the console (`web/src/pages/AdminOrgsPage.tsx:149`) announces a change of plan
   and nothing else.  `BulkDeleteAdminOrgs` does not call it, so gateways of
   organizations that were deleted in bulk stay as they were; authentication
   still refuses them because it looks at the organization.

## 4. Fairness

* ClientTasks (`FairSpec`): handlers, claim requests and processes that are not
  killed take their next step (the poll loop has a deadline, HTTP calls have
  timeouts), maintenance fires every minute, time passes.  Nothing is assumed of
  callers, of the official client or of the owner.
* CredentialRefresh: the sweep comes round every interval, a refresher or session
  in a transaction goes on or is aborted, the lock expires by its TTL.
* Gateway: handlers go on, calls end by their deadline, time passes.
* Probes: weak fairness of `Progress` as a whole: a worker's step, a delivery or
  the passing of time happens as long as one of them can.  Statements and probes
  have timeouts, JetStream redelivers what is not acknowledged.

The modules of `administration` and `connectors` state safety only and assume no
fairness: what must eventually happen there is done by timers and by people.
`EveryChannelIsProbed` and `ConversationsEnd` are bounds, not promises under
fairness.

No fairness is assumed for faults, administrators or providers that answer well,
and strong fairness nowhere.

## 5. Proofs

The proofs hold for any sets of tasks, processes, requests, upstreams, callers
and runs, and any durations that satisfy the named assumptions.

* `ClientTasksProofs`.  `TypeCorrect`, `OneActiveTask`, `FinalOutcomes`, and
  `DeliveredOnce` from the hypothesis `LeaseCoversTask`.  "Delivered at most
  once" is not inductive: the invariant relates the row, its lease token and
  whoever holds the token.  A claimed row whose prompt was read has either a
  lease that lasts as long as the task, so that nobody claims it again, or is
  closed; tokens are never drawn twice, so a session or process with an old
  token cannot touch the row.  `LeaseCoversTask` holds for task timeouts of one
  to five minutes, the default of three included.  It fails below a minute, where an
  identity check outlives its lease.  It also fails between five and ten
  minutes, which `internal/api/config.go:126` accepts:
  `ClaimAIClientTask` (`client_connectors.go:407`) replaces a lease above five
  minutes by two, and a prompt may then reach a second process.
  `RefusedResultsGone` rests on `OneHolder` (a lease token is held by one session,
  claim or process at a time) and `ResultsHeld` (a result nobody completed has a
  holder that will complete it or delete it).  `AnswersAreHonest` needs that a process that
  holds a task has its prompt, that only such a process completes a row, and that a
  handler fetches the result of a completed row only.  `QueueImplementsOnceTask` is the refinement: the initial
  states map to initial states, and every action maps to a step of `OnceTask` or a
  stutter; it needs `DeliveryInv` for "run at most once" and `HeldDelivered` (who
  runs or completes a task had its prompt delivered) for "success only after a run",
  and so has the same hypothesis.
* `CredentialRefreshProofs`.  `CredentialTypes`, `ReauthIsJustified`,
  `ConflictIsHarmless`, `NewestAuthorizationIsKept`.  The invariant says what
  each party may know: the provider accepts one token per grant and never one
  behind a token that somebody holds (`OnePerGrant`, `NotAhead`), a refresher
  that read the current version read the current token (`Seen`), what it got for
  it is the token the provider accepts (`InHand`), a refusal is of a token that
  is refused (`Refused`), and a login in progress is a grant nobody else has seen.
  Row locks tie the two halves of a transaction together.
* `GatewayProofs`.  `GatewayTypes`, `SlotsOutliveRequests`, `ConcurrencyIsKept`,
  `OneUpstream`, `UsageIsRecordedOnce`, `QuotaIsKept`, `DeletionIsFinal`.  The
  central invariant (`Covered`) bounds what a request may still take: its slot
  lasts longer than the rest of the call, its repetition and two calls for every
  upstream left on the route.  It starts with the assumption
  `SlotCoversRequest`: twice the time of a call for every upstream is less than
  the life of a slot.  One hour against calls of five minutes gives five managed
  upstreams of one model; with six that all hang, a slot may expire under its
  request.  Concurrency follows because every running request holds a slot and
  held slots never exceed the limit; the quota because admitted requests never
  outnumber `requests_used`.

  The module also proves `StreamTypesHold` and `AnswersAreWhole` about
  UpstreamStreams, for any number of tool calls and parts.  An index belongs to one
  call under both of its names, the indexes in use are those below `next`, which is
  the number of calls that were announced, and what the caller collected at an index
  is a beginning of what the upstream said of that call, all of it once it is closed;
  a blank fragment changes neither side, and white space is compared only between an
  upstream and a caller to whom it is copied.
  Of the order in which a completed response lists the calls only this matters, that
  it names each call once.
* `ProbesProofs`.  `TypeCorrect`, `RunsExecutedOnce`, `UndisturbedDecides`,
  `IncidentsMatch`, `RemovedStays`, `ResultsNeverOlder`, `ManualIncidentsKept`.
  `RunsApart` makes the first safety theorem inductive: no two workers have the
  same run, a queued task has no worker, and a caller's run has no task; the
  assumption `AckWaitExceedsMaxAge` enters where a task is delivered again, which
  is then stale.  `UndisturbedDecides` rests on `SeenOK` (what an undisturbed
  worker has read so far is what the table holds) and on `Extends` (a row is only
  added to, and a finished one keeps its layer and start), which also gives
  `ResultsNeverOlder`.  That a latest run exists comes from the well-foundedness
  of `<` on the naturals.  `IncidentsMatch` needs that a manual incident counts
  as touched by hand.

* `ConnectorProofs`.
  * Browser connector: `BrowserTypesHold`, `AnswersComeFromTheNewestLease`,
    `PromptsGoWithTheirTask`.  Leases of a task are numbered upwards, a run never
    holds a lease above the row's and two runs never the same one (`RunSound`,
    `LeasesApart`), also when a revocation is under way; hence a run that is overtaken holds an older number than the one
    its answer is compared with.
  * Conversations: `ConversationTypesHold`, `ConversationsAreContinuedInTime`.  A
    turn that passed the check carries what it read (`TurnSound`), and every row has
    an end that it inherited (`RowSound`); so the bound holds through any chain.
  * Signed requests: `DeviceTypesHold`, `ReplaysDoNotAct`.  A request that has acted
    left a nonce that outlives every later check of its time stamp (`RequestSound`),
    unless a handler held it meanwhile, and a handler between its two checks is late
    by the gap at most (`VerifierSound`).  Nothing is assumed of the clocks; a clock
    that is ahead by less than the skew minus that gap excludes the held handler.
  * Account risk: `RiskTypesHold`, `CooldownsEnd`, `TwiceTheLimitAtMost`.  A cooldown
    that is written starts at a time which the clock has reached, and a client's wish
    is bounded (`MaxRetryAfter`).  The third theorem
    needs an invariant about counting (`CountsTrue`): a counter is at least the
    number of requests admitted since its window began, and of the earlier ones no
    interval of that length holds more than twice the limit, nor more than the limit
    when it reaches into the present window; each transaction that moves a window back
    adds to `regressions` what this may cost.
* `ConnectionProofs`.
  * Connections: `ConnectionsInvariant`, `ConnectionTypesHold`,
    `ValidationSpeaksForItsSecret`, `RetriesMakeOneRelay`, `DeletionCutsOff`.  A
    validation that is under way knows the secret of its version as long as the
    version is current (`ValidatorSound`); a retry key that was used asked for one
    thing and every answer given for it is the same (`Used`), and two keys never
    share a relay (`RelaysApart`).
  * Authorization: `AttemptsInvariant`, `AuthorizationTypesHold`,
    `OneConnectionForAnAttempt`, `AccountsAreKept`.  A transaction that was taken has
    one finishing request, in the session that began (`FinisherSound`,
    `FinishersApart`), and the attempt has not been completed until that request
    writes; the account it writes is the one the target was made for (`Identified`).
* `AccountProofs`.
  * Accounts: `AccountsInvariant`, `AccountTypesHold`, `SessionsEnd`, `AccessEnds`,
    `OwnersLostInRacesOnly`.  The invariant says for each step of a request what it
    still knows of the accounts it read (`ReadSound`, `CountSound`):
    as long as nothing overtook it, the other owner it counted is still there; and what
    is open serves for an active person, because every deactivation closes whatever was
    inserted before its statements.
  * Workspaces: `TenancyInvariant`, `TenancyTypesHold`, `SuspensionCloses`, and the
    action property `OwnersAreKept`.  What is on in a suspended organization is marked
    late (`GatewaySound`, `KeySound`), and the person a workspace belongs to is a
    member with the role of owner until the organization ends (`OwnerSound`).
* `ChannelProofs`.
  * Channels: `ChannelsInvariant`, `ChannelTypesHold`, `UpstreamsAreUsable`.  The
    property speaks of upstreams that are on; inductive it becomes when it covers the
    channels a gateway is about to list as well (`Trusted` implies `Usable`), less
    those that were overtaken since they were chosen, and when a healthy channel is
    known to be proven.
  * Alerts: `AlertsInvariant`, `AlertTypesHold`, `AlertsRepeatInRacesOnly`,
    `SentIsTold`.  An evaluation that has looked at a rule may rely on what it saw
    (`LookSound`) or is overtaken, and a delivery inserted by an overtaken evaluation
    is marked.  Deliveries are ordered by their insertion; the latest one of a rule is
    found by the well-foundedness of `<`.
  * Schedule: `ScheduleInvariant`, `ScheduleTypesHold`, `NoChannelIsLeftOut`, for any
    number of channels and any intervals.  What a channel has waited (`late`) and will
    have to wait (`Rest`: its turn from the cursor on, or a whole round as long as some
    layer is missing) stays within a `Budget`, which has a round for each interference
    and one more, a tick for each layer that was run or is about to be (`Taken`), and
    one for each lost task.  At a tick either a missing layer is published, and `Taken`
    grows, or the turn of every channel that is passed over comes closer
    (`TurnComesCloser`).

The modules' assumptions on their constants say that the sets of identifiers that a
definition chooses from are not empty (connections, signed requests), that limits
and durations are positive where the code's are, that a version above zero exists,
and that the outcomes of a risk record are the failures the code tells apart or
"ok".  TLC evaluates all of them in the runs.  `LeaseCoversTask` is a
hypothesis of two theorems and no assumption of the model.

Only model-checked:

* all liveness (`ConnectorFreed`, `HandlerReturns`, `DisconnectStopsRun`,
  `RefreshSettles`, `SpuriousReauthHeals`, `RequestsSettle`, `TasksSettle`), which is
  beyond this prover.

Every module that models code states its type invariant (`TypeOK`, or the module's
name before it), and each of these is a theorem.

## 6. Not modelled, and why

Besides the components that `PROJECT.json` lists as not modelled:

* the provider gate (slots and rate of one process) only delays a refresh;
* DeepSeek web tokens have no refresh, so CredentialRefresh does not apply;
* the QPS window of the gateway appears as a refusal that may happen;
* the mock upstream and the model listing of the gateway; the adaptation of
  requests and the fields of provider wire formats;
* snapshots, scores and latencies of probes: nothing reads them back into a
  decision; the steps of an l1 probe are one outcome;
* status pages, reports and recommendations: renderings of stored rows;
* partner sites of the OpenAPI, system settings, tags and audit listings:
  single-row edits;
* `UpdateAdminUserRole`, `UpdateAdminOrgPlan` and `CompleteAIAuthorizationAttempt`,
  which nothing calls;
* cryptography: a ciphertext is the value it protects.

A single SQL statement is one step, and PostgreSQL runs at READ COMMITTED.

Hazards that were looked at and have no property: a save that fails after the
provider has rotated the token (nothing in the code prevents the loss); a risk
result that is lost when the caller leaves (it only makes the limits more
lenient); a deletion that revokes the bundle it read before a rotation (the
documentation only says that revocation is attempted); a probe that is cut short
and stored as down; l2 and l3 starving behind l1.  The models contain these
steps.

## 7. Plan

Every safety property of the passing runs is a theorem.  What is left is a
composition of Gateway with ClientRisk and ClientTasks for official-client keys: an
admitted request consumes one reservation and one task.
