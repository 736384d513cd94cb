----------------------------- MODULE ClientRisk -----------------------------
(***************************************************************************)
(* The account-protection state of one official-client connection: the     *)
(* row of ai_client_account_risk that decides whether a request may reach  *)
(* the user's account, and its copy in ai_connections.status.              *)
(*                                                                         *)
(* Gateway requests reserve a slot, run on the connector, record their     *)
(* outcome and refresh the copy; owners validate, pause, resume and        *)
(* revoke.  Every call is one transaction on the locked row, but a handler *)
(* makes several of them, and reads the time it passes to a transaction    *)
(* before it waits for the row lock.                                       *)
(***************************************************************************)
EXTENDS Integers, FiniteSets, Sequences

CONSTANTS
  Handlers,       \* HTTP handlers serving requests for this connection
  Kinds,          \* what they serve: "generate" (gateway), "validate" (owner)
  Outcomes,       \* the outcomes of a task that the instance exercises
  MinInterval,    \* AIClientMinimumInterval (15 seconds), in ticks
  Hour, Day,      \* lengths of the hourly and daily windows
  HourlyLimit,    \* AIClientHourlyLimit (20)
  DailyLimit,     \* AIClientDailyLimit (80)
  FaultCooldown,  \* cooldown after a timeout or an unclassified error (5 minutes)
  RateCooldown,   \* least cooldown after the first rate limit (one hour)
  MaxRetryAfter,  \* longest Retry-After that sanitizeAIClientResult accepts (7 days)
  MaxTime         \* bound on the clock

ASSUME RiskAssumption ==
  /\ Kinds \subseteq {"generate", "validate"}
  /\ {MinInterval, Hour, Day, HourlyLimit, DailyLimit} \subseteq Nat \ {0}
  /\ {FaultCooldown, RateCooldown} \subseteq Nat \ {0}
  /\ FaultCooldown <= RateCooldown
  /\ MaxRetryAfter \in Nat /\ MaxTime \in Nat

VARIABLES
  risk,        \* the risk row
  connection,  \* ai_connections: status and auth_status; is its model verified?
  connector,   \* ai_client_connectors.status
  handler,     \* per handler: program counter, task kind, time read, outcome, copy to write
  clock,
  admitted,    \* the times under which requests were let through, in order
  regressions  \* how many transactions ran with a time older than a window they found

riskVars == <<risk, connection, connector, handler, clock, admitted, regressions>>

Never == -1  \* a null timestamp
States == {"normal", "cooldown", "paused", "manual_recovery", "reauth_required",
           "security_locked", "policy_locked"}
Locks == {"security_locked", "policy_locked"}
\* Error codes, by the class RecordAIClientResult sorts them into.
Failures == {"timeout", "incomplete", "other", "unauthorized", "security", "policy", "rate_limited"}
ASSUME OutcomesAssumption == Outcomes \subseteq Failures \cup {"ok"}
Idle == [pc |-> "idle", kind |-> "generate", now |-> 0, outcome |-> "ok", copy |-> "normal"]

RiskInit ==
  /\ risk = [state |-> "normal", cooldown |-> Never, hourStart |-> 0, dayStart |-> 0,
             rateStart |-> 0, hour |-> 0, day |-> 0, rate |-> 0, last |-> Never]
  /\ connection = [status |-> "active", auth |-> "active", verified |-> TRUE]
  /\ connector = "active"
  /\ handler = [h \in Handlers |-> Idle]
  /\ clock = 0
  /\ admitted = <<>>
  /\ regressions = 0

-----------------------------------------------------------------------------
\* A window that is over, or that starts in the future, is restarted.
Restarts(start, length, now) == now - start >= length \/ now < start

Cooled(r, now) == r.state = "cooldown" /\ r.cooldown # Never /\ r.cooldown <= now

\* normalizeAIClientRisk
Normalize(r, now) ==
  LET hourOver == Restarts(r.hourStart, Hour, now)
      dayOver == Restarts(r.dayStart, Day, now)
      rateOver == Restarts(r.rateStart, Day, now)
  IN [r EXCEPT !.hourStart = IF hourOver THEN now ELSE @, !.hour = IF hourOver THEN 0 ELSE @,
               !.dayStart = IF dayOver THEN now ELSE @, !.day = IF dayOver THEN 0 ELSE @,
               !.rateStart = IF rateOver THEN now ELSE @, !.rate = IF rateOver THEN 0 ELSE @,
               !.state = IF Cooled(r, now) THEN "normal" ELSE @,
               !.cooldown = IF Cooled(r, now) THEN Never ELSE @]

Regressed(now) ==
  IF now < risk.hourStart \/ now < risk.dayStart THEN regressions + 1 ELSE regressions

\* Mutant: one request too many in a window.
AllowedOneMore(r, now) ==
  /\ r.state = "normal"
  /\ r.last = Never \/ r.last + MinInterval <= now
  /\ r.hour <= HourlyLimit
  /\ r.day <= DailyLimit

\* ReserveAIClientRequest lets the request through.
Allowed(r, now) ==
  /\ r.state = "normal"
  /\ r.last = Never \/ r.last + MinInterval <= now
  /\ r.hour < HourlyLimit
  /\ r.day < DailyLimit

\* What the first rate limit costs when the client asks to wait for so long.
RateLimitWait(wait) == IF wait < RateCooldown THEN RateCooldown ELSE wait

\* Mutant: the cooldown after a fault has no end.
RecordedForgetsUntil(r, outcome, wait, now) ==
  IF outcome = "ok" THEN r ELSE [r EXCEPT !.state = "cooldown"]

\* RecordAIClientResult, on the normalised row.
Recorded(r, outcome, wait, now) ==
  CASE outcome = "ok" ->
         [r EXCEPT !.state = IF @ = "cooldown" THEN "normal" ELSE @,
                   !.cooldown = IF r.state = "cooldown" THEN Never ELSE @]
    [] outcome = "unauthorized" -> [r EXCEPT !.state = "reauth_required", !.cooldown = Never]
    [] outcome = "security" -> [r EXCEPT !.state = "security_locked", !.cooldown = Never]
    [] outcome = "policy" -> [r EXCEPT !.state = "policy_locked", !.cooldown = Never]
    [] outcome = "rate_limited" ->
         [r EXCEPT !.rate = @ + 1,
                   !.state = IF r.rate + 1 >= 2 THEN "manual_recovery" ELSE "cooldown",
                   !.cooldown = IF r.rate + 1 >= 2 THEN Never ELSE now + RateLimitWait(wait)]
    [] OTHER -> [r EXCEPT !.state = "cooldown", !.cooldown = now + FaultCooldown]

\* SetAIClientConnectionRiskState: what ai_connections shows for a risk state.
Shown(state) ==
  [connection EXCEPT !.status = IF state = "normal" THEN "active" ELSE "attention",
                     !.auth = CASE state \in {"normal", "paused"} -> "active"
                                [] state = "reauth_required" -> "reauth_required"
                                [] OTHER -> "attention"]

At(h, pc) == handler' = [handler EXCEPT ![h].pc = pc]
Done(h) == handler' = [handler EXCEPT ![h] = Idle]

(***************************************************************************)
(* Gateway requests (handleOfficialClientGatewayGeneration).               *)
(***************************************************************************)

\* The credential and the connector are usable; the time of the reservation is read.
StartGeneration(h) ==
  /\ "generate" \in Kinds
  /\ handler[h].pc = "idle"
  /\ connection.status \in {"active", "attention"}
  /\ connection.auth \in {"active", "attention"}
  /\ connection.verified
  /\ connector = "active"
  /\ handler' = [handler EXCEPT ![h] = [Idle EXCEPT !.pc = "reserve", !.now = clock]]
  /\ UNCHANGED <<risk, connection, connector, clock, admitted, regressions>>

\* ReserveAIClientRequest: the normalised row is saved whatever the decision.
Reserve(h) ==
  LET now == handler[h].now
      r == Normalize(risk, now)
  IN
  /\ handler[h].pc = "reserve"
  /\ regressions' = Regressed(now)
  /\ IF Allowed(r, now)
       THEN /\ risk' = [r EXCEPT !.hour = @ + 1, !.day = @ + 1, !.last = now]
            /\ admitted' = Append(admitted, now)
            /\ At(h, "create")
       ELSE /\ risk' = r
            /\ Done(h)
            /\ UNCHANGED admitted
  /\ UNCHANGED <<connection, connector, clock>>

\* createEncryptedAIClientTask: the connector takes one task at a time.
CreateTask(h) ==
  /\ handler[h].pc = "create"
  /\ connector = "active"
  /\ \A k \in Handlers : handler[k].pc # "running"
  /\ At(h, "running")
  /\ UNCHANGED <<risk, connection, connector, clock, admitted, regressions>>

\* The connector is busy or revoked, or Redis fails: the slot stays used.
CreateTaskFails(h) ==
  /\ handler[h].pc = "create"
  /\ Done(h)
  /\ UNCHANGED <<risk, connection, connector, clock, admitted, regressions>>

\* waitForAIClientTask returns, and the time of the record is read.  An identity
\* that does not match counts as "security".
FinishTask(h, o) ==
  /\ handler[h].pc = "running"
  /\ handler[h].kind = "validate" => o \notin {"timeout", "incomplete"}
  /\ handler' = [handler EXCEPT ![h].outcome = o, ![h].now = clock,
                  ![h].pc = IF handler[h].kind = "generate" THEN "record"
                            ELSE IF o = "ok" THEN "confirm" ELSE "validation"]
  /\ UNCHANGED <<risk, connection, connector, clock, admitted, regressions>>

\* RecordAIClientResult.  A gateway request passes on how long the client wants to
\* wait.  A timeout and an incomplete answer are not copied to ai_connections, a success
\* is copied as "normal", a failure as the new state.
Record(h) ==
  LET now == handler[h].now
      o == handler[h].outcome
  IN
  /\ handler[h].pc = "record"
  /\ regressions' = Regressed(now)
  /\ \E wait \in 0..(IF handler[h].kind = "generate" THEN MaxRetryAfter ELSE 0) :
       risk' = Recorded(Normalize(risk, now), o, wait, now)
  /\ IF o \in {"timeout", "incomplete"}
       THEN Done(h)
       ELSE handler' = [handler EXCEPT ![h].pc = "copy",
                                       ![h].copy = IF o = "ok" THEN "normal" ELSE risk'.state]
  /\ UNCHANGED <<connection, connector, clock, admitted>>

\* The caller has left, so the next call runs under a cancelled context and the
\* rest of the handler is skipped; only a timeout is recorded under a context of
\* its own.
CallFails(h) ==
  /\ handler[h].pc \in {"reserve", "record", "copy", "confirm", "validation"}
  /\ handler[h].pc = "record" => handler[h].outcome # "timeout"
  /\ Done(h)
  /\ UNCHANGED <<risk, connection, connector, clock, admitted, regressions>>

\* SetAIClientConnectionRiskState, a statement of its own.
CopyRisk(h) ==
  /\ handler[h].pc = "copy"
  /\ connection' = Shown(handler[h].copy)
  /\ Done(h)
  /\ UNCHANGED <<risk, connector, clock, admitted, regressions>>

(***************************************************************************)
(* The owner: validateAIClientConnection, pause, resume, revoke.           *)
(***************************************************************************)

\* An identity check needs an online connector; it asks nothing of the risk row.
StartValidation(h) ==
  /\ "validate" \in Kinds
  /\ handler[h].pc = "idle"
  /\ connector = "active"
  /\ handler' = [handler EXCEPT ![h] = [Idle EXCEPT !.pc = "create", !.kind = "validate"]]
  /\ UNCHANGED <<risk, connection, connector, clock, admitted, regressions>>

\* ConfirmAIClientIdentity
ConfirmIdentity(h, matched) ==
  LET now == handler[h].now
      n == Normalize(risk, now)
      r == IF matched THEN [n EXCEPT !.state = IF @ = "reauth_required" THEN "paused" ELSE @]
           ELSE [n EXCEPT !.state = "security_locked", !.cooldown = Never]
  IN
  /\ handler[h].pc = "confirm"
  /\ risk' = r
  /\ regressions' = Regressed(now)
  /\ handler' = [handler EXCEPT ![h].pc = "validation", ![h].copy = r.state,
                                ![h].outcome = IF matched THEN "ok" ELSE "mismatch"]
  /\ UNCHANGED <<connection, connector, clock, admitted>>

\* UpdateAIConnectionValidation; a failed check is recorded next.
UpdateValidation(h) ==
  /\ handler[h].pc = "validation"
  /\ connection' = [connection EXCEPT !.status = IF handler[h].outcome = "ok" THEN "active"
                                                 ELSE "attention",
                                      !.verified = (handler[h].outcome = "ok")]
  /\ IF handler[h].outcome \in {"ok", "mismatch"}
       THEN At(h, "copy")
       ELSE handler' = [handler EXCEPT ![h].pc = "record", ![h].now = clock]
  /\ UNCHANGED <<risk, connector, clock, admitted, regressions>>

\* validateAIClientConnection
ValidateAIClientConnection(h) ==
  StartValidation(h) \/ UpdateValidation(h) \/ \E matched \in BOOLEAN : ConfirmIdentity(h, matched)

\* SetAIClientConnectionPaused reads the row as stored, without normalising it.
Pause ==
  /\ risk.state \in {"normal", "paused"}
  /\ risk' = [risk EXCEPT !.state = "paused"]
  /\ connection' = Shown("paused")
  /\ UNCHANGED <<connector, handler, clock, admitted, regressions>>

MayResume == risk.state \in {"normal", "paused", "manual_recovery"}

Resume ==
  /\ MayResume
  /\ risk' = IF risk.state = "normal" THEN risk
             ELSE [risk EXCEPT !.state = "normal", !.rate = 0]
  /\ connection' = Shown("normal")
  /\ UNCHANGED <<connector, handler, clock, admitted, regressions>>

\* setAIClientConnectionPause
SetAIClientConnectionPause == Pause \/ Resume

\* RevokeAIClientConnector, as far as this connection is concerned.
RevokeConnector ==
  /\ connector = "active"
  /\ connector' = "revoked"
  /\ connection' = [connection EXCEPT !.status = "disabled", !.auth = "disabled"]
  /\ UNCHANGED <<risk, handler, clock, admitted, regressions>>

RiskTick ==
  /\ clock < MaxTime
  /\ clock' = clock + 1
  /\ UNCHANGED <<risk, connection, connector, handler, admitted, regressions>>

RiskNext ==
  \/ \E h \in Handlers :
       \/ StartGeneration(h) \/ Reserve(h) \/ CreateTask(h) \/ CreateTaskFails(h)
       \/ \E o \in Outcomes : FinishTask(h, o)
       \/ Record(h) \/ CallFails(h) \/ CopyRisk(h)
       \/ ValidateAIClientConnection(h)
  \/ SetAIClientConnectionPause \/ RevokeConnector
  \/ RiskTick

RiskSpec == RiskInit /\ [][RiskNext]_riskVars
-----------------------------------------------------------------------------
(***************************************************************************)
(* Properties.                                                             *)
(***************************************************************************)

\* Every variable has its type, and the window counters stay within the limits.
RiskTypeOK ==
  /\ risk \in [state : States, cooldown : {Never} \cup Nat, hourStart : Nat, dayStart : Nat,
               rateStart : Nat, hour : 0..HourlyLimit, day : 0..DailyLimit, rate : Nat,
               last : {Never} \cup Nat]
  /\ connection \in [status : {"active", "attention", "disabled"},
                     auth : {"active", "attention", "reauth_required", "disabled"},
                     verified : BOOLEAN]
  /\ connector \in {"active", "revoked"}
  /\ handler \in [Handlers -> [pc : {"idle", "reserve", "create", "running", "record", "copy",
                                      "confirm", "validation"},
                               kind : {"generate", "validate"}, now : Nat,
                               outcome : Failures \cup {"ok", "mismatch"}, copy : States]]
  /\ clock \in Nat
  /\ admitted \in Seq(Nat)
  /\ regressions \in Nat

Within(from, length) == {i \in DOMAIN admitted : admitted[i] \in from..(from + length - 1)}

\* docs/AI_WEB_AUTH_OPERATIONS.md:257-258 promises the plain limits for any hour and
\* for the last 24 hours.  The code does not keep them: its windows are fixed, so an
\* hour or a day that straddles two of them sees up to twice the limit, and no more; a
\* transaction that moves a window back, because it read its time before it waited for
\* the row, costs at most as much again.
TwiceLimitPerWindow ==
  \A from \in 0..MaxTime :
    /\ Cardinality(Within(from, Hour)) <= 2 * (1 + regressions) * HourlyLimit
    /\ Cardinality(Within(from, Day)) <= 2 * (1 + regressions) * DailyLimit

\* "Automatic recovery": a cooldown always has an end, no farther away than an hour or
\* the longest Retry-After; no interleaving of records, checks, pauses and resumes leaves
\* one without.
NoEndlessCooldown ==
  /\ risk.state = "cooldown" <=> risk.cooldown # Never
  /\ risk.cooldown <= clock + RateLimitWait(MaxRetryAfter)

\* "Locked indefinitely, reviewed by an administrator": a security lock stays.
SecurityLockStays ==
  [][risk.state = "security_locked" => risk'.state \in Locks]_riskVars
=============================================================================
