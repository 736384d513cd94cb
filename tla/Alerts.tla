------------------------------- MODULE Alerts -------------------------------
(***************************************************************************)
(* Alert rules, notification channels and the deliveries an evaluation     *)
(* makes, for one scope (the platform or one workspace).                   *)
(*                                                                         *)
(* An evaluation runs inside the request of whoever asks for it, and       *)
(* several may run at once.  It goes through the enabled rules: for each   *)
(* one it looks at the condition and at the deliveries made before, and    *)
(* inserts a delivery in a later statement; only when all rules are done   *)
(* are the inserted deliveries sent.                                       *)
(***************************************************************************)
EXTENDS Naturals, Sequences, FiniteSets

CONSTANTS
  Rules,          \* alert rule ids
  DefaultRules,   \* the ones EnsureDefaultAlertConfig creates
  FailureRules,   \* rules of kind l3_consecutive_failures
  MaxNotes,       \* notification channels are 1 .. MaxNotes, in the order of their creation
  Evaluators,     \* requests that evaluate alerts
  NoRule,         \* no rule
  SMTPURL,        \* SMTP_URL, empty by default
  MaxDeliveries,  \* bound on the rows of alert_deliveries
  MaxAlertEvents  \* bound on the requests and on the changes around them

ASSUME AlertsAssumption ==
  /\ DefaultRules \subseteq Rules /\ FailureRules \subseteq Rules /\ NoRule \notin Rules
  /\ SMTPURL \in STRING
  /\ MaxNotes \in Nat \ {0} /\ MaxDeliveries \in Nat /\ MaxAlertEvents \in Nat

Notes == 1 .. MaxNotes

VARIABLES
  configured,  \* the row of alert_config_states
  rule,        \* alert_rules
  note,        \* notification_channels
  preferred,   \* orgs.default_notification_channel_id, 0 for none
  patching,    \* what a patch of a notification channel has read
  firing,      \* whether the condition of a rule holds
  routed,      \* whether the failing channels are enabled upstreams
  delivery,    \* alert_deliveries, in the order of created_at
  evaluation,  \* evaluations in flight
  alertEvents

alertVars == <<configured, rule, note, preferred, patching, firing, routed, delivery, evaluation, alertEvents>>

\* recent: within the rule's dedupe window.  reach: how far the message
\* came, to its target or, as the row says, to the local outbox.
\* twin: another evaluation inserted for the rule after this one had looked
\* (history).  dropped: the request that should have sent it ended early (history).
Deliveries == [rule : Rules \cup {NoRule}, note : Notes,
               status : {"sent", "suppressed", "recovered", "test", "failed"},
               recent : BOOLEAN, reach : {"nobody", "outbox", "target"},
               twin : BOOLEAN, dropped : BOOLEAN]

\* kind: mail, or a message to a web hook ("webhook", "feishu").
NoteKinds == {"mail", "hook"}
NoteTargets == {"none", "plain", "sealed"}
NoteRows == [state : {"none", "on", "off", "deleted"}, kind : NoteKinds, target : NoteTargets]
PatchRows == [kind : NoteKinds, target : NoteTargets]
NoNote == [state |-> "none", kind |-> "mail", target |-> "none"]
NoPatch == [kind |-> "mail", target |-> "none"]

Evaluations == [pc : {"idle", "rules", "triggered", "recovered", "deliver"}, todo : SUBSET Rules,
                rule : Rules \cup {NoRule}, recent : BOOLEAN, overtaken : BOOLEAN,
                out : SUBSET (1 .. MaxDeliveries)]
NoEvaluation == [pc |-> "idle", todo |-> {}, rule |-> NoRule, recent |-> FALSE,
                 overtaken |-> FALSE, out |-> {}]

AlertsTypeOK ==
  /\ configured \in BOOLEAN /\ routed \in BOOLEAN
  /\ rule \in [Rules -> {"none", "on", "off", "deleted"}]
  /\ note \in [Notes -> NoteRows]
  /\ preferred \in 0 .. MaxNotes
  /\ patching \in [Notes -> PatchRows]
  /\ firing \in [Rules -> BOOLEAN]
  /\ delivery \in Seq(Deliveries) /\ Len(delivery) <= MaxDeliveries
  /\ evaluation \in [Evaluators -> Evaluations]
  /\ alertEvents \in 0 .. MaxAlertEvents

AlertsInit ==
  /\ configured = FALSE /\ routed = TRUE
  /\ rule = [r \in Rules |-> "none"]
  /\ note = [n \in Notes |-> NoNote]
  /\ preferred = 0
  /\ patching = [n \in Notes |-> NoPatch]
  /\ firing = [r \in Rules |-> FALSE]
  /\ delivery = <<>>
  /\ evaluation = [e \in Evaluators |-> NoEvaluation]
  /\ alertEvents = 0

AlertEvent == alertEvents < MaxAlertEvents /\ alertEvents' = alertEvents + 1

-----------------------------------------------------------------------------
(* Rules and notification channels. *)

\* EnsureDefaultAlertConfig: the defaults come once, whatever happens to them later;
\* the mail channel keeps its target in the clear until the next backfill.
WithDefaults ==
  /\ configured' = TRUE
  /\ rule' = [r \in Rules |-> IF ~configured /\ r \in DefaultRules /\ rule[r] = "none" THEN "on" ELSE rule[r]]
  /\ note' = IF ~configured /\ note[1].state = "none"
             THEN [note EXCEPT ![1] = [state |-> "on", kind |-> "mail", target |-> "plain"]] ELSE note

\* AlertCenter, for the pages that show alerts.
AlertCenter ==
  /\ AlertEvent
  /\ ~configured /\ WithDefaults
  /\ UNCHANGED <<preferred, patching, firing, routed, delivery, evaluation>>

UpsertAlertRule(r) ==
  /\ AlertEvent
  /\ r \notin DefaultRules /\ rule[r] = "none"
  /\ \E s \in {"on", "off"} : rule' = [rule EXCEPT ![r] = s]
  /\ UNCHANGED <<configured, note, preferred, patching, firing, routed, delivery, evaluation>>

\* All the rules named or none.
SetAlertRules(S, s) ==
  /\ AlertEvent
  /\ S # {} /\ \A r \in S : rule[r] \in {"on", "off"}
  /\ rule' = [r \in Rules |-> IF r \in S THEN s ELSE rule[r]]
  /\ UNCHANGED <<configured, note, preferred, patching, firing, routed, delivery, evaluation>>

PatchAlertRule(r, s) == SetAlertRules({r}, s)
DeleteAlertRule(r) == SetAlertRules({r}, "deleted")
BulkUpdateAlertRules(S, s) == SetAlertRules(S, s)
BulkDeleteAlertRules(S) == SetAlertRules(S, "deleted")

\* The handlers, alike for the platform and for a workspace.
CreateConsoleAlertRule(r) == UpsertAlertRule(r)
PatchConsoleAlertRule(r) == \E s \in {"on", "off"} : PatchAlertRule(r, s)
DeleteConsoleAlertRule(r) == DeleteAlertRule(r)
BulkAlertRules(S) == (\E s \in {"on", "off"} : BulkUpdateAlertRules(S, s)) \/ BulkDeleteAlertRules(S)

\* UpsertNotificationChannel: the handler has encrypted the target.
UpsertNotificationChannel(n) ==
  /\ AlertEvent
  /\ n # 1 /\ note[n].state = "none"
  /\ \E s \in {"on", "off"}, k \in NoteKinds :
       note' = [note EXCEPT ![n] = [state |-> s, kind |-> k, target |-> "sealed"]]
  /\ UNCHANGED <<configured, rule, preferred, patching, firing, routed, delivery, evaluation>>

Kept(n) == note[n].state \in {"on", "off"}

\* PatchNotificationChannel reads the type and the target and writes them back unless the
\* request brings a new target, and perhaps with it a new type.
ReadForPatch(n) ==
  /\ AlertEvent
  /\ Kept(n) /\ patching[n] = NoPatch
  /\ patching' = [patching EXCEPT ![n] = [kind |-> note[n].kind, target |-> note[n].target]]
  /\ UNCHANGED <<configured, rule, note, preferred, firing, routed, delivery, evaluation>>

PatchNotificationChannel(n) ==
  /\ patching[n] # NoPatch
  /\ \E s \in {"on", "off"}, p \in {patching[n]} \cup [kind : NoteKinds, target : {"sealed"}] :
       note' = IF Kept(n) THEN [note EXCEPT ![n] = [state |-> s, kind |-> p.kind, target |-> p.target]] ELSE note
  /\ patching' = [patching EXCEPT ![n] = NoPatch]
  /\ UNCHANGED <<configured, rule, preferred, firing, routed, delivery, evaluation, alertEvents>>

BulkUpdateNotificationChannels(S, s) ==
  /\ AlertEvent
  /\ S # {} /\ \A n \in S : Kept(n)
  /\ note' = [n \in Notes |-> IF n \in S THEN [note[n] EXCEPT !.state = s] ELSE note[n]]
  /\ UNCHANGED <<configured, rule, preferred, patching, firing, routed, delivery, evaluation>>

\* No organization keeps a default that does not exist.
BulkDeleteNotificationChannels(S) ==
  /\ AlertEvent
  /\ S # {} /\ \A n \in S : Kept(n)
  /\ note' = [n \in Notes |-> IF n \in S THEN [NoNote EXCEPT !.state = "deleted"] ELSE note[n]]
  /\ preferred' = IF preferred \in S THEN 0 ELSE preferred
  /\ UNCHANGED <<configured, rule, patching, firing, routed, delivery, evaluation>>

DeleteNotificationChannel(n) == BulkDeleteNotificationChannels({n})

\* The handlers.
CreateConsoleNotificationChannel(n) == UpsertNotificationChannel(n)
PatchConsoleNotificationChannel(n) == ReadForPatch(n)
DeleteConsoleNotificationChannel(n) == DeleteNotificationChannel(n)
BulkNotificationChannels(S) ==
  (\E s \in {"on", "off"} : BulkUpdateNotificationChannels(S, s)) \/ BulkDeleteNotificationChannels(S)

\* The workspace settings name an enabled channel (see module Tenancy).
PreferNotificationChannel(n) ==
  /\ AlertEvent
  /\ note[n].state = "on"
  /\ preferred' = n
  /\ UNCHANGED <<configured, rule, note, patching, firing, routed, delivery, evaluation>>

\* backfillNotificationChannelTargets: StoreNotificationChannelEncryptedTarget writes
\* only while the target is still in the clear.
Sealed == [n \in Notes |-> IF note[n].target = "plain" THEN [note[n] EXCEPT !.target = "sealed"] ELSE note[n]]

-----------------------------------------------------------------------------
(* The world around. *)

ConditionChanges(r) ==
  /\ AlertEvent
  /\ firing' = [firing EXCEPT ![r] = ~@]
  /\ UNCHANGED <<configured, rule, note, preferred, patching, routed, delivery, evaluation>>

DedupeWindowPasses ==
  /\ AlertEvent
  /\ \E i \in DOMAIN delivery : delivery[i].recent
  /\ delivery' = [i \in DOMAIN delivery |-> [delivery[i] EXCEPT !.recent = FALSE]]
  /\ UNCHANGED <<configured, rule, note, preferred, patching, firing, routed, evaluation>>

\* Somebody lists the failing channels as upstreams again.
UpstreamsEnabled ==
  /\ AlertEvent
  /\ ~routed /\ routed' = TRUE
  /\ UNCHANGED <<configured, rule, note, preferred, patching, firing, delivery, evaluation>>

-----------------------------------------------------------------------------
(* An evaluation. *)

\* evaluateAdminAlerts, evaluateConsoleAlerts: the enabled rules are read once.
EvaluateAlerts(e) ==
  /\ AlertEvent
  /\ evaluation[e].pc = "idle"
  /\ WithDefaults
  /\ evaluation' = [evaluation EXCEPT ![e] = [NoEvaluation EXCEPT !.pc = "rules",
                                                !.todo = {r \in Rules : rule'[r] = "on"}]]
  /\ UNCHANGED <<preferred, patching, firing, routed, delivery>>

\* The rows a rule's dedupe key finds.
Made(r, s) == {i \in DOMAIN delivery : delivery[i].rule = r /\ delivery[i].status = s}
LastOf(S) == IF S = {} THEN 0 ELSE CHOOSE i \in S : \A j \in S : j <= i

\* Mutant: only the newest delivery of all is looked at.
RecentlySentLast(r) ==
  LastOf(Made(r, "sent")) > 0 /\ LastOf(Made(r, "sent")) = Len(delivery) /\ delivery[Len(delivery)].recent

\* recordTriggeredAlert: a delivery within the dedupe window was sent.
RecentlySent(r) == \E i \in Made(r, "sent") : delivery[i].recent

\* recordRecoveredAlert: the last delivery that was sent has no recovery after it.
AwaitsRecovery(r) == LastOf(Made(r, "sent")) > LastOf(Made(r, "recovered"))

\* evaluateAlertRule and the look at earlier deliveries.  Failing channels are taken
\* out of the gateways before anything is recorded.
EvaluateAlertRule(e, r) ==
  /\ evaluation[e].pc = "rules" /\ r \in evaluation[e].todo
  /\ routed' = (routed /\ ~(firing[r] /\ r \in FailureRules))
  /\ evaluation' = [evaluation EXCEPT ![e] =
       [evaluation[e] EXCEPT !.todo = evaluation[e].todo \ {r}, !.rule = r, !.overtaken = FALSE,
                             !.pc = IF firing[r] THEN "triggered"
                                    ELSE IF AwaitsRecovery(r) THEN "recovered" ELSE "rules",
                             !.recent = firing[r] /\ RecentlySent(r)]]
  /\ UNCHANGED <<configured, rule, note, preferred, patching, firing, delivery, alertEvents>>

EnabledNotes == {n \in Notes : note[n].state = "on"}
FirstNotificationChannel == CHOOSE n \in EnabledNotes : \A m \in EnabledNotes : n <= m

\* The row recordTriggeredAlert or recordRecoveredAlert inserts.
NewDelivery(e) ==
  [rule |-> evaluation[e].rule, note |-> FirstNotificationChannel,
   status |-> IF evaluation[e].pc = "recovered" THEN "recovered"
              ELSE IF evaluation[e].recent THEN "suppressed" ELSE "sent",
   recent |-> TRUE, reach |-> "nobody", twin |-> evaluation[e].overtaken, dropped |-> FALSE]

\* insertAlertDelivery; evaluations that have looked at the same rule are overtaken.
InsertAlertDelivery(e) ==
  /\ evaluation[e].pc \in {"triggered", "recovered"} /\ EnabledNotes # {}
  /\ Len(delivery) < MaxDeliveries
  /\ delivery' = Append(delivery, NewDelivery(e))
  /\ evaluation' = [f \in Evaluators |->
       IF f = e THEN [evaluation[e] EXCEPT !.pc = "rules", !.rule = NoRule, !.recent = FALSE,
                                           !.overtaken = FALSE,
                                           !.out = @ \cup {Len(delivery) + 1}]
       ELSE [evaluation[f] EXCEPT !.overtaken = @ \/ evaluation[f].rule = evaluation[e].rule]]
  /\ UNCHANGED <<configured, rule, note, preferred, patching, firing, routed, alertEvents>>

\* What a request leaves behind when it ends before it has sent everything.
Dropped(S) == [i \in DOMAIN delivery |-> IF i \in S THEN [delivery[i] EXCEPT !.dropped = TRUE] ELSE delivery[i]]

\* firstNotificationChannel compares the error with sql.ErrNoRows, which is not the
\* one pgx returns: without an enabled channel the evaluation ends with an error, and
\* so do the deliveries of the rules before it.  A failed statement or a caller who
\* leaves has the same effect at any point.
EvaluationFails(e) ==
  /\ evaluation[e].pc # "idle"
  /\ delivery' = Dropped(evaluation[e].out)
  /\ evaluation' = [evaluation EXCEPT ![e] = NoEvaluation]
  /\ UNCHANGED <<configured, rule, note, preferred, patching, firing, routed, alertEvents>>

\* All rules are done: the targets are sealed, then the deliveries go out.
StartDelivering(e) ==
  /\ evaluation[e].pc = "rules" /\ evaluation[e].todo = {}
  /\ note' = Sealed
  /\ evaluation' = [evaluation EXCEPT ![e].pc = "deliver"]
  /\ UNCHANGED <<configured, rule, preferred, patching, firing, routed, delivery, alertEvents>>

Sendable(i) == delivery[i].status \in {"sent", "test", "recovered"}

\* sendNotification for an enabled channel that accepts: without SMTP_URL sendMail
\* reports a mail as sent that it only notes in the row.
Transmitted(i) ==
  IF note[delivery[i].note].kind = "mail" /\ SMTPURL = ""
  THEN [delivery[i] EXCEPT !.reach = "outbox"] ELSE [delivery[i] EXCEPT !.reach = "target"]

\* Mutant: a refused message leaves the row as it is.
OutcomesUnrecorded(i) ==
  {delivery[i]} \cup {d \in {Transmitted(i)} : Sendable(i) /\ note[d.note].state = "on"}

\* deliverAlertNotification and sendNotification: an enabled channel may take the
\* message; a refusal, a disabled or a deleted channel makes the row a failure, unless
\* the update of the row fails as well.
Outcomes(i) ==
  IF ~Sendable(i) THEN {delivery[i]}
  ELSE {[delivery[i] EXCEPT !.status = "failed"], [delivery[i] EXCEPT !.dropped = TRUE]}
       \cup {d \in {Transmitted(i)} : note[d.note].state = "on"}

DeliverAlertNotification(e, i) ==
  /\ evaluation[e].pc = "deliver" /\ i \in evaluation[e].out
  /\ \E d \in Outcomes(i) : delivery' = [delivery EXCEPT ![i] = d]
  /\ evaluation' = [evaluation EXCEPT ![e].out = @ \ {i}]
  /\ UNCHANGED <<configured, rule, note, preferred, patching, firing, routed, alertEvents>>

EvaluationEnds(e) ==
  /\ evaluation[e].pc = "deliver" /\ evaluation[e].out = {}
  /\ evaluation' = [evaluation EXCEPT ![e] = NoEvaluation]
  /\ UNCHANGED <<configured, rule, note, preferred, patching, firing, routed, delivery, alertEvents>>

\* testAdminNotificationChannel, testConsoleNotificationChannel: one delivery of no rule.
TestNotificationChannel(e, n) ==
  /\ AlertEvent
  /\ evaluation[e].pc = "idle" /\ Kept(n) /\ Len(delivery) < MaxDeliveries
  /\ delivery' = Append(delivery, [rule |-> NoRule, note |-> n,
                                   status |-> IF note[n].state = "on" THEN "test" ELSE "failed",
                                   recent |-> TRUE, reach |-> "nobody", twin |-> FALSE,
                                   dropped |-> FALSE])
  /\ note' = Sealed
  /\ evaluation' = [evaluation EXCEPT ![e] = [NoEvaluation EXCEPT !.pc = "deliver",
                                                !.out = {Len(delivery) + 1}]]
  /\ UNCHANGED <<configured, rule, preferred, patching, firing, routed>>

AlertsNext ==
  \/ AlertCenter \/ DedupeWindowPasses \/ UpstreamsEnabled
  \/ \E r \in Rules : \/ CreateConsoleAlertRule(r) \/ PatchConsoleAlertRule(r)
                      \/ DeleteConsoleAlertRule(r) \/ ConditionChanges(r)
  \/ \E S \in SUBSET Rules : BulkAlertRules(S)
  \/ \E n \in Notes : \/ CreateConsoleNotificationChannel(n) \/ PatchConsoleNotificationChannel(n)
                      \/ DeleteConsoleNotificationChannel(n)
                      \/ PatchNotificationChannel(n) \/ PreferNotificationChannel(n)
  \/ \E S \in SUBSET Notes : BulkNotificationChannels(S)
  \/ \E e \in Evaluators : \/ EvaluateAlerts(e) \/ InsertAlertDelivery(e) \/ EvaluationFails(e)
                           \/ StartDelivering(e) \/ EvaluationEnds(e)
                           \/ \E r \in Rules : EvaluateAlertRule(e, r)
                           \/ \E i \in 1 .. MaxDeliveries : DeliverAlertNotification(e, i)
                           \/ \E n \in Notes : TestNotificationChannel(e, n)

AlertsSpec == AlertsInit /\ [][AlertsNext]_alertVars

-----------------------------------------------------------------------------
(* Properties. *)

\* Within the dedupe window nobody is told twice of the same rule, and a recovery is
\* announced only after an alert that has not been answered by one: unless two
\* evaluations looked before either inserted (recordTriggeredAlert,
\* recordRecoveredAlert).
AlertsNotRepeated ==
  \A i, j \in DOMAIN delivery : i < j /\ delivery[i].rule = delivery[j].rule /\ ~delivery[j].twin =>
     /\ delivery[i].status = "sent" /\ delivery[j].status = "sent" => ~delivery[i].recent
     /\ delivery[i].status = "recovered" /\ delivery[j].status = "recovered" =>
          \E k \in (i + 1) .. (j - 1) : delivery[k].rule = delivery[j].rule
                                        /\ delivery[k].status \in {"sent", "failed"}

\* A delivery that counts as sent was transmitted, will be by the request that inserted
\* it, or was dropped when that request ended early: a refused message does not suppress
\* the next alert (UpdateAlertDeliverySendResult).  The exception is mail on a server
\* without SMTP_URL: it counts as sent, suppresses the next alert and stays in the outbox.
SentMeansTold ==
  \A i \in DOMAIN delivery : Sendable(i) =>
     \/ delivery[i].reach = "target" \/ delivery[i].dropped
     \/ delivery[i].reach = "outbox" /\ SMTPURL = ""
     \/ \E e \in Evaluators : i \in evaluation[e].out
=============================================================================
