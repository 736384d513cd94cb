--------------------------- MODULE Authorization ---------------------------
(***************************************************************************)
(* How one owner authorizes a connection at a provider: a step-up grant    *)
(* for the password, an attempt with its short-lived transaction in Redis, *)
(* and the request that brings the provider's answer back.                 *)
(*                                                                         *)
(* The transaction is bound to the login session that started the attempt  *)
(* and can be taken out once.  The row of the attempt lives in the         *)
(* database and has its own states; a poll of the status, a cancellation   *)
(* and the end of the window reach it while a request is at the provider.  *)
(***************************************************************************)
EXTENDS Naturals, FiniteSets

CONSTANTS
  LoginSessions,  \* login sessions of the owner
  Grants,         \* step-up grants
  Attempts,       \* authorization attempts
  AttemptMethod,  \* "oauth", "deepseek_web_token" or "api_key_guided" for an attempt id
  AuthConns,      \* connections
  ProviderAccounts,      \* accounts at the provider
  NoneAuth,       \* no connection, no account, no session
  Finishers,      \* requests that bring an answer
  MaxAuthEvents   \* bound on the requests and on the windows that end

ASSUME AuthorizationAssumption ==
  /\ AttemptMethod \in [Attempts -> {"oauth", "deepseek_web_token", "api_key_guided"}]
  /\ NoneAuth \notin AuthConns \cup ProviderAccounts \cup LoginSessions
  /\ MaxAuthEvents \in Nat

VARIABLES
  grant,       \* ai-auth:step-up in Redis
  attempt,     \* ai_authorization_attempts
  transaction, \* ai-auth:transaction in Redis: whether it is there
  finishing,   \* requests between taking the transaction and the last write
  account,     \* the account a connection's stored bundle belongs to
  original,    \* ai_connections.auth_method, and the account a connection was made for (history)
  writes,      \* connections written in the name of an attempt (history)
  authEvents

authVars == <<grant, attempt, transaction, finishing, account, original, writes, authEvents>>

NotFinishing == [pc |-> "idle", attempt |-> NoneAuth, session |-> NoneAuth, account |-> NoneAuth]

AuthorizationTypeOK ==
  /\ grant \in [Grants -> [state : {"none", "live", "gone"}, session : LoginSessions \cup {NoneAuth}]]
  /\ attempt \in [Attempts -> [status : {"none", "authorization_pending", "validating", "completed",
                                         "failed", "expired", "cancelled"},
                               session : LoginSessions \cup {NoneAuth},
                               target : AuthConns \cup {NoneAuth}, over : BOOLEAN]]
  /\ transaction \in [Attempts -> BOOLEAN]
  /\ finishing \in [Finishers -> [pc : {"idle", "taken", "exchanging", "writing", "failing"},
                                  attempt : Attempts \cup {NoneAuth},
                                  session : LoginSessions \cup {NoneAuth},
                                  account : ProviderAccounts \cup {NoneAuth}]]
  /\ account \in [AuthConns -> ProviderAccounts \cup {NoneAuth}]
  /\ original \in [AuthConns -> [account : ProviderAccounts \cup {NoneAuth},
                               method : {"none", "oauth", "deepseek_web_token", "api_key_guided"}]]
  /\ writes \in [Attempts -> Nat]
  /\ authEvents \in 0 .. MaxAuthEvents

AuthorizationInit ==
  /\ grant = [k \in Grants |-> [state |-> "none", session |-> NoneAuth]]
  /\ attempt = [a \in Attempts |-> [status |-> "none", session |-> NoneAuth,
                                    target |-> NoneAuth, over |-> FALSE]]
  /\ transaction = [a \in Attempts |-> FALSE]
  /\ finishing = [r \in Finishers |-> NotFinishing]
  /\ account = [c \in AuthConns |-> NoneAuth]
  /\ original = [c \in AuthConns |-> [account |-> NoneAuth, method |-> "none"]]
  /\ writes = [a \in Attempts |-> 0]
  /\ authEvents = 0

AuthEvent == authEvents < MaxAuthEvents /\ authEvents' = authEvents + 1
Pending(a) == attempt[a].status = "authorization_pending"
Undecided(a) == attempt[a].status \in {"authorization_pending", "validating"}

-----------------------------------------------------------------------------
(* Step-up and start. *)

\* stepUpAIConnectionAuth: the password was right.
PutStepUp(k, s) ==
  /\ AuthEvent
  /\ grant[k].state = "none"
  /\ grant' = [grant EXCEPT ![k] = [state |-> "live", session |-> s]]
  /\ UNCHANGED <<attempt, transaction, finishing, account, original, writes>>

\* Ten minutes pass.
StepUpExpires(k) ==
  /\ grant[k].state = "live"
  /\ grant' = [grant EXCEPT ![k].state = "gone"]
  /\ UNCHANGED <<attempt, transaction, finishing, account, original, writes, authEvents>>

\* consumeBoundAuthorizationScript: taken out in one step, by its session only.
ConsumeStepUp(k, s) ==
  /\ grant[k] = [state |-> "live", session |-> s]
  /\ grant' = [grant EXCEPT ![k].state = "gone"]

NeedsStepUp(a) == AttemptMethod[a] # "deepseek_web_token"

\* startAIConnectionAuthorization: the grant is spent first; then the provider's
\* authorization page, the row and the transaction may each fail, and the row stays
\* pending when marking it fails as well.
StartOutcomes == {[row |-> "none", stored |-> FALSE], [row |-> "failed", stored |-> FALSE],
                  [row |-> "authorization_pending", stored |-> FALSE],
                  [row |-> "authorization_pending", stored |-> TRUE]}

StartAuthorization(a, s, target) ==
  /\ AuthEvent
  /\ attempt[a].status = "none"
  /\ target # NoneAuth => account[target] # NoneAuth /\ original[target].method = AttemptMethod[a]
                         /\ AttemptMethod[a] # "api_key_guided"
  /\ IF NeedsStepUp(a) THEN \E k \in Grants : ConsumeStepUp(k, s) ELSE UNCHANGED grant
  /\ \E o \in StartOutcomes :
       /\ attempt' = IF o.row = "none" THEN attempt
                     ELSE [attempt EXCEPT ![a] = [status |-> o.row, session |-> s, target |-> target, over |-> FALSE]]
       /\ transaction' = [transaction EXCEPT ![a] = o.stored]
  /\ UNCHANGED <<finishing, account, original, writes>>

\* The window of an attempt: the row's expires_at and the transaction's life in Redis.
WindowEnds(a) ==
  /\ AuthEvent
  /\ attempt[a].status # "none" /\ ~attempt[a].over
  /\ attempt' = [attempt EXCEPT ![a].over = TRUE]
  /\ transaction' = [transaction EXCEPT ![a] = FALSE]
  /\ UNCHANGED <<grant, finishing, account, original, writes>>

\* AIAuthorizationAttemptForOwner, when the page asks for the status.
PollExpires(a) ==
  /\ Pending(a) /\ attempt[a].over
  /\ attempt' = [attempt EXCEPT ![a].status = "expired"]
  /\ UNCHANGED <<grant, transaction, finishing, account, original, writes, authEvents>>

\* cancelAIConnectionAuthorization: the transaction is taken out, then the row is
\* marked, if that works and it is still pending.
CancelAuthorization(a, s) ==
  /\ AuthEvent
  /\ transaction[a] /\ attempt[a].session = s
  /\ transaction' = [transaction EXCEPT ![a] = FALSE]
  /\ \E marked \in BOOLEAN :
       attempt' = IF marked /\ Pending(a) THEN [attempt EXCEPT ![a].status = "cancelled"] ELSE attempt
  /\ UNCHANGED <<grant, finishing, account, original, writes>>

-----------------------------------------------------------------------------
(* Finishing. *)

\* Mutant: the transaction is not bound to the session.
TakenByAnySession(a, s) == transaction[a]

\* RedisAuthorizationStore.Consume: there, and started by the same session.
Taken(a, s) == transaction[a] /\ attempt[a].session = s

\* completeAIConnectionAuthorization, googleAIAuthorizationCallback, createAIConnection
\* for a guided key: the request that takes the transaction goes on.
ConsumeTransaction(r, a, s) ==
  /\ AuthEvent
  /\ finishing[r].pc = "idle" /\ Taken(a, s)
  /\ transaction' = [transaction EXCEPT ![a] = FALSE]
  /\ finishing' = [finishing EXCEPT ![r] = [NotFinishing EXCEPT !.pc = "taken", !.attempt = a, !.session = s]]
  /\ UNCHANGED <<grant, attempt, account, original, writes>>

\* SetAIAuthorizationValidating; a guided key skips this.  A request that comes too
\* late stops and leaves the row as it is.
MayValidate(a) == AttemptMethod[a] = "api_key_guided" \/ (Pending(a) /\ ~attempt[a].over)

SetValidating(r) ==
  LET a == finishing[r].attempt
  IN /\ finishing[r].pc = "taken"
     /\ attempt' = IF MayValidate(a) /\ AttemptMethod[a] # "api_key_guided"
                   THEN [attempt EXCEPT ![a].status = "validating"] ELSE attempt
     /\ finishing' = [finishing EXCEPT ![r] = IF MayValidate(a) THEN [@ EXCEPT !.pc = "exchanging"] ELSE NotFinishing]
     /\ UNCHANGED <<grant, transaction, account, original, writes, authEvents>>

\* Mutant: any account of the provider will do.
SameIdentityUnchecked(a, acc) == TRUE

\* verifyReauthorizationIdentity: the account that came back is the one of the bundle
\* stored now.
SameIdentity(a, acc) ==
  attempt[a].target # NoneAuth => account[attempt[a].target] = acc

\* adapter.Exchange, the identity check and validateAuthorizedCredentialSet.
Exchange(r, acc) ==
  LET a == finishing[r].attempt
  IN /\ finishing[r].pc = "exchanging"
     /\ finishing' = [finishing EXCEPT ![r].pc = IF SameIdentity(a, acc) THEN "writing" ELSE "failing",
                                       ![r].account = acc]
     /\ UNCHANGED <<grant, attempt, transaction, account, original, writes, authEvents>>

\* The provider denies, the exchange or the validation fails, an adapter is gone.
ExchangeFails(r) ==
  /\ finishing[r].pc \in {"taken", "exchanging"}
  /\ finishing' = [finishing EXCEPT ![r].pc = "failing"]
  /\ UNCHANGED <<grant, attempt, transaction, account, original, writes, authEvents>>

\* completeAIAuthorizationAttemptTx, inside the transaction that writes the connection.
Completes(a) == Undecided(a) /\ ~attempt[a].over

Written(r, c) ==
  LET a == finishing[r].attempt
  IN /\ account' = [account EXCEPT ![c] = finishing[r].account]
     /\ original' = [original EXCEPT ![c] = IF @.account # NoneAuth THEN @
                                        ELSE [account |-> finishing[r].account, method |-> AttemptMethod[a]]]
     /\ writes' = [writes EXCEPT ![a] = @ + 1]
     /\ attempt' = [attempt EXCEPT ![a].status = IF Completes(a) THEN "completed" ELSE @]
     /\ finishing' = [finishing EXCEPT ![r] = NotFinishing]

\* CreateAIConnection for a new account.
CreateAuthorized(r, c) ==
  LET a == finishing[r].attempt
  IN /\ finishing[r].pc = "writing" /\ attempt[a].target = NoneAuth /\ Completes(a)
     /\ original[c].account = NoneAuth /\ \A d \in AuthConns : account[d] # finishing[r].account
     /\ Written(r, c)
     /\ UNCHANGED <<grant, transaction, authEvents>>

\* ReplaceOAuthAIConnectionAuthorization.
ReplaceAuthorized(r) ==
  LET a == finishing[r].attempt
  IN /\ finishing[r].pc = "writing" /\ attempt[a].target # NoneAuth /\ Completes(a)
     /\ account[attempt[a].target] # NoneAuth
     /\ Written(r, attempt[a].target)
     /\ UNCHANGED <<grant, transaction, authEvents>>

\* The write is refused (a duplicate, the limit, a deleted target, an attempt that is
\* no longer open) or fails.
WriteRefused(r) ==
  /\ finishing[r].pc = "writing"
  /\ finishing' = [finishing EXCEPT ![r].pc = "failing"]
  /\ UNCHANGED <<grant, attempt, transaction, account, original, writes, authEvents>>

\* FailAIAuthorizationAttempt.
FailAttempt(r) ==
  LET a == finishing[r].attempt
  IN /\ finishing[r].pc = "failing"
     /\ attempt' = IF Undecided(a) THEN [attempt EXCEPT ![a].status = "failed"] ELSE attempt
     /\ finishing' = [finishing EXCEPT ![r] = NotFinishing]
     /\ UNCHANGED <<grant, transaction, account, original, writes, authEvents>>

\* The process or the caller goes away, or a return that marks nothing: the row stays.
FinisherLost(r) ==
  /\ finishing[r].pc # "idle"
  /\ finishing' = [finishing EXCEPT ![r] = NotFinishing]
  /\ UNCHANGED <<grant, attempt, transaction, account, original, writes, authEvents>>

\* The connection is deleted and its bundle scrubbed (module Connections).
AuthorizedDeleted(c) ==
  /\ AuthEvent
  /\ account[c] # NoneAuth
  /\ account' = [account EXCEPT ![c] = NoneAuth]
  /\ UNCHANGED <<grant, attempt, transaction, finishing, original, writes>>

AuthorizationNext ==
  \/ \E k \in Grants : StepUpExpires(k) \/ \E s \in LoginSessions : PutStepUp(k, s)
  \/ \E a \in Attempts : \/ WindowEnds(a) \/ PollExpires(a)
                         \/ \E s \in LoginSessions : CancelAuthorization(a, s)
  \/ \E a \in Attempts, s \in LoginSessions, c \in AuthConns \cup {NoneAuth} : StartAuthorization(a, s, c)
  \/ \E r \in Finishers :
       \/ SetValidating(r) \/ ExchangeFails(r) \/ ReplaceAuthorized(r) \/ WriteRefused(r)
       \/ FailAttempt(r) \/ FinisherLost(r)
       \/ \E a \in Attempts, s \in LoginSessions : ConsumeTransaction(r, a, s)
       \/ \E acc \in ProviderAccounts : Exchange(r, acc)
       \/ \E c \in AuthConns : CreateAuthorized(r, c)
  \/ \E c \in AuthConns : AuthorizedDeleted(c)

AuthorizationSpec == AuthorizationInit /\ [][AuthorizationNext]_authVars

-----------------------------------------------------------------------------
(* Properties. *)

\* An attempt writes one connection when it is completed and none otherwise: a second
\* answer, an answer after the window, a cancellation or a failed poll in between
\* never leaves a connection behind, and only the session that started it finishes it
\* (consumeBoundAuthorizationScript, completeAIAuthorizationAttemptTx).
AttemptMakesOneConnection ==
  /\ \A a \in Attempts : writes[a] = IF attempt[a].status = "completed" THEN 1 ELSE 0
  /\ \A r \in Finishers : finishing[r].pc # "idle" => finishing[r].session = attempt[finishing[r].attempt].session

\* However often a connection is authorized again, it keeps the account it was made
\* for: its relays never start to use somebody else's quota (verifyReauthorizationIdentity).
ReauthorizationKeepsAccount ==
  \A c \in AuthConns : account[c] \in {NoneAuth, original[c].account}
=============================================================================
