------------------------------ MODULE Accounts ------------------------------
(***************************************************************************)
(* Accounts, sessions, one-time email tokens, agent tokens and the         *)
(* administrators' changes to accounts.                                    *)
(*                                                                         *)
(* PostgreSQL runs at READ COMMITTED: each statement sees what is          *)
(* committed when it starts.  An administrative request is therefore three *)
(* steps: it reads the accounts it is about, it counts the owners that     *)
(* would remain, and it writes.  Only two of the operations lock the row   *)
(* they read.  The statements of the final transaction that follow the     *)
(* update of users (ending sessions, closing gateways) are one step with   *)
(* it, the commit: the rows they write stay locked until then.  Gateways   *)
(* and keys inserted meanwhile are no such rows, and can be missed.        *)
(***************************************************************************)
EXTENDS Naturals, FiniteSets

CONSTANTS
  People,      \* user ids
  Founders,    \* the owners seeded at installation
  Logins,      \* login requests, each with the session it opens
  Admins,      \* requests to the administration interface
  Operations,  \* what administrators ask for (see AllOperations)
  Agents,      \* admin agent tokens
  AgentKeys,   \* idempotency keys that agents send
  Mails,       \* email tokens
  Nobody,      \* no user, no session, no token
  EmailVerificationRequired,  \* the site setting
  MaxEpoch,    \* bound on how often all sessions of a person are ended
  MaxOps       \* bound on the number of administrative requests

Roles == {"owner", "admin", "user"}
\* "disabled" is the other inactive status, and treated like "suspended" throughout.
Statuses == {"active", "suspended"}
SingleKinds == {"edit", "status", "delete"}
BulkKinds == {"bulk_status", "bulk_role", "bulk_delete"}

\* Requests that pass the handlers' validation: single forms name one account,
\* "keep" stands for an empty field of an edit.
AllOperations ==
  {op \in [kind : SingleKinds \cup BulkKinds \cup {"create"}, targets : SUBSET People \ {{}},
           role : Roles \cup {"keep"}, status : Statuses \cup {"keep"}] :
     /\ op.kind \notin BulkKinds => Cardinality(op.targets) = 1
     /\ op.role # "keep" => op.kind \in {"create", "edit", "bulk_role"}
     /\ op.status # "keep" => op.kind \in {"create", "edit", "status", "bulk_status"}
     /\ op.kind \in {"create", "bulk_role"} => op.role # "keep"
     /\ op.kind \in {"create", "status", "bulk_status"} => op.status # "keep"}

ASSUME AccountsAssumption ==
  /\ Founders \subseteq People /\ Founders # {}
  /\ Nobody \notin People \cup Logins \cup Agents
  /\ Operations \subseteq AllOperations
  /\ EmailVerificationRequired \in BOOLEAN
  /\ MaxEpoch \in Nat /\ MaxOps \in Nat

VARIABLES
  account,     \* the users table
  login,       \* login requests and the rows of auth_sessions they insert
  mail,        \* the rows of email_tokens
  agent,       \* the rows of admin_agent_tokens
  agentKeys,   \* the rows of admin_agent_idempotency_keys
  access,      \* whether a gateway and a key of a person's own workspace serve requests
  request,     \* administrative requests in flight
  opsDone,     \* administrative requests so far
  raced        \* history: a request wrote on the strength of outdated reads

accountVars == <<account, login, mail, agent, agentKeys, access, request, opsDone, raced>>

\* epoch counts how often all sessions of the person were ended (history).
AccountRows == [status : {"none", "deleted"} \cup Statuses, role : Roles,
             verified : BOOLEAN, epoch : 0 .. MaxEpoch]

\* late: the row was inserted after the sessions of its login's epoch had ended.
LoginRecords == [pc : {"idle", "checked", "open"}, who : People \cup {Nobody},
                 epoch : 0 .. MaxEpoch, late : BOOLEAN]
NoLogin == [pc |-> "idle", who |-> Nobody, epoch |-> 0, late |-> FALSE]

MailRecords == [state : {"unused", "issued", "spent"}, kind : {"verify", "reset"},
                who : People \cup {Nobody}]
SpentMail == [state |-> "spent", kind |-> "verify", who |-> Nobody]
AgentRecords == [state : {"unused", "live", "revoked"}, by : People \cup {Nobody}]

\* via: the session or agent token that admitted the request.  seen: what the
\* request read.  stale: another request has written since (history).  missed: whose
\* workspaces got a key or a gateway that the statements of the write did not see.
RequestRecords == [pc : {"idle", "admitted", "chosen", "read", "checked"},
                   via : Logins \cup Agents \cup {Nobody}, actor : People \cup {Nobody},
                   kind : SingleKinds \cup BulkKinds \cup {"create", "resume"},
                   targets : SUBSET People, role : Roles \cup {"keep"},
                   status : Statuses \cup {"keep"},
                   seen : [People -> AccountRows], stale : BOOLEAN,
                   missed : SUBSET People]

AccountsTypeOK ==
  /\ account \in [People -> AccountRows]
  /\ login \in [Logins -> LoginRecords]
  /\ mail \in [Mails -> MailRecords]
  /\ agent \in [Agents -> AgentRecords]
  /\ agentKeys \subseteq Agents \X AgentKeys
  /\ access \in [People -> {"closed", "open", "late"}]  \* late: opened for an inactive person
  /\ request \in [Admins -> RequestRecords]
  /\ opsDone \in 0 .. MaxOps
  /\ raced \in BOOLEAN

NoAccount == [status |-> "none", role |-> "user", verified |-> FALSE, epoch |-> 0]
NoRequest == [pc |-> "idle", via |-> Nobody, actor |-> Nobody, kind |-> "resume",
              targets |-> {}, role |-> "keep", status |-> "keep",
              seen |-> [u \in People |-> NoAccount], stale |-> FALSE, missed |-> {}]

AccountsInit ==
  /\ account = [u \in People |-> IF u \in Founders
                  THEN [NoAccount EXCEPT !.status = "active", !.role = "owner", !.verified = TRUE]
                  ELSE NoAccount]
  /\ login = [l \in Logins |-> NoLogin]
  /\ mail = [m \in Mails |-> [state |-> "unused", kind |-> "verify", who |-> Nobody]]
  /\ agent = [a \in Agents |-> [state |-> "unused", by |-> Nobody]]
  /\ agentKeys = {}
  /\ access = [u \in People |-> "closed"]
  /\ request = [r \in Admins |-> NoRequest]
  /\ opsDone = 0
  /\ raced = FALSE

-----------------------------------------------------------------------------
(* Registration, email tokens and sessions. *)

\* register and Service.Register: the account, then its verification token; the
\* second statement may fail and leaves the account without one.
Register(u, m) ==
  /\ account[u].status = "none"
  /\ account' = [account EXCEPT ![u].status = "active", ![u].verified = ~EmailVerificationRequired]
  /\ \/ mail' = mail
     \/ /\ EmailVerificationRequired /\ mail[m].state = "unused"
        /\ mail' = [mail EXCEPT ![m] = [state |-> "issued", kind |-> "verify", who |-> u]]
  /\ UNCHANGED <<login, agent, agentKeys, access, request, opsDone, raced>>

\* CreatePasswordReset: an unknown or inactive address is answered like any other.
CreatePasswordReset(u, m) ==
  /\ account[u].status = "active" /\ mail[m].state = "unused"
  /\ mail' = [mail EXCEPT ![m] = [state |-> "issued", kind |-> "reset", who |-> u]]
  /\ UNCHANGED <<account, login, agent, agentKeys, access, request, opsDone, raced>>

MailExpires(m) ==
  /\ mail[m].state = "issued"
  /\ mail' = [mail EXCEPT ![m] = SpentMail]
  /\ UNCHANGED <<account, login, agent, agentKeys, access, request, opsDone, raced>>

VerifyEmail(m) ==
  /\ mail[m].state = "issued" /\ mail[m].kind = "verify"
  /\ mail' = [mail EXCEPT ![m] = SpentMail]
  /\ account' = [account EXCEPT ![mail[m].who].verified = TRUE]
  /\ UNCHANGED <<login, agent, agentKeys, access, request, opsDone, raced>>

\* Mutant: the update of auth_sessions is forgotten.
SessionsKept(S) == login

\* update auth_sessions set revoked_at ... for all sessions of the people in S.
SessionsEnded(S) ==
  [l \in Logins |-> IF login[l].pc = "open" /\ login[l].who \in S THEN NoLogin ELSE login[l]]

\* A new password ends every session, whoever holds it.
ResetPassword(m) ==
  LET u == mail[m].who
  IN /\ mail[m].state = "issued" /\ mail[m].kind = "reset"
     /\ account[u].epoch < MaxEpoch
     /\ mail' = [mail EXCEPT ![m] = SpentMail]
     /\ account' = [account EXCEPT ![u].epoch = @ + 1]
     /\ login' = SessionsEnded({u})
     /\ UNCHANGED <<agent, agentKeys, access, request, opsDone, raced>>

\* emailVerificationRequiredForUser: plain users need a verified address.
MayEnter(u) ==
  EmailVerificationRequired /\ account[u].role = "user" => account[u].verified

\* Login: read the account, compare the password, demand a verified address of
\* plain users when the site requires it.
Login(l, u) ==
  /\ login[l].pc = "idle" /\ account[u].status = "active"
  /\ MayEnter(u)
  /\ login' = [login EXCEPT ![l] = [pc |-> "checked", who |-> u,
                                    epoch |-> account[u].epoch, late |-> FALSE]]
  /\ UNCHANGED <<account, mail, agent, agentKeys, access, request, opsDone, raced>>

CreateSession(l) ==
  /\ login[l].pc = "checked"
  /\ login' = [login EXCEPT ![l].pc = "open",
                            ![l].late = login[l].epoch # account[login[l].who].epoch]
  /\ UNCHANGED <<account, mail, agent, agentKeys, access, request, opsDone, raced>>

\* Logout, or the session's thirty days are over, or the insert failed.
SessionEnds(l) ==
  /\ login[l].pc # "idle"
  /\ login' = [login EXCEPT ![l] = NoLogin]
  /\ UNCHANGED <<account, mail, agent, agentKeys, access, request, opsDone, raced>>

\* The session authenticates: its row is live and its user is active.
UserBySession(l) == login[l].pc = "open" /\ account[login[l].who].status = "active"

RevokeOtherSessions(l) ==
  /\ UserBySession(l)
  /\ login' = [SessionsEnded({login[l].who}) EXCEPT ![l] = login[l]]
  /\ UNCHANGED <<account, mail, agent, agentKeys, access, request, opsDone, raced>>

-----------------------------------------------------------------------------
(* Agent tokens. *)

CreateAdminAgentToken(l, a) ==
  /\ UserBySession(l) /\ account[login[l].who].role = "owner"
  /\ agent[a].state = "unused"
  /\ agent' = [agent EXCEPT ![a] = [state |-> "live", by |-> login[l].who]]
  /\ UNCHANGED <<account, login, mail, agentKeys, access, request, opsDone, raced>>

RevokeAdminAgentToken(l, a) ==
  /\ UserBySession(l) /\ account[login[l].who].role = "owner"
  /\ agent[a].state = "live"
  /\ agent' = [agent EXCEPT ![a].state = "revoked"]
  /\ UNCHANGED <<account, login, mail, agentKeys, access, request, opsDone, raced>>

\* An agent acts for its creator, who must still be an active administrator.
AuthenticateAdminAgentToken(a) ==
  /\ agent[a].state = "live"
  /\ account[agent[a].by].status = "active"
  /\ account[agent[a].by].role \in {"owner", "admin"}

-----------------------------------------------------------------------------
(* Administrative requests. *)

Admit(r, via) ==
  /\ request[r].pc = "idle" /\ opsDone < MaxOps
  /\ opsDone' = opsDone + 1
  /\ request' = [request EXCEPT ![r] = [NoRequest EXCEPT !.pc = "admitted", !.via = via]]

\* requireAdmin for a request with a session cookie.
RequireAdmin(r, l) ==
  /\ UserBySession(l) /\ account[login[l].who].role \in {"owner", "admin"}
  /\ Admit(r, l)
  /\ UNCHANGED <<account, login, mail, agent, agentKeys, access, raced>>

\* authenticateAdminAgent for a write: the idempotency key is recorded before the
\* request runs, so that a repetition is refused even when the first one failed.
AuthenticateAdminAgent(r, a, k) ==
  /\ AuthenticateAdminAgentToken(a) /\ <<a, k>> \notin agentKeys
  /\ agentKeys' = agentKeys \cup {<<a, k>>}
  /\ Admit(r, a)
  /\ UNCHANGED <<account, login, mail, agent, access, raced>>

\* userFromRequest once more: the handlers ignore its error, so the actor of a
\* request whose session ended in between is nobody.
UserFromRequest(r) ==
  LET via == request[r].via
  IN IF via \in Agents THEN agent[via].by
     ELSE IF UserBySession(via) THEN login[via].who ELSE Nobody

\* A handler decodes one of the operations of its kinds and resolves its actor.
Choose(r, kinds) ==
  /\ request[r].pc = "admitted"
  /\ \E op \in Operations :
       /\ op.kind \in kinds
       /\ request' = [request EXCEPT ![r].pc = "chosen", ![r].actor = UserFromRequest(r),
                     ![r].kind = op.kind, ![r].targets = op.targets,
                     ![r].role = op.role, ![r].status = op.status]
  /\ UNCHANGED <<account, login, mail, agent, agentKeys, access, opsDone, raced>>

PatchAdminUser(r) == Choose(r, {"edit"})
PatchAdminUserStatus(r) == Choose(r, {"status"})
DeleteAdminUserRequest(r) == Choose(r, {"delete"})
BulkAdminUsers(r) == Choose(r, BulkKinds)

\* What a statement about the accounts in S returns.
Seen(S) == [u \in People |-> IF u \in S THEN account[u] ELSE NoAccount]

Exists(u) == account[u].status \in Statuses

\* Row locks: UpdateAdminUserStatus and DeleteAdminUser read "for update".
HoldsRow(q, u) ==
  /\ request[q].pc \in {"read", "checked"} /\ request[q].kind \in {"status", "delete"}
  /\ u \in request[q].targets
RowsFree(r) == \A q \in Admins \ {r} : \A u \in request[r].targets : ~HoldsRow(q, u)

\* What the operation makes of the role and status it read.
NewRole(r, u) == IF request[r].role = "keep" THEN request[r].seen[u].role ELSE request[r].role
NewStatus(r, u) ==
  IF request[r].kind \in {"delete", "bulk_delete"} THEN "deleted"
  ELSE IF request[r].status = "keep" THEN request[r].seen[u].status ELSE request[r].status

Deactivates(r) ==
  \/ request[r].kind \in {"delete", "bulk_delete"}
  \/ request[r].kind \in {"status", "bulk_status"} /\ request[r].status # "active"

\* ErrWorkspaceSelfRoleChange, from the request alone or from what it just read.
\* The comparison is with the resolved actor.
RefusedForSelf(r) ==
  /\ request[r].actor \in request[r].targets
  /\ \/ Deactivates(r)
     \/ request[r].kind = "edit" /\ NewStatus(r, request[r].actor) # "active"

Finished(r) == [request EXCEPT ![r] = NoRequest]

\* The first statement of the operation.
ReadUsers(r) ==
  /\ request[r].pc = "chosen"
  /\ request[r].kind \in {"status", "delete"} => RowsFree(r)
  /\ request' = IF \A u \in request[r].targets : Exists(u)
                THEN [request EXCEPT ![r].pc = "read", ![r].seen = Seen(request[r].targets)]
                ELSE Finished(r)
  /\ UNCHANGED <<account, login, mail, agent, agentKeys, access, opsDone, raced>>

\* Mutant: a change of role is not counted as taking an owner away.
NeedsOtherOwnerToDeactivate(r) ==
  \E u \in request[r].targets :
     /\ request[r].seen[u].role = "owner"
     /\ Deactivates(r) \/ (request[r].kind = "edit" /\ NewStatus(r, u) # "active")

\* The operation takes an owner away, as far as it has read.
NeedsOtherOwner(r) ==
  \E u \in request[r].targets :
     /\ request[r].seen[u].role = "owner"
     /\ request[r].kind \in BulkKinds => request[r].seen[u].status = "active"
     /\ \/ Deactivates(r)
        \/ request[r].kind \in {"edit", "bulk_role"} /\ NewRole(r, u) # "owner"
        \/ request[r].kind = "edit" /\ NewStatus(r, u) # "active"

ActiveOwners == {u \in People : account[u].status = "active" /\ account[u].role = "owner"}

\* ensureAnotherActiveOwner, ensureActiveOwnerOutside: a count in a statement of
\* its own, preceded by the comparison of the target with the actor.
EnsureOwner(r) ==
  /\ request[r].pc = "read"
  /\ request' = IF RefusedForSelf(r)
                     \/ (NeedsOtherOwner(r) /\ ActiveOwners \subseteq request[r].targets)
                THEN Finished(r)
                ELSE [request EXCEPT ![r].pc = "checked", ![r].seen = IF request[r].kind = "edit" THEN @ ELSE Seen({})]
  /\ UNCHANGED <<account, login, mail, agent, agentKeys, access, opsDone, raced>>

\* Mutant: suspension leaves the access of a person as it is.
EndedByDeletion(r) == {u \in request[r].targets : NewStatus(r, u) = "deleted"}

\* The targets whose access the transaction ends with their status.
Ended(r) == {u \in request[r].targets : NewStatus(r, u) # "active" /\ request[r].kind # "bulk_role"}

\* The row an operation leaves.  An edit writes back the role, the status and the
\* verification it read unless the request names new ones.
Written(r, u, verified) ==
  IF request[r].kind = "bulk_role" THEN [account[u] EXCEPT !.role = request[r].role]
  ELSE [account[u] EXCEPT !.status = NewStatus(r, u),
                          !.role = IF request[r].kind = "edit" THEN NewRole(r, u) ELSE @,
                          !.verified = IF request[r].kind = "edit" THEN verified ELSE @,
                          !.epoch = IF u \in Ended(r) THEN @ + 1 ELSE @]

\* The final transaction.  Every row must still be there, or nothing is written.
WriteUsers(r, verified) ==
  /\ request[r].pc = "checked" /\ RowsFree(r)
  /\ \A u \in Ended(r) : account[u].epoch < MaxEpoch
  /\ \/ /\ \E u \in request[r].targets : ~Exists(u)
        /\ request' = Finished(r)
        /\ UNCHANGED <<account, login, access, raced>>
     \/ /\ \A u \in request[r].targets : Exists(u)
        /\ account' = [u \in People |-> IF u \in request[r].targets THEN Written(r, u, verified) ELSE account[u]]
        /\ login' = SessionsEnded(Ended(r))
        /\ access' = [u \in People |-> IF u \notin Ended(r) THEN access[u]
                                       ELSE IF u \in request[r].missed THEN "late" ELSE "closed"]
        /\ raced' = (raced \/ request[r].stale)
        /\ request' = [q \in Admins |-> IF q = r THEN NoRequest
                         ELSE [request[q] EXCEPT !.stale = @ \/ request[q].pc \in {"read", "checked"}]]
  /\ UNCHANGED <<mail, agent, agentKeys, opsDone>>

\* The plan an edit may change, and what that does to gateways, is in module Channels.
UpdateAdminUser(r) ==
  request[r].kind = "edit" /\ \E verified \in BOOLEAN : WriteUsers(r, verified)
UpdateAdminUserStatus(r) == request[r].kind = "status" /\ WriteUsers(r, FALSE)
DeleteAdminUser(r) == request[r].kind = "delete" /\ WriteUsers(r, FALSE)
BulkUpdateAdminUsers(r) == request[r].kind = "bulk_status" /\ WriteUsers(r, FALSE)
BulkUpdateAdminUserRoles(r) == request[r].kind = "bulk_role" /\ WriteUsers(r, FALSE)
BulkDeleteAdminUsers(r) == request[r].kind = "bulk_delete" /\ WriteUsers(r, FALSE)

\* A request that the validation refuses (normalizeAdminUserInput, a name already
\* taken) or whose statement fails has written nothing.
AdminRequestFails(r) ==
  /\ request[r].pc # "idle"
  /\ request' = Finished(r)
  /\ UNCHANGED <<account, login, mail, agent, agentKeys, access, opsDone, raced>>

\* CreateAdminUser: an insert; the workspace follows in statements of its own.
CreateAdminUser(r) ==
  /\ request[r].pc = "admitted"
  /\ \E op \in Operations, u \in People, verified \in BOOLEAN :
       /\ op.kind = "create" /\ op.targets = {u} /\ account[u].status = "none"
       /\ account' = [account EXCEPT ![u] = [status |-> op.status, role |-> op.role,
                                             verified |-> verified, epoch |-> 0]]
  /\ request' = Finished(r)
  /\ UNCHANGED <<login, mail, agent, agentKeys, access, opsDone, raced>>

-----------------------------------------------------------------------------
(* A console request that resumes a gateway or creates one, or a key for it.   *)

\* requireUser and consoleWorkspaceForOperate: any active person may be an operator of
\* the workspace w; neither the account of its owner nor, later, the session is asked for.
RequireUser(r, l, w) ==
  /\ UserBySession(l)
  /\ MayEnter(login[l].who)
  /\ account[w].status # "none"
  /\ request[r].pc = "idle" /\ opsDone < MaxOps
  /\ opsDone' = opsDone + 1
  /\ request' = [request EXCEPT ![r] = [NoRequest EXCEPT !.pc = "checked", !.via = l,
                                          !.actor = login[l].who, !.targets = {w}]]
  /\ UNCHANGED <<account, login, mail, agent, agentKeys, access, raced>>

\* The administrators' writes under way that end the access of w.
Ending(w) == {q \in Admins : request[q].pc = "checked" /\ request[q].kind # "resume" /\ w \in Ended(q)}

\* BulkUpdateGatewaysForOrg, CreateGatewayKey: an inserted row comes before or after the
\* statements of such a write, which sees it or not.
OpenGateway(r) ==
  /\ request[r].pc = "checked" /\ request[r].kind = "resume"
  /\ \E w \in request[r].targets, S \in SUBSET Admins :
       /\ S \subseteq Ending(w)
       /\ access' = [access EXCEPT ![w] = IF account[w].status = "active" THEN "open" ELSE "late"]
       /\ request' = [q \in Admins |-> IF q = r THEN NoRequest
                        ELSE [request[q] EXCEPT !.missed = IF q \in S THEN @ \cup {w} ELSE @]]
  /\ UNCHANGED <<account, login, mail, agent, agentKeys, opsDone, raced>>

-----------------------------------------------------------------------------

AccountsNext ==
  \/ \E u \in People, m \in Mails : Register(u, m) \/ CreatePasswordReset(u, m)
  \/ \E m \in Mails : MailExpires(m) \/ VerifyEmail(m) \/ ResetPassword(m)
  \/ \E l \in Logins, u \in People : Login(l, u)
  \/ \E l \in Logins : CreateSession(l) \/ SessionEnds(l) \/ RevokeOtherSessions(l)
  \/ \E l \in Logins, a \in Agents : CreateAdminAgentToken(l, a) \/ RevokeAdminAgentToken(l, a)
  \/ \E r \in Admins, l \in Logins : RequireAdmin(r, l) \/ \E w \in People : RequireUser(r, l, w)
  \/ \E r \in Admins, a \in Agents, k \in AgentKeys : AuthenticateAdminAgent(r, a, k)
  \/ \E r \in Admins : \/ PatchAdminUser(r) \/ PatchAdminUserStatus(r)
                       \/ DeleteAdminUserRequest(r) \/ BulkAdminUsers(r)
                       \/ ReadUsers(r) \/ EnsureOwner(r)
                       \/ UpdateAdminUser(r) \/ UpdateAdminUserStatus(r) \/ DeleteAdminUser(r)
                       \/ BulkUpdateAdminUsers(r) \/ BulkUpdateAdminUserRoles(r)
                       \/ BulkDeleteAdminUsers(r) \/ CreateAdminUser(r)
                       \/ AdminRequestFails(r) \/ OpenGateway(r)

AccountsSpec == AccountsInit /\ [][AccountsNext]_accountVars

-----------------------------------------------------------------------------
(* Properties. *)

\* Whatever ends the sessions of a person (a new password, suspension, deletion,
\* single or in bulk) ends all that were open: a live session belongs to the
\* present epoch, unless a login that had compared the password before inserted
\* its row afterwards (auth.Service.Login, store.CreateSession).
SessionsEndWithEpoch ==
  \A l \in Logins : login[l].pc = "open" /\ ~login[l].late =>
                       login[l].epoch = account[login[l].who].epoch

\* Whatever had been switched on in the workspace of a person, by whoever, stops with
\* the account: what serves while the account is inactive is a gateway or a key that an
\* operator of the workspace switched on afterwards, or inserted while the transaction
\* ran (deactivateInactiveUsersGatewayAccessTx, deactivateDeletedUsersRuntimeResources).
AccessEndsWithAccount ==
  \A u \in People : access[u] = "open" => account[u].status = "active"

\* ensureAnotherActiveOwner protects the last owner as long as no administrative
\* write happens between the reads and the write of another one.
OwnerLostOnlyInRace == ActiveOwners = {} => raced

\* "at least one active owner must remain" (store/admin_governance.go:18).
OwnerRemains == ActiveOwners # {}
=============================================================================
