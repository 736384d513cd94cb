---------------------------- MODULE AccountProofs ----------------------------
(***************************************************************************)
(* Proofs about accounts and the administrators who change them, and about *)
(* workspaces, their members, gateways and keys.                           *)
(***************************************************************************)
EXTENDS Accounts, Tenancy, TLAPS

-----------------------------------------------------------------------------
(***************************************************************************)
(* Accounts.                                                               *)
(***************************************************************************)

\* A login is about an account, and a session that is open without being late belongs
\* to the account's present epoch.
LoginSound(l) ==
  login[l].pc # "idle" =>
    /\ login[l].who \in People /\ account[login[l].who].status # "none"
    /\ login[l].pc = "open" /\ ~login[l].late => login[l].epoch = account[login[l].who].epoch

MailSound(m) == mail[m].state = "issued" => mail[m].who \in People /\ account[mail[m].who].status # "none"

\* An administrative request names the role or the status that its kind sets.
Chosen(r) == request[r].kind # "resume" /\ request[r].pc \in {"chosen", "read", "checked"}
FormSound(r) ==
  /\ request[r].pc = "admitted" => request[r].via \in Logins \cup Agents
  /\ request[r].pc \in {"chosen", "read"} => request[r].kind # "resume"
  /\ Chosen(r) => /\ request[r].kind \in SingleKinds \cup BulkKinds
                  /\ request[r].kind \in {"status", "bulk_status"} => request[r].status # "keep"
                  /\ request[r].kind = "bulk_role" => request[r].role # "keep"

\* What it has read, and whether that is still so while nobody else has written.
ReadAccounts(r) == Chosen(r) /\ request[r].pc \in {"read", "checked"}
ReadSound(r) ==
  ReadAccounts(r) =>
    /\ request[r].kind = "edit" => \A u \in request[r].targets : request[r].seen[u].status \in Statuses
    /\ ~request[r].stale =>
         \A u \in request[r].targets :
           /\ Exists(u)
           /\ request[r].pc = "read" \/ request[r].kind = "edit" =>
                account[u].status = request[r].seen[u].status /\ account[u].role = request[r].seen[u].role

\* An owner that the request writes about stays one.
KeepsOwner(r, u) ==
  CASE request[r].kind = "bulk_role" -> request[r].role = "owner"
    [] request[r].kind \in {"status", "bulk_status"} -> request[r].status = "active"
    [] request[r].kind = "edit" -> NewStatus(r, u) = "active" /\ NewRole(r, u) = "owner"
    [] OTHER -> FALSE

\* A request that has counted, while nobody else has written, leaves an owner: one it
\* is not about, or all those it is about.
CountSound(r) ==
  Chosen(r) /\ request[r].pc = "checked" /\ ~request[r].stale =>
    \/ \E u \in ActiveOwners : u \notin request[r].targets
    \/ \A u \in ActiveOwners : KeepsOwner(r, u)

RequestSound(r) == FormSound(r) /\ ReadSound(r) /\ CountSound(r)

AccountsInv ==
  /\ AccountsTypeOK
  /\ \A l \in Logins : LoginSound(l)
  /\ \A m \in Mails : MailSound(m)
  /\ \A r \in Admins : RequestSound(r)
  /\ AccessEndsWithAccount /\ OwnerLostOnlyInRace

\* What all steps but the administrators' writes do to an account: it may begin, and
\* its sessions may end; its status and its role stay.
Calm(u) ==
  account[u].status # "none" => /\ account'[u].status = account[u].status /\ account'[u].role = account[u].role
                                /\ account'[u].epoch \in {account[u].epoch, account[u].epoch + 1}

\* Calm steps keep what is said of the requests that they leave alone, and of the rest.
LEMMA CalmKeeps ==
  ASSUME AccountsInv, AccountsTypeOK', \A u \in People : Calm(u),
         \A l \in Logins : LoginSound(l)' \/ (/\ login'[l] = login[l]
                                              /\ login[l].pc = "open" => account'[login[l].who].epoch = account[login[l].who].epoch),
         \A m \in Mails : MailSound(m)' \/ mail'[m] = mail[m],
         \A r \in Admins : RequestSound(r)' \/ request'[r] = request[r],
         \A u \in People : access'[u] = "open" => access[u] = "open" \/ account'[u].status = "active",
         raced' = raced
  PROVE  AccountsInv'
<1>0. /\ account \in [People -> AccountRows] /\ account' \in [People -> AccountRows]
      /\ login \in [Logins -> LoginRecords] /\ mail \in [Mails -> MailRecords]
      /\ request \in [Admins -> RequestRecords]
  BY DEF AccountsInv, AccountsTypeOK
<1>1. ASSUME NEW l \in Logins
      PROVE  LoginSound(l)'
  BY <1>1 DEF AccountsInv, LoginSound, Calm
<1>2. ASSUME NEW m \in Mails
      PROVE  MailSound(m)'
  BY <1>2 DEF AccountsInv, MailSound, Calm
<1>3. ActiveOwners \subseteq ActiveOwners'
  BY DEF ActiveOwners, Calm
<1>4. ASSUME NEW r \in Admins
      PROVE  RequestSound(r)'
  <2> SUFFICES ASSUME request'[r] = request[r]
               PROVE  RequestSound(r)'
    OBVIOUS
  <2>0. RequestSound(r) /\ request[r] \in RequestRecords
    BY <1>0 DEF AccountsInv
  <2>2. FormSound(r)'
    BY <2>0 DEF RequestSound, FormSound, Chosen
  <2>3. ReadSound(r)'
    <3>1. request[r].targets \subseteq People
      BY <2>0 DEF RequestRecords
    <3>2. \A u \in People : Exists(u) => Exists(u)' /\ account'[u].status = account[u].status /\ account'[u].role = account[u].role
      BY DEF Exists, Statuses, Calm
    <3> QED  BY <2>0, <3>1, <3>2 DEF RequestSound, ReadSound, ReadAccounts, Chosen
  <2>4. CountSound(r)'
    <3> SUFFICES ASSUME Chosen(r), request[r].pc = "checked", ~request[r].stale
                 PROVE  CountSound(r)'
      BY DEF CountSound, Chosen
    <3>1. CASE \E u \in ActiveOwners : u \notin request[r].targets
      BY <1>3, <3>1 DEF CountSound
    <3>2. CASE ~\E u \in ActiveOwners : u \notin request[r].targets
      <4>1. \A u \in ActiveOwners : KeepsOwner(r, u)
        BY <2>0, <3>2 DEF RequestSound, CountSound
      <4>2. \A u : KeepsOwner(r, u)' <=> KeepsOwner(r, u)
        BY DEF KeepsOwner, NewStatus, NewRole
      <4>3. ASSUME NEW u \in ActiveOwners'
            PROVE  (\E v \in ActiveOwners' : v \notin request'[r].targets) \/ KeepsOwner(r, u)'
        <5>1. CASE u \in request[r].targets
          <6>1. Exists(u) /\ u \in People
            BY <2>0, <5>1 DEF RequestSound, ReadSound, ReadAccounts, RequestRecords
          <6>2. u \in ActiveOwners
            BY <6>1 DEF Exists, Statuses, Calm, ActiveOwners
          <6> QED  BY <4>1, <4>2, <6>2
        <5>2. CASE u \notin request[r].targets
          BY <5>2
        <5> QED  BY <5>1, <5>2
      <4> QED  BY <4>3 DEF CountSound
    <3> QED  BY <3>1, <3>2
  <2> QED  BY <2>2, <2>3, <2>4 DEF RequestSound
<1>5. AccessEndsWithAccount'
  BY DEF AccountsInv, AccessEndsWithAccount, Calm
<1>6. OwnerLostOnlyInRace'
  BY <1>3 DEF AccountsInv, OwnerLostOnlyInRace
<1> QED  BY <1>1, <1>2, <1>4, <1>5, <1>6 DEF AccountsInv

\* The parts of the state that a step leaves alone.
LEMMA AccountStays ==
  ASSUME AccountsInv, account' = account
  PROVE  /\ \A u \in People : Calm(u)
         /\ \A l \in Logins : login[l].pc = "open" => account'[login[l].who].epoch = account[login[l].who].epoch
         /\ account' \in [People -> AccountRows]
  BY DEF Calm, AccountsInv, AccountsTypeOK
LEMMA RequestStays ==
  ASSUME AccountsInv, UNCHANGED <<account, request>>
  PROVE  \A r \in Admins : RequestSound(r)'
<1>1. \A r \in Admins : RequestSound(r)
  BY DEF AccountsInv
<1> QED  BY <1>1 DEF RequestSound, FormSound, Chosen, ReadSound, ReadAccounts, CountSound,
                     KeepsOwner, ActiveOwners, Exists, NewStatus, NewRole

\* One account that is changed.
LEMMA OneAccount ==
  ASSUME AccountsInv, NEW u \in People, NEW n \in AccountRows, account' = [account EXCEPT ![u] = n],
         account[u].status # "none" => /\ n.status = account[u].status /\ n.role = account[u].role
                                       /\ n.epoch \in {account[u].epoch, account[u].epoch + 1}
  PROVE  /\ account' \in [People -> AccountRows] /\ account'[u] = n
         /\ \A v \in People : Calm(v) /\ (v # u => account'[v] = account[v])
<1>1. account \in [People -> AccountRows]
  BY DEF AccountsInv, AccountsTypeOK
<1>2. \A v \in People : account'[v] = IF v = u THEN n ELSE account[v]
  BY <1>1
<1> QED  BY <1>1, <1>2 DEF Calm

\* The records that stand for nothing, and the sessions that are ended.
LEMMA NoLoginSound == NoLogin \in LoginRecords /\ NoLogin.pc = "idle"
  BY AccountsAssumption DEF NoLogin, LoginRecords
LEMMA SessionsEnding ==
  ASSUME login \in [Logins -> LoginRecords], NEW S
  PROVE  /\ SessionsEnded(S) \in [Logins -> LoginRecords]
         /\ \A l \in Logins : \/ SessionsEnded(S)[l] = NoLogin
                              \/ SessionsEnded(S)[l] = login[l] /\ (login[l].pc = "open" => login[l].who \notin S)
  BY NoLoginSound DEF SessionsEnded
LEMMA SpentMailSound == SpentMail \in MailRecords /\ SpentMail.state = "spent"
  BY DEF SpentMail, MailRecords

\* The people's own steps.
LEMMA RegisterKeeps ==
  ASSUME AccountsInv, NEW u \in People, NEW m \in Mails, Register(u, m)
  PROVE  AccountsInv'
<1>1. /\ account[u].status = "none" /\ account[u] \in AccountRows /\ mail \in [Mails -> MailRecords]
      /\ UNCHANGED <<login, agent, agentKeys, access, request, opsDone, raced>>
  BY DEF Register, AccountsInv, AccountsTypeOK
<1>2. PICK n \in AccountRows : account' = [account EXCEPT ![u] = n] /\ n.status = "active"
  <2> DEFINE v == ~EmailVerificationRequired
  <2> DEFINE n == [account[u] EXCEPT !.status = "active", !.verified = v]
  <2>1. v \in BOOLEAN
    OBVIOUS
  <2>2. account' = [account EXCEPT ![u].status = "active", ![u].verified = v]
    BY DEF Register
  <2> HIDE DEF v
  <2>3. n \in AccountRows /\ n.status = "active"
    BY <1>1, <2>1 DEF AccountRows, Statuses
  <2>4. account' = [account EXCEPT ![u] = n]
    BY <1>1, <2>2 DEF AccountsInv, AccountsTypeOK
  <2> HIDE DEF n
  <2> QED  BY <2>3, <2>4
<1>3. /\ account' \in [People -> AccountRows] /\ account'[u] = n
      /\ \A v \in People : Calm(v) /\ (v # u => account'[v] = account[v])
  BY <1>1, <1>2, OneAccount
<1>4. mail' \in [Mails -> MailRecords] /\ \A k \in Mails : MailSound(k)' \/ mail'[k] = mail[k]
  <2>1. [state |-> "issued", kind |-> "verify", who |-> u] \in MailRecords
    BY DEF MailRecords
  <2>2. CASE mail' = mail
    BY <1>1, <2>2
  <2>3. CASE mail' = [mail EXCEPT ![m] = [state |-> "issued", kind |-> "verify", who |-> u]]
    BY <1>1, <1>2, <1>3, <2>1, <2>3 DEF MailSound
  <2> QED  BY <2>2, <2>3 DEF Register
<1>5. AccountsTypeOK'
  BY <1>1, <1>3, <1>4 DEF AccountsInv, AccountsTypeOK
<1>6. ASSUME NEW l \in Logins, login[l].pc = "open"
      PROVE  account'[login[l].who].epoch = account[login[l].who].epoch
  <2>1. LoginSound(l)
    BY DEF AccountsInv
  <2> QED  BY <1>1, <1>3, <1>6, <2>1 DEF LoginSound
<1> QED  BY <1>1, <1>3, <1>4, <1>5, <1>6, CalmKeeps

LEMMA MailKeeps ==
  ASSUME AccountsInv, NEW m \in Mails,
         MailExpires(m) \/ VerifyEmail(m) \/ \E u \in People : CreatePasswordReset(u, m)
  PROVE  AccountsInv'
<1>1. /\ account \in [People -> AccountRows] /\ mail \in [Mails -> MailRecords] /\ MailSound(m)
      /\ UNCHANGED <<login, agent, agentKeys, access, request, opsDone, raced>>
  BY DEF MailExpires, VerifyEmail, CreatePasswordReset, AccountsInv, AccountsTypeOK
<1>2. /\ account' \in [People -> AccountRows] /\ \A v \in People : Calm(v)
      /\ \A v \in People : account'[v].epoch = account[v].epoch
  <2>1. CASE account' = account
    BY <1>1, <2>1, AccountStays
  <2>2. CASE VerifyEmail(m)
    <3>1. PICK u \in People : u = mail[m].who
      BY <1>1, <2>2 DEF VerifyEmail, MailSound
    <3> DEFINE n == [account[u] EXCEPT !.verified = TRUE]
    <3>2. /\ n \in AccountRows /\ n.status = account[u].status /\ n.role = account[u].role
          /\ n.epoch = account[u].epoch
      BY <1>1 DEF AccountRows
    <3>3. account' = [account EXCEPT ![u] = n]
      BY <2>2, <3>1 DEF VerifyEmail
    <3> HIDE DEF n
    <3> QED  BY <3>2, <3>3, OneAccount
  <2> QED  BY <2>1, <2>2 DEF MailExpires, CreatePasswordReset
<1>3. mail' \in [Mails -> MailRecords] /\ \A k \in Mails : MailSound(k)' \/ mail'[k] = mail[k]
  <2>1. CASE mail' = [mail EXCEPT ![m] = SpentMail]
    BY <1>1, <2>1, SpentMailSound DEF MailSound
  <2>2. ASSUME NEW u \in People, CreatePasswordReset(u, m)
        PROVE  mail' \in [Mails -> MailRecords] /\ \A k \in Mails : MailSound(k)' \/ mail'[k] = mail[k]
    <3>1. [state |-> "issued", kind |-> "reset", who |-> u] \in MailRecords
      BY DEF MailRecords
    <3> QED  BY <1>1, <2>2, <3>1 DEF MailSound, CreatePasswordReset
  <2> QED  BY <2>1, <2>2 DEF MailExpires, VerifyEmail
<1>4. AccountsTypeOK'
  BY <1>1, <1>2, <1>3 DEF AccountsInv, AccountsTypeOK
<1>5. \A l \in Logins : login[l].pc = "open" => account'[login[l].who].epoch = account[login[l].who].epoch
  BY <1>2 DEF AccountsInv, LoginSound
<1> QED  BY <1>1, <1>2, <1>3, <1>4, <1>5, CalmKeeps

\* A new password ends the sessions of the old one.
LEMMA PasswordKeeps ==
  ASSUME AccountsInv, NEW m \in Mails, ResetPassword(m)
  PROVE  AccountsInv'
<1>1. /\ account \in [People -> AccountRows] /\ mail \in [Mails -> MailRecords] /\ MailSound(m)
      /\ login \in [Logins -> LoginRecords]
      /\ UNCHANGED <<agent, agentKeys, access, request, opsDone, raced>>
  BY DEF ResetPassword, AccountsInv, AccountsTypeOK
<1>2. PICK u \in People : u = mail[m].who
  BY <1>1 DEF ResetPassword, MailSound
<1>3. /\ account[u].epoch < MaxEpoch /\ mail' = [mail EXCEPT ![m] = SpentMail] /\ login' = SessionsEnded({u})
  BY <1>2 DEF ResetPassword
<1>4. PICK n \in AccountRows : /\ account' = [account EXCEPT ![u] = n] /\ n.status = account[u].status
                               /\ n.role = account[u].role /\ n.epoch = account[u].epoch + 1
  <2> DEFINE e == account[u].epoch + 1
  <2> DEFINE n == [account[u] EXCEPT !.epoch = e]
  <2>0. account[u] \in AccountRows
    BY <1>1
  <2>1. e \in 0 .. MaxEpoch
    BY <1>3, <2>0, AccountsAssumption DEF AccountRows
  <2>2. account' = [account EXCEPT ![u].epoch = e]
    BY <1>2 DEF ResetPassword
  <2> HIDE DEF e
  <2>3. n \in AccountRows /\ n.status = account[u].status /\ n.role = account[u].role /\ n.epoch = e
    BY <2>0, <2>1 DEF AccountRows
  <2>4. account' = [account EXCEPT ![u] = n]
    BY <2>2
  <2> HIDE DEF n
  <2> QED  BY <2>3, <2>4 DEF e
<1>5. /\ account' \in [People -> AccountRows] /\ account'[u] = n
      /\ \A v \in People : Calm(v) /\ (v # u => account'[v] = account[v])
  BY <1>4, OneAccount
<1>6. mail' \in [Mails -> MailRecords] /\ \A k \in Mails : MailSound(k)' \/ mail'[k] = mail[k]
  BY <1>1, <1>3, SpentMailSound DEF MailSound
<1>7. ASSUME NEW l \in Logins
      PROVE  LoginSound(l)' \/ (/\ login'[l] = login[l]
                                /\ login[l].pc = "open" => account'[login[l].who].epoch = account[login[l].who].epoch)
  <2>1. LoginSound(l)
    BY DEF AccountsInv
  <2>2. \/ login'[l].pc = "idle"
        \/ login'[l] = login[l] /\ (login[l].pc = "open" => login[l].who \notin {u})
    BY <1>1, <1>3, SessionsEnding, NoLoginSound
  <2> QED  BY <1>5, <2>1, <2>2 DEF LoginSound
<1>8. login' \in [Logins -> LoginRecords]
  BY <1>1, <1>3, SessionsEnding
<1>9. AccountsTypeOK'
  BY <1>1, <1>5, <1>6, <1>8 DEF AccountsInv, AccountsTypeOK
<1> QED  BY <1>1, <1>5, <1>6, <1>7, <1>9, CalmKeeps

\* Logins and sessions: what is compared and what is inserted belong to the present
\* epoch, or the session is late.
LEMMA SessionKeeps ==
  ASSUME AccountsInv, NEW l \in Logins,
         \/ CreateSession(l) \/ SessionEnds(l) \/ RevokeOtherSessions(l) \/ \E u \in People : Login(l, u)
  PROVE  AccountsInv'
<1>1. /\ account \in [People -> AccountRows] /\ login \in [Logins -> LoginRecords] /\ login[l] \in LoginRecords
      /\ LoginSound(l) /\ UNCHANGED <<account, mail, agent, agentKeys, access, request, opsDone, raced>>
  BY DEF CreateSession, SessionEnds, RevokeOtherSessions, Login, AccountsInv, AccountsTypeOK
<1>2. login' \in [Logins -> LoginRecords] /\ \A k \in Logins : LoginSound(k)' \/ login'[k] = login[k]
  <2>1. CASE SessionEnds(l)
    BY <1>1, <2>1, NoLoginSound DEF SessionEnds, LoginSound
  <2>2. CASE RevokeOtherSessions(l)
    <3>1. login' = [SessionsEnded({login[l].who}) EXCEPT ![l] = login[l]]
      BY <2>2 DEF RevokeOtherSessions
    <3>2. /\ SessionsEnded({login[l].who}) \in [Logins -> LoginRecords]
          /\ \A k \in Logins : SessionsEnded({login[l].who})[k] \in {NoLogin, login[k]}
      BY <1>1, SessionsEnding
    <3>3. \A k \in Logins : login'[k] \in {NoLogin, login[k]}
      BY <3>1, <3>2
    <3> QED  BY <1>1, <3>1, <3>2, <3>3, NoLoginSound DEF LoginSound
  <2>3. ASSUME NEW u \in People, Login(l, u)
        PROVE  login' \in [Logins -> LoginRecords] /\ \A k \in Logins : LoginSound(k)' \/ login'[k] = login[k]
    <3> DEFINE n == [pc |-> "checked", who |-> u, epoch |-> account[u].epoch, late |-> FALSE]
    <3>1. account[u].epoch \in 0 .. MaxEpoch
      BY <1>1 DEF AccountRows
    <3>2. n \in LoginRecords /\ n.pc = "checked" /\ n.who = u
      BY <3>1 DEF LoginRecords
    <3>3. login' = [login EXCEPT ![l] = n] /\ account[u].status = "active"
      BY <2>3 DEF Login
    <3> HIDE DEF n
    <3>4. login'[l] = n /\ \A k \in Logins : k # l => login'[k] = login[k]
      BY <1>1, <3>3
    <3> QED  BY <1>1, <3>2, <3>3, <3>4 DEF LoginSound
  <2>4. CASE CreateSession(l)
    <3> DEFINE b == login[l].epoch # account[login[l].who].epoch
    <3> DEFINE n == [login[l] EXCEPT !.pc = "open", !.late = b]
    <3>1. login' = [login EXCEPT ![l].pc = "open", ![l].late = b] /\ login[l].pc = "checked"
      BY <2>4 DEF CreateSession
    <3>2. b \in BOOLEAN /\ (~b => login[l].epoch = account[login[l].who].epoch)
      OBVIOUS
    <3> HIDE DEF b
    <3>3. /\ n \in LoginRecords /\ n.pc = "open" /\ n.late = b
          /\ n.who = login[l].who /\ n.epoch = login[l].epoch
      BY <1>1, <3>2 DEF LoginRecords
    <3>4. login' = [login EXCEPT ![l] = n]
      BY <1>1, <3>1
    <3> HIDE DEF n
    <3>5. login'[l] = n /\ \A k \in Logins : k # l => login'[k] = login[k]
      BY <1>1, <3>4
    <3>6. LoginSound(l)'
      BY <1>1, <3>1, <3>2, <3>3, <3>5 DEF LoginSound
    <3> QED  BY <1>1, <3>3, <3>4, <3>5, <3>6
  <2> QED  BY <1>1, <2>1, <2>2, <2>3, <2>4
<1>3. AccountsTypeOK'
  BY <1>1, <1>2 DEF AccountsInv, AccountsTypeOK
<1> QED  BY <1>1, <1>2, <1>3, AccountStays, CalmKeeps

\* Agent tokens.
LEMMA AgentKeeps ==
  ASSUME AccountsInv, NEW l \in Logins, NEW a \in Agents,
         CreateAdminAgentToken(l, a) \/ RevokeAdminAgentToken(l, a)
  PROVE  AccountsInv'
<1>1. /\ agent \in [Agents -> AgentRecords] /\ login[l] \in LoginRecords
      /\ UNCHANGED <<account, login, mail, agentKeys, access, request, opsDone, raced>>
  BY DEF CreateAdminAgentToken, RevokeAdminAgentToken, AccountsInv, AccountsTypeOK
<1>2. agent' \in [Agents -> AgentRecords]
  <2>1. [state |-> "live", by |-> login[l].who] \in AgentRecords
    BY <1>1 DEF LoginRecords, AgentRecords
  <2>2. [agent[a] EXCEPT !.state = "revoked"] \in AgentRecords
    BY <1>1 DEF AgentRecords
  <2> QED  BY <1>1, <2>1, <2>2 DEF CreateAdminAgentToken, RevokeAdminAgentToken
<1>3. AccountsTypeOK'
  BY <1>1, <1>2 DEF AccountsInv, AccountsTypeOK
<1> QED  BY <1>1, <1>3, AccountStays, CalmKeeps

\* What a statement returns is of the right type.
LEMMA SeenTyped ==
  ASSUME account \in [People -> AccountRows], NEW S
  PROVE  /\ Seen(S) \in [People -> AccountRows] /\ \A u \in S \cap People : Seen(S)[u] = account[u]
<1>1. NoAccount \in AccountRows
  BY AccountsAssumption DEF NoAccount, AccountRows, Roles
<1> QED  BY <1>1 DEF Seen

LEMMA NoRequestTyped ==
  /\ NoRequest \in RequestRecords /\ NoRequest.pc = "idle" /\ NoRequest.kind = "resume" /\ NoRequest.stale = FALSE
<1>1. NoAccount \in AccountRows
  BY AccountsAssumption DEF NoAccount, AccountRows, Roles
<1>2. [u \in People |-> NoAccount] \in [People -> AccountRows]
  BY <1>1
<1> QED  BY <1>2 DEF NoRequest, RequestRecords

\* One request that goes on to a record that is sound, and nothing else but a new
\* idempotency key and its count.
LEMMA OneRequest ==
  ASSUME AccountsInv, NEW r \in Admins, NEW n \in RequestRecords, request' = [request EXCEPT ![r] = n],
         UNCHANGED <<account, login, mail, agent, access, raced>>, RequestSound(r)',
         agentKeys' \subseteq Agents \X AgentKeys, opsDone' \in 0 .. MaxOps
  PROVE  AccountsInv'
<1>1. request \in [Admins -> RequestRecords]
  BY DEF AccountsInv, AccountsTypeOK
<1>2. request' \in [Admins -> RequestRecords] /\ \A q \in Admins : q # r => request'[q] = request[q]
  BY <1>1
<1>3. AccountsTypeOK'
  BY <1>2 DEF AccountsInv, AccountsTypeOK
<1> QED  BY <1>2, <1>3, AccountStays, CalmKeeps

LEMMA IdleSound ==
  ASSUME NEW r, request'[r] = NoRequest
  PROVE  RequestSound(r)'
  BY NoRequestTyped DEF RequestSound, FormSound, ReadSound, ReadAccounts, CountSound, Chosen

\* Admission.
LEMMA AdmissionKeeps ==
  ASSUME AccountsInv, NEW r \in Admins,
         \/ \E l \in Logins : RequireAdmin(r, l)
         \/ \E a \in Agents, k \in AgentKeys : AuthenticateAdminAgent(r, a, k)
  PROVE  AccountsInv'
<1>1. PICK via \in Logins \cup Agents : Admit(r, via)
  BY DEF RequireAdmin, AuthenticateAdminAgent
<1>2. /\ UNCHANGED <<account, login, mail, agent, access, raced>> /\ agentKeys' \subseteq Agents \X AgentKeys
      /\ opsDone' \in 0 .. MaxOps /\ request \in [Admins -> RequestRecords]
  <2>1. opsDone' \in 0 .. MaxOps
    BY <1>1, AccountsAssumption DEF Admit, AccountsInv, AccountsTypeOK
  <2>2. UNCHANGED <<account, login, mail, agent, access, raced>>
    BY DEF RequireAdmin, AuthenticateAdminAgent
  <2>3. agentKeys' \subseteq Agents \X AgentKeys
    <3>1. agentKeys \subseteq Agents \X AgentKeys
      BY DEF AccountsInv, AccountsTypeOK
    <3>2. agentKeys' = agentKeys \/ \E a \in Agents, k \in AgentKeys : agentKeys' = agentKeys \cup {<<a, k>>}
      BY DEF RequireAdmin, AuthenticateAdminAgent
    <3> QED  BY <3>1, <3>2
  <2> QED  BY <2>1, <2>2, <2>3 DEF AccountsInv, AccountsTypeOK
<1> DEFINE n == [NoRequest EXCEPT !.pc = "admitted", !.via = via]
<1>3. n \in RequestRecords /\ n.pc = "admitted" /\ n.via = via /\ n.kind = "resume"
  BY NoRequestTyped DEF RequestRecords
<1>4. request' = [request EXCEPT ![r] = n]
  BY <1>1 DEF Admit
<1> HIDE DEF n
<1>5. request'[r] = n
  BY <1>2, <1>4
<1>6. RequestSound(r)'
  BY <1>3, <1>5 DEF RequestSound, FormSound, ReadSound, ReadAccounts, CountSound, Chosen
<1> QED  BY <1>2, <1>3, <1>4, <1>6, OneRequest

LEMMA ConsoleAdmissionKeeps ==
  ASSUME AccountsInv, NEW r \in Admins, NEW l \in Logins, NEW w \in People, RequireUser(r, l, w)
  PROVE  AccountsInv'
<1>1. /\ UNCHANGED <<account, login, mail, agent, agentKeys, access, raced>> /\ opsDone' \in 0 .. MaxOps
      /\ agentKeys \subseteq Agents \X AgentKeys /\ request \in [Admins -> RequestRecords]
  <2>1. opsDone' \in 0 .. MaxOps
    BY AccountsAssumption DEF RequireUser, AccountsInv, AccountsTypeOK
  <2> QED  BY <2>1 DEF RequireUser, AccountsInv, AccountsTypeOK
<1>2. login[l].pc = "open" /\ LoginSound(l)
  BY DEF RequireUser, UserBySession, AccountsInv
<1>3. PICK u \in People : u = login[l].who
  BY <1>2 DEF LoginSound
<1> DEFINE n == [NoRequest EXCEPT !.pc = "checked", !.via = l, !.actor = u, !.targets = {w}]
<1>4. n \in RequestRecords /\ n.pc = "checked" /\ n.kind = "resume"
  BY NoRequestTyped DEF RequestRecords
<1>5. request' = [request EXCEPT ![r] = n]
  BY <1>3 DEF RequireUser
<1> HIDE DEF n
<1>6. request'[r] = n
  BY <1>1, <1>5
<1>7. RequestSound(r)'
  BY <1>4, <1>6 DEF RequestSound, FormSound, ReadSound, ReadAccounts, CountSound, Chosen
<1> QED  BY <1>1, <1>4, <1>5, <1>7, OneRequest

\* The actor is a person or nobody.
LEMMA ActorTyped ==
  ASSUME AccountsInv, NEW r \in Admins, request[r].via \in Logins \cup Agents
  PROVE  UserFromRequest(r) \in People \cup {Nobody}
  BY DEF UserFromRequest, AccountsInv, AccountsTypeOK, AgentRecords, LoginRecords

\* The form is decoded.
LEMMA ChoiceKeeps ==
  ASSUME AccountsInv, NEW r \in Admins, NEW kinds \in SUBSET (SingleKinds \cup BulkKinds), Choose(r, kinds)
  PROVE  AccountsInv'
<1>1. /\ UNCHANGED <<account, login, mail, agent, agentKeys, access, opsDone, raced>>
      /\ request \in [Admins -> RequestRecords] /\ request[r] \in RequestRecords
      /\ opsDone \in 0 .. MaxOps /\ agentKeys \subseteq Agents \X AgentKeys
  BY DEF Choose, AccountsInv, AccountsTypeOK
<1>2. PICK act \in People \cup {Nobody} : act = UserFromRequest(r)
  BY ActorTyped DEF Choose, AccountsInv, RequestSound, FormSound
<1>3. PICK op \in Operations :
        /\ op.kind \in kinds
        /\ request' = [request EXCEPT ![r].pc = "chosen", ![r].actor = act, ![r].kind = op.kind,
                                      ![r].targets = op.targets, ![r].role = op.role, ![r].status = op.status]
  BY <1>2 DEF Choose
<1>4. /\ op.kind \in SingleKinds \cup BulkKinds /\ op.targets \in SUBSET People /\ op.role \in Roles \cup {"keep"}
      /\ op.status \in Statuses \cup {"keep"}
      /\ op.kind \in {"status", "bulk_status"} => op.status # "keep"
      /\ op.kind = "bulk_role" => op.role # "keep"
  <2>1. op \in AllOperations
    BY AccountsAssumption
  <2>2. /\ op \in [kind : SingleKinds \cup BulkKinds \cup {"create"}, targets : SUBSET People \ {{}},
                   role : Roles \cup {"keep"}, status : Statuses \cup {"keep"}]
        /\ op.kind \in {"create", "bulk_role"} => op.role # "keep"
        /\ op.kind \in {"create", "status", "bulk_status"} => op.status # "keep"
    BY <2>1 DEF AllOperations
  <2> QED  BY <1>3, <2>2
<1>5. "resume" \notin SingleKinds \cup BulkKinds
  BY DEF SingleKinds, BulkKinds
<1>6. PICK kd \in SingleKinds \cup BulkKinds, T \in SUBSET People, ro \in Roles \cup {"keep"},
           st \in Statuses \cup {"keep"} :
        kd = op.kind /\ T = op.targets /\ ro = op.role /\ st = op.status
  BY <1>4
<1> DEFINE n == [request[r] EXCEPT !.pc = "chosen", !.actor = act, !.kind = kd, !.targets = T,
                                   !.role = ro, !.status = st]
<1>7. n \in RequestRecords
  <2>1. kd \in SingleKinds \cup BulkKinds \cup {"create", "resume"}
    OBVIOUS
  <2> QED  BY <1>1, <2>1 DEF RequestRecords
<1>8. n.pc = "chosen" /\ n.kind = kd /\ n.role = ro /\ n.status = st
  BY <1>1 DEF RequestRecords
<1>9. request' = [request EXCEPT ![r] = n]
  BY <1>1, <1>3, <1>6
<1> HIDE DEF n
<1>10. request'[r] = n
  BY <1>1, <1>9
<1>11. RequestSound(r)'
  BY <1>4, <1>5, <1>6, <1>8, <1>10 DEF RequestSound, FormSound, ReadSound, ReadAccounts, CountSound, Chosen
<1> QED  BY <1>1, <1>7, <1>9, <1>11, OneRequest

\* The first statement: what it returns is there.
LEMMA ReadingKeeps ==
  ASSUME AccountsInv, NEW r \in Admins, ReadUsers(r)
  PROVE  AccountsInv'
<1>1. /\ UNCHANGED <<account, login, mail, agent, agentKeys, access, opsDone, raced>>
      /\ request \in [Admins -> RequestRecords] /\ request[r] \in RequestRecords
      /\ account \in [People -> AccountRows] /\ RequestSound(r) /\ request[r].pc = "chosen"
      /\ opsDone \in 0 .. MaxOps /\ agentKeys \subseteq Agents \X AgentKeys
  BY DEF ReadUsers, AccountsInv, AccountsTypeOK
<1>2. CASE \A u \in request[r].targets : Exists(u)
  <2>1. PICK sn \in [People -> AccountRows] :
          sn = Seen(request[r].targets) /\ \A u \in request[r].targets \cap People : sn[u] = account[u]
    BY <1>1, SeenTyped
  <2> DEFINE n == [request[r] EXCEPT !.pc = "read", !.seen = sn]
  <2>2. /\ n \in RequestRecords /\ n.pc = "read" /\ n.kind = request[r].kind /\ n.targets = request[r].targets
        /\ n.role = request[r].role /\ n.status = request[r].status /\ n.seen = sn
    BY <1>1 DEF RequestRecords
  <2>3. request' = [request EXCEPT ![r] = n]
    BY <1>1, <1>2, <2>1 DEF ReadUsers
  <2> HIDE DEF n
  <2>4. request'[r] = n
    BY <1>1, <2>3
  <2>5. request[r].targets \subseteq People
    BY <1>1 DEF RequestRecords
  <2>6. Chosen(r)
    BY <1>1 DEF RequestSound, FormSound, Chosen
  <2>7. ReadSound(r)'
    BY <1>1, <1>2, <2>1, <2>2, <2>4, <2>5 DEF ReadSound, Exists
  <2>8. RequestSound(r)'
    BY <1>1, <2>2, <2>4, <2>6, <2>7 DEF RequestSound, FormSound, CountSound, Chosen
  <2> QED  BY <1>1, <2>2, <2>3, <2>8, OneRequest
<1>3. CASE ~\A u \in request[r].targets : Exists(u)
  <2>1. request' = [request EXCEPT ![r] = NoRequest]
    BY <1>3 DEF ReadUsers, Finished
  <2>2. request'[r] = NoRequest
    BY <1>1, <2>1
  <2> QED  BY <1>1, <2>1, <2>2, IdleSound, NoRequestTyped, OneRequest
<1> QED  BY <1>2, <1>3

\* The count: an owner remains outside, or the request takes no owner away.
LEMMA CountLeavesOwner ==
  ASSUME AccountsInv, NEW r \in Admins, request[r].pc = "read", ~request[r].stale,
         ~(NeedsOtherOwner(r) /\ ActiveOwners \subseteq request[r].targets),
         ActiveOwners \subseteq request[r].targets, NEW u \in ActiveOwners
  PROVE  KeepsOwner(r, u)
<1>1. RequestSound(r) /\ request[r] \in RequestRecords
  BY DEF AccountsInv, AccountsTypeOK
<1>2. /\ request[r].kind \in SingleKinds \cup BulkKinds
      /\ request[r].kind \in {"status", "bulk_status"} => request[r].status # "keep"
      /\ request[r].kind = "bulk_role" => request[r].role # "keep"
  BY <1>1 DEF RequestSound, FormSound, Chosen
<1>3. /\ u \in request[r].targets /\ account[u].status = "active" /\ account[u].role = "owner"
      /\ account[u].status = request[r].seen[u].status /\ account[u].role = request[r].seen[u].role
  <2>1. u \in request[r].targets /\ account[u].status = "active" /\ account[u].role = "owner"
    BY DEF ActiveOwners
  <2>2. ReadAccounts(r)
    BY <1>1 DEF RequestSound, FormSound, ReadAccounts, Chosen
  <2> QED  BY <1>1, <2>1, <2>2 DEF RequestSound, ReadSound
<1>4. /\ ~Deactivates(r)
      /\ request[r].kind \in {"edit", "bulk_role"} => NewRole(r, u) = "owner"
      /\ request[r].kind = "edit" => NewStatus(r, u) = "active"
  BY <1>3 DEF NeedsOtherOwner
<1>5. CASE request[r].kind = "edit"
  BY <1>4, <1>5 DEF KeepsOwner
<1>6. CASE request[r].kind = "bulk_role"
  BY <1>2, <1>4, <1>6 DEF KeepsOwner, NewRole
<1>7. CASE request[r].kind \in {"status", "bulk_status"}
  BY <1>4, <1>7 DEF KeepsOwner, Deactivates
<1>8. request[r].kind \notin {"delete", "bulk_delete"}
  BY <1>4 DEF Deactivates
<1> QED  BY <1>2, <1>5, <1>6, <1>7, <1>8 DEF SingleKinds, BulkKinds

LEMMA CountingKeeps ==
  ASSUME AccountsInv, NEW r \in Admins, EnsureOwner(r)
  PROVE  AccountsInv'
<1>1. /\ UNCHANGED <<account, login, mail, agent, agentKeys, access, opsDone, raced>>
      /\ request \in [Admins -> RequestRecords] /\ request[r] \in RequestRecords
      /\ account \in [People -> AccountRows] /\ RequestSound(r) /\ request[r].pc = "read"
      /\ opsDone \in 0 .. MaxOps /\ agentKeys \subseteq Agents \X AgentKeys
  BY DEF EnsureOwner, AccountsInv, AccountsTypeOK
<1> DEFINE refused == RefusedForSelf(r) \/ (NeedsOtherOwner(r) /\ ActiveOwners \subseteq request[r].targets)
<1>2. CASE refused
  <2>1. request' = [request EXCEPT ![r] = NoRequest]
    BY <1>2 DEF EnsureOwner, Finished
  <2>2. request'[r] = NoRequest
    BY <1>1, <2>1
  <2> QED  BY <1>1, <2>1, <2>2, IdleSound, NoRequestTyped, OneRequest
<1>3. CASE ~refused
  <2>1. PICK sn \in [People -> AccountRows] : sn = IF request[r].kind = "edit" THEN request[r].seen ELSE Seen({})
    BY <1>1, SeenTyped DEF RequestRecords
  <2> DEFINE n == [request[r] EXCEPT !.pc = "checked", !.seen = sn]
  <2>2. /\ n \in RequestRecords /\ n.pc = "checked" /\ n.kind = request[r].kind /\ n.targets = request[r].targets
        /\ n.role = request[r].role /\ n.status = request[r].status /\ n.seen = sn /\ n.stale = request[r].stale
    BY <1>1 DEF RequestRecords
  <2>3. request' = [request EXCEPT ![r] = n]
    BY <1>1, <1>3, <2>1 DEF EnsureOwner
  <2> HIDE DEF n
  <2>4. request'[r] = n
    BY <1>1, <2>3
  <2>5. Chosen(r) /\ Chosen(r)' /\ ReadAccounts(r)
    BY <1>1, <2>2, <2>4 DEF RequestSound, FormSound, Chosen, ReadAccounts
  <2>6. ReadSound(r)'
    BY <1>1, <2>1, <2>2, <2>4, <2>5 DEF RequestSound, ReadSound, Exists
  <2>7. CountSound(r)'
    <3> SUFFICES ASSUME ~request[r].stale, ActiveOwners \subseteq request[r].targets
                 PROVE  \A u \in ActiveOwners : KeepsOwner(r, u)'
      BY <1>1, <2>2, <2>4 DEF CountSound, ActiveOwners
    <3>1. \A u \in ActiveOwners : KeepsOwner(r, u)
      BY <1>1, <1>3, CountLeavesOwner
    <3>2. ASSUME NEW u
          PROVE  KeepsOwner(r, u)' <=> KeepsOwner(r, u)
      BY <1>1, <2>1, <2>2, <2>4 DEF KeepsOwner, NewStatus, NewRole
    <3> QED  BY <3>1, <3>2
  <2>8. RequestSound(r)'
    BY <1>1, <2>2, <2>4, <2>5, <2>6, <2>7 DEF RequestSound, FormSound, Chosen
  <2> QED  BY <1>1, <2>2, <2>3, <2>8, OneRequest
<1> QED  BY <1>2, <1>3

LEMMA FailureKeeps ==
  ASSUME AccountsInv, NEW r \in Admins, request' = [request EXCEPT ![r] = NoRequest],
         UNCHANGED <<account, login, mail, agent, agentKeys, access, opsDone, raced>>
  PROVE  AccountsInv'
<1>1. request'[r] = NoRequest /\ opsDone \in 0 .. MaxOps /\ agentKeys \subseteq Agents \X AgentKeys
  BY DEF AccountsInv, AccountsTypeOK
<1> QED  BY <1>1, IdleSound, NoRequestTyped, OneRequest

LEMMA CreationOfUserKeeps ==
  ASSUME AccountsInv, NEW r \in Admins, CreateAdminUser(r)
  PROVE  AccountsInv'
<1>1. PICK op \in Operations, u \in People, verified \in BOOLEAN :
        /\ op.kind = "create" /\ account[u].status = "none"
        /\ account' = [account EXCEPT ![u] = [status |-> op.status, role |-> op.role,
                                              verified |-> verified, epoch |-> 0]]
  BY DEF CreateAdminUser
<1>2. PICK st \in Statuses, ro \in Roles : st = op.status /\ ro = op.role
  <2>1. op \in AllOperations
    BY AccountsAssumption
  <2>2. /\ op \in [kind : SingleKinds \cup BulkKinds \cup {"create"}, targets : SUBSET People \ {{}},
                   role : Roles \cup {"keep"}, status : Statuses \cup {"keep"}]
        /\ op.kind \in {"create", "bulk_role"} => op.role # "keep"
        /\ op.kind \in {"create", "status", "bulk_status"} => op.status # "keep"
    BY <2>1 DEF AllOperations
  <2> QED  BY <1>1, <2>2
<1> DEFINE n == [status |-> st, role |-> ro, verified |-> verified, epoch |-> 0]
<1>3. n \in AccountRows
  BY AccountsAssumption DEF AccountRows
<1>4. account' = [account EXCEPT ![u] = n]
  BY <1>1, <1>2
<1> HIDE DEF n
<1>5. /\ account' \in [People -> AccountRows]
      /\ \A v \in People : Calm(v) /\ (v # u => account'[v] = account[v])
  BY <1>1, <1>3, <1>4, OneAccount
<1>6. /\ request' = [request EXCEPT ![r] = NoRequest] /\ request \in [Admins -> RequestRecords]
      /\ UNCHANGED <<login, mail, agent, agentKeys, access, opsDone, raced>>
  BY DEF CreateAdminUser, Finished, AccountsInv, AccountsTypeOK
<1>7. \A q \in Admins : RequestSound(q)' \/ request'[q] = request[q]
  BY <1>6, IdleSound
<1>8. AccountsTypeOK'
  BY <1>5, <1>6, NoRequestTyped DEF AccountsInv, AccountsTypeOK
<1>9. \A l \in Logins : login[l].pc = "open" => account'[login[l].who].epoch = account[login[l].who].epoch
  BY <1>1, <1>5 DEF AccountsInv, LoginSound
<1> QED  BY <1>5, <1>6, <1>7, <1>8, <1>9, CalmKeeps

\* A console request opens a gateway; some of the writes under way miss it.
LEMMA OpeningKeeps ==
  ASSUME AccountsInv, NEW r \in Admins, OpenGateway(r)
  PROVE  AccountsInv'
<1>1. PICK w \in request[r].targets, S \in SUBSET Admins :
        /\ access' = [access EXCEPT ![w] = IF account[w].status = "active" THEN "open" ELSE "late"]
        /\ request' = [q \in Admins |-> IF q = r THEN NoRequest
                         ELSE [request[q] EXCEPT !.missed = IF q \in S THEN @ \cup {w} ELSE @]]
  BY DEF OpenGateway
<1>2. /\ request \in [Admins -> RequestRecords] /\ w \in People
      /\ access \in [People -> {"closed", "open", "late"}]
      /\ UNCHANGED <<account, login, mail, agent, agentKeys, opsDone, raced>>
  BY DEF OpenGateway, AccountsInv, AccountsTypeOK, RequestRecords
<1>3. \A v \in People : access'[v] = "open" => access[v] = "open" \/ account'[v].status = "active"
  BY <1>1, <1>2
<1>4. ASSUME NEW q \in Admins
      PROVE  request'[q] \in RequestRecords /\ RequestSound(q)'
  <2>1. CASE q = r
    <3>1. request'[q] = NoRequest
      BY <1>1, <2>1
    <3> QED  BY <3>1, IdleSound, NoRequestTyped
  <2>2. CASE q # r
    <3>1. PICK M \in SUBSET People : M = IF q \in S THEN request[q].missed \cup {w} ELSE request[q].missed
      BY <1>2 DEF RequestRecords
    <3>2. request'[q] = [request[q] EXCEPT !.missed = M] /\ request[q] \in RequestRecords
      BY <1>1, <1>2, <2>2, <3>1
    <3>3. /\ request'[q] \in RequestRecords /\ request'[q].pc = request[q].pc /\ request'[q].kind = request[q].kind
          /\ request'[q].seen = request[q].seen /\ request'[q].targets = request[q].targets
          /\ request'[q].role = request[q].role /\ request'[q].status = request[q].status
          /\ request'[q].via = request[q].via /\ request'[q].stale = request[q].stale
      BY <3>2 DEF RequestRecords
    <3>4. RequestSound(q)
      BY DEF AccountsInv
    <3> QED  BY <1>2, <3>3, <3>4 DEF RequestSound, FormSound, Chosen, ReadSound, ReadAccounts, CountSound,
                                     KeepsOwner, ActiveOwners, Exists, NewStatus, NewRole
  <2> QED  BY <2>1, <2>2
<1>5. request' \in [Admins -> RequestRecords]
  BY <1>1, <1>4
<1>6. AccountsTypeOK'
  BY <1>1, <1>2, <1>5 DEF AccountsInv, AccountsTypeOK
<1> QED  BY <1>2, <1>3, <1>4, <1>6, AccountStays, CalmKeeps

\* The row an administrator's write leaves: the sessions end with the status, and the
\* status of the others is active or what it was.
LEMMA WrittenRow ==
  ASSUME AccountsInv, NEW r \in Admins, Chosen(r), request[r].pc = "checked", NEW verified \in BOOLEAN,
         NEW u \in request[r].targets, Exists(u), u \in Ended(r) => account[u].epoch < MaxEpoch
  PROVE  /\ Written(r, u, verified) \in AccountRows
         /\ Written(r, u, verified).status # "none"
         /\ Written(r, u, verified).epoch = IF u \in Ended(r) THEN account[u].epoch + 1 ELSE account[u].epoch
         /\ u \notin Ended(r) => Written(r, u, verified).status \in {"active", account[u].status}
         /\ KeepsOwner(r, u) /\ u \in ActiveOwners =>
              Written(r, u, verified).status = "active" /\ Written(r, u, verified).role = "owner"
<1>1. request[r] \in RequestRecords /\ RequestSound(r)
  BY DEF AccountsInv, AccountsTypeOK
<1>2. /\ u \in People /\ account[u] \in AccountRows /\ account[u].status \in Statuses
      /\ account[u].epoch \in 0 .. MaxEpoch
  BY <1>1 DEF RequestRecords, AccountsInv, AccountsTypeOK, Exists, AccountRows
<1>3. /\ request[r].kind \in SingleKinds \cup BulkKinds
      /\ request[r].kind \in {"status", "bulk_status"} => request[r].status # "keep"
      /\ request[r].kind = "bulk_role" => request[r].role # "keep"
      /\ request[r].kind = "edit" => request[r].seen[u].status \in Statuses /\ request[r].seen[u].role \in Roles
  <2>1. request[r].kind = "edit" => request[r].seen[u].status \in Statuses
    BY <1>1 DEF RequestSound, ReadSound, ReadAccounts
  <2>2. request[r].seen[u].role \in Roles
    BY <1>1, <1>2 DEF RequestRecords, AccountRows
  <2> QED  BY <1>1, <2>1, <2>2 DEF RequestSound, FormSound
<1>4. request[r].role \in Roles \cup {"keep"} /\ request[r].status \in Statuses \cup {"keep"}
  BY <1>1 DEF RequestRecords
<1>5. CASE request[r].kind = "bulk_role"
  <2> DEFINE n == [account[u] EXCEPT !.role = request[r].role]
  <2>1. Written(r, u, verified) = n /\ u \notin Ended(r)
    BY <1>5 DEF Written, Ended
  <2>2. n \in AccountRows /\ n.status = account[u].status /\ n.epoch = account[u].epoch /\ n.role = request[r].role
    BY <1>2, <1>3, <1>4, <1>5 DEF AccountRows
  <2> HIDE DEF n
  <2>3. KeepsOwner(r, u) => request[r].role = "owner"
    BY <1>5 DEF KeepsOwner
  <2> QED  BY <1>2, <2>1, <2>2, <2>3 DEF Statuses, ActiveOwners
<1>6. CASE request[r].kind # "bulk_role"
  <2>1. PICK st \in Statuses \cup {"deleted"} : st = NewStatus(r, u)
    BY <1>3, <1>4, <1>6 DEF NewStatus, SingleKinds, BulkKinds
  <2>2. PICK ro \in Roles : ro = IF request[r].kind = "edit" THEN NewRole(r, u) ELSE account[u].role
    BY <1>2, <1>3, <1>4 DEF NewRole, AccountRows
  <2>3. PICK ver \in BOOLEAN : ver = IF request[r].kind = "edit" THEN verified ELSE account[u].verified
    BY <1>2 DEF AccountRows
  <2>4. PICK ep \in 0 .. MaxEpoch : ep = IF u \in Ended(r) THEN account[u].epoch + 1 ELSE account[u].epoch
    BY <1>2, AccountsAssumption
  <2> DEFINE n == [account[u] EXCEPT !.status = st, !.role = ro, !.verified = ver, !.epoch = ep]
  <2>5. Written(r, u, verified) = n
    BY <1>6, <2>1, <2>2, <2>3, <2>4 DEF Written
  <2>6. n \in AccountRows /\ n.status = st /\ n.role = ro /\ n.epoch = ep
    BY <1>2 DEF AccountRows
  <2> HIDE DEF n
  <2>7. u \in Ended(r) <=> st # "active"
    BY <1>6, <2>1 DEF Ended
  <2>8. KeepsOwner(r, u) /\ u \in ActiveOwners => st = "active" /\ ro = "owner"
    <3> SUFFICES ASSUME KeepsOwner(r, u), u \in ActiveOwners
                 PROVE  st = "active" /\ ro = "owner"
      OBVIOUS
    <3>1. account[u].role = "owner"
      BY DEF ActiveOwners
    <3>2. CASE request[r].kind = "edit"
      BY <2>1, <2>2, <3>2 DEF KeepsOwner
    <3>3. CASE request[r].kind # "edit"
      <4>1. request[r].kind \in {"status", "bulk_status"} /\ request[r].status = "active"
        BY <1>6, <3>3 DEF KeepsOwner
      <4> QED  BY <2>1, <2>2, <3>1, <3>3, <4>1 DEF NewStatus
    <3> QED  BY <3>2, <3>3
  <2> QED  BY <2>1, <2>4, <2>5, <2>6, <2>7, <2>8 DEF Statuses
<1> QED  BY <1>5, <1>6

\* An administrator's write: who has counted before it has to count again, or is stale.
LEMMA WriteKeeps ==
  ASSUME AccountsInv, NEW r \in Admins, request[r].kind # "resume", NEW verified \in BOOLEAN, WriteUsers(r, verified)
  PROVE  AccountsInv'
<1>1. /\ account \in [People -> AccountRows] /\ login \in [Logins -> LoginRecords]
      /\ request \in [Admins -> RequestRecords] /\ request[r] \in RequestRecords /\ RequestSound(r)
      /\ access \in [People -> {"closed", "open", "late"}] /\ raced \in BOOLEAN
      /\ request[r].pc = "checked" /\ Chosen(r) /\ UNCHANGED <<mail, agent, agentKeys, opsDone>>
  BY DEF WriteUsers, AccountsInv, AccountsTypeOK, Chosen
<1>2. CASE request' = Finished(r) /\ UNCHANGED <<account, login, access, raced>>
  BY <1>1, <1>2, FailureKeeps DEF Finished
<1>3. CASE ~(request' = Finished(r) /\ UNCHANGED <<account, login, access, raced>>)
  <2>1. /\ \A u \in request[r].targets : Exists(u)
        /\ account' = [u \in People |-> IF u \in request[r].targets THEN Written(r, u, verified) ELSE account[u]]
        /\ login' = SessionsEnded(Ended(r))
        /\ access' = [u \in People |-> IF u \notin Ended(r) THEN access[u]
                                       ELSE IF u \in request[r].missed THEN "late" ELSE "closed"]
        /\ raced' = (raced \/ request[r].stale)
        /\ request' = [q \in Admins |-> IF q = r THEN NoRequest
                         ELSE [request[q] EXCEPT !.stale = @ \/ request[q].pc \in {"read", "checked"}]]
        /\ \A u \in Ended(r) : account[u].epoch < MaxEpoch
    BY <1>3 DEF WriteUsers
  <2>2. PICK E \in SUBSET People : E = Ended(r) /\ E \subseteq request[r].targets
    <3>1. Ended(r) \subseteq request[r].targets
      BY DEF Ended
    <3>2. request[r].targets \subseteq People
      BY <1>1 DEF RequestRecords
    <3> QED  BY <3>1, <3>2
  <2>3. ASSUME NEW u \in People
        PROVE  /\ account'[u] \in AccountRows
               /\ account[u].status # "none" => account'[u].status # "none"
               /\ account'[u].epoch = IF u \in E THEN account[u].epoch + 1 ELSE account[u].epoch
               /\ u \notin E => account'[u].status \in {"active", account[u].status}
               /\ u \in ActiveOwners /\ (u \in request[r].targets => KeepsOwner(r, u)) => u \in ActiveOwners'
    <3>1. CASE u \notin request[r].targets
      <4>1. account'[u] = account[u]
        BY <2>1, <3>1
      <4> QED  BY <1>1, <2>2, <3>1, <4>1 DEF ActiveOwners
    <3>2. CASE u \in request[r].targets
      <4>1. account'[u] = Written(r, u, verified)
        BY <2>1, <3>2
      <4>2. /\ Written(r, u, verified) \in AccountRows
            /\ Written(r, u, verified).status # "none"
            /\ Written(r, u, verified).epoch = IF u \in Ended(r) THEN account[u].epoch + 1 ELSE account[u].epoch
            /\ u \notin Ended(r) => Written(r, u, verified).status \in {"active", account[u].status}
            /\ KeepsOwner(r, u) /\ u \in ActiveOwners =>
                 Written(r, u, verified).status = "active" /\ Written(r, u, verified).role = "owner"
        BY <1>1, <2>1, <3>2, WrittenRow
      <4> QED  BY <2>2, <3>2, <4>1, <4>2 DEF ActiveOwners
    <3> QED  BY <3>1, <3>2
  <2>4. \A l \in Logins : LoginSound(l)'
    <3> SUFFICES ASSUME NEW l \in Logins, login'[l].pc # "idle"
                 PROVE  LoginSound(l)'
      BY DEF LoginSound
    <3>1. login'[l] = login[l] /\ (login[l].pc = "open" => login[l].who \notin E) /\ LoginSound(l)
      BY <1>1, <2>1, <2>2, SessionsEnding, NoLoginSound DEF AccountsInv
    <3> QED  BY <2>3, <3>1 DEF LoginSound
  <2>5. \A m \in Mails : MailSound(m)'
    BY <1>1, <2>3 DEF AccountsInv, MailSound
  <2>6. ASSUME NEW q \in Admins, q # r
        PROVE  /\ request'[q] \in RequestRecords /\ request'[q].pc = request[q].pc /\ request'[q].kind = request[q].kind
               /\ request'[q].actor = request[q].actor /\ request'[q].seen = request[q].seen
               /\ request'[q].targets = request[q].targets /\ request'[q].role = request[q].role
               /\ request'[q].status = request[q].status /\ request'[q].via = request[q].via
               /\ request[q].pc \in {"read", "checked"} => request'[q].stale
    <3>1. PICK b \in BOOLEAN : b = (request[q].stale \/ request[q].pc \in {"read", "checked"})
      OBVIOUS
    <3>2. request'[q] = [request[q] EXCEPT !.stale = b] /\ request[q] \in RequestRecords
      BY <1>1, <2>1, <2>6, <3>1
    <3> QED  BY <3>1, <3>2 DEF RequestRecords
  <2>7. ASSUME NEW q \in Admins, q # r
        PROVE  RequestSound(q)'
    <3>0. RequestSound(q) /\ request[q] \in RequestRecords
      BY <1>1 DEF AccountsInv
    <3>2. FormSound(q)'
      BY <2>6, <2>7, <3>0 DEF RequestSound, FormSound, Chosen
    <3>3. ReadSound(q)' /\ CountSound(q)'
      BY <2>6, <2>7, <3>0 DEF RequestSound, ReadSound, ReadAccounts, CountSound, Chosen
    <3> QED  BY <3>2, <3>3 DEF RequestSound
  <2>8. RequestSound(r)' /\ request'[r] \in RequestRecords
    BY <2>1, IdleSound, NoRequestTyped
  <2>9. AccessEndsWithAccount'
    BY <2>1, <2>2, <2>3 DEF AccountsInv, AccessEndsWithAccount
  <2>10. OwnerLostOnlyInRace'
    <3> SUFFICES ASSUME ~raced, ~request[r].stale
                 PROVE  ActiveOwners' # {}
      BY <2>1 DEF OwnerLostOnlyInRace
    <3>1. PICK u \in ActiveOwners : u \notin request[r].targets \/ KeepsOwner(r, u)
      <4>1. PICK v \in ActiveOwners : TRUE
        BY DEF AccountsInv, OwnerLostOnlyInRace
      <4> QED  BY <1>1, <4>1 DEF RequestSound, CountSound
    <3>2. u \in People
      BY DEF ActiveOwners
    <3> QED  BY <2>3, <3>1, <3>2
  <2>11. AccountsTypeOK'
    <3>1. account' \in [People -> AccountRows] /\ request' \in [Admins -> RequestRecords]
      BY <2>1, <2>3, <2>6, <2>8
    <3>2. login' \in [Logins -> LoginRecords] /\ access' \in [People -> {"closed", "open", "late"}] /\ raced' \in BOOLEAN
      BY <1>1, <2>1, SessionsEnding
    <3> QED  BY <1>1, <3>1, <3>2 DEF AccountsInv, AccountsTypeOK
  <2> QED  BY <2>4, <2>5, <2>7, <2>8, <2>9, <2>10, <2>11 DEF AccountsInv
<1> QED  BY <1>2, <1>3

LEMMA AccountsStep ==
  AccountsInv /\ [AccountsNext]_accountVars => AccountsInv'
<1> SUFFICES ASSUME AccountsInv, [AccountsNext]_accountVars
             PROVE  AccountsInv'
  OBVIOUS
<1>1. ASSUME NEW u \in People, NEW m \in Mails, Register(u, m) \/ CreatePasswordReset(u, m)
      PROVE  AccountsInv'
  BY <1>1, RegisterKeeps, MailKeeps
<1>2. ASSUME NEW m \in Mails, MailExpires(m) \/ VerifyEmail(m) \/ ResetPassword(m)
      PROVE  AccountsInv'
  BY <1>2, MailKeeps, PasswordKeeps
<1>3. ASSUME NEW l \in Logins,
             \/ CreateSession(l) \/ SessionEnds(l) \/ RevokeOtherSessions(l) \/ \E u \in People : Login(l, u)
      PROVE  AccountsInv'
  BY <1>3, SessionKeeps
<1>4. ASSUME NEW l \in Logins, NEW a \in Agents, CreateAdminAgentToken(l, a) \/ RevokeAdminAgentToken(l, a)
      PROVE  AccountsInv'
  BY <1>4, AgentKeeps
<1>5. ASSUME NEW r \in Admins, NEW l \in Logins, RequireAdmin(r, l) \/ \E w \in People : RequireUser(r, l, w)
      PROVE  AccountsInv'
  BY <1>5, AdmissionKeeps, ConsoleAdmissionKeeps
<1>6. ASSUME NEW r \in Admins, NEW a \in Agents, NEW k \in AgentKeys, AuthenticateAdminAgent(r, a, k)
      PROVE  AccountsInv'
  BY <1>6, AdmissionKeeps
<1>7. ASSUME NEW r \in Admins,
             PatchAdminUser(r) \/ PatchAdminUserStatus(r) \/ DeleteAdminUserRequest(r) \/ BulkAdminUsers(r)
      PROVE  AccountsInv'
  <2>1. PICK kinds \in SUBSET (SingleKinds \cup BulkKinds) : Choose(r, kinds)
    BY <1>7 DEF PatchAdminUser, PatchAdminUserStatus, DeleteAdminUserRequest, BulkAdminUsers, SingleKinds, BulkKinds
  <2> QED  BY <2>1, ChoiceKeeps
<1>8. ASSUME NEW r \in Admins, ReadUsers(r) \/ EnsureOwner(r) \/ CreateAdminUser(r) \/ OpenGateway(r)
      PROVE  AccountsInv'
  BY <1>8, ReadingKeeps, CountingKeeps, CreationOfUserKeeps, OpeningKeeps
<1>9. ASSUME NEW r \in Admins,
             \/ UpdateAdminUser(r) \/ UpdateAdminUserStatus(r) \/ DeleteAdminUser(r)
             \/ BulkUpdateAdminUsers(r) \/ BulkUpdateAdminUserRoles(r) \/ BulkDeleteAdminUsers(r)
      PROVE  AccountsInv'
  <2>1. PICK verified \in BOOLEAN : WriteUsers(r, verified) /\ request[r].kind # "resume"
    BY <1>9 DEF UpdateAdminUser, UpdateAdminUserStatus, DeleteAdminUser, BulkUpdateAdminUsers,
                BulkUpdateAdminUserRoles, BulkDeleteAdminUsers
  <2> QED  BY <2>1, WriteKeeps
<1>10. ASSUME NEW r \in Admins, AdminRequestFails(r)
       PROVE  AccountsInv'
  BY <1>10, FailureKeeps DEF AdminRequestFails, Finished
<1>11. CASE UNCHANGED accountVars
  <2>1. UNCHANGED <<account, login, mail, agent, agentKeys, access, request, opsDone, raced>>
    BY <1>11 DEF accountVars
  <2>2. AccountsTypeOK'
    BY <2>1 DEF AccountsInv, AccountsTypeOK
  <2> QED  BY <2>1, <2>2, AccountStays, CalmKeeps
<1> QED  BY <1>1, <1>2, <1>3, <1>4, <1>5, <1>6, <1>7, <1>8, <1>9, <1>10, <1>11 DEF AccountsNext

LEMMA AccountsInitial == AccountsInit => AccountsInv
<1> SUFFICES ASSUME AccountsInit
             PROVE  AccountsInv
  OBVIOUS
<1> USE DEF AccountsInit
<1>1. account \in [People -> AccountRows] /\ \A u \in Founders : u \in ActiveOwners
  <2> DEFINE n == [NoAccount EXCEPT !.status = "active", !.role = "owner", !.verified = TRUE]
  <2>1. NoAccount \in AccountRows
    BY AccountsAssumption DEF NoAccount, AccountRows, Roles
  <2>2. n \in AccountRows /\ n.status = "active" /\ n.role = "owner"
    BY <2>1 DEF AccountRows, Roles, Statuses, NoAccount
  <2>3. \A u \in People : account[u] = IF u \in Founders THEN n ELSE NoAccount
    OBVIOUS
  <2> HIDE DEF n
  <2> QED  BY <2>1, <2>2, <2>3, AccountsAssumption DEF ActiveOwners
<1>2. AccountsTypeOK
  <2>1. [state |-> "unused", kind |-> "verify", who |-> Nobody] \in MailRecords
    BY DEF MailRecords
  <2>2. [state |-> "unused", by |-> Nobody] \in AgentRecords
    BY DEF AgentRecords
  <2>3. 0 \in 0 .. MaxOps
    BY AccountsAssumption
  <2> QED  BY <1>1, <2>1, <2>2, <2>3, NoLoginSound, NoRequestTyped DEF AccountsTypeOK
<1>3. (\A l \in Logins : LoginSound(l)) /\ (\A m \in Mails : MailSound(m))
  BY NoLoginSound DEF LoginSound, MailSound
<1>4. \A r \in Admins : RequestSound(r)
  BY NoRequestTyped DEF RequestSound, FormSound, ReadSound, ReadAccounts, CountSound, Chosen
<1>5. AccessEndsWithAccount /\ OwnerLostOnlyInRace
  BY <1>1, AccountsAssumption DEF AccessEndsWithAccount, OwnerLostOnlyInRace
<1> QED  BY <1>2, <1>3, <1>4, <1>5 DEF AccountsInv

\* The inductive invariant holds.
THEOREM AccountsInvariant == AccountsSpec => []AccountsInv
<1> QED  BY AccountsInitial, AccountsStep, PTL DEF AccountsSpec

\* Accounts, sessions, letters, agent tokens and requests keep their types.
THEOREM AccountTypesHold == AccountsSpec => []AccountsTypeOK
<1>1. AccountsInv => AccountsTypeOK
  BY DEF AccountsInv
<1> QED  BY <1>1, AccountsInvariant, PTL

\* A session that is not late belongs to the present epoch of its account
\* (ResetPassword, UpdateAdminUserStatus, DeleteAdminUser and the bulk forms).
THEOREM SessionsEnd == AccountsSpec => []SessionsEndWithEpoch
<1>1. AccountsInv => SessionsEndWithEpoch
  BY DEF AccountsInv, LoginSound, SessionsEndWithEpoch
<1> QED  BY <1>1, AccountsInvariant, PTL

\* What was switched on in the workspace of a person stops with the account
\* (deactivateInactiveUsersGatewayAccessTx).
THEOREM AccessEnds == AccountsSpec => []AccessEndsWithAccount
<1>1. AccountsInv => AccessEndsWithAccount
  BY DEF AccountsInv
<1> QED  BY <1>1, AccountsInvariant, PTL

\* The last owner is lost only when a write overtook the count of another
\* (ensureAnotherActiveOwner, ensureActiveOwnerOutside).
THEOREM OwnersLostInRacesOnly == AccountsSpec => []OwnerLostOnlyInRace
<1>1. AccountsInv => OwnerLostOnlyInRace
  BY DEF AccountsInv
<1> QED  BY <1>1, AccountsInvariant, PTL

-----------------------------------------------------------------------------
(***************************************************************************)
(* Workspaces.                                                             *)
(***************************************************************************)

\* A request is about an organization that exists, which is active unless the request
\* has been overtaken; what it has checked is still so as far as it matters.
Waiting(c) == console[c].pc # "idle"
Checked(c, kinds) == console[c].pc = "checked" /\ console[c].wish.kind \in kinds
StatusKinds == {"patch_gateway", "delete_gateway", "bulk_gateways"}
ConsoleSound(c) ==
  /\ Waiting(c) => /\ console[c].org \in Orgs /\ console[c].wish \in Wishes /\ org[console[c].org] # "none"
                   /\ ~console[c].stale => org[console[c].org] = "active"
  /\ Checked(c, StatusKinds) => StatusWritten(c) # "none"
  /\ Checked(c, {"create_key"}) => /\ gateway[console[c].wish.gateway].status # "none"
                                   /\ gateway[console[c].wish.gateway].org = console[c].org
  /\ Checked(c, MemberKinds) /\ console[c].org \notin replanned /\ org[console[c].org] # "deleted"
       => Personal[console[c].org] \notin console[c].wish.who

\* A gateway that was made has an organization; those of a suspended one are off or late,
\* and so are their keys.
GatewaySound(g) ==
  /\ gateway[g].status # "none" <=> gateway[g].org \in Orgs
  /\ gateway[g].org \in Orgs => /\ org[gateway[g].org] # "none"
                                /\ org[gateway[g].org] = "suspended" /\ gateway[g].status = "active" => gateway[g].late
KeySound(k) ==
  gatewayKey[k].gateway \in Gateways =>
    LET g == gatewayKey[k].gateway
    IN /\ gateway[g].status # "none"
       /\ org[gateway[g].org] = "suspended" /\ gatewayKey[k].status = "active" => gatewayKey[k].late

\* Only the person a workspace belongs to owns it, and does so while it exists, unless a
\* plan change has removed the members.
OwnerSound(o) ==
  /\ \A u \in Users : member[o][u] = "owner" => Personal[o] = u /\ org[o] # "none"
  /\ \A u \in Users : Personal[o] = u /\ o \notin replanned /\ org[o] \notin {"none", "deleted"} => member[o][u] = "owner"

TenancyInv ==
  /\ TenancyTypeOK
  /\ org[DefaultOrg] = "active"
  /\ \A c \in Consoles : ConsoleSound(c)
  /\ \A g \in Gateways : GatewaySound(g)
  /\ \A k \in GatewayKeys : KeySound(k)
  /\ \A o \in Orgs : OwnerSound(o)

\* Organizations are not unmade, and deleted ones do not come back; a gateway stays with
\* its organization.
OrgMoves(o) ==
  /\ org[o] # "none" => org'[o] # "none"
  /\ org[o] = "deleted" => org'[o] = "deleted"
GatewayMoves(g) == gateway[g].status # "none" => gateway'[g].status # "none" /\ gateway'[g].org = gateway[g].org

\* What a step leaves alone, in an organization that it does not suspend or close.
NotSuspendedNow(o) == o \in Orgs /\ org[o] # "none" /\ org'[o] = "suspended" => org[o] = "suspended"
StaysOpen(o) == o \in Orgs /\ org[o] = "active" => org'[o] = "active"
GatewayKept(g) == gateway'[g] = gateway[g] /\ NotSuspendedNow(gateway[g].org)
KeyKept(k) ==
  /\ gatewayKey'[k] = gatewayKey[k]
  /\ gatewayKey[k].gateway \in Gateways => NotSuspendedNow(gateway[gatewayKey[k].gateway].org)
ConsoleKept(c) ==
  \/ console'[c] = console[c] /\ StaysOpen(console[c].org)
  \/ console'[c] = [console[c] EXCEPT !.stale = TRUE]

LEMMA KeptSound ==
  ASSUME TenancyInv, TenancyTypeOK', org'[DefaultOrg] = "active", replanned \subseteq replanned',
         \A o \in Orgs : OrgMoves(o) /\ OwnerSound(o)',
         \A g \in Gateways : GatewayMoves(g) /\ (GatewayKept(g) \/ GatewaySound(g)'),
         \A k \in GatewayKeys : KeyKept(k) \/ KeySound(k)',
         \A c \in Consoles : ConsoleKept(c) \/ ConsoleSound(c)'
  PROVE  TenancyInv'
<1>1. ASSUME NEW g \in Gateways
      PROVE  GatewaySound(g)'
  <2> SUFFICES ASSUME GatewayKept(g)
               PROVE  GatewaySound(g)'
    OBVIOUS
  <2> QED  BY DEF TenancyInv, GatewaySound, GatewayKept, NotSuspendedNow, OrgMoves
<1>2. ASSUME NEW k \in GatewayKeys
      PROVE  KeySound(k)'
  <2> SUFFICES ASSUME KeyKept(k), gatewayKey[k].gateway \in Gateways
               PROVE  KeySound(k)'
    BY DEF KeySound, KeyKept
  <2>1. PICK g \in Gateways : g = gatewayKey[k].gateway
    OBVIOUS
  <2>2. KeySound(k) /\ GatewaySound(g) /\ GatewayMoves(g)
    BY DEF TenancyInv
  <2>3. PICK o \in Orgs : o = gateway[g].org
    BY <2>1, <2>2 DEF KeySound, GatewaySound
  <2>4. org[o] # "none" /\ gateway[g].status # "none" /\ gateway'[g].org = o /\ gateway'[g].status # "none"
    BY <2>1, <2>2, <2>3 DEF KeySound, GatewaySound, GatewayMoves
  <2>5. org'[o] = "suspended" => org[o] = "suspended"
    BY <2>1, <2>3, <2>4 DEF KeyKept, NotSuspendedNow
  <2> QED  BY <2>1, <2>2, <2>3, <2>4, <2>5 DEF KeyKept, KeySound
<1>3. ASSUME NEW c \in Consoles
      PROVE  ConsoleSound(c)'
  <2> SUFFICES ASSUME ConsoleKept(c)
               PROVE  ConsoleSound(c)'
    OBVIOUS
  <2>1. console[c] \in ConsoleRecords /\ ConsoleSound(c)
    BY DEF TenancyInv, TenancyTypeOK
  <2>2. /\ console'[c].pc = console[c].pc /\ console'[c].org = console[c].org /\ console'[c].wish = console[c].wish
        /\ console'[c].seen = console[c].seen
        /\ ~console'[c].stale => ~console[c].stale /\ StaysOpen(console[c].org)
    BY <2>1 DEF ConsoleKept, ConsoleRecords
  <2>3. CASE ~Waiting(c)
    BY <2>2, <2>3 DEF ConsoleSound, Waiting, Checked
  <2>4. CASE Waiting(c)
    <3>1. PICK o \in Orgs : o = console[c].org
      BY <2>1, <2>4 DEF ConsoleSound
    <3>2. PICK w \in Wishes : w = console[c].wish
      BY <2>1, <2>4 DEF ConsoleSound
    <3>3. org[o] # "none" /\ (~console[c].stale => org[o] = "active")
      BY <2>1, <2>4, <3>1 DEF ConsoleSound
    <3>4. org'[o] # "none" /\ (~console'[c].stale => org'[o] = "active") /\ (org'[o] # "deleted" => org[o] # "deleted")
      BY <2>2, <3>1, <3>3 DEF OrgMoves, StaysOpen
    <3>5. StatusWritten(c)' = StatusWritten(c) /\ \A K : Checked(c, K)' <=> Checked(c, K)
      BY <2>2 DEF StatusWritten, Checked
    <3>6. Checked(c, {"create_key"}) => /\ gateway'[w.gateway].status # "none"
                                        /\ gateway'[w.gateway].org = o
      <4> SUFFICES ASSUME Checked(c, {"create_key"})
                   PROVE  gateway'[w.gateway].status # "none" /\ gateway'[w.gateway].org = o
        OBVIOUS
      <4>1. w.kind = "create_key" /\ w \in AllWishes
        BY <3>2, TenancyAssumption DEF Checked
      <4>2. w.gateway \in Gateways
        BY <4>1 DEF AllWishes, GatewayKinds
      <4> QED  BY <2>1, <3>1, <3>2, <4>2 DEF ConsoleSound, GatewayMoves
    <3>7. Checked(c, MemberKinds) /\ o \notin replanned' /\ org'[o] # "deleted" => Personal[o] \notin w.who
      BY <2>1, <3>1, <3>2, <3>4 DEF ConsoleSound
    <3>8. Checked(c, StatusKinds) => StatusWritten(c) # "none"
      BY <2>1 DEF ConsoleSound
    <3> QED  BY <2>2, <3>1, <3>2, <3>4, <3>5, <3>6, <3>7, <3>8 DEF ConsoleSound
  <2> QED  BY <2>3, <2>4
<1> QED  BY <1>1, <1>2, <1>3 DEF TenancyInv

\* The parts of a step that leave organizations and members, or gateways and keys, alone.
LEMMA OrgsStand ==
  ASSUME TenancyInv, UNCHANGED <<org, member, replanned>>
  PROVE  /\ org' \in [Orgs -> {"none", "active", "suspended", "deleted"}]
         /\ member' \in [Orgs -> [Users -> MemberRoles \cup {"out"}]]
         /\ org'[DefaultOrg] = "active" /\ replanned \subseteq replanned' /\ replanned' \subseteq Orgs
         /\ \A o \in Orgs : OrgMoves(o) /\ OwnerSound(o)'
  BY DEF TenancyInv, TenancyTypeOK, OrgMoves, OwnerSound

LEMMA GatewaysStand ==
  ASSUME TenancyInv, UNCHANGED <<gateway, gatewayKey>>, \A o \in Orgs : NotSuspendedNow(o)
  PROVE  /\ gateway' \in [Gateways -> GatewayRows] /\ gatewayKey' \in [GatewayKeys -> KeyRows]
         /\ \A g \in Gateways : GatewayMoves(g) /\ (GatewayKept(g) \/ GatewaySound(g)')
         /\ \A k \in GatewayKeys : KeyKept(k) \/ KeySound(k)'
<1>1. \A g \in Gateways : NotSuspendedNow(gateway[g].org)
  BY DEF NotSuspendedNow
<1> QED  BY <1>1 DEF TenancyInv, TenancyTypeOK, GatewayMoves, GatewayKept, KeyKept

LEMMA IdleConsole == Idle \in ConsoleRecords /\ Idle.pc = "idle"
  BY DEF Idle, ConsoleRecords

\* A request that ends or fails leaves the others alone.
LEMMA Released ==
  ASSUME TenancyInv, NEW c \in Consoles, console' = [console EXCEPT ![c] = Idle], org' = org
  PROVE  /\ console' \in [Consoles -> ConsoleRecords]
         /\ \A d \in Consoles : ConsoleKept(d) \/ ConsoleSound(d)'
<1>1. console \in [Consoles -> ConsoleRecords]
  BY DEF TenancyInv, TenancyTypeOK
<1>2. console' \in [Consoles -> ConsoleRecords]
  BY <1>1, IdleConsole
<1>3. ConsoleSound(c)'
  BY <1>1, IdleConsole DEF ConsoleSound, Waiting, Checked
<1>4. \A d \in Consoles \ {c} : ConsoleKept(d)
  BY <1>1 DEF ConsoleKept, StaysOpen
<1> QED  BY <1>2, <1>3, <1>4

\* Requests about organizations that a change closes are overtaken by it.
LEMMA OvertakenSound ==
  ASSUME TenancyInv, NEW O \in SUBSET Orgs, console' = Overtaken(O), \A o \in Orgs \ O : StaysOpen(o)
  PROVE  /\ console' \in [Consoles -> ConsoleRecords]
         /\ \A d \in Consoles : ConsoleKept(d) \/ ConsoleSound(d)'
<1>1. console \in [Consoles -> ConsoleRecords]
  BY DEF TenancyInv, TenancyTypeOK
<1>2. ASSUME NEW d \in Consoles
      PROVE  console'[d] \in ConsoleRecords /\ (ConsoleKept(d) \/ ConsoleSound(d)')
  <2> DEFINE late == [console[d] EXCEPT !.stale = TRUE]
  <2>1. late \in ConsoleRecords
    BY <1>1 DEF ConsoleRecords
  <2>2. console'[d] = IF console[d].pc # "idle" /\ console[d].org \in O THEN late ELSE console[d]
    BY DEF Overtaken
  <2>3. CASE console[d].pc # "idle" /\ console[d].org \in O
    BY <2>1, <2>2, <2>3 DEF ConsoleKept
  <2>4. CASE console[d].pc = "idle"
    BY <1>1, <2>2, <2>4 DEF ConsoleSound, Waiting, Checked
  <2>5. CASE console[d].org \notin O
    BY <1>1, <2>2, <2>5 DEF ConsoleKept, StaysOpen
  <2> QED  BY <2>3, <2>4, <2>5
<1>3. console' = [d \in Consoles |-> console'[d]]
  BY DEF Overtaken
<1> QED  BY <1>2, <1>3

\* Keys that are revoked stay where they are, and the others are as they were.
LEMMA RevokedKeys ==
  ASSUME TenancyInv, NEW G \in SUBSET Gateways, gatewayKey' = KeysRevoked(G)
  PROVE  /\ gatewayKey' \in [GatewayKeys -> KeyRows]
         /\ \A k \in GatewayKeys :
              /\ gatewayKey'[k].gateway = gatewayKey[k].gateway /\ gatewayKey'[k].late = gatewayKey[k].late
              /\ gatewayKey'[k].status = "active" => gatewayKey[k].status = "active" /\ gatewayKey[k].gateway \notin G
<1>1. gatewayKey \in [GatewayKeys -> KeyRows]
  BY DEF TenancyInv, TenancyTypeOK
<1>2. ASSUME NEW k \in GatewayKeys
      PROVE  /\ gatewayKey'[k] \in KeyRows
             /\ gatewayKey'[k].gateway = gatewayKey[k].gateway /\ gatewayKey'[k].late = gatewayKey[k].late
             /\ gatewayKey'[k].status = "active" => gatewayKey[k].status = "active" /\ gatewayKey[k].gateway \notin G
  BY <1>1 DEF KeysRevoked, KeyRows
<1> QED  BY <1>1, <1>2 DEF KeysRevoked

\* What a request asks for.
LEMMA RequestAt ==
  ASSUME TenancyInv, NEW c \in Consoles, Waiting(c)
  PROVE  /\ console[c] \in ConsoleRecords
         /\ console[c].org \in Orgs /\ org[console[c].org] # "none"
         /\ ~console[c].stale => org[console[c].org] = "active"
         /\ console[c].wish \in Wishes /\ console[c].wish \in AllWishes
         /\ console[c].wish.who \subseteq Users /\ console[c].wish.role \in WritableRoles
         /\ console[c].wish.keys \subseteq GatewayKeys
         /\ console[c].wish.kind \in GatewayKinds => console[c].wish.gateway \in Gateways
         /\ console[c].wish.status \in {"keep", "active", "paused", "deleted"}
         /\ console[c].wish.status = "deleted" => console[c].wish.kind \in StatusKinds
         /\ console[c].wish.kind = "delete_gateway" => console[c].wish.status = "deleted"
         /\ console[c].wish.kind \in {"bulk_gateways", "bulk_keys"} => console[c].wish.status # "keep"
<1>1. console[c] \in ConsoleRecords /\ ConsoleSound(c)
  BY DEF TenancyInv, TenancyTypeOK
<1>2. console[c].wish \in Wishes /\ console[c].wish \in AllWishes
  BY <1>1, TenancyAssumption DEF ConsoleSound
<1>3. PICK w \in AllWishes : w = console[c].wish
  BY <1>2
<1>4. /\ w.who \subseteq Users /\ w.role \in WritableRoles /\ w.keys \subseteq GatewayKeys
      /\ w.kind \in GatewayKinds => w.gateway \in Gateways
      /\ w.status \in {"keep", "active", "paused", "deleted"}
      /\ w.status = "deleted" => w.kind \in StatusKinds
      /\ w.kind = "delete_gateway" => w.status = "deleted"
      /\ w.kind \in {"bulk_gateways", "bulk_keys"} => w.status # "keep"
  BY <1>3, TenancyAssumption DEF AllWishes, StatusKinds
<1> QED  BY <1>1, <1>2, <1>3, <1>4 DEF ConsoleSound

LEMMA SettingsKeep ==
  ASSUME TenancyInv, NEW c \in Consoles, NEW kind, NEW named \in BOOLEAN, WriteSettings(c, kind, named)
  PROVE  TenancyInv'
<1>1. UNCHANGED <<org, rules, member, gateway, gatewayKey, replanned, adminWrites, consoleUses>>
  BY DEF WriteSettings
<1>2. console' = [console EXCEPT ![c] = Idle]
  BY DEF WriteSettings
<1>3. defaultNote' \in [Orgs -> BOOLEAN]
  BY DEF WriteSettings, TenancyInv, TenancyTypeOK
<1>4. /\ console' \in [Consoles -> ConsoleRecords]
      /\ \A d \in Consoles : ConsoleKept(d) \/ ConsoleSound(d)'
  BY <1>1, <1>2, Released
<1>5. \A o \in Orgs : NotSuspendedNow(o)
  BY <1>1 DEF NotSuspendedNow
<1>6. TenancyTypeOK'
  BY <1>1, <1>3, <1>4 DEF TenancyInv, TenancyTypeOK
<1> QED  BY <1>1, <1>4, <1>5, <1>6, OrgsStand, GatewaysStand, KeptSound

\* The members a request names lose or change their roles; none of them is the person
\* the workspace belongs to.
LEMMA MembersKeep ==
  ASSUME TenancyInv, NEW c \in Consoles, NEW kind \in MemberKinds, WriteMembers(c, kind)
  PROVE  TenancyInv'
<1>1. UNCHANGED <<org, rules, defaultNote, gateway, gatewayKey, replanned, adminWrites, consoleUses>>
  BY DEF WriteMembers
<1>2. console[c].pc = "checked" /\ console[c].wish.kind \in MemberKinds
  BY DEF WriteMembers
<1>3. Waiting(c) /\ Checked(c, MemberKinds)
  BY <1>2 DEF Waiting, Checked
<1>4. PICK o \in Orgs : o = console[c].org
  BY <1>3, RequestAt
<1>5. PICK w \in Wishes : w = console[c].wish
  BY <1>3, RequestAt
<1>6. w.who \subseteq Users /\ w.role \in WritableRoles
  BY <1>3, <1>5, RequestAt
<1>7. o \notin replanned /\ org[o] # "deleted" => Personal[o] \notin w.who
  BY <1>3, <1>4, <1>5 DEF TenancyInv, ConsoleSound
<1>8. PICK after : after = MembersWritten(c)
  OBVIOUS
<1>9. after \in [Users -> MemberRoles \cup {"out"}]
  BY <1>4, <1>5, <1>6, <1>8 DEF MembersWritten, MemberRole, WritableRoles, TenancyInv, TenancyTypeOK
<1>10. ASSUME NEW u \in Users
       PROVE  /\ after[u] = "owner" => member[o][u] = "owner"
              /\ u \notin w.who => after[u] = member[o][u]
  BY <1>4, <1>5, <1>6, <1>8 DEF MembersWritten, MemberRole, WritableRoles
<1>11. member' = [member EXCEPT ![o] = after]
  BY <1>4, <1>8 DEF WriteMembers
<1>12. member \in [Orgs -> [Users -> MemberRoles \cup {"out"}]]
  BY DEF TenancyInv, TenancyTypeOK
<1>13. ASSUME NEW p \in Orgs
       PROVE  OrgMoves(p) /\ OwnerSound(p)'
  <2>1. OwnerSound(p)
    BY DEF TenancyInv
  <2>2. CASE p # o
    BY <1>1, <1>11, <1>12, <2>1, <2>2 DEF OrgMoves, OwnerSound
  <2>3. CASE p = o
    <3>1. \A u \in Users : member'[o][u] = "owner" => Personal[o] = u /\ org'[o] # "none"
      BY <1>1, <1>10, <1>11, <1>12, <2>1, <2>3 DEF OwnerSound
    <3>2. ASSUME NEW u \in Users, Personal[o] = u, o \notin replanned, org[o] \notin {"none", "deleted"}
          PROVE  member'[o][u] = "owner"
      BY <1>7, <1>10, <1>11, <1>12, <2>1, <2>3, <3>2 DEF OwnerSound
    <3> QED  BY <1>1, <2>3, <3>1, <3>2 DEF OrgMoves, OwnerSound
  <2> QED  BY <2>2, <2>3
<1>14. ASSUME NEW d \in Consoles
       PROVE  console'[d] \in ConsoleRecords /\ (ConsoleKept(d) \/ ConsoleSound(d)')
  <2>1. console[d] \in ConsoleRecords
    BY DEF TenancyInv, TenancyTypeOK
  <2>2. CASE d = c
    <3>1. console'[d] = Idle
      BY <2>2 DEF WriteMembers
    <3> QED  BY <3>1, IdleConsole DEF ConsoleSound, Waiting, Checked
  <2>3. CASE d # c
    <3> DEFINE late == [console[d] EXCEPT !.stale = TRUE]
    <3>1. PICK moved \in BOOLEAN : console'[d] = [console[d] EXCEPT !.stale = @ \/ moved]
      <4> DEFINE moved == /\ console[d].pc # "idle" /\ console[d].org = console[c].org
                          /\ console[d].actor \in Users
                          /\ MembersWritten(c)[console[d].actor] # member[console[c].org][console[d].actor]
      <4>1. console'[d] = [console[d] EXCEPT !.stale = @ \/ moved]
        BY <2>3 DEF WriteMembers
      <4>2. moved \in BOOLEAN
        OBVIOUS
      <4> QED  BY <4>1, <4>2
    <3>2. console'[d] = late \/ console'[d] = console[d]
      <4>1. CASE moved
        <5>1. (console[d].stale \/ moved) = TRUE
          BY <4>1
        <5> QED  BY <3>1, <5>1
      <4>2. CASE ~moved
        <5>1. (console[d].stale \/ moved) = console[d].stale
          BY <2>1, <4>2 DEF ConsoleRecords
        <5>2. [console[d] EXCEPT !.stale = console[d].stale] = console[d]
          BY <2>1 DEF ConsoleRecords
        <5> QED  BY <3>1, <5>1, <5>2
      <4> QED  BY <4>1, <4>2
    <3>3. late \in ConsoleRecords
      BY <2>1 DEF ConsoleRecords
    <3> QED  BY <1>1, <2>1, <3>2, <3>3 DEF ConsoleKept, StaysOpen
  <2> QED  BY <2>2, <2>3
<1>15. console' \in [Consoles -> ConsoleRecords]
  BY <1>14 DEF WriteMembers
<1>16. \A p \in Orgs : NotSuspendedNow(p)
  BY <1>1 DEF NotSuspendedNow
<1>17. TenancyTypeOK'
  BY <1>1, <1>9, <1>11, <1>12, <1>15 DEF TenancyInv, TenancyTypeOK
<1>18. org'[DefaultOrg] = "active"
  BY <1>1 DEF TenancyInv
<1> QED  BY <1>1, <1>13, <1>14, <1>16, <1>17, <1>18, GatewaysStand, KeptSound

\* A new gateway has no keys yet.
LEMMA CreationOfGatewayKeeps ==
  ASSUME TenancyInv, NEW c \in Consoles, CreateGateway(c)
  PROVE  TenancyInv'
<1>1. UNCHANGED <<org, rules, defaultNote, member, gatewayKey, replanned, adminWrites, consoleUses>>
  BY DEF CreateGateway
<1>2. console' = [console EXCEPT ![c] = Idle]
  BY DEF CreateGateway
<1>3. Waiting(c) /\ console[c].wish.kind \in GatewayKinds
  BY DEF CreateGateway, Waiting, GatewayKinds
<1>4. PICK o \in Orgs : o = console[c].org
  BY <1>3, RequestAt
<1>5. PICK g \in Gateways : g = console[c].wish.gateway
  BY <1>3, RequestAt
<1>6. PICK late \in BOOLEAN : late = console[c].stale
  BY <1>3, RequestAt DEF ConsoleRecords
<1>7. org[o] # "none" /\ (~late => org[o] = "active")
  BY <1>3, <1>4, <1>6, RequestAt
<1> DEFINE row == [org |-> o, status |-> "active", late |-> late]
<1>8. row \in GatewayRows
  BY DEF GatewayRows
<1>9. gateway' = [gateway EXCEPT ![g] = row] /\ gateway[g].status = "none"
  BY <1>4, <1>5, <1>6 DEF CreateGateway
<1>10. gateway \in [Gateways -> GatewayRows]
  BY DEF TenancyInv, TenancyTypeOK
<1>11. gateway' \in [Gateways -> GatewayRows]
  BY <1>8, <1>9, <1>10
<1>12. GatewayMoves(g) /\ GatewaySound(g)'
  BY <1>1, <1>7, <1>9, <1>10 DEF GatewayMoves, GatewaySound
<1>13. \A h \in Gateways \ {g} : GatewayMoves(h) /\ GatewayKept(h)
  BY <1>1, <1>9, <1>10 DEF GatewayMoves, GatewayKept, NotSuspendedNow
<1>14. \A k \in GatewayKeys : KeyKept(k)
  BY <1>1 DEF KeyKept, NotSuspendedNow
<1>15. /\ console' \in [Consoles -> ConsoleRecords]
       /\ \A d \in Consoles : ConsoleKept(d) \/ ConsoleSound(d)'
  BY <1>1, <1>2, Released
<1>16. TenancyTypeOK'
  BY <1>1, <1>11, <1>15 DEF TenancyInv, TenancyTypeOK
<1> HIDE DEF row
<1>17. \A h \in Gateways : GatewayMoves(h) /\ (GatewayKept(h) \/ GatewaySound(h)')
  BY <1>12, <1>13
<1> QED  BY <1>1, <1>14, <1>15, <1>16, <1>17, OrgsStand, KeptSound

\* A gateway that is switched on again is late if the request was overtaken.
LEMMA GatewayStatusKeeps ==
  ASSUME TenancyInv, NEW c \in Consoles, NEW kind \in StatusKinds, WriteGatewayStatus(c, kind)
  PROVE  TenancyInv'
<1>1. UNCHANGED <<org, rules, defaultNote, member, replanned, adminWrites, consoleUses>>
  BY DEF WriteGatewayStatus
<1>2. console' = [console EXCEPT ![c] = Idle]
  BY DEF WriteGatewayStatus
<1>3. Waiting(c) /\ console[c].wish.kind \in GatewayKinds /\ Checked(c, StatusKinds)
  BY DEF WriteGatewayStatus, Waiting, GatewayKinds, StatusKinds, Checked
<1>4. PICK o \in Orgs : o = console[c].org
  BY <1>3, RequestAt
<1>5. PICK g \in Gateways : g = console[c].wish.gateway
  BY <1>3, RequestAt
<1>6. PICK stale \in BOOLEAN : stale = console[c].stale
  BY <1>3, RequestAt DEF ConsoleRecords
<1>7. org[o] # "none" /\ (~stale => org[o] = "active")
  BY <1>3, <1>4, <1>6, RequestAt
<1>8. PICK next \in {"active", "paused", "deleted"} : next = StatusWritten(c)
  <2>1. StatusWritten(c) # "none"
    BY <1>3 DEF TenancyInv, ConsoleSound
  <2>2. StatusWritten(c) \in {"none", "active", "paused", "deleted"}
    BY <1>3, RequestAt DEF StatusWritten, ConsoleRecords
  <2> QED  BY <2>1, <2>2
<1>9. gateway \in [Gateways -> GatewayRows] /\ gatewayKey \in [GatewayKeys -> KeyRows] /\ \A h \in Gateways : GatewaySound(h)
  BY DEF TenancyInv, TenancyTypeOK
<1> DEFINE written == [gateway[g] EXCEPT !.status = next, !.late = next = "active" /\ (stale \/ gateway[g].late)]
           found == gateway[g].org = o /\ gateway[g].status \in {"active", "paused"}
<1>10. /\ written \in GatewayRows /\ written.org = gateway[g].org /\ written.status = next
       /\ next = "active" /\ stale => written.late
  BY <1>9 DEF GatewayRows
<1>11. gateway' = IF found THEN [gateway EXCEPT ![g] = written] ELSE gateway
  BY <1>4, <1>5, <1>6, <1>8, <1>9 DEF WriteGatewayStatus
<1>12. gatewayKey' = gatewayKey \/ gatewayKey' = KeysRevoked({g})
  BY <1>5 DEF WriteGatewayStatus
<1> HIDE DEF written
<1>13. gateway' \in [Gateways -> GatewayRows]
  BY <1>9, <1>10, <1>11
<1>14. ASSUME NEW h \in Gateways
       PROVE  GatewayMoves(h) /\ (GatewayKept(h) \/ GatewaySound(h)')
  <2>1. CASE h = g /\ found
    BY <1>1, <1>7, <1>9, <1>10, <1>11, <2>1 DEF GatewayMoves, GatewaySound
  <2>2. CASE ~(h = g /\ found)
    <3>1. gateway'[h] = gateway[h]
      BY <1>9, <1>11, <2>2
    <3> QED  BY <1>1, <3>1 DEF GatewayMoves, GatewayKept, NotSuspendedNow
  <2> QED  BY <2>1, <2>2
<1>15. gatewayKey' \in [GatewayKeys -> KeyRows] /\ \A k \in GatewayKeys : KeyKept(k) \/ KeySound(k)'
  <2>1. CASE gatewayKey' = gatewayKey
    BY <1>1, <1>9, <2>1 DEF KeyKept, NotSuspendedNow
  <2>2. CASE gatewayKey' = KeysRevoked({g})
    <3>1. ASSUME NEW k \in GatewayKeys
          PROVE  KeySound(k)'
      <4> SUFFICES ASSUME gatewayKey'[k].gateway \in Gateways
                   PROVE  KeySound(k)'
        BY DEF KeySound
      <4>1. PICK h \in Gateways : h = gatewayKey'[k].gateway
        OBVIOUS
      <4>2. gatewayKey[k].gateway = h /\ gatewayKey'[k].late = gatewayKey[k].late
        BY <2>2, <4>1, RevokedKeys
      <4>3. gatewayKey'[k].status = "active" => gatewayKey[k].status = "active"
        BY <2>2, RevokedKeys
      <4>4. KeySound(k) /\ GatewayMoves(h)
        BY <1>14 DEF TenancyInv
      <4> QED  BY <1>1, <4>1, <4>2, <4>3, <4>4 DEF KeySound, GatewayMoves
    <3> QED  BY <2>2, <3>1, RevokedKeys
  <2> QED  BY <1>12, <2>1, <2>2
<1>16. /\ console' \in [Consoles -> ConsoleRecords]
       /\ \A d \in Consoles : ConsoleKept(d) \/ ConsoleSound(d)'
  BY <1>1, <1>2, Released
<1>17. TenancyTypeOK'
  BY <1>1, <1>13, <1>15, <1>16 DEF TenancyInv, TenancyTypeOK
<1> HIDE DEF found
<1> QED  BY <1>1, <1>14, <1>15, <1>16, <1>17, OrgsStand, KeptSound

LEMMA CreationOfKeyKeeps ==
  ASSUME TenancyInv, NEW c \in Consoles, NEW k \in GatewayKeys, CreateGatewayKey(c, k)
  PROVE  TenancyInv'
<1>1. UNCHANGED <<org, rules, defaultNote, member, gateway, replanned, adminWrites, consoleUses>>
  BY DEF CreateGatewayKey
<1>2. console' = [console EXCEPT ![c] = Idle]
  BY DEF CreateGatewayKey
<1>3. Waiting(c) /\ console[c].wish.kind \in GatewayKinds /\ Checked(c, {"create_key"})
  BY DEF CreateGatewayKey, Waiting, GatewayKinds, Checked
<1>4. PICK o \in Orgs : o = console[c].org
  BY <1>3, RequestAt
<1>5. PICK g \in Gateways : g = console[c].wish.gateway
  BY <1>3, RequestAt
<1>6. PICK late \in BOOLEAN : late = console[c].stale
  BY <1>3, RequestAt DEF ConsoleRecords
<1>7. ~late => org[o] = "active"
  BY <1>3, <1>4, <1>6, RequestAt
<1>8. gateway[g].status # "none" /\ gateway[g].org = o
  BY <1>3, <1>4, <1>5 DEF TenancyInv, ConsoleSound
<1> DEFINE row == [gateway |-> g, status |-> "active", late |-> late]
<1>9. row \in KeyRows
  BY DEF KeyRows
<1>10. gatewayKey' = [gatewayKey EXCEPT ![k] = row]
  BY <1>5, <1>6 DEF CreateGatewayKey
<1>11. gatewayKey \in [GatewayKeys -> KeyRows]
  BY DEF TenancyInv, TenancyTypeOK
<1>12. gatewayKey' \in [GatewayKeys -> KeyRows]
  BY <1>9, <1>10, <1>11
<1>13. KeySound(k)'
  BY <1>1, <1>7, <1>8, <1>10, <1>11 DEF KeySound
<1>14. \A j \in GatewayKeys \ {k} : KeyKept(j)
  BY <1>1, <1>10, <1>11 DEF KeyKept, NotSuspendedNow
<1>15. \A h \in Gateways : GatewayMoves(h) /\ GatewayKept(h)
  BY <1>1 DEF GatewayMoves, GatewayKept, NotSuspendedNow
<1>16. /\ console' \in [Consoles -> ConsoleRecords]
       /\ \A d \in Consoles : ConsoleKept(d) \/ ConsoleSound(d)'
  BY <1>1, <1>2, Released
<1>17. TenancyTypeOK'
  BY <1>1, <1>12, <1>16 DEF TenancyInv, TenancyTypeOK
<1> HIDE DEF row
<1>18. \A j \in GatewayKeys : KeyKept(j) \/ KeySound(j)'
  BY <1>13, <1>14
<1> QED  BY <1>1, <1>15, <1>16, <1>17, <1>18, OrgsStand, KeptSound

\* Keys that are switched on again are late if the request was overtaken.
KeyStatuses == {"none", "active", "paused", "revoked", "deleted"}
LEMMA KeysKeep ==
  ASSUME TenancyInv, NEW c \in Consoles, NEW kind, NEW found \in BOOLEAN, NEW status \in KeyStatuses,
         WriteKeys(c, kind, found, status),
         found => \A k \in console[c].wish.keys : OwnKey(c, k)
  PROVE  TenancyInv'
<1>1. UNCHANGED <<org, rules, defaultNote, member, gateway, replanned, adminWrites, consoleUses>>
  BY DEF WriteKeys
<1>2. console' = [console EXCEPT ![c] = Idle]
  BY DEF WriteKeys
<1>3. Waiting(c)
  BY DEF WriteKeys, Waiting
<1>4. PICK o \in Orgs : o = console[c].org
  BY <1>3, RequestAt
<1>5. PICK stale \in BOOLEAN : stale = console[c].stale
  BY <1>3, RequestAt DEF ConsoleRecords
<1>6. PICK keys \in SUBSET GatewayKeys : keys = console[c].wish.keys
  BY <1>3, RequestAt
<1>7. ~stale => org[o] = "active"
  BY <1>3, <1>4, <1>5, RequestAt
<1>8. gatewayKey \in [GatewayKeys -> KeyRows]
  BY DEF TenancyInv, TenancyTypeOK
<1>9. ASSUME NEW k \in GatewayKeys
      PROVE  gatewayKey'[k] \in KeyRows /\ (KeyKept(k) \/ KeySound(k)')
  <2> DEFINE written == [gatewayKey[k] EXCEPT !.status = status,
                           !.late = status = "active" /\ (stale \/ gatewayKey[k].late)]
  <2>1. /\ written \in KeyRows /\ written.gateway = gatewayKey[k].gateway
        /\ written.status = "active" /\ stale => written.late
    BY <1>8 DEF KeyRows, KeyStatuses
  <2>2. gatewayKey'[k] = IF found /\ k \in keys THEN written ELSE gatewayKey[k]
    BY <1>5, <1>6 DEF WriteKeys
  <2> HIDE DEF written
  <2>3. CASE found /\ k \in keys
    <3>1. gateway[gatewayKey[k].gateway].org = o
      BY <1>4, <1>6, <2>3 DEF OwnKey
    <3>2. KeySound(k)
      BY DEF TenancyInv
    <3> QED  BY <1>1, <1>7, <2>1, <2>2, <2>3, <3>1, <3>2 DEF KeySound
  <2>4. CASE ~(found /\ k \in keys)
    BY <1>1, <1>8, <2>2, <2>4 DEF KeyKept, NotSuspendedNow
  <2> QED  BY <2>3, <2>4
<1>10. gatewayKey' \in [GatewayKeys -> KeyRows]
  BY <1>9 DEF WriteKeys
<1>11. \A h \in Gateways : GatewayMoves(h) /\ GatewayKept(h)
  BY <1>1 DEF GatewayMoves, GatewayKept, NotSuspendedNow
<1>12. /\ console' \in [Consoles -> ConsoleRecords]
       /\ \A d \in Consoles : ConsoleKept(d) \/ ConsoleSound(d)'
  BY <1>1, <1>2, Released
<1>13. TenancyTypeOK'
  BY <1>1, <1>10, <1>12 DEF TenancyInv, TenancyTypeOK
<1> QED  BY <1>1, <1>9, <1>11, <1>12, <1>13, OrgsStand, KeptSound

LEMMA WritesOfKeysKeep ==
  ASSUME TenancyInv, NEW c \in Consoles,
         \/ UpdateGatewayKey(c) \/ BulkUpdateGatewayKeys(c)
         \/ BulkRevokeGatewayKeys(c) \/ BulkDeleteGatewayKeys(c)
  PROVE  TenancyInv'
<1>1. PICK live \in BOOLEAN : live = LiveKeys(c)
  BY DEF LiveKeys
<1>2. PICK clean \in BOOLEAN : clean = (LiveKeys(c) /\ NoneRevoked(c))
  BY DEF LiveKeys, NoneRevoked
<1>3. PICK own \in BOOLEAN : own = (\A k \in console[c].wish.keys : OwnKey(c, k))
  OBVIOUS
<1>4. (live => own) /\ (clean => own) /\ (own => \A k \in console[c].wish.keys : OwnKey(c, k))
  BY <1>1, <1>2, <1>3 DEF LiveKeys
<1>5. CASE UpdateGatewayKey(c) \/ BulkUpdateGatewayKeys(c)
  <2>1. Waiting(c)
    BY <1>5 DEF UpdateGatewayKey, BulkUpdateGatewayKeys, WriteKeys, Waiting
  <2>2. PICK status \in KeyStatuses : status = StatusWritten(c)
    BY <2>1, RequestAt DEF StatusWritten, ConsoleRecords, KeyStatuses
  <2>3. CASE UpdateGatewayKey(c)
    <3>1. WriteKeys(c, "patch_key", live, status)
      BY <1>1, <2>2, <2>3 DEF UpdateGatewayKey, WriteKeys
    <3> QED  BY <1>4, <3>1, KeysKeep
  <2>4. CASE BulkUpdateGatewayKeys(c)
    <3>1. WriteKeys(c, "bulk_keys", clean, status)
      BY <1>2, <2>2, <2>4 DEF BulkUpdateGatewayKeys, WriteKeys
    <3> QED  BY <1>4, <3>1, KeysKeep
  <2> QED  BY <1>5, <2>3, <2>4
<1>6. CASE BulkRevokeGatewayKeys(c)
  <2>1. WriteKeys(c, "revoke_keys", live, "revoked") /\ "revoked" \in KeyStatuses
    BY <1>1, <1>6 DEF BulkRevokeGatewayKeys, WriteKeys, KeyStatuses
  <2> QED  BY <1>4, <2>1, KeysKeep
<1>7. CASE BulkDeleteGatewayKeys(c)
  <2>1. WriteKeys(c, "delete_keys", own, "deleted") /\ "deleted" \in KeyStatuses
    BY <1>3, <1>7 DEF BulkDeleteGatewayKeys, WriteKeys, KeyStatuses
  <2> QED  BY <1>4, <2>1, KeysKeep
<1> QED  BY <1>5, <1>6, <1>7

\* The status an edit reads is one that can be written back.
LEMMA StatusReadIsLive ==
  ASSUME TenancyInv, NEW c \in Consoles, Waiting(c), MayWrite(c)
  PROVE  /\ StatusRead(c) \in {"none", "active", "paused", "deleted"}
         /\ console[c].wish.kind = "patch_gateway" => StatusRead(c) # "none"
<1>1. PICK w \in AllWishes : w = console[c].wish
  BY RequestAt
<1>2. w.keys \subseteq GatewayKeys
  BY <1>1, RequestAt
<1>3. CASE w.kind = "patch_gateway"
  <2>1. OwnGateway(c)
    BY <1>1, <1>3 DEF MayWrite, MemberKinds, BulkMemberKinds
  <2> QED  BY <1>1, <1>3, <2>1 DEF OwnGateway, StatusRead
<1>4. CASE w.kind = "patch_key"
  <2>1. LiveKeys(c) /\ NoneRevoked(c)
    BY <1>1, <1>4 DEF MayWrite, MemberKinds, BulkMemberKinds
  <2>2. w.keys # {}
    BY <1>4 DEF AllWishes, KeyKinds
  <2>3. \A k \in w.keys : gatewayKey[k].status \in {"active", "paused"}
    <3> SUFFICES ASSUME NEW k \in w.keys
                 PROVE  gatewayKey[k].status \in {"active", "paused"}
      OBVIOUS
    <3>1. gatewayKey[k].status \notin {"none", "deleted", "revoked"}
      BY <1>1, <2>1 DEF LiveKeys, NoneRevoked, OwnKey
    <3>2. gatewayKey[k] \in KeyRows
      BY <1>2 DEF TenancyInv, TenancyTypeOK
    <3> QED  BY <3>1, <3>2 DEF KeyRows
  <2> DEFINE rows == {gatewayKey[k] : k \in w.keys}
  <2>4. PICK row : row = CHOOSE r \in rows : TRUE
    OBVIOUS
  <2>5. row \in rows
    <3>1. rows # {}
      BY <2>2
    <3> QED  BY <2>4, <3>1
  <2>6. row.status \in {"active", "paused"}
    BY <2>3, <2>5
  <2>7. StatusRead(c) = row.status
    BY <1>1, <1>4, <2>4 DEF StatusRead
  <2> QED  BY <1>1, <1>4, <2>6, <2>7
<1>5. CASE w.kind \notin {"patch_gateway", "patch_key"}
  BY <1>1, <1>5 DEF StatusRead
<1> QED  BY <1>3, <1>4, <1>5

\* What the check found still holds of the request when it writes.
LEMMA CheckKeeps ==
  ASSUME TenancyInv, NEW c \in Consoles, Check(c)
  PROVE  TenancyInv'
<1>1. UNCHANGED <<org, rules, defaultNote, member, gateway, gatewayKey, replanned, adminWrites, consoleUses>>
  BY DEF Check
<1>2. Waiting(c)
  BY DEF Check, Waiting
<1>3. console \in [Consoles -> ConsoleRecords]
  BY DEF TenancyInv, TenancyTypeOK
<1>4. /\ console' \in [Consoles -> ConsoleRecords]
      /\ \A d \in Consoles : ConsoleKept(d) \/ ConsoleSound(d)'
  <2>1. CASE ~MayWrite(c)
    <3>1. console' = [console EXCEPT ![c] = Idle]
      BY <2>1 DEF Check
    <3> QED  BY <1>1, <3>1, Released
  <2>2. CASE MayWrite(c)
    <3>1. PICK seen \in {"none", "active", "paused", "deleted"} : seen = StatusRead(c)
      BY <1>2, <2>2, StatusReadIsLive
    <3>2. PICK o \in Orgs : o = console[c].org
      BY <1>2, RequestAt
    <3>3. PICK w \in Wishes : w = console[c].wish
      BY <1>2, RequestAt
    <3> DEFINE row == [console[c] EXCEPT !.pc = "checked", !.seen = seen]
    <3>4. /\ row \in ConsoleRecords /\ row.pc = "checked" /\ row.seen = seen
          /\ row.org = o /\ row.wish = w /\ row.stale = console[c].stale
      BY <1>3, <3>2, <3>3 DEF ConsoleRecords
    <3>5. console' = [console EXCEPT ![c] = row]
      BY <2>2, <3>1 DEF Check
    <3> HIDE DEF row
    <3>6. console' \in [Consoles -> ConsoleRecords] /\ console'[c] = row
      BY <1>3, <3>4, <3>5
    <3>7. org[o] # "none" /\ (~row.stale => org[o] = "active")
      BY <1>2, <3>2, <3>4, RequestAt
    <3>8. w.kind \in StatusKinds => (IF w.status = "keep" THEN seen ELSE w.status) # "none"
      BY <1>2, <2>2, <3>1, <3>3, StatusReadIsLive, RequestAt DEF StatusKinds
    <3>9. w.kind = "create_key" => gateway[w.gateway].status # "none" /\ gateway[w.gateway].org = o
      BY <2>2, <3>2, <3>3 DEF MayWrite, MemberKinds, BulkMemberKinds, OwnGateway
    <3>10. w.kind \in MemberKinds /\ o \notin replanned /\ org[o] # "deleted" => Personal[o] \notin w.who
      <4> SUFFICES ASSUME w.kind \in MemberKinds, o \notin replanned, org[o] # "deleted", Personal[o] \in w.who
                   PROVE  FALSE
        OBVIOUS
      <4>1. member[o][Personal[o]] # "owner"
        <5>1. MembersMayChange(c)
          BY <2>2, <3>3 DEF MayWrite, MemberKinds, BulkMemberKinds
        <5>2. \A v \in w.who : member[o][v] # "owner"
          BY <3>2, <3>3, <5>1 DEF MembersMayChange
        <5> QED  BY <5>2
      <4>2. Personal[o] \in Users
        BY <1>2, <3>3, RequestAt
      <4>3. OwnerSound(o)
        BY DEF TenancyInv
      <4> QED  BY <3>7, <4>1, <4>2, <4>3 DEF OwnerSound
    <3>11. ConsoleSound(c)'
      BY <1>1, <3>4, <3>6, <3>7, <3>8, <3>9, <3>10 DEF ConsoleSound, Waiting, Checked, StatusWritten
    <3>12. \A d \in Consoles \ {c} : ConsoleKept(d)
      BY <1>1, <1>3, <3>5 DEF ConsoleKept, StaysOpen
    <3> QED  BY <3>6, <3>11, <3>12
  <2> QED  BY <2>1, <2>2
<1>5. \A o \in Orgs : NotSuspendedNow(o)
  BY <1>1 DEF NotSuspendedNow
<1>6. TenancyTypeOK'
  BY <1>1, <1>4 DEF TenancyInv, TenancyTypeOK
<1> QED  BY <1>1, <1>4, <1>5, <1>6, OrgsStand, GatewaysStand, KeptSound

\* A request that is admitted to an active organization.
LEMMA AdmittedSound ==
  ASSUME TenancyInv, NEW c \in Consoles, NEW u \in Users, NEW o \in Orgs, NEW w \in Wishes,
         Admitted(c, u, o, w), org'[o] = "active", \A p \in Orgs : StaysOpen(p)
  PROVE  /\ console' \in [Consoles -> ConsoleRecords]
         /\ \A d \in Consoles : ConsoleKept(d) \/ ConsoleSound(d)'
<1> DEFINE row == [Idle EXCEPT !.pc = "admitted", !.actor = u, !.org = o, !.wish = w]
<1>1. row \in ConsoleRecords /\ row.pc = "admitted" /\ row.org = o /\ row.wish = w /\ row.stale = FALSE
  BY DEF ConsoleRecords, Idle
<1>2. console' = [console EXCEPT ![c] = row]
  BY DEF Admitted
<1>3. console \in [Consoles -> ConsoleRecords]
  BY DEF TenancyInv, TenancyTypeOK
<1> HIDE DEF row
<1>4. console' \in [Consoles -> ConsoleRecords] /\ console'[c] = row
  BY <1>1, <1>2, <1>3
<1>5. ConsoleSound(c)'
  BY <1>1, <1>4 DEF ConsoleSound, Waiting, Checked
<1>6. \A d \in Consoles \ {c} : ConsoleKept(d)
  <2> SUFFICES ASSUME NEW d \in Consoles \ {c}
               PROVE  ConsoleKept(d)
    OBVIOUS
  <2>1. console'[d] = console[d]
    BY <1>2, <1>3
  <2>2. StaysOpen(console[d].org)
    BY DEF StaysOpen
  <2> QED  BY <2>1, <2>2 DEF ConsoleKept
<1> QED  BY <1>4, <1>5, <1>6

\* Preparing the caller's workspace makes the caller its owner, whatever happened to it.
LEMMA WorkspacePrepared ==
  ASSUME TenancyInv, NEW u \in Users, EnsurePersonalWorkspace(u), replanned' = replanned
  PROVE  /\ org' \in [Orgs -> {"none", "active", "suspended", "deleted"}]
         /\ member' \in [Orgs -> [Users -> MemberRoles \cup {"out"}]]
         /\ org'[DefaultOrg] = "active"
         /\ \A o \in Orgs : OrgMoves(o) /\ OwnerSound(o)' /\ StaysOpen(o) /\ NotSuspendedNow(o)
<1>1. /\ org \in [Orgs -> {"none", "active", "suspended", "deleted"}]
      /\ member \in [Orgs -> [Users -> MemberRoles \cup {"out"}]]
  BY DEF TenancyInv, TenancyTypeOK
<1>2. org' = [o \in Orgs |-> IF Personal[o] = u /\ org[o] = "none" THEN "active" ELSE org[o]]
  BY DEF EnsurePersonalWorkspace
<1>3. \A o \in Orgs : org'[o] = IF Personal[o] = u /\ org[o] = "none" THEN "active" ELSE org[o]
  BY <1>2
<1>4. \A o \in Orgs : member'[o] = IF Personal[o] = u /\ org'[o] = "active"
                                   THEN [member[o] EXCEPT ![u] = "owner"] ELSE member[o]
  BY <1>2 DEF EnsurePersonalWorkspace
<1>5. org' \in [Orgs -> {"none", "active", "suspended", "deleted"}]
  BY <1>1, <1>2
<1>6. member' \in [Orgs -> [Users -> MemberRoles \cup {"out"}]]
  BY <1>1, <1>4 DEF EnsurePersonalWorkspace, MemberRoles
<1>7. org'[DefaultOrg] = "active"
  BY <1>3, TenancyAssumption DEF TenancyInv
<1>8. ASSUME NEW o \in Orgs
      PROVE  OrgMoves(o) /\ OwnerSound(o)' /\ StaysOpen(o) /\ NotSuspendedNow(o)
  <2>1. OrgMoves(o) /\ StaysOpen(o) /\ NotSuspendedNow(o)
    BY <1>3 DEF OrgMoves, StaysOpen, NotSuspendedNow
  <2>2. OwnerSound(o)
    BY DEF TenancyInv
  <2>3. CASE Personal[o] = u /\ org'[o] = "active"
    <3>1. \A v \in Users : member'[o][v] = IF v = u THEN "owner" ELSE member[o][v]
      BY <1>1, <1>4, <2>3
    <3> QED  BY <2>1, <2>2, <2>3, <3>1 DEF OwnerSound
  <2>4. CASE ~(Personal[o] = u /\ org'[o] = "active")
    <3>1. member'[o] = member[o] /\ org'[o] = org[o]
      BY <1>3, <1>4, <2>4
    <3> QED  BY <2>1, <2>2, <3>1 DEF OwnerSound
  <2> QED  BY <2>1, <2>3, <2>4
<1> QED  BY <1>5, <1>6, <1>7, <1>8

LEMMA WorkspaceKeeps ==
  ASSUME TenancyInv, NEW c \in Consoles, NEW u \in Users, NEW o \in Orgs, NEW w \in Wishes,
         ConsoleWorkspace(c, u, o, w)
  PROVE  TenancyInv'
<1>1. UNCHANGED <<rules, defaultNote, gateway, gatewayKey, replanned, adminWrites>> /\ EnsurePersonalWorkspace(u)
  BY DEF ConsoleWorkspace
<1>2. /\ org' \in [Orgs -> {"none", "active", "suspended", "deleted"}]
      /\ member' \in [Orgs -> [Users -> MemberRoles \cup {"out"}]]
      /\ org'[DefaultOrg] = "active"
      /\ \A p \in Orgs : OrgMoves(p) /\ OwnerSound(p)' /\ StaysOpen(p) /\ NotSuspendedNow(p)
  BY <1>1, WorkspacePrepared
<1>3. /\ console' \in [Consoles -> ConsoleRecords]
      /\ \A d \in Consoles : ConsoleKept(d) \/ ConsoleSound(d)'
  <2>1. CASE org'[o] = "active" /\ Admitted(c, u, o, w)
    BY <1>2, <2>1, AdmittedSound
  <2>2. CASE console' = console
    <3>1. \A d \in Consoles : StaysOpen(console[d].org)
      BY <1>2 DEF StaysOpen
    <3> QED  BY <2>2, <3>1 DEF ConsoleKept, TenancyInv, TenancyTypeOK
  <2> QED  BY <2>1, <2>2 DEF ConsoleWorkspace
<1>4. consoleUses' \in 0 .. MaxConsoleUses
  BY TenancyAssumption DEF ConsoleWorkspace, FreeConsoles, TenancyInv, TenancyTypeOK
<1>5. TenancyTypeOK'
  BY <1>1, <1>2, <1>3, <1>4 DEF TenancyInv, TenancyTypeOK
<1> QED  BY <1>1, <1>2, <1>3, <1>5, GatewaysStand, KeptSound

LEMMA AdminWorkspaceKeeps ==
  ASSUME TenancyInv, NEW c \in Consoles, NEW u \in Users, NEW w \in Wishes, AdminWorkspace(c, u, w)
  PROVE  TenancyInv'
<1>1. UNCHANGED <<org, rules, defaultNote, member, gateway, gatewayKey, replanned, adminWrites>>
  BY DEF AdminWorkspace
<1>2. \A p \in Orgs : StaysOpen(p) /\ NotSuspendedNow(p)
  BY <1>1 DEF StaysOpen, NotSuspendedNow
<1>3. /\ console' \in [Consoles -> ConsoleRecords]
      /\ \A d \in Consoles : ConsoleKept(d) \/ ConsoleSound(d)'
  <2>1. Admitted(c, u, DefaultOrg, w) /\ DefaultOrg \in Orgs /\ org'[DefaultOrg] = "active"
    BY <1>1, TenancyAssumption DEF AdminWorkspace, TenancyInv
  <2> QED  BY <1>2, <2>1, AdmittedSound
<1>4. consoleUses' \in 0 .. MaxConsoleUses
  BY TenancyAssumption DEF AdminWorkspace, FreeConsoles, TenancyInv, TenancyTypeOK
<1>5. TenancyTypeOK'
  BY <1>1, <1>3, <1>4 DEF TenancyInv, TenancyTypeOK
<1> QED  BY <1>1, <1>2, <1>3, <1>5, OrgsStand, GatewaysStand, KeptSound

\* The gateways of the organizations that a change closes are switched off with their keys.
LEMMA ClosedSound ==
  ASSUME TenancyInv, NEW O \in SUBSET Orgs, gatewayKey' = KeysRevoked(GatewaysOf(O)),
         \A o \in Orgs : OrgMoves(o), \A o \in Orgs \ O : NotSuspendedNow(o),
         \A g \in Gateways :
           /\ gateway'[g].org = gateway[g].org /\ (gateway'[g].status = "none" <=> gateway[g].status = "none")
           /\ gateway'[g].status = "active" =>
                gateway[g].status = "active" /\ gateway[g].org \notin O /\ gateway'[g].late = gateway[g].late
  PROVE  /\ gatewayKey' \in [GatewayKeys -> KeyRows]
         /\ \A g \in Gateways : GatewayMoves(g) /\ GatewaySound(g)'
         /\ \A k \in GatewayKeys : KeySound(k)'
<1>1. GatewaysOf(O) \subseteq Gateways
  BY DEF GatewaysOf
<1>2. ASSUME NEW g \in Gateways
      PROVE  GatewayMoves(g) /\ GatewaySound(g)'
  <2>1. GatewaySound(g)
    BY DEF TenancyInv
  <2> QED  BY <2>1 DEF GatewayMoves, GatewaySound, OrgMoves, NotSuspendedNow
<1>3. ASSUME NEW k \in GatewayKeys
      PROVE  KeySound(k)'
  <2> SUFFICES ASSUME gatewayKey'[k].gateway \in Gateways
               PROVE  KeySound(k)'
    BY DEF KeySound
  <2>1. PICK h \in Gateways : h = gatewayKey'[k].gateway
    OBVIOUS
  <2>2. gatewayKey[k].gateway = h /\ gatewayKey'[k].late = gatewayKey[k].late
    BY <1>1, <2>1, RevokedKeys
  <2>3. gatewayKey'[k].status = "active" => gatewayKey[k].status = "active" /\ h \notin GatewaysOf(O)
    BY <1>1, <2>2, RevokedKeys
  <2>4. KeySound(k) /\ GatewaySound(h) /\ GatewayMoves(h)
    BY <1>2 DEF TenancyInv
  <2>5. PICK p \in Orgs : p = gateway[h].org
    BY <2>2, <2>4 DEF KeySound, GatewaySound
  <2>6. gateway'[h].org = p /\ gateway'[h].status # "none" /\ org[p] # "none"
    BY <2>2, <2>4, <2>5 DEF KeySound, GatewaySound, GatewayMoves
  <2>7. org'[p] = "suspended" /\ gatewayKey'[k].status = "active" => org[p] = "suspended"
    BY <2>3, <2>5, <2>6 DEF GatewaysOf, NotSuspendedNow
  <2> QED  BY <2>1, <2>2, <2>3, <2>4, <2>5, <2>6, <2>7 DEF KeySound
<1> QED  BY <1>1, <1>2, <1>3, RevokedKeys

LEMMA AdminCounted ==
  ASSUME TenancyInv, AdminWrites
  PROVE  adminWrites' \in 0 .. MaxAdminWrites
  BY TenancyAssumption DEF AdminWrites, TenancyInv, TenancyTypeOK

LEMMA CreationOfOrgKeeps ==
  ASSUME TenancyInv, NEW o \in Orgs, CreateAdminOrg(o)
  PROVE  TenancyInv' /\ \A p \in Orgs : OrgMoves(p)
<1>1. UNCHANGED <<rules, defaultNote, member, gateway, gatewayKey, console, replanned, consoleUses>>
  BY DEF CreateAdminOrg
<1>2. PICK s \in {"active", "suspended"} : org' = [org EXCEPT ![o] = s]
  BY DEF CreateAdminOrg
<1>3. org[o] = "none" /\ Personal[o] = None /\ adminWrites' \in 0 .. MaxAdminWrites
  BY AdminCounted DEF CreateAdminOrg
<1>4. /\ org \in [Orgs -> {"none", "active", "suspended", "deleted"}]
      /\ org[DefaultOrg] = "active"
  BY DEF TenancyInv, TenancyTypeOK
<1>5. org' \in [Orgs -> {"none", "active", "suspended", "deleted"}] /\ org'[DefaultOrg] = "active"
  BY <1>2, <1>3, <1>4, TenancyAssumption
<1>6. ASSUME NEW p \in Orgs
      PROVE  OrgMoves(p) /\ OwnerSound(p)' /\ StaysOpen(p) /\ NotSuspendedNow(p)
  <2>1. OwnerSound(p)
    BY DEF TenancyInv
  <2>2. CASE p = o
    BY <1>1, <1>2, <1>3, <1>4, <2>1, <2>2, TenancyAssumption
    DEF OrgMoves, OwnerSound, StaysOpen, NotSuspendedNow
  <2>3. CASE p # o
    BY <1>1, <1>2, <1>4, <2>1, <2>3 DEF OrgMoves, OwnerSound, StaysOpen, NotSuspendedNow
  <2> QED  BY <2>2, <2>3
<1>7. \A d \in Consoles : StaysOpen(console[d].org)
  BY <1>6 DEF StaysOpen
<1>8. \A d \in Consoles : ConsoleKept(d)
  BY <1>1, <1>7 DEF ConsoleKept
<1>9. TenancyTypeOK'
  BY <1>1, <1>3, <1>5 DEF TenancyInv, TenancyTypeOK
<1> QED  BY <1>1, <1>5, <1>6, <1>8, <1>9, GatewaysStand, KeptSound

\* What a suspension pauses.
LEMMA SuspensionKeeps ==
  ASSUME TenancyInv, NEW O \in SUBSET Orgs, NEW status \in {"active", "suspended"}, SetOrgStatus(O, status)
  PROVE  TenancyInv' /\ \A p \in Orgs : OrgMoves(p)
<1> DEFINE C == Closing(O, status)
<1>1. /\ UNCHANGED <<rules, defaultNote, member, replanned, consoleUses>>
      /\ adminWrites' \in 0 .. MaxAdminWrites
  BY AdminCounted DEF SetOrgStatus
<1>2. /\ org \in [Orgs -> {"none", "active", "suspended", "deleted"}] /\ org[DefaultOrg] = "active"
      /\ gateway \in [Gateways -> GatewayRows]
  BY DEF TenancyInv, TenancyTypeOK
<1>3. org' = [p \in Orgs |-> IF p \in O THEN status ELSE org[p]]
  BY DEF SetOrgStatus
<1>4. org' \in [Orgs -> {"none", "active", "suspended", "deleted"}] /\ org'[DefaultOrg] = "active"
  BY <1>2, <1>3, TenancyAssumption DEF SetOrgStatus
<1>5. C \subseteq Orgs
  BY DEF Closing
<1>6. ASSUME NEW p \in Orgs
      PROVE  OrgMoves(p) /\ OwnerSound(p)' /\ (p \notin C => StaysOpen(p) /\ NotSuspendedNow(p))
  <2>1. OwnerSound(p)
    BY DEF TenancyInv
  <2>2. CASE p \in O
    <3>1. org[p] \in {"active", "suspended"} /\ org'[p] = status
      BY <1>3, <2>2 DEF SetOrgStatus, Live
    <3> QED  BY <1>1, <2>1, <2>2, <3>1 DEF OrgMoves, OwnerSound, StaysOpen, NotSuspendedNow, Closing
  <2>3. CASE p \notin O
    <3>1. org'[p] = org[p]
      BY <1>3, <2>3
    <3> QED  BY <1>1, <2>1, <3>1 DEF OrgMoves, OwnerSound, StaysOpen, NotSuspendedNow
  <2> QED  BY <2>2, <2>3
<1>7. console' = Overtaken(C) /\ gatewayKey' = KeysRevoked(GatewaysOf(C))
  BY DEF SetOrgStatus, DeactivateInactiveOrgs
<1>8. gateway' = [g \in Gateways |-> IF gateway[g].org \in C /\ gateway[g].status = "active"
                    THEN [gateway[g] EXCEPT !.status = "paused", !.late = FALSE] ELSE gateway[g]]
  BY DEF SetOrgStatus, DeactivateInactiveOrgs
<1> HIDE DEF C
<1>9. ASSUME NEW g \in Gateways
      PROVE  /\ gateway'[g] \in GatewayRows
             /\ gateway'[g].org = gateway[g].org /\ (gateway'[g].status = "none" <=> gateway[g].status = "none")
             /\ gateway'[g].status = "active" =>
                  gateway[g].status = "active" /\ gateway[g].org \notin C /\ gateway'[g].late = gateway[g].late
  BY <1>2, <1>8 DEF GatewayRows
<1>10. gateway' \in [Gateways -> GatewayRows]
  BY <1>8, <1>9
<1>11. /\ gatewayKey' \in [GatewayKeys -> KeyRows]
       /\ \A g \in Gateways : GatewayMoves(g) /\ GatewaySound(g)'
       /\ \A k \in GatewayKeys : KeySound(k)'
  BY <1>5, <1>6, <1>7, <1>9, ClosedSound
<1>12. /\ console' \in [Consoles -> ConsoleRecords]
       /\ \A d \in Consoles : ConsoleKept(d) \/ ConsoleSound(d)'
  BY <1>5, <1>6, <1>7, OvertakenSound
<1>13. TenancyTypeOK'
  BY <1>1, <1>4, <1>10, <1>11, <1>12 DEF TenancyInv, TenancyTypeOK
<1> QED  BY <1>1, <1>4, <1>6, <1>11, <1>12, <1>13, KeptSound

\* What a deletion, and a change of plans, switches off and takes away.
LEMMA DeactivationKeeps ==
  ASSUME TenancyInv, NEW O \in SUBSET Orgs, DeactivateDeletedOrgs(O), console' = Overtaken(O),
         consoleUses' = consoleUses, adminWrites' \in 0 .. MaxAdminWrites,
         replanned \subseteq replanned', replanned' \subseteq Orgs,
         org' \in [Orgs -> {"none", "active", "suspended", "deleted"}], org'[DefaultOrg] = "active",
         \A p \in Orgs : /\ OrgMoves(p)
                         /\ p \notin O => org'[p] = org[p]
                         /\ p \in O => org'[p] = "deleted" \/ p \in replanned'
  PROVE  TenancyInv'
<1>1. /\ gateway \in [Gateways -> GatewayRows] /\ member \in [Orgs -> [Users -> MemberRoles \cup {"out"}]]
      /\ rules \in [Orgs -> BOOLEAN] /\ defaultNote \in [Orgs -> BOOLEAN]
  BY DEF TenancyInv, TenancyTypeOK
<1>2. gatewayKey' = KeysRevoked(GatewaysOf(O))
  BY DEF DeactivateDeletedOrgs
<1>3. gateway' = [g \in Gateways |-> IF gateway[g].org \in O
                   THEN [gateway[g] EXCEPT !.status = "deleted", !.late = FALSE] ELSE gateway[g]]
  BY DEF DeactivateDeletedOrgs
<1>4. member' = [o \in Orgs |-> IF o \in O THEN [u \in Users |-> "out"] ELSE member[o]]
  BY DEF DeactivateDeletedOrgs
<1>5. rules' \in [Orgs -> BOOLEAN] /\ defaultNote' \in [Orgs -> BOOLEAN]
  BY <1>1 DEF DeactivateDeletedOrgs
<1>6. member' \in [Orgs -> [Users -> MemberRoles \cup {"out"}]]
  BY <1>1, <1>4
<1>7. ASSUME NEW g \in Gateways
      PROVE  /\ gateway'[g] \in GatewayRows
             /\ gateway'[g].org = gateway[g].org /\ (gateway'[g].status = "none" <=> gateway[g].status = "none")
             /\ gateway'[g].status = "active" =>
                  gateway[g].status = "active" /\ gateway[g].org \notin O /\ gateway'[g].late = gateway[g].late
  <2>1. GatewaySound(g) /\ gateway[g] \in GatewayRows
    BY <1>1 DEF TenancyInv
  <2> QED  BY <1>3, <2>1 DEF GatewayRows, GatewaySound
<1>8. gateway' \in [Gateways -> GatewayRows]
  BY <1>3, <1>7
<1>9. \A p \in Orgs \ O : StaysOpen(p) /\ NotSuspendedNow(p)
  BY DEF StaysOpen, NotSuspendedNow
<1>10. /\ gatewayKey' \in [GatewayKeys -> KeyRows]
       /\ \A g \in Gateways : GatewayMoves(g) /\ GatewaySound(g)'
       /\ \A k \in GatewayKeys : KeySound(k)'
  BY <1>2, <1>7, <1>9, ClosedSound
<1>11. /\ console' \in [Consoles -> ConsoleRecords]
       /\ \A d \in Consoles : ConsoleKept(d) \/ ConsoleSound(d)'
  BY <1>9, OvertakenSound
<1>12. ASSUME NEW p \in Orgs
       PROVE  OwnerSound(p)'
  <2>1. OwnerSound(p)
    BY DEF TenancyInv
  <2>2. CASE p \in O
    BY <1>4, <2>2 DEF OwnerSound
  <2>3. CASE p \notin O
    <3>1. member'[p] = member[p] /\ org'[p] = org[p] /\ (p \notin replanned' => p \notin replanned)
      BY <1>4, <2>3
    <3> QED  BY <2>1, <3>1 DEF OwnerSound
  <2> QED  BY <2>2, <2>3
<1>13. TenancyTypeOK'
  BY <1>5, <1>6, <1>8, <1>10, <1>11 DEF TenancyInv, TenancyTypeOK
<1> QED  BY <1>10, <1>11, <1>12, <1>13, KeptSound

LEMMA DeletionKeeps ==
  ASSUME TenancyInv, NEW o \in Orgs, DeleteAdminOrg(o)
  PROVE  TenancyInv' /\ \A p \in Orgs : OrgMoves(p)
<1>1. org \in [Orgs -> {"none", "active", "suspended", "deleted"}] /\ org[DefaultOrg] = "active" /\ replanned \subseteq Orgs
  BY DEF TenancyInv, TenancyTypeOK
<1>2. /\ org' = [org EXCEPT ![o] = "deleted"] /\ UNCHANGED <<replanned, consoleUses>> /\ o # DefaultOrg
      /\ DeactivateDeletedOrgs({o}) /\ console' = Overtaken({o}) /\ adminWrites' \in 0 .. MaxAdminWrites
  BY AdminCounted DEF DeleteAdminOrg
<1>3. org[o] # "none"
  BY DEF DeleteAdminOrg, Live
<1>4. /\ org' \in [Orgs -> {"none", "active", "suspended", "deleted"}] /\ org'[DefaultOrg] = "active"
      /\ org'[o] = "deleted" /\ \A p \in Orgs \ {o} : org'[p] = org[p]
  BY <1>1, <1>2, TenancyAssumption
<1>5. \A p \in Orgs : OrgMoves(p)
  BY <1>4 DEF OrgMoves
<1>6. {o} \in SUBSET Orgs
  OBVIOUS
<1> QED  BY <1>1, <1>2, <1>4, <1>5, <1>6, DeactivationKeeps

LEMMA PlanChangeSound ==
  ASSUME TenancyInv, NEW O \in SUBSET Orgs, BulkUpdateAdminOrgPlans(O)
  PROVE  TenancyInv' /\ \A p \in Orgs : OrgMoves(p)
<1>1. org \in [Orgs -> {"none", "active", "suspended", "deleted"}] /\ org[DefaultOrg] = "active" /\ replanned \subseteq Orgs
  BY DEF TenancyInv, TenancyTypeOK
<1>2. /\ replanned' = replanned \cup O /\ UNCHANGED <<org, consoleUses>>
      /\ DeactivateDeletedOrgs(O) /\ console' = Overtaken(O) /\ adminWrites' \in 0 .. MaxAdminWrites
  BY AdminCounted DEF BulkUpdateAdminOrgPlans
<1>3. \A p \in Orgs : OrgMoves(p)
  BY <1>2 DEF OrgMoves
<1> QED  BY <1>1, <1>2, <1>3, DeactivationKeeps

\* The bulk deletion leaves gateways, keys and members as they are.
LEMMA BulkDeletionKeeps ==
  ASSUME TenancyInv, NEW O \in SUBSET Orgs, BulkDeleteAdminOrgs(O)
  PROVE  TenancyInv' /\ \A p \in Orgs : OrgMoves(p)
<1>1. /\ UNCHANGED <<rules, defaultNote, member, gateway, gatewayKey, replanned, consoleUses>>
      /\ console' = Overtaken(O) /\ adminWrites' \in 0 .. MaxAdminWrites
  BY AdminCounted DEF BulkDeleteAdminOrgs
<1>2. org' = [o \in Orgs |-> IF o \in O THEN "deleted" ELSE org[o]] /\ DefaultOrg \notin O
  BY DEF BulkDeleteAdminOrgs
<1>3. org \in [Orgs -> {"none", "active", "suspended", "deleted"}] /\ org[DefaultOrg] = "active"
  BY DEF TenancyInv, TenancyTypeOK
<1>4. org' \in [Orgs -> {"none", "active", "suspended", "deleted"}] /\ org'[DefaultOrg] = "active"
  BY <1>2, <1>3, TenancyAssumption
<1>5. ASSUME NEW p \in Orgs
      PROVE  OrgMoves(p) /\ OwnerSound(p)' /\ NotSuspendedNow(p) /\ (p \notin O => StaysOpen(p))
  <2>1. OwnerSound(p)
    BY DEF TenancyInv
  <2>2. org'[p] = IF p \in O THEN "deleted" ELSE org[p]
    BY <1>2
  <2> QED  BY <1>1, <2>1, <2>2 DEF OrgMoves, OwnerSound, StaysOpen, NotSuspendedNow
<1>6. /\ console' \in [Consoles -> ConsoleRecords]
      /\ \A d \in Consoles : ConsoleKept(d) \/ ConsoleSound(d)'
  BY <1>1, <1>5, OvertakenSound
<1>7. TenancyTypeOK'
  BY <1>1, <1>4, <1>6 DEF TenancyInv, TenancyTypeOK
<1> QED  BY <1>1, <1>4, <1>5, <1>6, <1>7, GatewaysStand, KeptSound

-----------------------------------------------------------------------------
\* Every action of the workspaces keeps the invariant, and no organization goes back.
LEMMA TenancyStep ==
  ASSUME TenancyInv, [TenancyNext]_tenancyVars
  PROVE  TenancyInv' /\ \A p \in Orgs : OrgMoves(p)
<1>1. ASSUME org' = org
      PROVE  \A p \in Orgs : OrgMoves(p)
  BY <1>1 DEF OrgMoves
<1>2. ASSUME NEW c \in FreeConsoles, NEW u \in Users, NEW o \in Orgs, NEW w \in Wishes, ConsoleWorkspace(c, u, o, w)
      PROVE  TenancyInv' /\ \A p \in Orgs : OrgMoves(p)
  <2>1. c \in Consoles /\ EnsurePersonalWorkspace(u) /\ replanned' = replanned
    BY <1>2 DEF FreeConsoles, ConsoleWorkspace
  <2> QED  BY <1>2, <2>1, WorkspaceKeeps, WorkspacePrepared
<1>3. ASSUME NEW c \in FreeConsoles, NEW u \in Users, NEW w \in Wishes, AdminWorkspace(c, u, w)
      PROVE  TenancyInv' /\ \A p \in Orgs : OrgMoves(p)
  <2>1. c \in Consoles /\ org' = org
    BY <1>3 DEF FreeConsoles, AdminWorkspace
  <2> QED  BY <1>1, <1>3, <2>1, AdminWorkspaceKeeps
<1>4. ASSUME NEW c \in Consoles,
             \/ UpsertWorkspaceMember(c) \/ UpdateWorkspaceMember(c) \/ RemoveWorkspaceMember(c)
             \/ BulkUpdateWorkspaceMembersRole(c) \/ BulkRemoveWorkspaceMembers(c)
      PROVE  TenancyInv' /\ \A p \in Orgs : OrgMoves(p)
  <2>1. PICK kind \in MemberKinds : WriteMembers(c, kind)
    BY <1>4 DEF UpsertWorkspaceMember, UpdateWorkspaceMember, RemoveWorkspaceMember,
                BulkUpdateWorkspaceMembersRole, BulkRemoveWorkspaceMembers, MemberKinds, BulkMemberKinds
  <2>2. org' = org
    BY <2>1 DEF WriteMembers
  <2> QED  BY <1>1, <2>1, <2>2, MembersKeep
<1>5. ASSUME NEW c \in Consoles, UpdateGateway(c) \/ DeleteGateway(c) \/ BulkUpdateGateways(c)
      PROVE  TenancyInv' /\ \A p \in Orgs : OrgMoves(p)
  <2>1. PICK kind \in StatusKinds : WriteGatewayStatus(c, kind)
    BY <1>5 DEF UpdateGateway, DeleteGateway, BulkUpdateGateways, StatusKinds
  <2>2. org' = org
    BY <2>1 DEF WriteGatewayStatus
  <2> QED  BY <1>1, <2>1, <2>2, GatewayStatusKeeps
<1>6. ASSUME NEW c \in Consoles,
             \/ UpdateGatewayKey(c) \/ BulkUpdateGatewayKeys(c)
             \/ BulkRevokeGatewayKeys(c) \/ BulkDeleteGatewayKeys(c)
      PROVE  TenancyInv' /\ \A p \in Orgs : OrgMoves(p)
  <2>1. org' = org
    BY <1>6 DEF UpdateGatewayKey, BulkUpdateGatewayKeys, BulkRevokeGatewayKeys, BulkDeleteGatewayKeys, WriteKeys
  <2> QED  BY <1>1, <1>6, <2>1, WritesOfKeysKeep
<1>7. ASSUME NEW c \in Consoles, UpdateWorkspaceSettings(c) \/ ResetWorkspaceSettings(c)
      PROVE  TenancyInv' /\ \A p \in Orgs : OrgMoves(p)
  <2>1. PICK kind \in {"settings", "reset"}, named \in BOOLEAN : WriteSettings(c, kind, named)
    BY <1>7 DEF UpdateWorkspaceSettings, ResetWorkspaceSettings
  <2>2. org' = org
    BY <2>1 DEF WriteSettings
  <2> QED  BY <1>1, <2>1, <2>2, SettingsKeep
<1>8. ASSUME NEW c \in Consoles, Check(c) \/ CreateGateway(c) \/ \E k \in GatewayKeys : CreateGatewayKey(c, k)
      PROVE  TenancyInv' /\ \A p \in Orgs : OrgMoves(p)
  <2>1. org' = org
    BY <1>8 DEF Check, CreateGateway, CreateGatewayKey
  <2> QED  BY <1>1, <1>8, <2>1, CheckKeeps, CreationOfGatewayKeeps, CreationOfKeyKeeps
<1>9. ASSUME NEW o \in Orgs,
             \/ CreateAdminOrg(o) \/ DeleteAdminOrgRequest(o) \/ PatchAdminOrg(o) \/ PatchAdminOrgStatus(o)
      PROVE  TenancyInv' /\ \A p \in Orgs : OrgMoves(p)
  <2>1. CASE CreateAdminOrg(o)
    BY <2>1, CreationOfOrgKeeps
  <2>2. CASE DeleteAdminOrgRequest(o)
    BY <2>2, DeletionKeeps DEF DeleteAdminOrgRequest
  <2>3. CASE PatchAdminOrg(o) \/ PatchAdminOrgStatus(o)
    <3>1. PICK status \in {"active", "suspended"} : SetOrgStatus({o}, status)
      BY <2>3 DEF PatchAdminOrg, PatchAdminOrgStatus, UpdateAdminOrg, UpdateAdminOrgStatus
    <3>2. {o} \in SUBSET Orgs
      OBVIOUS
    <3> QED  BY <3>1, <3>2, SuspensionKeeps
  <2> QED  BY <1>9, <2>1, <2>2, <2>3
<1>10. ASSUME NEW O \in SUBSET Orgs, BulkAdminOrgs(O)
       PROVE  TenancyInv' /\ \A p \in Orgs : OrgMoves(p)
  BY <1>10, SuspensionKeeps, PlanChangeSound, BulkDeletionKeeps DEF BulkAdminOrgs, BulkUpdateAdminOrgs
<1>11. CASE UNCHANGED tenancyVars
  <2>1. /\ UNCHANGED <<org, rules, defaultNote, member, gateway, gatewayKey, console, replanned>>
        /\ UNCHANGED <<adminWrites, consoleUses>>
    BY <1>11 DEF tenancyVars
  <2>2. \A p \in Orgs : StaysOpen(p) /\ NotSuspendedNow(p)
    BY <2>1 DEF StaysOpen, NotSuspendedNow
  <2>3. \A d \in Consoles : ConsoleKept(d)
    BY <2>1, <2>2 DEF ConsoleKept, StaysOpen
  <2>4. TenancyTypeOK'
    BY <2>1 DEF TenancyInv, TenancyTypeOK
  <2> QED  BY <1>1, <2>1, <2>2, <2>3, <2>4, OrgsStand, GatewaysStand, KeptSound
<1>12. ASSUME NEW c \in FreeConsoles, NEW u \in Users, NEW o \in Orgs, NEW w \in Wishes,
              \/ InviteConsoleMember(c, u, o, w) \/ PatchConsoleMember(c, u, o, w)
              \/ DeleteConsoleMember(c, u, o, w) \/ BulkConsoleMembers(c, u, o, w)
              \/ UpdateConsoleSettings(c, u, o, w) \/ ResetConsoleSettings(c, u, o, w)
              \/ CreateConsoleGateway(c, u, o, w) \/ PatchConsoleGateway(c, u, o, w)
              \/ DeleteConsoleGateways(c, u, o, w) \/ CreateConsoleGatewayKey(c, u, o, w)
              \/ PatchConsoleGatewayKey(c, u, o, w) \/ BulkConsoleGatewayKeys(c, u, o, w)
       PROVE  TenancyInv' /\ \A p \in Orgs : OrgMoves(p)
  <2>1. ConsoleWorkspace(c, u, o, w)
    BY <1>12 DEF InviteConsoleMember, PatchConsoleMember, DeleteConsoleMember,
       BulkConsoleMembers, UpdateConsoleSettings, ResetConsoleSettings, CreateConsoleGateway,
       PatchConsoleGateway, DeleteConsoleGateways, CreateConsoleGatewayKey, PatchConsoleGatewayKey,
       BulkConsoleGatewayKeys
  <2> QED  BY <1>2, <2>1
<1>13. ASSUME NEW c \in FreeConsoles, NEW u \in Users, NEW w \in Wishes,
              \/ InviteAdminMember(c, u, w) \/ PatchAdminMember(c, u, w) \/ DeleteAdminMember(c, u, w)
              \/ BulkAdminMembers(c, u, w) \/ CreateAdminGateway(c, u, w) \/ PatchAdminGateway(c, u, w)
              \/ DeleteAdminGateways(c, u, w) \/ CreateAdminGatewayKey(c, u, w)
              \/ PatchAdminGatewayKey(c, u, w) \/ BulkAdminGatewayKeys(c, u, w)
       PROVE  TenancyInv' /\ \A p \in Orgs : OrgMoves(p)
  <2>1. AdminWorkspace(c, u, w)
    BY <1>13 DEF InviteAdminMember, PatchAdminMember, DeleteAdminMember, BulkAdminMembers,
       CreateAdminGateway, PatchAdminGateway, DeleteAdminGateways, CreateAdminGatewayKey,
       PatchAdminGatewayKey, BulkAdminGatewayKeys
  <2> QED  BY <1>3, <2>1
<1>14. ASSUME NEW c \in Consoles,
              \/ Check(c) \/ UpsertWorkspaceMember(c) \/ UpdateWorkspaceMember(c) \/ RemoveWorkspaceMember(c)
              \/ BulkUpdateWorkspaceMembersRole(c) \/ BulkRemoveWorkspaceMembers(c)
              \/ CreateGateway(c) \/ UpdateGateway(c) \/ DeleteGateway(c) \/ BulkUpdateGateways(c)
              \/ UpdateGatewayKey(c) \/ BulkUpdateGatewayKeys(c) \/ BulkRevokeGatewayKeys(c)
              \/ BulkDeleteGatewayKeys(c) \/ UpdateWorkspaceSettings(c) \/ ResetWorkspaceSettings(c)
              \/ \E k \in GatewayKeys : CreateGatewayKey(c, k)
       PROVE  TenancyInv' /\ \A p \in Orgs : OrgMoves(p)
  BY <1>4, <1>5, <1>6, <1>7, <1>8, <1>14
<1>15. CASE TenancyNext
  BY <1>9, <1>10, <1>12, <1>13, <1>14, <1>15 DEF TenancyNext
<1> QED  BY <1>11, <1>15

LEMMA TenancyInitial == TenancyInit => TenancyInv
<1> SUFFICES ASSUME TenancyInit
             PROVE  TenancyInv
  OBVIOUS
<1>1. PICK home \in {o \in Orgs : o = DefaultOrg \/ Personal[o] # None} \cup {None} :
        /\ org = [o \in Orgs |-> IF o = DefaultOrg \/ (home # None /\ Personal[o] # None) THEN "active" ELSE "none"]
        /\ rules = [o \in Orgs |-> TRUE] /\ defaultNote = [o \in Orgs |-> FALSE]
        /\ member = [o \in Orgs |-> [u \in Users |->
             IF home # None /\ u = Personal[o] THEN "owner" ELSE "out"]]
        /\ gateway = [g \in Gateways |-> [org |-> home,
             status |-> IF home # None THEN "active" ELSE "none", late |-> FALSE]]
        /\ \E g \in Gateways : gatewayKey = [k \in GatewayKeys |->
             [gateway |-> IF home # None THEN g ELSE None,
              status |-> IF home # None THEN "active" ELSE "none", late |-> FALSE]]
        /\ console = [c \in Consoles |-> Idle]
        /\ replanned = {} /\ adminWrites = 0 /\ consoleUses = 0
  BY DEF TenancyInit
<1>2. PICK g0 \in Gateways : gatewayKey = [k \in GatewayKeys |->
        [gateway |-> IF home # None THEN g0 ELSE None,
         status |-> IF home # None THEN "active" ELSE "none", late |-> FALSE]]
  BY <1>1
<1>3. None \notin Orgs /\ None \notin Gateways /\ None \notin Users /\ DefaultOrg \in Orgs /\ Personal[DefaultOrg] = None
  BY TenancyAssumption
<1>4. TenancyTypeOK
  <2>1. org \in [Orgs -> {"none", "active", "suspended", "deleted"}]
    BY <1>1
  <2>2. member \in [Orgs -> [Users -> MemberRoles \cup {"out"}]]
    BY <1>1 DEF MemberRoles
  <2>3. gateway \in [Gateways -> GatewayRows]
    BY <1>1 DEF GatewayRows
  <2>4. gatewayKey \in [GatewayKeys -> KeyRows]
    BY <1>2 DEF KeyRows
  <2>5. console \in [Consoles -> ConsoleRecords]
    BY <1>1, IdleConsole
  <2>6. adminWrites \in 0 .. MaxAdminWrites /\ consoleUses \in 0 .. MaxConsoleUses
    BY <1>1, TenancyAssumption
  <2> QED  BY <1>1, <2>1, <2>2, <2>3, <2>4, <2>5, <2>6 DEF TenancyTypeOK
<1>5. org[DefaultOrg] = "active"
  BY <1>1, <1>3
<1>6. \A c \in Consoles : ConsoleSound(c)
  BY <1>1, IdleConsole DEF ConsoleSound, Waiting, Checked
<1>7. home = None \/ (home \in Orgs /\ org[home] = "active")
  BY <1>1
<1>8. \A g \in Gateways : gateway[g].org = home /\ (gateway[g].status # "none" <=> home # None)
  BY <1>1
<1>9. \A g \in Gateways : GatewaySound(g)
  BY <1>3, <1>7, <1>8 DEF GatewaySound
<1>10. ASSUME NEW k \in GatewayKeys
       PROVE  KeySound(k)
  <2>1. gatewayKey[k].gateway = IF home # None THEN g0 ELSE None
    BY <1>2
  <2> QED  BY <1>3, <1>7, <1>8, <2>1 DEF KeySound
<1>11. ASSUME NEW o \in Orgs
       PROVE  OwnerSound(o)
  <2>1. \A u \in Users : member[o][u] = "owner" <=> home # None /\ u = Personal[o]
    BY <1>1
  <2>2. org[o] # "none" <=> o = DefaultOrg \/ (home # None /\ Personal[o] # None)
    BY <1>1
  <2> QED  BY <1>3, <2>1, <2>2 DEF OwnerSound
<1> QED  BY <1>4, <1>5, <1>6, <1>9, <1>10, <1>11 DEF TenancyInv

\* In every reachable state the members, gateways and keys of a workspace, and the
\* requests about it, agree with the organization (consoleWorkspaceForWrite and the
\* statements of the repository).
THEOREM TenancyInvariant == TenancySpec => []TenancyInv
<1>1. TenancyInv /\ [TenancyNext]_tenancyVars => TenancyInv'
  BY TenancyStep
<1> QED  BY <1>1, TenancyInitial, PTL DEF TenancySpec

\* Organizations, members, gateways, keys and the requests about them keep their types.
THEOREM TenancyTypesHold == TenancySpec => []TenancyTypeOK
<1>1. TenancyInv => TenancyTypeOK
  BY DEF TenancyInv
<1> QED  BY <1>1, TenancyInvariant, PTL

\* What is on in a suspended organization was switched on by a request that the
\* suspension overtook (deactivateInactiveOrgsGatewayAccessTx).
THEOREM SuspensionCloses == TenancySpec => []SuspendedOrgIsClosed
<1>1. TenancyInv => SuspendedOrgIsClosed
  BY DEF TenancyInv, GatewaySound, KeySound, SuspendedOrgIsClosed
<1> QED  BY <1>1, TenancyInvariant, PTL

\* No request of a member or an administrator takes the ownership of a workspace from
\* the person it belongs to (ErrWorkspaceOwnerProtected).
THEOREM OwnersAreKept == TenancySpec => OwnersKeepTheirWorkspace
<1>1. ASSUME TenancyInv, TenancyInv', [TenancyNext]_tenancyVars,
             NEW o \in Orgs \ replanned, NEW u \in Users, member[o][u] = "owner",
             org'[o] # "deleted", o \notin replanned'
      PROVE  member'[o][u] = "owner"
  <2>1. OwnerSound(o) /\ OwnerSound(o)'
    BY <1>1 DEF TenancyInv
  <2>2. org'[o] # "none"
    BY <1>1, <2>1, TenancyStep DEF OwnerSound, OrgMoves
  <2> QED  BY <1>1, <2>1, <2>2 DEF OwnerSound
<1>2. TenancyInv /\ TenancyInv' /\ [TenancyNext]_tenancyVars =>
        [\A o \in Orgs \ replanned, u \in Users :
           member[o][u] = "owner" => member'[o][u] = "owner" \/ org'[o] = "deleted" \/ o \in replanned']_tenancyVars
  BY <1>1
<1> QED  BY <1>2, TenancyInvariant, PTL DEF TenancySpec, OwnersKeepTheirWorkspace
=============================================================================
