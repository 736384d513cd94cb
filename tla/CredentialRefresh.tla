-------------------------- MODULE CredentialRefresh --------------------------
(***************************************************************************)
(* The OAuth credential of one AI connection and everybody who changes it. *)
(*                                                                         *)
(* Background workers (one per server process) and gateway requests        *)
(* exchange the stored refresh token at the provider, which rotates it,    *)
(* and save the new bundle.  They are kept apart by a Redis lock that      *)
(* expires, and by a version of the secret that every save compares.       *)
(* Console sessions reauthorize, validate and delete the same connection.  *)
(*                                                                         *)
(* Every writer is a transaction over two rows.  A save locks the secret   *)
(* first and the connection second, all others the connection first;       *)
(* PostgreSQL resolves the deadlocks this allows by aborting one of the    *)
(* two.  conn and secret hold the committed rows, rowC and rowS the        *)
(* transactions that have them locked.                                     *)
(***************************************************************************)
EXTENDS Integers

CONSTANTS
  Workers,     \* server processes that run the background sweep
  Gateways,    \* gateway requests that may refresh
  Sessions,    \* console sessions of the owner
  None,        \* nobody, or no token
  Rotates,     \* does the provider replace the refresh token at every use?
  MaxVersion,  \* bound on the versions after which a refresh may start
  MaxGrants,   \* bound on the authorizations the owner gives
  MaxOps,      \* bound on the transactions of console sessions
  MaxFaults    \* bound on crashes, lost answers, cancelled contexts, revocations

Refreshers == Workers \cup Gateways
Actors == Refreshers \cup Sessions

\* A refresh token: which authorization it descends from, and its rotation.
Tokens == [grant : Nat, gen : Nat]

ASSUME ConstantsAssumption ==
  /\ Workers \cap Gateways = {} /\ Refreshers \cap Sessions = {}
  /\ None \notin Actors \cup Tokens
  /\ Rotates \in BOOLEAN
  /\ {MaxVersion, MaxGrants, MaxOps, MaxFaults} \subseteq Nat

VARIABLES
  conn,      \* ai_connections: auth_status, deleted_at
  secret,    \* ai_connection_secrets: version, refresh token, next_refresh_at
  rowC,      \* transaction holding the connection row
  rowS,      \* transaction holding the secret row
  lock,      \* Redis: holder of ai-auth:refresh:<connection>
  accepted,  \* provider: the refresh tokens it accepts
  ref,       \* the refreshers
  session,   \* the console sessions
  lost,      \* a token the stored grant depended on is gone: no save will bring it
  grants, ops, faults

rows == <<conn, secret>>
vars == <<conn, secret, rowC, rowS, lock, accepted, ref, session, lost, grants, ops, faults>>

AuthStatuses == {"active", "attention", "reauth_required"}
NextRefresh == {"later", "due", "null"}
RefresherRecords ==
  [pc : {"idle", "read", "wait", "refresh", "save", "saved", "mark", "marked", "release"},
   version : Nat, token : Tokens \cup {None}, new : Tokens \cup {None},
   error : {"none", "reauth", "temporary"}]
SessionRecords ==
  [pc : {"idle", "authorized", "leaving", "validating", "replace", "delete", "validate", "revoke"},
   token : Tokens \cup {None}]
Idle == [pc |-> "idle", version |-> 0, token |-> None, new |-> None, error |-> "none"]
NoSession == [pc |-> "idle", token |-> None]

TypeOK ==
  /\ conn \in [auth : AuthStatuses, deleted : BOOLEAN]
  /\ secret \in [version : Nat, token : Tokens \cup {None}, next : NextRefresh]
  /\ rowC \in Actors \cup {None} /\ rowS \in Actors \cup {None}
  /\ lock \in Refreshers \cup {None}
  /\ accepted \subseteq Tokens
  /\ ref \in [Refreshers -> RefresherRecords]
  /\ session \in [Sessions -> SessionRecords]
  /\ lost \in BOOLEAN
  /\ grants \in Nat /\ ops \in Nat /\ faults \in Nat

Init ==
  /\ conn = [auth |-> "active", deleted |-> FALSE]
  /\ secret = [version |-> 1, token |-> [grant |-> 1, gen |-> 0], next |-> "later"]
  /\ rowC = None /\ rowS = None
  /\ lock = None
  /\ accepted = {[grant |-> 1, gen |-> 0]}
  /\ ref = [p \in Refreshers |-> Idle]
  /\ session = [s \in Sessions |-> NoSession]
  /\ lost = FALSE
  /\ grants = 1 /\ ops = 0 /\ faults = 0

-----------------------------------------------------------------------------
(***************************************************************************)
(* Reading the credential.  It is read before the lock is taken and not    *)
(* read again after it.                                                    *)
(***************************************************************************)
Goto(p, pc) == ref' = [ref EXCEPT ![p].pc = pc]
Stop(p) == ref' = [ref EXCEPT ![p] = Idle]
Usable == ~conn.deleted /\ conn.auth \in {"active", "attention"}

\* OAuthRefreshCandidates
Candidate == Usable /\ secret.next = "due"

Read(p) ==
  /\ ref[p].pc = "idle"
  /\ ref' = [ref EXCEPT ![p] = [Idle EXCEPT !.pc = "read", !.version = secret.version,
                                            !.token = secret.token]]
  /\ UNCHANGED <<conn, secret, rowC, rowS, lock, accepted, session, lost, grants, ops, faults>>

SweepReads(w) == Candidate /\ Read(w)

\* A request finds the access token about to expire, or the provider refused it.
GatewayReads(g) == Usable /\ secret.version < MaxVersion /\ Read(g)

\* SETNX; a worker that does not get the lock leaves the connection to the
\* next sweep, a gateway request waits for the holder.
AcquireLock(p) ==
  /\ ref[p].pc = "read"
  /\ \/ lock = None /\ lock' = p /\ Goto(p, "refresh")
     \/ lock # None /\ p \in Workers /\ Stop(p) /\ UNCHANGED lock
     \/ lock # None /\ p \in Gateways /\ Goto(p, "wait") /\ UNCHANGED lock
  /\ UNCHANGED <<conn, secret, rowC, rowS, accepted, session, lost, grants, ops, faults>>

\* The version changed and the request goes on with the current bundle, or two
\* seconds have passed and it fails; neither changes anything.
WaitEnds(g) ==
  /\ ref[g].pc = "wait"
  /\ Stop(g)
  /\ UNCHANGED <<conn, secret, rowC, rowS, lock, accepted, session, lost, grants, ops, faults>>

(***************************************************************************)
(* The provider.                                                           *)
(***************************************************************************)

\* The answer carries a new refresh token or the bundle keeps the one it has.
Exchanged(t) == IF Rotates THEN [t EXCEPT !.gen = @ + 1] ELSE t

RefreshSucceeds(p) ==
  /\ ref[p].pc = "refresh" /\ ref[p].token \in accepted
  /\ accepted' = (accepted \ {ref[p].token}) \cup {Exchanged(ref[p].token)}
  /\ ref' = [ref EXCEPT ![p].pc = "save", ![p].new = Exchanged(ref[p].token)]
  /\ UNCHANGED <<conn, secret, rowC, rowS, lock, session, lost, grants, ops, faults>>

\* classifyCredentialRefreshError: a refused token asks for a new login, any
\* other failure is retried later.
RefreshFails(p) ==
  /\ ref[p].pc = "refresh"
  /\ \E e \in {"reauth", "temporary"} :
       /\ e = "reauth" => ref[p].token \notin accepted
       /\ ref' = [ref EXCEPT ![p].pc = "mark", ![p].error = e]
  /\ UNCHANGED <<conn, secret, rowC, rowS, lock, accepted, session, lost, grants, ops, faults>>

Fault == faults < MaxFaults /\ faults' = faults + 1

\* The provider exchanged the token and its answer never arrived: the exchange
\* timed out, or its context was cancelled and the failure is not recorded.
AnswerLost(p) ==
  /\ ref[p].pc = "refresh" /\ ref[p].token \in accepted
  /\ Fault
  /\ accepted' = (accepted \ {ref[p].token}) \cup {Exchanged(ref[p].token)}
  /\ \E pc \in {"mark", "release"} :
       ref' = [ref EXCEPT ![p].pc = pc, ![p].error = "temporary"]
  /\ lost' = (lost \/ Rotates)
  /\ UNCHANGED <<conn, secret, rowC, rowS, lock, session, grants, ops>>

\* The user withdraws the authorization at the provider.
ProviderRevokes ==
  /\ secret.token \in accepted
  /\ Fault
  /\ accepted' = accepted \ {secret.token}
  /\ lost' = TRUE
  /\ UNCHANGED <<conn, secret, rowC, rowS, lock, ref, session, grants, ops>>

(***************************************************************************)
(* UpdateOAuthConnectionSecret: the secret row first, then the connection. *)
(***************************************************************************)

\* Mutant: the save does not compare versions.
VersionAnything(p) == TRUE
VersionHolds(p) == secret.version = ref[p].version

SaveLocks(p) ==
  /\ ref[p].pc = "save" /\ rowS = None
  /\ \/ VersionHolds(p) /\ rowS' = p /\ Goto(p, "saved")
     \/ ~VersionHolds(p) /\ Goto(p, "release") /\ UNCHANGED rowS
  /\ UNCHANGED <<conn, secret, rowC, lock, accepted, session, lost, grants, ops, faults>>

\* Mutant: only the secret is written.
AfterSaveSameStatus == conn
AfterSave == [conn EXCEPT !.auth = "active"]

SaveCommits(p) ==
  /\ ref[p].pc = "saved" /\ rowC = None
  /\ secret' = [version |-> secret.version + 1, token |-> ref[p].new, next |-> "later"]
  /\ conn' = AfterSave
  /\ rowS' = None
  /\ Goto(p, "release")
  /\ UNCHANGED <<rowC, lock, accepted, session, lost, grants, ops, faults>>

\* p gives up the new token it has and no row holds: nobody else knows it.
LosesToken(p) ==
  /\ ref[p].pc \in {"save", "saved"}
  /\ ref[p].new # ref[p].token /\ VersionHolds(p)

\* The connection is locked by somebody who waits for the secret row.
SaveAborted(p) ==
  /\ ref[p].pc = "saved" /\ rowC # None
  /\ rowS' = None
  /\ lost' = (lost \/ LosesToken(p))
  /\ Goto(p, "release")
  /\ UNCHANGED <<conn, secret, rowC, lock, accepted, session, grants, ops, faults>>

(***************************************************************************)
(* MarkOAuthRefreshFailure: the connection row first, then the secret.     *)
(***************************************************************************)
MarkLocks(p) ==
  /\ ref[p].pc = "mark" /\ rowC = None
  /\ \/ ~conn.deleted /\ rowC' = p /\ Goto(p, "marked")
     \/ conn.deleted /\ Goto(p, "release") /\ UNCHANGED rowC
  /\ UNCHANGED <<conn, secret, rowS, lock, accepted, session, lost, grants, ops, faults>>

\* Mutants: a failure is recorded whatever the version; it makes a new version;
\* the next attempt stays due.
MarkedAnyVersion(p) ==
  /\ secret' = [secret EXCEPT !.next = IF ref[p].error = "reauth" THEN "null" ELSE "later"]
  /\ conn' = [conn EXCEPT !.auth = IF ref[p].error = "reauth" THEN "reauth_required"
                                   ELSE "attention"]
MarkedNewVersion(p) ==
  IF secret.version = ref[p].version
  THEN /\ secret' = [secret EXCEPT !.next = IF ref[p].error = "reauth" THEN "null" ELSE "later",
                                   !.version = @ + 1]
       /\ conn' = [conn EXCEPT !.auth = IF ref[p].error = "reauth" THEN "reauth_required"
                                        ELSE "attention"]
  ELSE UNCHANGED rows
MarkedStillDue(p) ==
  IF secret.version = ref[p].version
  THEN /\ secret' = [secret EXCEPT !.next = IF ref[p].error = "reauth" THEN "null" ELSE @]
       /\ conn' = [conn EXCEPT !.auth = IF ref[p].error = "reauth" THEN "reauth_required"
                                        ELSE "attention"]
  ELSE UNCHANGED rows

Marked(p) ==
  IF secret.version = ref[p].version
  THEN /\ secret' = [secret EXCEPT !.next = IF ref[p].error = "reauth" THEN "null" ELSE "later"]
       /\ conn' = [conn EXCEPT !.auth = IF ref[p].error = "reauth" THEN "reauth_required"
                                        ELSE "attention"]
  ELSE UNCHANGED rows

MarkCommits(p) ==
  /\ ref[p].pc = "marked" /\ rowS = None
  /\ Marked(p)
  /\ rowC' = None
  /\ Goto(p, "release")
  /\ UNCHANGED <<rowS, lock, accepted, session, lost, grants, ops, faults>>

MarkAborted(p) ==
  /\ ref[p].pc = "marked" /\ rowS # None
  /\ rowC' = None
  /\ Goto(p, "release")
  /\ UNCHANGED <<conn, secret, rowS, lock, accepted, session, lost, grants, ops, faults>>

\* The lock is deleted only when it still carries this holder's token.
Release(p) ==
  /\ ref[p].pc = "release"
  /\ lock' = IF lock = p THEN None ELSE lock
  /\ Stop(p)
  /\ UNCHANGED <<conn, secret, rowC, rowS, accepted, session, lost, grants, ops, faults>>

(***************************************************************************)
(* Failures.  A cancelled context (the gateway's caller left, the server   *)
(* shuts down, the database fails) rolls the transaction back and skips    *)
(* what is left except the release; a crash skips the release too.         *)
(***************************************************************************)
Unlocked(row, p) == IF row = p THEN None ELSE row

ContextEnds(p) ==
  /\ ref[p].pc \in {"refresh", "save", "saved", "mark", "marked"}
  /\ Fault
  /\ rowC' = Unlocked(rowC, p) /\ rowS' = Unlocked(rowS, p)
  /\ lost' = (lost \/ LosesToken(p))
  /\ Goto(p, "release")
  /\ UNCHANGED <<conn, secret, lock, accepted, session, grants, ops>>

Crash(p) ==
  /\ ref[p].pc # "idle"
  /\ Fault
  /\ rowC' = Unlocked(rowC, p) /\ rowS' = Unlocked(rowS, p)
  /\ lost' = (lost \/ LosesToken(p))
  /\ Stop(p)
  /\ UNCHANGED <<conn, secret, lock, accepted, session, grants, ops>>

\* A worker's attempt, its five seconds for recording a failure included, ends
\* before its lock does; a gateway request has no deadline of its own.
Holding(p) == ref[p].pc \in {"refresh", "save", "saved", "mark", "marked", "release"}

LockExpires ==
  /\ lock # None
  /\ lock \in Workers => ~Holding(lock)
  /\ lock' = None
  /\ UNCHANGED <<conn, secret, rowC, rowS, accepted, ref, session, lost, grants, ops, faults>>

BecomesDue ==
  /\ secret.next = "later" /\ secret.version < MaxVersion
  /\ secret' = [secret EXCEPT !.next = "due"]
  /\ UNCHANGED <<conn, rowC, rowS, lock, accepted, ref, session, lost, grants, ops, faults>>

(***************************************************************************)
(* Console sessions: the connection row first, then the secret.            *)
(***************************************************************************)
Enter(s, pc, token) ==
  /\ session[s].pc = "idle" /\ ~conn.deleted
  /\ ops < MaxOps /\ ops' = ops + 1
  /\ session' = [session EXCEPT ![s] = [pc |-> pc, token |-> token]]
  /\ UNCHANGED <<conn, secret, rowC, rowS, lock, ref, lost, faults>>

\* The owner has logged in again and the provider issued the token of a new grant.
Authorize(s) ==
  /\ Enter(s, "authorized", [grant |-> grants + 1, gen |-> 0])
  /\ grants < MaxGrants /\ grants' = grants + 1
  /\ accepted' = accepted \cup {[grant |-> grants + 1, gen |-> 0]}

\* A deletion reads the bundle first: it is the one it will revoke.
ReadForDelete(s) == Enter(s, "leaving", secret.token) /\ UNCHANGED <<accepted, grants>>

\* UpdateAIConnectionValidation locks both rows and writes columns that no
\* statement of this module reads.
StartValidate(s) == Enter(s, "validating", None) /\ UNCHANGED <<accepted, grants>>

Transaction == [authorized |-> "replace", leaving |-> "delete", validating |-> "validate"]

LockConnection(s) ==
  /\ session[s].pc \in DOMAIN Transaction /\ rowC = None
  /\ \/ ~conn.deleted /\ rowC' = s
        /\ session' = [session EXCEPT ![s].pc = Transaction[@]]
     \/ conn.deleted /\ UNCHANGED rowC /\ session' = [session EXCEPT ![s] = NoSession]
  /\ UNCHANGED <<conn, secret, rowS, lock, accepted, ref, lost, grants, ops, faults>>

\* The secret row is free: the transaction writes it and commits.
Commit(s, kind, then) ==
  /\ session[s].pc = kind /\ rowS = None
  /\ rowC' = None
  /\ session' = [session EXCEPT ![s] = then]
  /\ UNCHANGED <<rowS, lock, accepted, ref, grants, ops, faults>>

Replace(s) ==
  /\ Commit(s, "replace", NoSession)
  /\ secret' = [version |-> secret.version + 1, token |-> session[s].token, next |-> "later"]
  /\ conn' = [conn EXCEPT !.auth = "active"]
  /\ lost' = FALSE

Scrubbed == [version |-> secret.version + 1, token |-> None, next |-> secret.next]

Delete(s) ==
  /\ Commit(s, "delete", [session[s] EXCEPT !.pc = "revoke"])
  /\ conn' = [conn EXCEPT !.deleted = TRUE]
  /\ secret' = Scrubbed
  /\ UNCHANGED lost

\* After the deletion the provider is asked to revoke the bundle read before it;
\* some providers cannot, and a failure is only noted.
Revoke(s) ==
  /\ session[s].pc = "revoke"
  /\ accepted' \in {accepted, accepted \ {session[s].token}}
  /\ session' = [session EXCEPT ![s] = NoSession]
  /\ UNCHANGED <<conn, secret, rowC, rowS, lock, ref, lost, grants, ops, faults>>

Validate(s) == Commit(s, "validate", NoSession) /\ UNCHANGED <<conn, secret, lost>>

\* The secret is locked by a save that waits for the connection row.
SessionAborted(s) ==
  /\ session[s].pc \in {"replace", "delete", "validate"} /\ rowS # None
  /\ rowC' = None
  /\ session' = [session EXCEPT ![s] = NoSession]
  /\ UNCHANGED <<conn, secret, rowS, lock, accepted, ref, lost, grants, ops, faults>>

\* The session's request fails: its attempt was cancelled or has expired, its
\* context ended, or the process died.
SessionFails(s) ==
  /\ session[s].pc # "idle"
  /\ Fault
  /\ rowC' = Unlocked(rowC, s)
  /\ session' = [session EXCEPT ![s] = NoSession]
  /\ UNCHANGED <<conn, secret, rowS, lock, accepted, ref, lost, grants, ops>>

-----------------------------------------------------------------------------
RefresherStep(p) ==
  \/ AcquireLock(p) \/ WaitEnds(p)
  \/ RefreshSucceeds(p) \/ RefreshFails(p)
  \/ SaveLocks(p) \/ SaveCommits(p) \/ SaveAborted(p)
  \/ MarkLocks(p) \/ MarkCommits(p) \/ MarkAborted(p)
  \/ Release(p)

SessionStep(s) ==
  \/ LockConnection(s) \/ SessionAborted(s)
  \/ Replace(s) \/ Delete(s) \/ Revoke(s) \/ Validate(s)

Next ==
  \/ \E w \in Workers : SweepReads(w)
  \/ \E g \in Gateways : GatewayReads(g)
  \/ \E p \in Refreshers : RefresherStep(p) \/ AnswerLost(p) \/ ContextEnds(p) \/ Crash(p)
  \/ \E s \in Sessions :
       Authorize(s) \/ ReadForDelete(s) \/ StartValidate(s) \/ SessionStep(s) \/ SessionFails(s)
  \/ ProviderRevokes \/ LockExpires \/ BecomesDue

\* Processes run, transactions end, a lock runs out and the sweep comes round
\* every interval; nothing forces the owner, the callers or a fault.
Fairness ==
  /\ \A w \in Workers : WF_vars(SweepReads(w))
  /\ \A p \in Refreshers : WF_vars(RefresherStep(p))
  /\ \A s \in Sessions : WF_vars(SessionStep(s))
  /\ WF_vars(LockExpires)

Spec == Init /\ [][Next]_vars /\ Fairness

-----------------------------------------------------------------------------
\* CHANGELOG: an old refresh cannot overwrite the authorization the user has
\* just completed.  Unless a console session commits, the stored token keeps its
\* grant and never goes back to an earlier rotation, and a scrubbed secret stays
\* scrubbed.
NewestAuthorizationKept ==
  [][\/ \E s \in Sessions : session'[s] # session[s] /\ session[s].pc \in {"replace", "delete"}
     \/ secret'.token = secret.token
     \/ /\ secret.token # None /\ secret'.token # None
        /\ secret'.token.grant = secret.token.grant
        /\ secret'.token.gen > secret.token.gen]_vars

\* Release notes: an old refresh cannot mark an authorization that has just
\* been updated as invalid.  When the connection asks for a new login, the
\* provider really refuses the token that is stored.
ReauthJustified ==
  conn.auth = "reauth_required" /\ ~conn.deleted => secret.token \notin accepted

\* A version conflict never throws away the only good token: as long as no
\* token was lost by a failure, the stored token is accepted or a refresher has
\* its successor in hand under the stored version, so that its save will hold.
ConflictLosesNothing ==
  ~lost /\ ~conn.deleted =>
    \/ secret.token \in accepted
    \/ \E p \in Refreshers :
         /\ ref[p].pc \in {"save", "saved"}
         /\ ref[p].new \in accepted /\ ref[p].new.grant = secret.token.grant
         /\ ref[p].version = secret.version

\* A credential that is due is refreshed, put off or given up in the end: no
\* dead lock holder, deadlock or conflict leaves it waiting for ever.
RefreshSettles == secret.next = "due" ~> (secret.next # "due" \/ conn.deleted)

\* Two refreshers may present the same token, and the slower one then records
\* a refused login over a refresh that succeeded; the save takes that back.
SpuriousReauthHeals ==
  (conn.auth = "reauth_required" /\ ~lost) ~> (conn.auth = "active" \/ lost \/ conn.deleted)

=============================================================================
