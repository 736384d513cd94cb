----------------------- MODULE CredentialRefreshProofs -----------------------
(***************************************************************************)
(* Proofs about the OAuth credential, for any number of workers, gateway   *)
(* requests and console sessions, rotating provider or not.                *)
(***************************************************************************)
EXTENDS CredentialRefresh, TLAPS

-----------------------------------------------------------------------------
\* The provider accepts one token of each grant.
OnePerGrant ==
  /\ \A t \in accepted : t.grant <= grants
  /\ \A t, u \in accepted : t.grant = u.grant => t = u

\* t was accepted once: what the provider accepts of its grant is t or newer.
NotAhead(t) == t.grant <= grants /\ \A u \in accepted : u.grant = t.grant => t.gen <= u.gen

Stored ==
  /\ conn.deleted <=> secret.token = None
  /\ secret.token # None => NotAhead(secret.token)

RowLocks ==
  /\ \A p \in Refreshers :
       /\ ref[p].pc = "saved" => rowS = p /\ VersionHolds(p)
       /\ ref[p].pc = "marked" => rowC = p
  /\ \A s \in Sessions :
       /\ session[s].pc \in {"replace", "delete", "validate"} => rowC = s /\ ~conn.deleted
       /\ session[s].pc = "revoke" => conn.deleted

\* What a refresher read: the stored token as long as the version is the same,
\* and a token that was replaced otherwise.
Seen ==
  \A p \in Refreshers : ref[p].pc # "idle" =>
    /\ ref[p].token \in Tokens
    /\ NotAhead(ref[p].token)
    /\ ref[p].version <= secret.version
    /\ VersionHolds(p) => ref[p].token = secret.token
    /\ Rotates /\ ~VersionHolds(p) /\ ~conn.deleted =>
         (ref[p].token.grant = secret.token.grant => ref[p].token.gen < secret.token.gen)

InHand ==
  \A p \in Refreshers : ref[p].pc \in {"save", "saved"} =>
    /\ ref[p].new = Exchanged(ref[p].token)
    /\ NotAhead(ref[p].new)
    /\ VersionHolds(p) /\ ~lost => ref[p].new \in accepted

Refused ==
  \A p \in Refreshers :
    ref[p].pc \in {"mark", "marked"} /\ ref[p].error = "reauth" => ref[p].token \notin accepted

\* A session that has logged in holds a grant nobody else has seen.
Logged(s) == session[s].pc \in {"authorized", "replace"}
Fresh ==
  \A s \in Sessions : Logged(s) =>
    /\ session[s].token \in Tokens /\ NotAhead(session[s].token)
    /\ ~conn.deleted => session[s].token \in accepted
    /\ ~conn.deleted => session[s].token.grant # secret.token.grant
    /\ \A p \in Refreshers : ref[p].pc # "idle" => ref[p].token.grant # session[s].token.grant
    /\ \A r \in Sessions : Logged(r) /\ r # s => session[r].token.grant # session[s].token.grant

Inv ==
  /\ TypeOK /\ OnePerGrant /\ Stored /\ RowLocks /\ Seen /\ InHand /\ Refused /\ Fresh
  /\ ReauthJustified /\ ConflictLosesNothing

-----------------------------------------------------------------------------
(***************************************************************************)
(* What a step does to the record of one refresher or session.             *)
(***************************************************************************)

\* Moving a refresher changes its pc and nothing else of it.
LEMMA GotoFacts ==
  ASSUME ref \in [Refreshers -> RefresherRecords], NEW p \in Refreshers, NEW pc,
         pc \in {"idle", "read", "wait", "refresh", "save", "saved", "mark", "marked", "release"},
         Goto(p, pc)
  PROVE  /\ ref' \in [Refreshers -> RefresherRecords]
         /\ \A q \in Refreshers : q # p => ref'[q] = ref[q]
         /\ ref'[p].pc = pc
         /\ ref'[p].version = ref[p].version /\ ref'[p].token = ref[p].token
         /\ ref'[p].new = ref[p].new /\ ref'[p].error = ref[p].error
  BY DEF Goto, RefresherRecords

\* Stopping a refresher makes it idle.
LEMMA StopFacts ==
  ASSUME ref \in [Refreshers -> RefresherRecords], NEW p \in Refreshers, Stop(p)
  PROVE  /\ ref' \in [Refreshers -> RefresherRecords]
         /\ \A q \in Refreshers : q # p => ref'[q] = ref[q]
         /\ ref'[p].pc = "idle"
  BY DEF Stop, RefresherRecords, Idle

\* A session's step changes its own record only.
LEMMA SessionFacts ==
  ASSUME session \in [Sessions -> SessionRecords], NEW s \in Sessions, NEW r \in SessionRecords,
         session' = [session EXCEPT ![s] = r]
  PROVE  /\ session' \in [Sessions -> SessionRecords]
         /\ \A u \in Sessions : u # s => session'[u] = session[u]
         /\ session'[s] = r
  OBVIOUS

\* The token an exchange yields: a new rotation of the same grant, or the same.
LEMMA ExchangedFacts ==
  ASSUME NEW t \in Tokens
  PROVE  /\ Exchanged(t) \in Tokens /\ Exchanged(t).grant = t.grant
         /\ Rotates => Exchanged(t).gen = t.gen + 1
         /\ ~Rotates => Exchanged(t) = t
  BY DEF Exchanged, Tokens

\* Two tokens are the same when grant and rotation are.
LEMMA SameToken ==
  ASSUME NEW t \in Tokens, NEW u \in Tokens, t.grant = u.grant, t.gen = u.gen
  PROVE  t = u
  BY DEF Tokens

-----------------------------------------------------------------------------
(***************************************************************************)
(* Steps that leave the committed rows and the provider alone.             *)
(***************************************************************************)

\* A refresher moves on with what it has, or stops; giving up a token nobody
\* else has is counted in lost.  Locking, waiting, failing, aborting, crashing
\* and releasing are such steps.
LEMMA QuietRefresher ==
  ASSUME Inv, TypeOK', RowLocks', NEW p \in Refreshers,
         UNCHANGED <<conn, secret, accepted, session, grants>>,
         \A q \in Refreshers : q # p => ref'[q] = ref[q],
         \/ ref'[p].pc = "idle"
         \/ /\ ref[p].pc # "idle"
            /\ ref'[p].version = ref[p].version
            /\ ref'[p].token = ref[p].token /\ ref'[p].new = ref[p].new
            /\ ref'[p].pc \in {"save", "saved"} => ref[p].pc \in {"save", "saved"}
            /\ ref'[p].pc \in {"mark", "marked"} /\ ref'[p].error = "reauth" =>
                 ref[p].token \notin accepted,
         ~lost' => ~lost /\ (LosesToken(p) => ref'[p].pc \in {"save", "saved"})
  PROVE  Inv'
<1>1. OnePerGrant' BY DEF Inv, OnePerGrant
<1>2. Stored' BY DEF Inv, Stored, NotAhead
<1>3. Seen' BY DEF Inv, Seen, NotAhead, VersionHolds
<1>4. InHand'
  <2>. SUFFICES ASSUME NEW q \in Refreshers, ref'[q].pc \in {"save", "saved"}
                PROVE  /\ ref'[q].new = Exchanged(ref'[q].token)
                       /\ NotAhead(ref[q].new)
                       /\ VersionHolds(q) /\ ~lost' => ref[q].new \in accepted
                       /\ ref'[q].new = ref[q].new /\ ref'[q].version = ref[q].version
    BY DEF InHand, NotAhead, VersionHolds, Exchanged
  <2>1. /\ ref[q].pc \in {"save", "saved"} /\ ref'[q].version = ref[q].version
        /\ ref'[q].token = ref[q].token /\ ref'[q].new = ref[q].new
    OBVIOUS
  <2>. QED BY <2>1 DEF Inv, InHand
<1>5. Refused' BY DEF Inv, Refused
<1>6. Fresh' BY DEF Inv, Fresh, NotAhead, Logged
<1>7. ReauthJustified' BY DEF Inv, ReauthJustified
<1>8. ConflictLosesNothing'
  <2>. SUFFICES ASSUME ~lost', ~conn.deleted, secret.token \notin accepted
                PROVE  \E q \in Refreshers :
                         /\ ref'[q].pc \in {"save", "saved"}
                         /\ ref'[q].new \in accepted /\ ref'[q].new.grant = secret.token.grant
                         /\ ref'[q].version = secret.version
    BY DEF ConflictLosesNothing
  <2>1. PICK q \in Refreshers :
          /\ ref[q].pc \in {"save", "saved"}
          /\ ref[q].new \in accepted /\ ref[q].new.grant = secret.token.grant
          /\ ref[q].version = secret.version
    BY DEF Inv, ConflictLosesNothing
  <2>2. VersionHolds(q) /\ ref[q].token = secret.token
    BY <2>1 DEF Inv, Seen, VersionHolds
  <2>3. LosesToken(q)
    BY <2>1, <2>2 DEF LosesToken
  <2>. QED BY <2>1, <2>3
<1>. QED BY <1>1, <1>2, <1>3, <1>4, <1>5, <1>6, <1>7, <1>8 DEF Inv

\* A session moves on with the token it has, or drops it.
LEMMA QuietSession ==
  ASSUME Inv, TypeOK', RowLocks', NEW s \in Sessions,
         UNCHANGED <<conn, secret, accepted, ref, lost, grants>>,
         \A u \in Sessions : u # s => session'[u] = session[u],
         Logged(s)' => Logged(s) /\ session'[s].token = session[s].token
  PROVE  Inv'
<1>1. OnePerGrant' BY DEF Inv, OnePerGrant
<1>2. Stored' BY DEF Inv, Stored, NotAhead
<1>3. Seen' BY DEF Inv, Seen, NotAhead, VersionHolds
<1>4. InHand' BY DEF Inv, InHand, NotAhead, VersionHolds, Exchanged
<1>5. Refused' BY DEF Inv, Refused
<1>6. Fresh'
  <2>1. \A u \in Sessions : Logged(u)' => Logged(u) /\ session'[u].token = session[u].token
    BY DEF Logged
  <2>. QED BY <2>1 DEF Inv, Fresh, NotAhead
<1>7. ReauthJustified' BY DEF Inv, ReauthJustified
<1>8. ConflictLosesNothing' BY DEF Inv, ConflictLosesNothing
<1>. QED BY <1>1, <1>2, <1>3, <1>4, <1>5, <1>6, <1>7, <1>8 DEF Inv

\* The steps of a refresher that change neither rows nor provider.
LEMMA QuietRefresherActions ==
  ASSUME Inv, NEW p \in Refreshers,
         \/ AcquireLock(p) \/ WaitEnds(p) \/ RefreshFails(p)
         \/ SaveLocks(p) \/ SaveAborted(p) \/ MarkLocks(p) \/ MarkAborted(p)
         \/ Release(p) \/ ContextEnds(p) \/ Crash(p)
  PROVE  Inv'
<1>. USE ConstantsAssumption DEF Refreshers, Actors
<1>0. ref \in [Refreshers -> RefresherRecords] /\ TypeOK /\ RowLocks
  BY DEF Inv, TypeOK
<1>1. CASE AcquireLock(p)
  <2>1. /\ ref[p].pc = "read"
        /\ lock' \in {p, lock} /\ (Goto(p, "refresh") \/ Goto(p, "wait") \/ Stop(p))
        /\ UNCHANGED <<conn, secret, rowC, rowS, accepted, session, lost, grants, ops, faults>>
    BY <1>1 DEF AcquireLock
  <2>2. CASE Goto(p, "refresh") \/ Goto(p, "wait")
    <3>1. /\ ref' \in [Refreshers -> RefresherRecords]
          /\ \A q \in Refreshers : q # p => ref'[q] = ref[q]
          /\ ref'[p].pc \in {"refresh", "wait"}
          /\ ref'[p].version = ref[p].version /\ ref'[p].token = ref[p].token
          /\ ref'[p].new = ref[p].new
      BY <1>0, <2>2, GotoFacts
    <3>2. TypeOK' BY <1>0, <2>1, <3>1 DEF TypeOK
    <3>3. RowLocks' BY <1>0, <2>1, <3>1 DEF RowLocks, VersionHolds
    <3>. QED BY <2>1, <3>1, <3>2, <3>3, QuietRefresher DEF LosesToken
  <2>3. CASE Stop(p)
    <3>1. /\ ref' \in [Refreshers -> RefresherRecords]
          /\ \A q \in Refreshers : q # p => ref'[q] = ref[q]
          /\ ref'[p].pc = "idle"
      BY <1>0, <2>3, StopFacts
    <3>2. TypeOK' BY <1>0, <2>1, <3>1 DEF TypeOK
    <3>3. RowLocks' BY <1>0, <2>1, <3>1 DEF RowLocks, VersionHolds
    <3>. QED BY <2>1, <3>1, <3>2, <3>3, QuietRefresher DEF LosesToken
  <2>. QED BY <2>1, <2>2, <2>3
<1>2. CASE WaitEnds(p) \/ Release(p)
  <2>1. /\ ref[p].pc \in {"wait", "release"} /\ lock' \in {lock, None}
        /\ ref' \in [Refreshers -> RefresherRecords]
        /\ \A q \in Refreshers : q # p => ref'[q] = ref[q]
        /\ ref'[p].pc = "idle"
        /\ UNCHANGED <<conn, secret, rowC, rowS, accepted, session, lost, grants, ops, faults>>
    BY <1>0, <1>2, StopFacts DEF WaitEnds, Release
  <2>2. TypeOK' BY <1>0, <2>1 DEF TypeOK
  <2>3. RowLocks' BY <1>0, <2>1 DEF RowLocks, VersionHolds
  <2>. QED BY <2>1, <2>2, <2>3, QuietRefresher DEF LosesToken
<1>3. CASE RefreshFails(p)
  <2>1. PICK e \in {"reauth", "temporary"} :
          /\ e = "reauth" => ref[p].token \notin accepted
          /\ ref' = [ref EXCEPT ![p].pc = "mark", ![p].error = e]
    BY <1>3 DEF RefreshFails
  <2>2. /\ ref[p].pc = "refresh"
        /\ ref' \in [Refreshers -> RefresherRecords]
        /\ \A q \in Refreshers : q # p => ref'[q] = ref[q]
        /\ ref'[p].pc = "mark" /\ ref'[p].error = e
        /\ ref'[p].version = ref[p].version /\ ref'[p].token = ref[p].token
        /\ ref'[p].new = ref[p].new
        /\ UNCHANGED <<conn, secret, rowC, rowS, lock, accepted, session, lost, grants, ops, faults>>
    BY <1>0, <1>3, <2>1 DEF RefreshFails, RefresherRecords
  <2>3. TypeOK' BY <1>0, <2>2 DEF TypeOK
  <2>4. RowLocks' BY <1>0, <2>2 DEF RowLocks, VersionHolds
  <2>. QED BY <2>1, <2>2, <2>3, <2>4, QuietRefresher DEF LosesToken
<1>4. CASE SaveLocks(p)
  <2>1. \E pc \in {"saved", "release"} :
          /\ Goto(p, pc) /\ ref[p].pc = "save" /\ rowS = None
          /\ pc = "saved" => VersionHolds(p) /\ rowS' = p
          /\ pc = "release" => ~VersionHolds(p) /\ rowS' = rowS
          /\ UNCHANGED <<conn, secret, rowC, lock, accepted, session, lost, grants, ops, faults>>
    BY <1>4 DEF SaveLocks
  <2>2. /\ ref' \in [Refreshers -> RefresherRecords]
        /\ \A q \in Refreshers : q # p => ref'[q] = ref[q]
        /\ ref'[p].pc \in {"saved", "release"}
        /\ ref'[p].pc = "saved" => VersionHolds(p) /\ rowS' = p
        /\ ref'[p].pc = "release" => ~VersionHolds(p) /\ rowS' = rowS
        /\ ref'[p].version = ref[p].version /\ ref'[p].token = ref[p].token
        /\ ref'[p].new = ref[p].new
    BY <1>0, <2>1, GotoFacts
  <2>3. TypeOK' BY <1>0, <2>1, <2>2 DEF TypeOK
  <2>4. RowLocks' BY <1>0, <2>1, <2>2 DEF RowLocks, VersionHolds
  <2>. QED BY <2>1, <2>2, <2>3, <2>4, QuietRefresher DEF LosesToken
<1>5. CASE SaveAborted(p) \/ MarkAborted(p)
  <2>1. /\ ref[p].pc \in {"saved", "marked"} /\ Goto(p, "release")
        /\ ref[p].pc = "saved" => rowS' = None /\ rowC' = rowC
        /\ ref[p].pc = "marked" => rowC' = None /\ rowS' = rowS
        /\ lost' \in BOOLEAN /\ (~lost' => ~lost /\ ~LosesToken(p))
        /\ UNCHANGED <<conn, secret, lock, accepted, session, grants, ops, faults>>
    BY <1>0, <1>5 DEF SaveAborted, MarkAborted, LosesToken, TypeOK
  <2>2. /\ ref' \in [Refreshers -> RefresherRecords]
        /\ \A q \in Refreshers : q # p => ref'[q] = ref[q]
        /\ ref'[p].pc = "release"
        /\ ref'[p].version = ref[p].version /\ ref'[p].token = ref[p].token
        /\ ref'[p].new = ref[p].new
    BY <1>0, <2>1, GotoFacts
  <2>3. TypeOK' BY <1>0, <2>1, <2>2 DEF TypeOK
  <2>4. RowLocks' BY <1>0, <2>1, <2>2 DEF RowLocks, VersionHolds
  <2>. QED BY <2>1, <2>2, <2>3, <2>4, QuietRefresher
<1>6. CASE MarkLocks(p)
  <2>1. \E pc \in {"marked", "release"} :
          /\ Goto(p, pc) /\ ref[p].pc = "mark" /\ rowC = None
          /\ pc = "marked" => rowC' = p
          /\ pc = "release" => rowC' = rowC
          /\ UNCHANGED <<conn, secret, rowS, lock, accepted, session, lost, grants, ops, faults>>
    BY <1>6 DEF MarkLocks
  <2>2. /\ ref' \in [Refreshers -> RefresherRecords]
        /\ \A q \in Refreshers : q # p => ref'[q] = ref[q]
        /\ ref'[p].pc \in {"marked", "release"}
        /\ ref'[p].pc = "marked" => rowC' = p
        /\ ref'[p].pc = "release" => rowC' = rowC
        /\ ref'[p].version = ref[p].version /\ ref'[p].token = ref[p].token
        /\ ref'[p].new = ref[p].new /\ ref'[p].error = ref[p].error
    BY <1>0, <2>1, GotoFacts
  <2>3. TypeOK' BY <1>0, <2>1, <2>2 DEF TypeOK
  <2>4. RowLocks' BY <1>0, <2>1, <2>2 DEF RowLocks, VersionHolds
  <2>5. ref[p].error = "reauth" => ref[p].token \notin accepted
    BY <2>1 DEF Inv, Refused
  <2>. QED BY <2>1, <2>2, <2>3, <2>4, <2>5, QuietRefresher DEF LosesToken
<1>7. CASE ContextEnds(p) \/ Crash(p)
  <2>1. /\ ref[p].pc # "idle" /\ (Goto(p, "release") \/ Stop(p))
        /\ rowC' = Unlocked(rowC, p) /\ rowS' = Unlocked(rowS, p)
        /\ lost' \in BOOLEAN /\ (~lost' => ~lost /\ ~LosesToken(p))
        /\ faults' = faults + 1
        /\ UNCHANGED <<conn, secret, lock, accepted, session, grants, ops>>
    BY <1>0, <1>7 DEF ContextEnds, Crash, Fault, LosesToken, TypeOK
  <2>2. /\ ref' \in [Refreshers -> RefresherRecords]
        /\ \A q \in Refreshers : q # p => ref'[q] = ref[q]
        /\ \/ ref'[p].pc = "idle"
           \/ /\ ref'[p].pc = "release"
              /\ ref'[p].version = ref[p].version /\ ref'[p].token = ref[p].token
              /\ ref'[p].new = ref[p].new
    <3>1. CASE Goto(p, "release") BY <1>0, <3>1, GotoFacts
    <3>2. CASE Stop(p) BY <1>0, <3>2, StopFacts
    <3>. QED BY <2>1, <3>1, <3>2
  <2>3. TypeOK' BY <1>0, <2>1, <2>2 DEF TypeOK, Unlocked
  <2>4. RowLocks' BY <1>0, <2>1, <2>2 DEF RowLocks, VersionHolds, Unlocked
  <2>. QED BY <2>1, <2>2, <2>3, <2>4, QuietRefresher
<1>. QED BY <1>1, <1>2, <1>3, <1>4, <1>5, <1>6, <1>7

\* The steps of a session that change neither rows nor provider.
LEMMA QuietSessionActions ==
  ASSUME Inv, NEW s \in Sessions,
         \/ ReadForDelete(s) \/ StartValidate(s) \/ LockConnection(s)
         \/ Validate(s) \/ SessionAborted(s) \/ SessionFails(s)
  PROVE  Inv'
<1>. USE ConstantsAssumption DEF Refreshers, Actors
<1>0. session \in [Sessions -> SessionRecords] /\ TypeOK /\ RowLocks
  BY DEF Inv, TypeOK
<1>1. CASE ReadForDelete(s) \/ StartValidate(s)
  <2>1. \E r \in SessionRecords :
          /\ r.pc \in {"leaving", "validating"}
          /\ session' = [session EXCEPT ![s] = r]
    BY <1>0, <1>1 DEF ReadForDelete, StartValidate, Enter, SessionRecords, TypeOK
  <2>2. /\ session' \in [Sessions -> SessionRecords]
        /\ \A u \in Sessions : u # s => session'[u] = session[u]
        /\ session'[s].pc \in {"leaving", "validating"}
    BY <1>0, <2>1, SessionFacts
  <2>3. /\ ops' = ops + 1
        /\ UNCHANGED <<conn, secret, rowC, rowS, lock, accepted, ref, lost, grants, faults>>
    BY <1>1 DEF ReadForDelete, StartValidate, Enter
  <2>4. TypeOK' BY <1>0, <2>2, <2>3 DEF TypeOK
  <2>5. RowLocks' BY <1>0, <2>2, <2>3 DEF RowLocks, VersionHolds
  <2>. QED BY <2>2, <2>3, <2>4, <2>5, QuietSession DEF Logged
<1>2. CASE LockConnection(s)
  <2>1. /\ session[s].pc \in {"authorized", "leaving", "validating"}
        /\ UNCHANGED <<conn, secret, rowS, lock, accepted, ref, lost, grants, ops, faults>>
        /\ rowC = None
    BY <1>2 DEF LockConnection, Transaction
  <2>2. CASE ~conn.deleted
    <3>1. /\ rowC' = s
          /\ session' = [session EXCEPT ![s].pc = Transaction[session[s].pc]]
      BY <1>2, <2>2 DEF LockConnection
    <3>2. /\ Transaction[session[s].pc] \in {"replace", "delete", "validate"}
          /\ Transaction[session[s].pc] = "replace" => session[s].pc = "authorized"
      BY <2>1 DEF Transaction
    <3>3. /\ session' \in [Sessions -> SessionRecords]
          /\ \A u \in Sessions : u # s => session'[u] = session[u]
          /\ session'[s].pc = Transaction[session[s].pc]
          /\ session'[s].token = session[s].token
      BY <1>0, <3>1, <3>2 DEF SessionRecords
    <3>4. TypeOK' BY <1>0, <2>1, <3>1, <3>3 DEF TypeOK
    <3>5. RowLocks' BY <1>0, <2>1, <2>2, <3>1, <3>2, <3>3 DEF RowLocks, VersionHolds
    <3>. QED BY <2>1, <3>2, <3>3, <3>4, <3>5, QuietSession DEF Logged
  <2>3. CASE conn.deleted
    <3>1. rowC' = rowC /\ session' = [session EXCEPT ![s] = NoSession]
      BY <1>2, <2>3 DEF LockConnection
    <3>2. /\ session' \in [Sessions -> SessionRecords]
          /\ \A u \in Sessions : u # s => session'[u] = session[u]
          /\ session'[s].pc = "idle"
      BY <1>0, <3>1, SessionFacts DEF NoSession, SessionRecords
    <3>3. TypeOK' BY <1>0, <2>1, <3>1, <3>2 DEF TypeOK
    <3>4. RowLocks' BY <1>0, <2>1, <3>1, <3>2 DEF RowLocks, VersionHolds
    <3>. QED BY <2>1, <3>2, <3>3, <3>4, QuietSession DEF Logged
  <2>. QED BY <2>2, <2>3
<1>3. CASE Validate(s) \/ SessionAborted(s) \/ SessionFails(s)
  <2>1. /\ session' = [session EXCEPT ![s] = NoSession]
        /\ (rowC' = None /\ rowC = s) \/ rowC' = Unlocked(rowC, s)
        /\ faults' \in {faults, faults + 1}
        /\ UNCHANGED <<conn, secret, rowS, lock, accepted, ref, lost, grants, ops>>
    BY <1>0, <1>3 DEF Validate, Commit, SessionAborted, SessionFails, Fault, RowLocks
  <2>2. /\ session' \in [Sessions -> SessionRecords]
        /\ \A u \in Sessions : u # s => session'[u] = session[u]
        /\ session'[s].pc = "idle"
    BY <1>0, <2>1, SessionFacts DEF NoSession, SessionRecords
  <2>3. TypeOK' BY <1>0, <2>1, <2>2 DEF TypeOK, Unlocked
  <2>4. RowLocks' BY <1>0, <2>1, <2>2 DEF RowLocks, VersionHolds, Unlocked
  <2>. QED BY <2>1, <2>2, <2>3, <2>4, QuietSession DEF Logged
<1>. QED BY <1>1, <1>2, <1>3

-----------------------------------------------------------------------------
(***************************************************************************)
(* Reading, and the exchange at the provider.                              *)
(***************************************************************************)

\* A refresher that reads holds the stored token under the stored version.
LEMMA ReadInv ==
  ASSUME Inv, NEW p \in Refreshers, Usable, Read(p)
  PROVE  Inv'
<1>. USE ConstantsAssumption DEF Refreshers, Actors
<1>1. /\ ref' \in [Refreshers -> RefresherRecords]
      /\ \A q \in Refreshers : q # p => ref'[q] = ref[q]
      /\ ref'[p].pc = "read"
      /\ ref'[p].version = secret.version /\ ref'[p].token = secret.token
      /\ ref[p].pc = "idle" /\ ~conn.deleted
      /\ UNCHANGED <<conn, secret, rowC, rowS, lock, accepted, session, lost, grants, ops, faults>>
  BY DEF Inv, TypeOK, Read, Usable, Idle, RefresherRecords
<1>2. TypeOK' BY <1>1 DEF Inv, TypeOK
<1>3. OnePerGrant' BY <1>1 DEF Inv, OnePerGrant
<1>4. Stored' BY <1>1 DEF Inv, Stored, NotAhead
<1>5. RowLocks' BY <1>1 DEF Inv, RowLocks, VersionHolds
<1>6. Seen' BY <1>1 DEF Inv, TypeOK, Stored, Seen, NotAhead, VersionHolds
<1>7. InHand'
  <2>1. \A q \in Refreshers : ref'[q].pc \in {"save", "saved"} => ref'[q] = ref[q]
    BY <1>1
  <2>. QED BY <1>1, <2>1 DEF Inv, InHand, NotAhead, VersionHolds, Exchanged
<1>8. Refused' BY <1>1 DEF Inv, Refused
<1>9. Fresh' BY <1>1 DEF Inv, Fresh, NotAhead, Logged
<1>10. ReauthJustified' BY <1>1 DEF Inv, ReauthJustified
<1>11. ConflictLosesNothing' BY <1>1 DEF Inv, ConflictLosesNothing
<1>. QED BY <1>2, <1>3, <1>4, <1>5, <1>6, <1>7, <1>8, <1>9, <1>10, <1>11 DEF Inv

\* What an exchange of p's token means for every token known anywhere: nothing
\* known becomes newer than what is accepted, nothing refused becomes accepted,
\* and the successors other refreshers have in hand stay accepted.
LEMMA ExchangeFacts ==
  ASSUME Inv, NEW p \in Refreshers, ref[p].pc = "refresh", ref[p].token \in accepted,
         accepted' = (accepted \ {ref[p].token}) \cup {Exchanged(ref[p].token)},
         grants' = grants
  PROVE  /\ OnePerGrant' /\ accepted' \subseteq Tokens
         /\ \A t \in Tokens : NotAhead(t) => NotAhead(t)'
         /\ \A t \in Tokens : NotAhead(t) /\ t \notin accepted => t \notin accepted'
         /\ \A t \in accepted : t.grant # ref[p].token.grant => t \in accepted'
         /\ Exchanged(ref[p].token) \in accepted'
         /\ \A t \in Tokens : t = Exchanged(ref[p].token) => NotAhead(t)'
         /\ \A q \in Refreshers :
              ref[q].pc \in {"save", "saved"} /\ VersionHolds(q) /\ ~lost => ref[q].new \in accepted'
<1>. DEFINE t == ref[p].token
            n == Exchanged(ref[p].token)
<1>1. /\ t \in Tokens /\ t \in accepted /\ accepted \subseteq Tokens /\ OnePerGrant
      /\ accepted' = (accepted \ {t}) \cup {n} /\ grants \in Nat
  BY DEF Inv, Seen, TypeOK
<1>2. /\ n \in Tokens /\ n.grant = t.grant
      /\ Rotates => n.gen = t.gen + 1
      /\ ~Rotates => n = t
  BY <1>1, ExchangedFacts
<1>3. t.gen \in Nat /\ n.gen \in Nat /\ t.grant \in Nat
  BY <1>1, <1>2 DEF Tokens
<1>r. Rotates \in BOOLEAN BY ConstantsAssumption
<1>. HIDE DEF t, n
<1>4. OnePerGrant' /\ accepted' \subseteq Tokens
  BY <1>1, <1>2 DEF OnePerGrant
<1>5. \A u \in Tokens : NotAhead(u) => NotAhead(u)'
  BY <1>1, <1>2, <1>3, <1>r DEF NotAhead, OnePerGrant, Tokens
<1>6. \A u \in Tokens : NotAhead(u) /\ u \notin accepted => u \notin accepted'
  BY <1>1, <1>2, <1>3, <1>r DEF NotAhead, Tokens
<1>7. \A u \in accepted : u.grant # t.grant => u \in accepted'
  BY <1>1
<1>8. n \in accepted' /\ \A u \in Tokens : u = n => NotAhead(u)'
  BY <1>1, <1>2, <1>3, <1>4 DEF NotAhead, OnePerGrant
<1>9. ASSUME NEW q \in Refreshers, ref[q].pc \in {"save", "saved"}, VersionHolds(q), ~lost
      PROVE  ref[q].new \in accepted'
  <2>1. /\ ref[q].token = secret.token /\ secret.token \in Tokens /\ ~conn.deleted
        /\ ref[q].new = Exchanged(secret.token) /\ ref[q].new \in accepted
    BY <1>9, ConstantsAssumption DEF Inv, Seen, InHand, Stored, Tokens, TypeOK
  <2>2. /\ ref[q].new \in Tokens /\ ref[q].new.grant = secret.token.grant
        /\ Rotates => ref[q].new.gen = secret.token.gen + 1
    BY <2>1, ExchangedFacts
  <2>3. ASSUME Rotates PROVE ref[q].new # t
    <3>1. CASE VersionHolds(p)
      <4>1. t = secret.token BY <3>1 DEF Inv, Seen, t
      <4>. QED BY <2>1, <2>2, <2>3, <4>1 DEF Tokens
    <3>2. CASE ~VersionHolds(p)
      <4>1. t.grant = secret.token.grant => t.gen < secret.token.gen
        BY <2>1, <2>3, <3>2 DEF Inv, Seen, t
      <4>. QED BY <1>3, <2>1, <2>2, <2>3, <4>1 DEF Tokens
    <3>. QED BY <3>1, <3>2
  <2>. QED BY <1>1, <1>2, <2>1, <2>3, <1>r
<1>. QED BY <1>4, <1>5, <1>6, <1>7, <1>8, <1>9 DEF t, n

\* An exchange whose answer arrives: the refresher has the successor in hand.
LEMMA RefreshSucceedsInv ==
  ASSUME Inv, NEW p \in Refreshers, RefreshSucceeds(p)
  PROVE  Inv'
<1>. USE ConstantsAssumption DEF Refreshers, Actors
<1>0. /\ ref[p].token \in Tokens /\ Exchanged(ref[p].token) \in Tokens
      /\ Exchanged(ref[p].token).grant = ref[p].token.grant
  BY ExchangedFacts DEF Inv, Seen, RefreshSucceeds
<1>1. /\ ref[p].pc = "refresh" /\ ref[p].token \in accepted
      /\ accepted' = (accepted \ {ref[p].token}) \cup {Exchanged(ref[p].token)}
      /\ UNCHANGED <<conn, secret, rowC, rowS, lock, session, lost, grants, ops, faults>>
  BY DEF RefreshSucceeds
<1>2. /\ ref' \in [Refreshers -> RefresherRecords]
      /\ \A q \in Refreshers : q # p => ref'[q] = ref[q]
      /\ ref'[p].pc = "save" /\ ref'[p].new = Exchanged(ref[p].token)
      /\ ref'[p].version = ref[p].version /\ ref'[p].token = ref[p].token
  BY <1>0 DEF RefreshSucceeds, RefresherRecords, Inv, TypeOK
<1>3. /\ OnePerGrant' /\ accepted' \subseteq Tokens
      /\ \A t \in Tokens : NotAhead(t) => NotAhead(t)'
      /\ \A t \in Tokens : NotAhead(t) /\ t \notin accepted => t \notin accepted'
      /\ \A t \in accepted : t.grant # ref[p].token.grant => t \in accepted'
      /\ Exchanged(ref[p].token) \in accepted'
      /\ \A t \in Tokens : t = Exchanged(ref[p].token) => NotAhead(t)'
      /\ \A q \in Refreshers :
           ref[q].pc \in {"save", "saved"} /\ VersionHolds(q) /\ ~lost => ref[q].new \in accepted'
  BY <1>1, ExchangeFacts
<1>4. TypeOK' BY <1>1, <1>2, <1>3 DEF Inv, TypeOK
<1>5. Stored' BY <1>1, <1>3 DEF Inv, Stored, TypeOK
<1>6. RowLocks' BY <1>1, <1>2 DEF Inv, RowLocks, VersionHolds
<1>7. Seen' BY <1>1, <1>2, <1>3 DEF Inv, Seen, VersionHolds
<1>8. InHand'
  <2>. SUFFICES ASSUME NEW q \in Refreshers, ref'[q].pc \in {"save", "saved"}
                PROVE  /\ ref'[q].new = Exchanged(ref[q].token)
                       /\ ref'[q].token = ref[q].token
                       /\ \A t \in Tokens : t = ref'[q].new => NotAhead(t)'
                       /\ ref'[q].new \in Tokens
                       /\ VersionHolds(q) /\ ~lost => ref'[q].new \in accepted'
                       /\ ref'[q].version = ref[q].version
    BY <1>1 DEF InHand, VersionHolds, Exchanged, NotAhead
  <2>1. CASE q = p BY <1>0, <1>2, <1>3, <2>1
  <2>2. CASE q # p
    <3>1. /\ ref'[q] = ref[q] /\ ref[q].token \in Tokens /\ NotAhead(ref[q].new)
          /\ ref[q].new = Exchanged(ref[q].token)
      BY <1>2, <2>2 DEF Inv, InHand, Seen
    <3>. QED BY <1>3, <3>1, ExchangedFacts
  <2>. QED BY <2>1, <2>2
<1>9. Refused'
  <2>1. \A q \in Refreshers : ref'[q].pc \in {"mark", "marked"} =>
          ref'[q] = ref[q] /\ ref[q].token \in Tokens /\ NotAhead(ref[q].token)
    BY <1>2 DEF Inv, Seen
  <2>. QED BY <1>3, <2>1 DEF Inv, Refused
<1>10. Fresh'
  <2>1. \A q \in Refreshers : ref'[q].token = ref[q].token /\ (ref'[q].pc # "idle" => ref[q].pc # "idle")
    BY <1>1, <1>2
  <2>. QED BY <1>1, <1>3, <2>1 DEF Inv, Fresh, Logged
<1>11. ReauthJustified'
  BY <1>1, <1>3 DEF Inv, ReauthJustified, Stored, TypeOK
<1>12. ConflictLosesNothing'
  <2>. SUFFICES ASSUME ~lost, ~conn.deleted, secret.token \notin accepted'
                PROVE  \E q \in Refreshers :
                         /\ ref'[q].pc \in {"save", "saved"}
                         /\ ref'[q].new \in accepted' /\ ref'[q].new.grant = secret.token.grant
                         /\ ref'[q].version = secret.version
    BY <1>1 DEF ConflictLosesNothing
  <2>1. CASE secret.token \in accepted
    <3>1. ref[p].token = secret.token BY <1>1, <2>1
    <3>2. Rotates BY <1>0, <1>1, <1>3, <3>1, ExchangedFacts
    <3>3. VersionHolds(p)
      BY <1>0, <1>1, <3>1, <3>2 DEF Inv, Seen, Tokens
    <3>. QED BY <1>0, <1>2, <1>3, <3>1, <3>3 DEF VersionHolds
  <2>2. CASE secret.token \notin accepted
    <3>1. PICK q \in Refreshers :
            /\ ref[q].pc \in {"save", "saved"} /\ ref[q].version = secret.version
            /\ ref[q].new.grant = secret.token.grant
      BY <2>2 DEF Inv, ConflictLosesNothing
    <3>2. q # p /\ ref'[q] = ref[q] BY <1>1, <1>2, <3>1
    <3>. QED BY <1>3, <3>1, <3>2 DEF VersionHolds
  <2>. QED BY <2>1, <2>2
<1>. QED BY <1>3, <1>4, <1>5, <1>6, <1>7, <1>8, <1>9, <1>10, <1>11, <1>12 DEF Inv

\* An exchange whose answer is lost: with a provider that rotates, so is the token.
LEMMA AnswerLostInv ==
  ASSUME Inv, NEW p \in Refreshers, AnswerLost(p)
  PROVE  Inv'
<1>. USE ConstantsAssumption DEF Refreshers, Actors
<1>0. ref[p].token \in Tokens BY DEF Inv, Seen, AnswerLost
<1>1. /\ ref[p].pc = "refresh" /\ ref[p].token \in accepted
      /\ accepted' = (accepted \ {ref[p].token}) \cup {Exchanged(ref[p].token)}
      /\ lost' = (lost \/ Rotates) /\ faults' = faults + 1
      /\ UNCHANGED <<conn, secret, rowC, rowS, lock, session, grants, ops>>
  BY DEF AnswerLost, Fault
<1>2. /\ ref' \in [Refreshers -> RefresherRecords]
      /\ \A q \in Refreshers : q # p => ref'[q] = ref[q]
      /\ ref'[p].pc \in {"mark", "release"} /\ ref'[p].error = "temporary"
      /\ ref'[p].version = ref[p].version /\ ref'[p].token = ref[p].token
  BY DEF AnswerLost, RefresherRecords, Inv, TypeOK
<1>3. /\ OnePerGrant' /\ accepted' \subseteq Tokens
      /\ \A t \in Tokens : NotAhead(t) => NotAhead(t)'
      /\ \A t \in Tokens : NotAhead(t) /\ t \notin accepted => t \notin accepted'
      /\ \A t \in accepted : t.grant # ref[p].token.grant => t \in accepted'
  BY <1>1, ExchangeFacts
<1>4. ~lost' => ~lost /\ accepted' = accepted
  BY <1>0, <1>1, ExchangedFacts
<1>5. TypeOK' BY <1>1, <1>2, <1>3 DEF Inv, TypeOK
<1>6. Stored' BY <1>1, <1>3 DEF Inv, Stored, TypeOK
<1>7. RowLocks' BY <1>1, <1>2 DEF Inv, RowLocks, VersionHolds
<1>8. Seen' BY <1>1, <1>2, <1>3 DEF Inv, Seen, VersionHolds
<1>9. InHand'
  <2>1. \A q \in Refreshers : ref'[q].pc \in {"save", "saved"} =>
          /\ ref'[q] = ref[q] /\ ref[q].pc \in {"save", "saved"}
          /\ ref[q].new \in Tokens
    BY <1>1, <1>2, ExchangedFacts DEF Inv, InHand, Seen
  <2>. QED BY <1>1, <1>3, <1>4, <2>1 DEF Inv, InHand, VersionHolds, Exchanged
<1>10. Refused'
  <2>1. \A q \in Refreshers : ref'[q].pc \in {"mark", "marked"} /\ ref'[q].error = "reauth" =>
          ref'[q] = ref[q] /\ ref[q].token \in Tokens /\ NotAhead(ref[q].token)
    BY <1>2 DEF Inv, Seen
  <2>. QED BY <1>3, <2>1 DEF Inv, Refused
<1>11. Fresh'
  <2>1. \A q \in Refreshers : ref'[q].token = ref[q].token /\ (ref'[q].pc # "idle" => ref[q].pc # "idle")
    BY <1>1, <1>2
  <2>. QED BY <1>1, <1>3, <2>1 DEF Inv, Fresh, Logged
<1>12. ReauthJustified'
  BY <1>1, <1>3 DEF Inv, ReauthJustified, Stored, TypeOK
<1>13. ConflictLosesNothing'
  BY <1>1, <1>2, <1>4 DEF Inv, ConflictLosesNothing
<1>. QED BY <1>3, <1>5, <1>6, <1>7, <1>8, <1>9, <1>10, <1>11, <1>12, <1>13 DEF Inv

\* A token withdrawn at the provider: fewer tokens are accepted, one is lost.
LEMMA ProviderRevokesInv ==
  ASSUME Inv, ProviderRevokes
  PROVE  Inv'
<1>. USE ConstantsAssumption DEF Refreshers, Actors
<1>1. /\ secret.token \in accepted /\ accepted' = accepted \ {secret.token} /\ lost' = TRUE
      /\ faults' = faults + 1
      /\ UNCHANGED <<conn, secret, rowC, rowS, lock, ref, session, grants, ops>>
  BY DEF ProviderRevokes, Fault
<1>2. \A t : NotAhead(t) => NotAhead(t)' BY <1>1 DEF NotAhead
<1>3. TypeOK' BY <1>1 DEF Inv, TypeOK
<1>4. OnePerGrant' BY <1>1 DEF Inv, OnePerGrant
<1>5. Stored' BY <1>1, <1>2 DEF Inv, Stored
<1>6. RowLocks' BY <1>1 DEF Inv, RowLocks, VersionHolds
<1>7. Seen' BY <1>1, <1>2 DEF Inv, Seen, VersionHolds
<1>8. InHand' BY <1>1, <1>2 DEF Inv, InHand, VersionHolds, Exchanged
<1>9. Refused' BY <1>1 DEF Inv, Refused
<1>10. Fresh' BY <1>1, <1>2 DEF Inv, Fresh, Logged
<1>11. ReauthJustified' BY <1>1 DEF Inv, ReauthJustified
<1>12. ConflictLosesNothing' BY <1>1 DEF ConflictLosesNothing
<1>. QED BY <1>3, <1>4, <1>5, <1>6, <1>7, <1>8, <1>9, <1>10, <1>11, <1>12 DEF Inv

-----------------------------------------------------------------------------
(***************************************************************************)
(* The transactions that write the rows.                                   *)
(***************************************************************************)

\* A save makes every version anybody else has read an old one.
LEMMA SaveCommitsInv ==
  ASSUME Inv, NEW p \in Refreshers, SaveCommits(p)
  PROVE  Inv'
<1>. USE ConstantsAssumption DEF Refreshers, Actors
<1>1. /\ ref[p].pc = "saved" /\ rowC = None
      /\ secret' = [version |-> secret.version + 1, token |-> ref[p].new, next |-> "later"]
      /\ conn' = [conn EXCEPT !.auth = "active"]
      /\ rowS' = None
      /\ UNCHANGED <<rowC, lock, accepted, session, lost, grants, ops, faults>>
  BY DEF SaveCommits, AfterSave
<1>2. /\ ref' \in [Refreshers -> RefresherRecords]
      /\ \A q \in Refreshers : q # p => ref'[q] = ref[q]
      /\ ref'[p].pc = "release"
      /\ ref'[p].version = ref[p].version /\ ref'[p].token = ref[p].token
      /\ ref'[p].new = ref[p].new
  BY GotoFacts DEF SaveCommits, Inv, TypeOK
<1>3. /\ rowS = p /\ VersionHolds(p) /\ ref[p].token = secret.token
      /\ secret.token \in Tokens /\ ~conn.deleted /\ secret.version \in Nat
      /\ ref[p].new = Exchanged(secret.token)
      /\ NotAhead(ref[p].new) /\ (~lost => ref[p].new \in accepted)
  BY <1>1 DEF Inv, RowLocks, Seen, InHand, Stored, TypeOK
<1>4. /\ ref[p].new \in Tokens /\ ref[p].new.grant = secret.token.grant
      /\ Rotates => ref[p].new.gen = secret.token.gen + 1
  BY <1>3, ExchangedFacts
<1>5. /\ secret'.version = secret.version + 1 /\ secret'.token = ref[p].new
      /\ conn'.auth = "active" /\ conn'.deleted = conn.deleted
  BY <1>1 DEF Inv, TypeOK
<1>6. \A q \in Refreshers :
        /\ ref'[q].version = ref[q].version /\ ref'[q].token = ref[q].token
        /\ ref'[q].pc # "idle" => ref[q].pc # "idle"
  BY <1>1, <1>2
<1>7. \A q \in Refreshers : ref'[q].pc # "idle" =>
        ref[q].version <= secret.version /\ ~VersionHolds(q)'
  <2>1. \A q \in Refreshers : ref[q].version \in Nat
    BY DEF Inv, TypeOK, RefresherRecords
  <2>. QED BY <1>3, <1>5, <1>6, <2>1 DEF Inv, Seen, VersionHolds
<1>8. TypeOK' BY <1>1, <1>2, <1>4 DEF Inv, TypeOK, AuthStatuses, NextRefresh
<1>9. OnePerGrant' BY <1>1 DEF Inv, OnePerGrant
<1>10. Stored' BY <1>1, <1>3, <1>4, <1>5 DEF Inv, Stored, NotAhead
<1>11. RowLocks'
  <2>1. \A q \in Refreshers : ref'[q].pc # "saved" BY <1>2, <1>3 DEF Inv, RowLocks
  <2>. QED BY <1>1, <1>2, <1>5, <2>1 DEF Inv, RowLocks
<1>12. Seen'
  <2>. SUFFICES ASSUME NEW q \in Refreshers, ref'[q].pc # "idle"
                PROVE  /\ ref[q].token \in Tokens /\ NotAhead(ref[q].token)
                       /\ ref[q].version <= secret'.version
                       /\ Rotates /\ ref[q].token.grant = ref[p].new.grant =>
                            ref[q].token.gen < ref[p].new.gen
    BY <1>1, <1>5, <1>6, <1>7 DEF Seen, NotAhead
  <2>1. /\ ref[q].token \in Tokens /\ NotAhead(ref[q].token)
        /\ VersionHolds(q) => ref[q].token = secret.token
        /\ Rotates /\ ~VersionHolds(q) =>
             (ref[q].token.grant = secret.token.grant => ref[q].token.gen < secret.token.gen)
    BY <1>3, <1>6 DEF Inv, Seen
  <2>2. ref[q].version <= secret'.version
    <3>1. ref[q].version \in Nat BY DEF Inv, TypeOK, RefresherRecords
    <3>. QED BY <1>3, <1>5, <1>7, <3>1
  <2>3. Rotates /\ ref[q].token.grant = ref[p].new.grant => ref[q].token.gen < ref[p].new.gen
    BY <1>3, <1>4, <2>1 DEF Tokens
  <2>. QED BY <2>1, <2>2, <2>3
<1>13. InHand'
  <2>1. \A q \in Refreshers : ref'[q].pc \in {"save", "saved"} => ref'[q] = ref[q]
    BY <1>2
  <2>. QED BY <1>1, <1>7, <2>1 DEF Inv, InHand, NotAhead, Exchanged
<1>14. Refused' BY <1>1, <1>2 DEF Inv, Refused
<1>15. Fresh' BY <1>1, <1>3, <1>4, <1>5, <1>6 DEF Inv, Fresh, Logged, NotAhead
<1>16. ReauthJustified' BY <1>5 DEF ReauthJustified
<1>17. ConflictLosesNothing' BY <1>1, <1>3, <1>5 DEF ConflictLosesNothing
<1>. QED BY <1>8, <1>9, <1>10, <1>11, <1>12, <1>13, <1>14, <1>15, <1>16, <1>17 DEF Inv

\* A step that leaves version and stored token, and what everybody knows.
LEMMA SameVersion ==
  ASSUME Inv, TypeOK', ReauthJustified',
         secret'.version = secret.version, secret'.token = secret.token,
         conn'.deleted = conn.deleted,
         UNCHANGED <<accepted, session, lost, grants, rowS>>,
         \/ ref' = ref /\ rowC' = rowC
         \/ \E p \in Refreshers :
              /\ ref[p].pc = "marked" /\ ref'[p].pc = "release" /\ rowC' = None
              /\ ref'[p].version = ref[p].version /\ ref'[p].token = ref[p].token
              /\ \A q \in Refreshers : q # p => ref'[q] = ref[q]
  PROVE  Inv'
<1>. USE ConstantsAssumption DEF Refreshers, Actors
<1>1. \A q \in Refreshers :
        /\ ref'[q].version = ref[q].version /\ ref'[q].token = ref[q].token
        /\ ref'[q].pc # "idle" => ref[q].pc # "idle"
        /\ ref'[q].pc \in {"save", "saved", "mark", "marked"} => ref'[q] = ref[q]
        /\ ref[q].pc \in {"save", "saved"} => ref'[q] = ref[q]
  OBVIOUS
<1>2. OnePerGrant' BY DEF Inv, OnePerGrant
<1>3. Stored' BY DEF Inv, Stored, NotAhead
<1>4. RowLocks' BY <1>1 DEF Inv, RowLocks, VersionHolds
<1>5. Seen' BY <1>1 DEF Inv, Seen, NotAhead, VersionHolds
<1>6. InHand' BY <1>1 DEF Inv, InHand, NotAhead, VersionHolds, Exchanged
<1>7. Refused' BY <1>1 DEF Inv, Refused
<1>8. Fresh' BY <1>1 DEF Inv, Fresh, NotAhead, Logged
<1>9. ConflictLosesNothing' BY <1>1 DEF Inv, ConflictLosesNothing
<1>. QED BY <1>2, <1>3, <1>4, <1>5, <1>6, <1>7, <1>8, <1>9 DEF Inv

\* A recorded failure: the status it sets is true of the stored token, because
\* the version says that this is the token the provider refused.
LEMMA MarkCommitsInv ==
  ASSUME Inv, NEW p \in Refreshers, MarkCommits(p)
  PROVE  Inv'
<1>. USE ConstantsAssumption DEF Refreshers, Actors
<1>1. /\ ref[p].pc = "marked" /\ Marked(p) /\ rowC' = None
      /\ UNCHANGED <<rowS, lock, accepted, session, lost, grants, ops, faults>>
  BY DEF MarkCommits
<1>2. /\ ref' \in [Refreshers -> RefresherRecords]
      /\ \A q \in Refreshers : q # p => ref'[q] = ref[q]
      /\ ref'[p].pc = "release"
      /\ ref'[p].version = ref[p].version /\ ref'[p].token = ref[p].token
  BY GotoFacts DEF MarkCommits, Inv, TypeOK
<1>3. /\ conn' \in [auth : AuthStatuses, deleted : BOOLEAN]
      /\ secret' \in [version : Nat, token : Tokens \cup {None}, next : NextRefresh]
      /\ secret'.version = secret.version /\ secret'.token = secret.token
      /\ conn'.deleted = conn.deleted
      /\ \/ conn'.auth = conn.auth
         \/ conn'.auth = "attention"
         \/ ref[p].error = "reauth" /\ VersionHolds(p)
  BY <1>1 DEF Marked, rows, VersionHolds, Inv, TypeOK, AuthStatuses, NextRefresh
<1>4. TypeOK' BY <1>1, <1>2, <1>3 DEF Inv, TypeOK
<1>5. ReauthJustified'
  <2>1. ref[p].error = "reauth" /\ VersionHolds(p) => secret.token \notin accepted
    BY <1>1 DEF Inv, Refused, Seen
  <2>. QED BY <1>1, <1>3, <2>1 DEF Inv, ReauthJustified
<1>. QED BY <1>1, <1>2, <1>3, <1>4, <1>5, SameVersion

\* Time passes: the Redis lock runs out, the credential becomes due.
LEMMA TimeInv ==
  ASSUME Inv, LockExpires \/ BecomesDue
  PROVE  Inv'
<1>1. /\ lock' \in Refreshers \cup {None}
      /\ secret' \in [version : Nat, token : Tokens \cup {None}, next : NextRefresh]
      /\ secret'.version = secret.version /\ secret'.token = secret.token
      /\ UNCHANGED <<conn, rowC, rowS, accepted, ref, session, lost, grants, ops, faults>>
  BY DEF LockExpires, BecomesDue, Inv, TypeOK, NextRefresh
<1>2. TypeOK' BY <1>1 DEF Inv, TypeOK
<1>3. ReauthJustified' BY <1>1 DEF Inv, ReauthJustified
<1>. QED BY <1>1, <1>2, <1>3, SameVersion

\* A new authorization has a grant no token known so far has.
LEMMA AuthorizeInv ==
  ASSUME Inv, NEW s \in Sessions, Authorize(s)
  PROVE  Inv'
<1>. USE ConstantsAssumption DEF Refreshers, Actors
<1>. DEFINE n == [grant |-> grants + 1, gen |-> 0]
<1>1. /\ grants' = grants + 1 /\ accepted' = accepted \cup {n} /\ ops' = ops + 1
      /\ session' = [session EXCEPT ![s] = [pc |-> "authorized", token |-> n]]
      /\ session[s].pc = "idle"
      /\ UNCHANGED <<conn, secret, rowC, rowS, lock, ref, lost, faults>>
  BY DEF Authorize, Enter
<1>2. n \in Tokens /\ n.grant = grants + 1 /\ n.gen = 0 /\ grants \in Nat
  BY DEF Inv, TypeOK, Tokens
<1>. HIDE DEF n
<1>3. /\ session' \in [Sessions -> SessionRecords]
      /\ \A u \in Sessions : u # s => session'[u] = session[u]
      /\ session'[s].pc = "authorized" /\ session'[s].token = n
  <2>1. [pc |-> "authorized", token |-> n] \in SessionRecords BY <1>2 DEF SessionRecords
  <2>. QED BY <1>1, <2>1, SessionFacts DEF Inv, TypeOK
<1>4. \A t \in Tokens : NotAhead(t) => t # n /\ t.grant # n.grant /\ NotAhead(t)'
  BY <1>1, <1>2 DEF NotAhead, Tokens
<1>5. \A t \in Tokens : t = n => NotAhead(t)'
  BY <1>1, <1>2 DEF NotAhead, Inv, OnePerGrant, TypeOK, Tokens
<1>6. TypeOK' BY <1>1, <1>2, <1>3 DEF Inv, TypeOK
<1>7. OnePerGrant'
  <2>1. \A t \in accepted : t.grant \in Nat /\ t.grant <= grants
    BY DEF Inv, TypeOK, OnePerGrant, Tokens
  <2>. QED BY <1>1, <1>2, <2>1 DEF Inv, OnePerGrant
<1>8. Stored' BY <1>1, <1>4 DEF Inv, Stored, TypeOK
<1>9. RowLocks' BY <1>1, <1>3 DEF Inv, RowLocks, VersionHolds
<1>10. Seen' BY <1>1, <1>4 DEF Inv, Seen, VersionHolds
<1>11. InHand'
  <2>1. \A q \in Refreshers : ref[q].pc \in {"save", "saved"} => ref[q].new \in Tokens
    BY ExchangedFacts DEF Inv, InHand, Seen
  <2>. QED BY <1>1, <1>4, <2>1 DEF Inv, InHand, VersionHolds, Exchanged
<1>12. Refused' BY <1>1, <1>4 DEF Inv, Refused, Seen
<1>13. Fresh'
  <2>1. \A u \in Sessions : u # s => (Logged(u)' <=> Logged(u)) BY <1>3 DEF Logged
  <2>2. \A u \in Sessions : u # s /\ Logged(u) =>
          /\ session[u].token \in Tokens /\ NotAhead(session[u].token)
          /\ session[u].token.grant # n.grant
    BY <1>4 DEF Inv, Fresh
  <2>3. ~conn.deleted => secret.token.grant # n.grant
    BY <1>4 DEF Inv, Stored, TypeOK
  <2>4. \A q \in Refreshers : ref[q].pc # "idle" => ref[q].token.grant # n.grant
    BY <1>4 DEF Inv, Seen
  <2>. SUFFICES ASSUME NEW u \in Sessions, Logged(u)'
                PROVE  /\ session'[u].token \in Tokens
                       /\ \A t \in Tokens : t = session'[u].token => NotAhead(t)'
                       /\ ~conn.deleted => session'[u].token \in accepted'
                       /\ ~conn.deleted => session'[u].token.grant # secret.token.grant
                       /\ \A q \in Refreshers : ref[q].pc # "idle" =>
                            ref[q].token.grant # session'[u].token.grant
                       /\ \A r \in Sessions : Logged(r)' /\ r # u =>
                            session'[r].token.grant # session'[u].token.grant
    BY <1>1 DEF Fresh, NotAhead
  <2>5. CASE u = s
    BY <1>1, <1>2, <1>3, <1>5, <2>1, <2>2, <2>3, <2>4, <2>5
  <2>6. CASE u # s
    BY <1>1, <1>3, <1>4, <2>1, <2>2, <2>6 DEF Inv, Fresh
  <2>. QED BY <2>5, <2>6
<1>14. ReauthJustified' BY <1>1, <1>4 DEF Inv, ReauthJustified, Stored, TypeOK
<1>15. ConflictLosesNothing' BY <1>1 DEF Inv, ConflictLosesNothing
<1>. QED BY <1>6, <1>7, <1>8, <1>9, <1>10, <1>11, <1>12, <1>13, <1>14, <1>15 DEF Inv

\* After a new version nobody's version holds any more.
LEMMA NewVersion ==
  ASSUME Inv, ref' = ref, secret'.version = secret.version + 1
  PROVE  \A q \in Refreshers : ref[q].pc # "idle" =>
           ref[q].version <= secret'.version /\ ~VersionHolds(q)'
<1>1. secret.version \in Nat /\ \A q \in Refreshers : ref[q].version \in Nat
  BY DEF Inv, TypeOK, RefresherRecords
<1>. QED BY <1>1 DEF Inv, Seen, VersionHolds

\* A reauthorization stores a grant that no refresher has seen.
LEMMA ReplaceInv ==
  ASSUME Inv, NEW s \in Sessions, Replace(s)
  PROVE  Inv'
<1>. USE ConstantsAssumption DEF Refreshers, Actors
<1>1. /\ session[s].pc = "replace" /\ rowS = None /\ rowC' = None /\ lost' = FALSE
      /\ secret' = [version |-> secret.version + 1, token |-> session[s].token, next |-> "later"]
      /\ conn' = [conn EXCEPT !.auth = "active"]
      /\ session' = [session EXCEPT ![s] = NoSession]
      /\ UNCHANGED <<rowS, lock, accepted, ref, grants, ops, faults>>
  BY DEF Replace, Commit
<1>2. /\ session' \in [Sessions -> SessionRecords]
      /\ \A u \in Sessions : u # s => session'[u] = session[u]
      /\ session'[s].pc = "idle"
  BY <1>1, SessionFacts DEF NoSession, SessionRecords, Inv, TypeOK
<1>3. /\ rowC = s /\ ~conn.deleted /\ session[s].token \in Tokens
      /\ NotAhead(session[s].token) /\ session[s].token \in accepted
      /\ \A p \in Refreshers : ref[p].pc # "idle" => ref[p].token.grant # session[s].token.grant
      /\ \A r \in Sessions : Logged(r) /\ r # s => session[r].token.grant # session[s].token.grant
  BY <1>1 DEF Inv, RowLocks, Fresh, Logged
<1>4. /\ secret'.version = secret.version + 1 /\ secret'.token = session[s].token
      /\ conn'.auth = "active" /\ conn'.deleted = conn.deleted
  BY <1>1 DEF Inv, TypeOK
<1>5. \A q \in Refreshers : ref[q].pc # "idle" =>
        ref[q].version <= secret'.version /\ ~VersionHolds(q)'
  BY <1>1, <1>4, NewVersion
<1>6. TypeOK'
  <2>1. conn' \in [auth : AuthStatuses, deleted : BOOLEAN]
    BY <1>1 DEF Inv, TypeOK, AuthStatuses
  <2>2. secret' \in [version : Nat, token : Tokens \cup {None}, next : NextRefresh]
    BY <1>1, <1>3 DEF Inv, TypeOK, NextRefresh
  <2>. QED BY <1>1, <1>2, <2>1, <2>2 DEF Inv, TypeOK
<1>7. OnePerGrant' BY <1>1 DEF Inv, OnePerGrant
<1>8. Stored' BY <1>1, <1>3, <1>4 DEF Stored, NotAhead
<1>9. RowLocks' BY <1>1, <1>2, <1>3, <1>4 DEF Inv, RowLocks, VersionHolds
<1>10. Seen' BY <1>1, <1>3, <1>4, <1>5 DEF Inv, Seen, NotAhead
<1>11. InHand' BY <1>1, <1>5 DEF Inv, InHand, NotAhead, Exchanged
<1>12. Refused' BY <1>1 DEF Inv, Refused
<1>13. Fresh'
  <2>1. \A u \in Sessions : Logged(u)' => u # s /\ Logged(u) /\ session'[u] = session[u]
    BY <1>2 DEF Logged
  <2>. QED BY <1>1, <1>3, <1>4, <2>1 DEF Inv, Fresh, NotAhead
<1>14. ReauthJustified' BY <1>4 DEF ReauthJustified
<1>15. ConflictLosesNothing' BY <1>1, <1>3, <1>4 DEF ConflictLosesNothing
<1>. QED BY <1>6, <1>7, <1>8, <1>9, <1>10, <1>11, <1>12, <1>13, <1>14, <1>15 DEF Inv

\* A deletion scrubs the secret under a new version, so no save fills it again.
LEMMA DeleteInv ==
  ASSUME Inv, NEW s \in Sessions, Delete(s)
  PROVE  Inv'
<1>. USE ConstantsAssumption DEF Refreshers, Actors
<1>1. /\ session[s].pc = "delete" /\ rowS = None /\ rowC' = None
      /\ secret' = [version |-> secret.version + 1, token |-> None, next |-> secret.next]
      /\ conn' = [conn EXCEPT !.deleted = TRUE]
      /\ session' = [session EXCEPT ![s] = [session[s] EXCEPT !.pc = "revoke"]]
      /\ UNCHANGED <<rowS, lock, accepted, ref, lost, grants, ops, faults>>
  BY DEF Delete, Commit, Scrubbed
<1>2. /\ session' \in [Sessions -> SessionRecords]
      /\ \A u \in Sessions : u # s => session'[u] = session[u]
      /\ session'[s].pc = "revoke"
  BY <1>1 DEF SessionRecords, Inv, TypeOK
<1>3. rowC = s BY <1>1 DEF Inv, RowLocks
<1>4. /\ secret' \in [version : Nat, token : Tokens \cup {None}, next : NextRefresh]
      /\ secret'.version = secret.version + 1 /\ secret'.token = None
      /\ conn' \in [auth : AuthStatuses, deleted : BOOLEAN] /\ conn'.deleted = TRUE
  <2>1. /\ secret' \in [version : Nat, token : Tokens \cup {None}, next : NextRefresh]
        /\ secret'.version = secret.version + 1 /\ secret'.token = None
    BY <1>1 DEF Inv, TypeOK
  <2>2. conn' \in [auth : AuthStatuses, deleted : BOOLEAN] /\ conn'.deleted = TRUE
    BY <1>1 DEF Inv, TypeOK
  <2>. QED BY <2>1, <2>2
<1>5. \A q \in Refreshers : ref[q].pc # "idle" =>
        ref[q].version <= secret'.version /\ ~VersionHolds(q)'
  BY <1>1, <1>4, NewVersion
<1>6. TypeOK' BY <1>1, <1>2, <1>4 DEF Inv, TypeOK
<1>7. OnePerGrant' BY <1>1 DEF Inv, OnePerGrant
<1>8. Stored' BY <1>4 DEF Stored
<1>9. RowLocks' BY <1>1, <1>2, <1>3, <1>4 DEF Inv, RowLocks, VersionHolds
<1>10. Seen' BY <1>1, <1>4, <1>5 DEF Inv, Seen, NotAhead
<1>11. InHand' BY <1>1, <1>5 DEF Inv, InHand, NotAhead, Exchanged
<1>12. Refused' BY <1>1 DEF Inv, Refused
<1>13. Fresh'
  <2>1. \A u \in Sessions : Logged(u)' => u # s /\ Logged(u) /\ session'[u] = session[u]
    BY <1>2 DEF Logged
  <2>. QED BY <1>1, <1>4, <2>1 DEF Inv, Fresh, NotAhead
<1>14. ReauthJustified' BY <1>4 DEF ReauthJustified
<1>15. ConflictLosesNothing' BY <1>4 DEF ConflictLosesNothing
<1>. QED BY <1>6, <1>7, <1>8, <1>9, <1>10, <1>11, <1>12, <1>13, <1>14, <1>15 DEF Inv

\* The revocation that follows a deletion concerns a connection that is gone.
LEMMA RevokeInv ==
  ASSUME Inv, NEW s \in Sessions, Revoke(s)
  PROVE  Inv'
<1>. USE ConstantsAssumption DEF Refreshers, Actors
<1>1. /\ session[s].pc = "revoke" /\ accepted' \subseteq accepted
      /\ session' = [session EXCEPT ![s] = NoSession]
      /\ UNCHANGED <<conn, secret, rowC, rowS, lock, ref, lost, grants, ops, faults>>
  BY DEF Revoke
<1>2. /\ session' \in [Sessions -> SessionRecords]
      /\ \A u \in Sessions : u # s => session'[u] = session[u]
      /\ session'[s].pc = "idle"
  BY <1>1, SessionFacts DEF NoSession, SessionRecords, Inv, TypeOK
<1>3. /\ conn.deleted
      /\ \A q \in Refreshers : ref[q].pc # "idle" => ~VersionHolds(q)
  BY <1>1 DEF Inv, RowLocks, Stored, Seen
<1>4. \A t : NotAhead(t) => NotAhead(t)' BY <1>1 DEF NotAhead
<1>5. TypeOK' BY <1>1, <1>2 DEF Inv, TypeOK
<1>6. OnePerGrant' BY <1>1 DEF Inv, OnePerGrant
<1>7. Stored' BY <1>1, <1>4 DEF Inv, Stored
<1>8. RowLocks' BY <1>1, <1>2 DEF Inv, RowLocks, VersionHolds
<1>9. Seen' BY <1>1, <1>4 DEF Inv, Seen, VersionHolds
<1>10. InHand' BY <1>1, <1>3, <1>4 DEF Inv, InHand, VersionHolds, Exchanged
<1>11. Refused' BY <1>1 DEF Inv, Refused
<1>12. Fresh'
  <2>1. \A u \in Sessions : Logged(u)' => Logged(u) /\ session'[u] = session[u]
    BY <1>2 DEF Logged
  <2>. QED BY <1>1, <1>3, <1>4, <2>1 DEF Inv, Fresh
<1>13. ReauthJustified' BY <1>1, <1>3 DEF ReauthJustified
<1>14. ConflictLosesNothing' BY <1>1, <1>3 DEF ConflictLosesNothing
<1>. QED BY <1>5, <1>6, <1>7, <1>8, <1>9, <1>10, <1>11, <1>12, <1>13, <1>14 DEF Inv

-----------------------------------------------------------------------------
(***************************************************************************)
(* The invariant and what follows from it.                                 *)
(***************************************************************************)

\* The connection just created satisfies the invariant.
LEMMA InitInv == Init => Inv
<1>. SUFFICES ASSUME Init PROVE Inv
  OBVIOUS
<1>. USE ConstantsAssumption DEF Init
<1>. DEFINE t == [grant |-> 1, gen |-> 0]
<1>1. t \in Tokens /\ t.grant = 1 /\ t.gen = 0 BY DEF Tokens
<1>2. \A p \in Refreshers : ref[p].pc = "idle" BY DEF Idle
<1>3. \A s \in Sessions : session[s].pc = "idle" BY DEF NoSession
<1>4. secret.token = t /\ accepted = {t} /\ ~conn.deleted /\ conn.auth = "active" /\ grants = 1
  OBVIOUS
<1>. HIDE DEF t
<1>5. TypeOK
  BY <1>1 DEF TypeOK, Idle, NoSession, RefresherRecords, SessionRecords, AuthStatuses, NextRefresh,
              Refreshers, Actors, t
<1>6. OnePerGrant BY <1>1, <1>4 DEF OnePerGrant
<1>7. Stored BY <1>1, <1>4 DEF Stored, NotAhead
<1>8. RowLocks BY <1>2, <1>3 DEF RowLocks
<1>9. Seen /\ InHand /\ Refused BY <1>2 DEF Seen, InHand, Refused
<1>10. Fresh BY <1>3 DEF Fresh, Logged
<1>11. ReauthJustified BY <1>4 DEF ReauthJustified
<1>12. ConflictLosesNothing BY <1>4 DEF ConflictLosesNothing
<1>. QED BY <1>5, <1>6, <1>7, <1>8, <1>9, <1>10, <1>11, <1>12 DEF Inv

\* Every step keeps it.
LEMMA NextInv == Inv /\ [Next]_vars => Inv'
<1>. SUFFICES ASSUME Inv, [Next]_vars PROVE Inv'
  OBVIOUS
<1>1. CASE UNCHANGED vars
  <2>1. UNCHANGED <<conn, secret, rowC, rowS, lock, accepted, ref, session, lost, grants, ops, faults>>
    BY <1>1 DEF vars
  <2>2. TypeOK' BY <2>1 DEF Inv, TypeOK
  <2>3. ReauthJustified' BY <2>1 DEF Inv, ReauthJustified
  <2>. QED BY <2>1, <2>2, <2>3, SameVersion
<1>2. ASSUME NEW w \in Workers, SweepReads(w) PROVE Inv'
  BY <1>2, ReadInv DEF SweepReads, Candidate, Refreshers
<1>3. ASSUME NEW g \in Gateways, GatewayReads(g) PROVE Inv'
  BY <1>3, ReadInv DEF GatewayReads, Refreshers
<1>4. ASSUME NEW p \in Refreshers, RefresherStep(p) PROVE Inv'
  BY <1>4, QuietRefresherActions, RefreshSucceedsInv, SaveCommitsInv, MarkCommitsInv
     DEF RefresherStep
<1>5. ASSUME NEW p \in Refreshers, AnswerLost(p) \/ ContextEnds(p) \/ Crash(p) PROVE Inv'
  BY <1>5, AnswerLostInv, QuietRefresherActions
<1>6. ASSUME NEW s \in Sessions, SessionStep(s) PROVE Inv'
  BY <1>6, QuietSessionActions, ReplaceInv, DeleteInv, RevokeInv DEF SessionStep
<1>7. ASSUME NEW s \in Sessions,
             Authorize(s) \/ ReadForDelete(s) \/ StartValidate(s) \/ SessionFails(s)
      PROVE  Inv'
  BY <1>7, AuthorizeInv, QuietSessionActions
<1>8. CASE ProviderRevokes \/ LockExpires \/ BecomesDue
  BY <1>8, ProviderRevokesInv, TimeInv
<1>. QED BY <1>1, <1>2, <1>3, <1>4, <1>5, <1>6, <1>7, <1>8 DEF Next

\* The inductive invariant of the credential.
THEOREM CredentialInvariant == Spec => []Inv
  BY InitInv, NextInv, PTL DEF Spec

\* Every reachable state of rows, locks, provider and actors has its declared shape.
THEOREM CredentialTypes == Spec => []TypeOK
<1>1. Inv => TypeOK BY DEF Inv
<1>. QED BY <1>1, CredentialInvariant, PTL

\* MarkOAuthRefreshFailure never marks an authorization that was updated after
\* the failed attempt had read it, for any number of refreshers and sessions.
THEOREM ReauthIsJustified == Spec => []ReauthJustified
<1>1. Inv => ReauthJustified BY DEF Inv
<1>. QED BY <1>1, CredentialInvariant, PTL

\* The version check of UpdateOAuthConnectionSecret turns away no save that had
\* the only good token.
THEOREM ConflictIsHarmless == Spec => []ConflictLosesNothing
<1>1. Inv => ConflictLosesNothing BY DEF Inv
<1>. QED BY <1>1, CredentialInvariant, PTL

\* An old refresh cannot overwrite the authorization the user has just completed:
\* only a reauthorization or a deletion changes the grant of the stored token.
THEOREM NewestAuthorizationIsKept == Spec => NewestAuthorizationKept
<1>. DEFINE Kept ==
       \/ \E s \in Sessions : session'[s] # session[s] /\ session[s].pc \in {"replace", "delete"}
       \/ secret'.token = secret.token
       \/ /\ secret.token # None /\ secret'.token # None
          /\ secret'.token.grant = secret.token.grant
          /\ secret'.token.gen > secret.token.gen
<1>1. ASSUME Inv, [Next]_vars PROVE [Kept]_vars
  <2>. SUFFICES ASSUME Next PROVE Kept
    BY <1>1
  <2>1. CASE \E p \in Refreshers : SaveCommits(p)
    <3>1. PICK p \in Refreshers : SaveCommits(p) BY <2>1
    <3>2. /\ ref[p].pc = "saved" /\ secret'.token = ref[p].new
      BY <3>1 DEF SaveCommits
    <3>3. /\ ref[p].token = secret.token /\ secret.token \in Tokens
          /\ ref[p].new = Exchanged(secret.token)
      BY <1>1, <3>2 DEF Inv, RowLocks, Seen, InHand
    <3>4. /\ ref[p].new \in Tokens /\ ref[p].new.grant = secret.token.grant
          /\ Rotates => ref[p].new.gen = secret.token.gen + 1
          /\ ~Rotates => ref[p].new = secret.token
      BY <3>3, ExchangedFacts
    <3>. QED BY <3>2, <3>3, <3>4, ConstantsAssumption DEF Tokens
  <2>2. CASE \E s \in Sessions : Replace(s) \/ Delete(s)
    <3>1. PICK s \in Sessions : Replace(s) \/ Delete(s) BY <2>2
    <3>2. session[s].pc \in {"replace", "delete"} BY <3>1 DEF Replace, Delete, Commit
    <3>3. session'[s].pc \in {"idle", "revoke"}
      BY <1>1, <3>1 DEF Replace, Delete, Commit, NoSession, Inv, TypeOK, SessionRecords
    <3>4. session'[s] # session[s] BY <3>2, <3>3
    <3>. QED BY <3>2, <3>4
  <2>3. CASE \E p \in Refreshers : MarkCommits(p)
    <3>1. PICK p \in Refreshers : Marked(p) BY <2>3 DEF MarkCommits
    <3>2. secret'.token = secret.token BY <1>1, <3>1 DEF Marked, rows, Inv, TypeOK
    <3>. QED BY <3>2
  <2>4. CASE BecomesDue
    <3>1. secret'.token = secret.token BY <1>1, <2>4 DEF BecomesDue, Inv, TypeOK
    <3>. QED BY <3>1
  <2>5. CASE UNCHANGED secret
    BY <2>5
  <2>6. \/ \E p \in Refreshers : SaveCommits(p) \/ MarkCommits(p)
        \/ \E s \in Sessions : Replace(s) \/ Delete(s)
        \/ BecomesDue
        \/ UNCHANGED secret
    <3>1. ASSUME NEW w \in Workers, SweepReads(w) PROVE UNCHANGED secret
      BY <3>1 DEF SweepReads, Read
    <3>2. ASSUME NEW g \in Gateways, GatewayReads(g) PROVE UNCHANGED secret
      BY <3>2 DEF GatewayReads, Read
    <3>3. ASSUME NEW p \in Refreshers,
                 RefresherStep(p) \/ AnswerLost(p) \/ ContextEnds(p) \/ Crash(p)
          PROVE  SaveCommits(p) \/ MarkCommits(p) \/ UNCHANGED secret
      BY <3>3 DEF RefresherStep, AcquireLock, WaitEnds, RefreshSucceeds, RefreshFails, SaveLocks,
         SaveAborted, MarkLocks, MarkAborted, Release, AnswerLost, ContextEnds, Crash
    <3>4. ASSUME NEW s \in Sessions,
                 \/ Authorize(s) \/ ReadForDelete(s) \/ StartValidate(s)
                 \/ SessionStep(s) \/ SessionFails(s)
          PROVE  Replace(s) \/ Delete(s) \/ UNCHANGED secret
      BY <3>4 DEF Authorize, ReadForDelete, StartValidate, Enter, SessionStep, LockConnection,
         SessionAborted, Revoke, Validate, SessionFails
    <3>5. CASE ProviderRevokes \/ LockExpires
      BY <3>5 DEF ProviderRevokes, LockExpires
    <3>. QED BY <3>1, <3>2, <3>3, <3>4, <3>5 DEF Next
  <2>. QED BY <2>1, <2>2, <2>3, <2>4, <2>5, <2>6
<1>2. NewestAuthorizationKept <=> [][Kept]_vars
  BY DEF NewestAuthorizationKept
<1>3. Inv /\ [Next]_vars => [Kept]_vars BY <1>1
<1>. HIDE DEF Kept
<1>. QED BY <1>2, <1>3, CredentialInvariant, PTL DEF Spec
=============================================================================
