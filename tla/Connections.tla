---------------------------- MODULE Connections ----------------------------
(***************************************************************************)
(* The AI service connections of one owner in one workspace, and the       *)
(* personal relays made from them.                                         *)
(*                                                                         *)
(* A handler checks the stored connections, asks the provider about a      *)
(* credential, and then writes in a transaction that checks again; between *)
(* the two, other handlers create, rotate and delete.  A personal relay is *)
(* one transaction, made idempotent by a key of the caller; its gateway    *)
(* key can be read again until the reveal window ends.                     *)
(***************************************************************************)
EXTENDS Naturals, FiniteSets

CONSTANTS
  ConnIds,      \* connection ids
  ConnMethod,   \* auth_method of an id: "api_key" or "opencli_browser"
  Credentials,  \* credentials, told apart by their fingerprints
  Scrubbed,     \* the fingerprint of a deleted secret
  Models,       \* models of a connection
  ConnLimit,    \* 32 connections for an owner and a workspace
  Callers,      \* requests in flight
  RetryKeys,    \* idempotency keys
  MaxRelays,    \* bound on the gateways made
  MaxVersion,   \* bound on the versions of a secret
  MaxConnEvents \* bound on the requests of the owner

ASSUME ConnectionsAssumption ==
  /\ ConnMethod \in [ConnIds -> {"api_key", "opencli_browser"}]
  /\ Scrubbed \notin Credentials
  /\ ConnIds # {}
  /\ ConnLimit \in Nat /\ MaxRelays \in Nat /\ MaxVersion \in Nat \ {0} /\ MaxConnEvents \in Nat

Relays == 1 .. MaxRelays

VARIABLES
  conn,        \* ai_connections with their ai_connection_secrets
  verified,    \* models with verification_status 'verified'
  hasChannel,     \* models with a managed channel (route_channel_id)
  relay,       \* gateways, their managed upstreams and their key
  reveal,      \* ai_quick_relay_requests
  call,        \* handlers between their first read and their transaction
  provedBy,    \* the credential the models were last asked about (history)
  answers,     \* what callers of a relay request were given (history)
  connEvents

connVars == <<conn, verified, hasChannel, relay, reveal, call, provedBy, answers, connEvents>>

NoCall == [pc |-> "idle", conn |-> CHOOSE c \in ConnIds : TRUE, cred |-> Scrubbed, version |-> 0]
NoReveal == [status |-> "none", asked |-> {}, relay |-> 0, late |-> FALSE]

ConnectionsTypeOK ==
  /\ conn \in [ConnIds -> [status : {"none", "active", "attention", "deleted"},
                           cred : Credentials \cup {Scrubbed}, version : 0 .. MaxVersion + 1]]
  /\ verified \in [ConnIds -> SUBSET Models] /\ hasChannel \in [ConnIds -> SUBSET Models]
  /\ relay \in [Relays -> [status : {"none", "active", "paused", "deleted"}, conn : ConnIds,
                           linked : BOOLEAN, on : SUBSET Models,
                           key : {"none", "active", "revoked"}]]
  /\ reveal \in [RetryKeys -> [status : {"none", "completed", "expired"},
                               asked : SUBSET (ConnIds \X (SUBSET Models)),
                               relay : 0 .. MaxRelays, late : BOOLEAN]]
  /\ call \in [Callers -> [pc : {"idle", "create", "rotate", "validate"}, conn : ConnIds,
                           cred : Credentials \cup {Scrubbed}, version : 0 .. MaxVersion + 1]]
  /\ provedBy \in [ConnIds -> Credentials \cup {Scrubbed}]
  /\ answers \subseteq RetryKeys \X ConnIds \X (SUBSET Models) \X Relays
  /\ connEvents \in 0 .. MaxConnEvents

ConnectionsInit ==
  /\ conn = [c \in ConnIds |-> [status |-> "none", cred |-> Scrubbed, version |-> 0]]
  /\ verified = [c \in ConnIds |-> {}] /\ hasChannel = [c \in ConnIds |-> {}]
  /\ relay = [g \in Relays |-> [status |-> "none", conn |-> NoCall.conn, linked |-> FALSE,
                                on |-> {}, key |-> "none"]]
  /\ reveal = [i \in RetryKeys |-> NoReveal]
  /\ call = [h \in Callers |-> NoCall]
  /\ provedBy = [c \in ConnIds |-> Scrubbed]
  /\ answers = {} /\ connEvents = 0

Asked == connEvents < MaxConnEvents /\ connEvents' = connEvents + 1
Live == {c \in ConnIds : conn[c].status \in {"active", "attention"}}

-----------------------------------------------------------------------------
(* Credentials: create, rotate, validate. *)

\* rejectDuplicateAIConnectionCredentialTx and AIConnectionCredentialExists: another
\* connection of the owner has the credential.
Duplicate(cred, c) == \E d \in Live \ {c} : conn[d].cred = cred

\* createAIConnection: only an unused credential is shown to the provider.
AskForConnection(h, c, cred) ==
  /\ Asked
  /\ call[h].pc = "idle" /\ conn[c].status = "none" /\ ~Duplicate(cred, c)
  /\ call' = [call EXCEPT ![h] = [NoCall EXCEPT !.pc = "create", !.conn = c, !.cred = cred]]
  /\ UNCHANGED <<conn, verified, hasChannel, relay, reveal, provedBy, answers>>

\* rejectDuplicateOpenCLIBrowserProviderTx: one browser connection for a provider.
ProviderTaken(c) ==
  ConnMethod[c] = "opencli_browser" /\ \E d \in Live : ConnMethod[d] = "opencli_browser"

\* CreateAIConnection, under the lock of the owner: room for one more, and the
\* credential still unused.
MayCreate(h) ==
  /\ Cardinality(Live) < ConnLimit
  /\ ~Duplicate(call[h].cred, call[h].conn)
  /\ ~ProviderTaken(call[h].conn)
  /\ conn[call[h].conn].status = "none"

\* A connection is kept whatever the provider said; OK are the models that answered.
StatusFor(ok) == IF ok = Models THEN "active" ELSE "attention"

CreateAIConnection(h, ok) ==
  LET c == call[h].conn
  IN /\ call[h].pc = "create"
     /\ IF MayCreate(h)
        THEN /\ conn' = [conn EXCEPT ![c] = [status |-> StatusFor(ok), cred |-> call[h].cred, version |-> 1]]
             /\ verified' = [verified EXCEPT ![c] = ok]
             /\ provedBy' = [provedBy EXCEPT ![c] = call[h].cred]
        ELSE UNCHANGED <<conn, verified, provedBy>>
     /\ call' = [call EXCEPT ![h] = NoCall]
     /\ UNCHANGED <<hasChannel, relay, reveal, answers, connEvents>>

\* rotateAIConnectionCredential: only keys the owner typed in can be replaced so.
AskToRotate(h, c, cred) ==
  /\ Asked
  /\ call[h].pc = "idle" /\ c \in Live /\ ConnMethod[c] = "api_key" /\ ~Duplicate(cred, c)
  /\ call' = [call EXCEPT ![h] = [NoCall EXCEPT !.pc = "rotate", !.conn = c, !.cred = cred]]
  /\ UNCHANGED <<conn, verified, hasChannel, relay, reveal, provedBy, answers>>

\* RotateAIConnectionSecret, on the locked row.
MayRotate(h) == call[h].conn \in Live /\ ~Duplicate(call[h].cred, call[h].conn)

RotateAIConnectionSecret(h) ==
  LET c == call[h].conn
  IN /\ call[h].pc = "rotate" /\ conn[c].version < MaxVersion
     /\ IF MayRotate(h)
        THEN /\ conn' = [conn EXCEPT ![c] = [status |-> "active", cred |-> call[h].cred,
                                             version |-> conn[c].version + 1]]
             /\ verified' = [verified EXCEPT ![c] = Models]
             /\ provedBy' = [provedBy EXCEPT ![c] = call[h].cred]
        ELSE UNCHANGED <<conn, verified, provedBy>>
     /\ call' = [call EXCEPT ![h] = NoCall]
     /\ UNCHANGED <<hasChannel, relay, reveal, answers, connEvents>>

\* validateAIConnection reads the credential and its version.
AskToValidate(h, c) ==
  /\ Asked
  /\ call[h].pc = "idle" /\ c \in Live
  /\ call' = [call EXCEPT ![h] = [NoCall EXCEPT !.pc = "validate", !.conn = c, !.cred = conn[c].cred,
                                                !.version = conn[c].version]]
  /\ UNCHANGED <<conn, verified, hasChannel, relay, reveal, provedBy, answers>>

\* Mutant: the version of the secret is not compared.
MayRecordAnyVersion(h) == call[h].conn \in Live

\* UpdateAIConnectionValidation: the result is about the secret that is stored.
MayRecord(h) == call[h].conn \in Live /\ conn[call[h].conn].version = call[h].version

UpdateAIConnectionValidation(h, ok) ==
  LET c == call[h].conn
  IN /\ call[h].pc = "validate"
     /\ IF MayRecord(h)
        THEN /\ conn' = [conn EXCEPT ![c].status = StatusFor(ok)]
             /\ verified' = [verified EXCEPT ![c] = ok]
             /\ provedBy' = [provedBy EXCEPT ![c] = call[h].cred]
        ELSE UNCHANGED <<conn, verified, provedBy>>
     /\ call' = [call EXCEPT ![h] = NoCall]
     /\ UNCHANGED <<hasChannel, relay, reveal, answers, connEvents>>

\* The provider refuses a credential that would replace another, or the caller leaves.
CallEnds(h) ==
  /\ call[h].pc # "idle"
  /\ call' = [call EXCEPT ![h] = NoCall]
  /\ UNCHANGED <<conn, verified, hasChannel, relay, reveal, provedBy, answers, connEvents>>

-----------------------------------------------------------------------------
(* Deletion. *)

\* The relays that lose their last upstream are paused; the keys of paused ones end.
CutOff(c) ==
  [g \in Relays |->
     IF relay[g].linked /\ relay[g].conn = c
     THEN LET status == IF relay[g].status = "active" THEN "paused" ELSE relay[g].status
          IN [relay[g] EXCEPT !.on = {}, !.status = status,
                              !.key = IF status = "paused" /\ @ = "active" THEN "revoked" ELSE @]
     ELSE relay[g]]

\* Mutant: the key that was shown stays readable.
ExpiredNothing(S) == reveal

Expired(S) == [i \in RetryKeys |-> IF i \in S /\ reveal[i].status = "completed"
                                   THEN [reveal[i] EXCEPT !.status = "expired"] ELSE reveal[i]]
MadeFrom(c) == {i \in RetryKeys : \E S \in SUBSET Models : <<c, S>> \in reveal[i].asked}

\* deleteAIConnectionRecord: the managed channels go with the connection.
DeleteAIConnection(c) ==
  /\ Asked
  /\ c \in Live
  /\ conn' = [conn EXCEPT ![c] = [status |-> "deleted", cred |-> Scrubbed, version |-> conn[c].version + 1]]
  /\ relay' = CutOff(c)
  /\ reveal' = Expired(MadeFrom(c))
  /\ UNCHANGED <<verified, hasChannel, call, provedBy, answers>>

-----------------------------------------------------------------------------
(* Personal relays. *)

Open == {g \in Relays : relay[g].status \in {"active", "paused"}}

\* A browser connection carries one relay only.
RelayTaken(c) == ConnMethod[c] = "opencli_browser" /\ \E g \in Open : relay[g].linked /\ relay[g].conn = c

\* Mutant: a retry makes another gateway.
FirstRequestAlways(i) == TRUE

\* quickRelayReplayTx finds nothing under the retry key.
FirstRequest(i) == reveal[i].status = "none"

\* The models asked for are verified; the ones without a managed channel get one.
WithChannels(c, S) == [hasChannel EXCEPT ![c] = @ \cup S]

\* A gateway with the managed channels as its upstreams, and its key.
NewRelay(c, S) == [status |-> "active", conn |-> c, linked |-> TRUE, on |-> S, key |-> "active"]

\* CreateQuickRelay for a new retry key: channels, gateway, key and the key's reveal in
\* one transaction.
CreateQuickRelay(i, c, S, g) ==
  /\ Asked
  /\ FirstRequest(i)
  /\ c \in Live /\ S # {} /\ S \subseteq verified[c] /\ ~RelayTaken(c)
  /\ relay[g].status = "none"
  /\ hasChannel' = WithChannels(c, S)
  /\ relay' = [relay EXCEPT ![g] = NewRelay(c, S)]
  /\ reveal' = [reveal EXCEPT ![i] = [status |-> "completed", asked |-> {<<c, S>>}, relay |-> g, late |-> FALSE]]
  /\ answers' = answers \cup {<<i, c, S, g>>}
  /\ UNCHANGED <<conn, verified, call, provedBy>>

\* quickRelayReplayTx: the same request within the window is given the same key.  A
\* different request, a late one or a deleted gateway is an error, and the error takes
\* back the update that would have scrubbed a late reveal.
ReplayQuickRelay(i, c, S) ==
  /\ Asked
  /\ reveal[i].status = "completed" /\ <<c, S>> \in reveal[i].asked /\ ~reveal[i].late
  /\ reveal[i].relay \in Open
  /\ answers' = answers \cup {<<i, c, S, reveal[i].relay>>}
  /\ UNCHANGED <<conn, verified, hasChannel, relay, reveal, call, provedBy>>

\* quickCreateAIConnectionRelay: the handler of both.
QuickCreateAIConnectionRelay(i, c, S) ==
  ReplayQuickRelay(i, c, S) \/ \E g \in Relays : CreateQuickRelay(i, c, S, g)

RevealWindowEnds(i) ==
  /\ reveal[i].status = "completed" /\ ~reveal[i].late
  /\ reveal' = [reveal EXCEPT ![i].late = TRUE]
  /\ UNCHANGED <<conn, verified, hasChannel, relay, call, provedBy, answers, connEvents>>

\* Once a minute, and when the process starts.
ExpireAIQuickRelayReveals ==
  /\ \E i \in RetryKeys : reveal[i].status = "completed" /\ reveal[i].late
  /\ reveal' = Expired({i \in RetryKeys : reveal[i].late})
  /\ UNCHANGED <<conn, verified, hasChannel, relay, call, provedBy, answers, connEvents>>

\* The owner pauses, resumes or deletes the gateway (see module Tenancy) ...
SetRelayStatus(g, s) ==
  /\ Asked
  /\ g \in Open /\ relay[g].status # s
  /\ relay' = [relay EXCEPT ![g].status = s,
                            ![g].key = IF s = "deleted" /\ @ = "active" THEN "revoked" ELSE @]
  /\ UNCHANGED <<conn, verified, hasChannel, reveal, call, provedBy, answers>>

\* ... or gives it other upstreams: a managed channel cannot be among them.
ReplaceRelayUpstreams(g) ==
  /\ Asked
  /\ g \in Open /\ relay[g].linked
  /\ relay' = [relay EXCEPT ![g].linked = FALSE, ![g].on = {}]
  /\ UNCHANGED <<conn, verified, hasChannel, reveal, call, provedBy, answers>>

ConnectionsNext ==
  \/ ExpireAIQuickRelayReveals
  \/ \E h \in Callers :
       \/ RotateAIConnectionSecret(h) \/ CallEnds(h)
       \/ \E ok \in SUBSET Models : CreateAIConnection(h, ok) \/ UpdateAIConnectionValidation(h, ok)
       \/ \E c \in ConnIds : AskToValidate(h, c)
       \/ \E c \in ConnIds, cred \in Credentials : AskForConnection(h, c, cred) \/ AskToRotate(h, c, cred)
  \/ \E c \in ConnIds : DeleteAIConnection(c)
  \/ \E i \in RetryKeys, c \in ConnIds, S \in SUBSET Models : QuickCreateAIConnectionRelay(i, c, S)
  \/ \E i \in RetryKeys : RevealWindowEnds(i)
  \/ \E g \in Relays : \/ ReplaceRelayUpstreams(g)
                       \/ \E s \in {"active", "paused", "deleted"} : SetRelayStatus(g, s)

ConnectionsSpec == ConnectionsInit /\ [][ConnectionsNext]_connVars

-----------------------------------------------------------------------------
(* Properties. *)

\* A model counts as verified because the credential that is stored now answered for
\* it: a slow validation never speaks for a secret that replaced the one it used
\* (UpdateAIConnectionValidation).
VerifiedByCurrentCredential ==
  \A c \in Live : verified[c] # {} => provedBy[c] = conn[c].cred

\* A retry key makes one gateway, and every caller who uses it is given that gateway's
\* key for the very same request; a browser connection never serves two open relays
\* (CreateQuickRelay, quickRelayReplayTx).
RelayMadeOnce ==
  /\ \A a, b \in answers : a[1] = b[1] => a = b
  /\ \A g \in Relays : relay[g].status # "none" =>
       Cardinality({i \in RetryKeys : \E a \in answers : a[1] = i /\ a[4] = g}) = 1
  /\ \A g, k \in Open : /\ relay[g].linked /\ relay[k].linked /\ relay[g].conn = relay[k].conn
                        /\ ConnMethod[relay[g].conn] = "opencli_browser"
                        => g = k

\* A deleted connection leaves nothing that works: no secret, no routed upstream, no
\* key that can still be read, and no active key on a relay it alone served, whatever
\* the state the relay was in (DeleteAIConnection).
DeletedConnectionIsCutOff ==
  \A c \in ConnIds : conn[c].status = "deleted" =>
     /\ conn[c].cred = Scrubbed
     /\ \A i \in MadeFrom(c) : reveal[i].status # "completed"
     /\ \A g \in Relays : relay[g].linked /\ relay[g].conn = c => relay[g].on = {} /\ relay[g].key # "active"
=============================================================================
