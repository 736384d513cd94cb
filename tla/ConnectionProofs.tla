-------------------------- MODULE ConnectionProofs --------------------------
(***************************************************************************)
(* Proofs about the AI service connections, the relays made from them and  *)
(* the authorization attempts that make and renew them.                    *)
(***************************************************************************)
EXTENDS Connections, Authorization, FiniteSetTheorems, TLAPS

-----------------------------------------------------------------------------
(***************************************************************************)
(* Connections and their personal relays.                                  *)
(***************************************************************************)

ConnRecords == [status : {"none", "active", "attention", "deleted"},
                cred : Credentials \cup {Scrubbed}, version : 0 .. MaxVersion + 1]
CallRecords == [pc : {"idle", "create", "rotate", "validate"}, conn : ConnIds,
                cred : Credentials \cup {Scrubbed}, version : 0 .. MaxVersion + 1]
RelayRecords == [status : {"none", "active", "paused", "deleted"}, conn : ConnIds,
                 linked : BOOLEAN, on : SUBSET Models, key : {"none", "active", "revoked"}]
RevealRecords == [status : {"none", "completed", "expired"}, asked : SUBSET (ConnIds \X (SUBSET Models)),
                  relay : 0 .. MaxRelays, late : BOOLEAN]

\* A secret that is used has a version that leaves room for one more.
VersionSound(c) == c \in Live => conn[c].version \in 1 .. MaxVersion

\* A validation that is under way knows the secret of its version.
ValidatorSound(h) ==
  call[h].pc = "validate" =>
    /\ conn[call[h].conn].status # "none"
    /\ call[h].version <= conn[call[h].conn].version
    /\ call[h].version = conn[call[h].conn].version => call[h].cred = conn[call[h].conn].cred

CredentialsInv ==
  /\ \A c \in ConnIds : VersionSound(c)
  /\ \A h \in Callers : ValidatorSound(h)
  /\ VerifiedByCurrentCredential

\* What the steps of the callers do to one connection: nothing, or they put it into use
\* with the credential that was just asked about, in a version that is not older.
Renews(c) ==
  /\ conn'[c].status \in {"active", "attention"} /\ conn[c].status # "deleted"
  /\ conn'[c].version \in 1 .. MaxVersion
  /\ conn'[c].cred = provedBy'[c]
  /\ \/ conn[c].status = "none"
     \/ conn'[c].version = conn[c].version + 1
     \/ conn'[c].version = conn[c].version /\ conn'[c].cred = conn[c].cred
Keeps(c) == conn'[c] = conn[c] /\ verified'[c] = verified[c] /\ provedBy'[c] = provedBy[c]

LEMMA IdleCall == NoCall \in CallRecords /\ NoCall.conn \in ConnIds /\ NoCall.pc = "idle"
  BY ConnectionsAssumption DEF NoCall, CallRecords

\* A step that renews some connections and ends some calls keeps what is said of them.
LEMMA RenewalKeeps ==
  ASSUME CredentialsInv, conn \in [ConnIds -> ConnRecords], conn' \in [ConnIds -> ConnRecords],
         call \in [Callers -> CallRecords],
         \A c \in ConnIds : Renews(c) \/ Keeps(c),
         \A h \in Callers : call'[h] = call[h] \/ call'[h].pc = "idle"
  PROVE  CredentialsInv'
<1>1. ASSUME NEW c \in ConnIds
      PROVE  /\ VersionSound(c)'
             /\ c \in Live' /\ verified'[c] # {} => provedBy'[c] = conn'[c].cred
  BY <1>1 DEF Renews, Keeps, VersionSound, Live, CredentialsInv, VerifiedByCurrentCredential
<1>2. ASSUME NEW h \in Callers
      PROVE  ValidatorSound(h)'
  <2> SUFFICES ASSUME call'[h].pc = "validate"
               PROVE  ValidatorSound(h)'
    BY DEF ValidatorSound
  <2>1. call'[h] = call[h]
    OBVIOUS
  <2>2. PICK c \in ConnIds : c = call[h].conn
    BY DEF CallRecords
  <2>3. ValidatorSound(h) /\ conn[c] \in ConnRecords /\ conn'[c] \in ConnRecords /\ call[h] \in CallRecords
    BY DEF CredentialsInv
  <2>4. /\ conn[c].status # "none" /\ call[h].version <= conn[c].version
        /\ call[h].version = conn[c].version => call[h].cred = conn[c].cred
    BY <2>1, <2>2, <2>3 DEF ValidatorSound
  <2>5. conn[c].version \in Nat /\ conn'[c].version \in Nat /\ call[h].version \in Nat
    BY <2>3, ConnectionsAssumption DEF ConnRecords, CallRecords
  <2>6. /\ conn'[c].status # "none" /\ call[h].version <= conn'[c].version
        /\ call[h].version = conn'[c].version => call[h].cred = conn'[c].cred
    BY <2>4, <2>5 DEF Renews, Keeps
  <2> QED  BY <2>1, <2>2, <2>6 DEF ValidatorSound
<1> QED  BY <1>1, <1>2 DEF CredentialsInv, VerifiedByCurrentCredential, Live

\* The parts of the type invariant.
ConnPartsOK ==
  /\ conn \in [ConnIds -> ConnRecords] /\ call \in [Callers -> CallRecords]
  /\ verified \in [ConnIds -> SUBSET Models] /\ hasChannel \in [ConnIds -> SUBSET Models]
  /\ provedBy \in [ConnIds -> Credentials \cup {Scrubbed}]
  /\ connEvents \in 0 .. MaxConnEvents
RelayPartsOK ==
  /\ relay \in [Relays -> RelayRecords] /\ reveal \in [RetryKeys -> RevealRecords]
  /\ answers \subseteq RetryKeys \X ConnIds \X (SUBSET Models) \X Relays

LEMMA ConnectionTypes == ConnectionsTypeOK <=> ConnPartsOK /\ RelayPartsOK
  BY DEF ConnectionsTypeOK, ConnPartsOK, RelayPartsOK, ConnRecords, CallRecords, RelayRecords, RevealRecords

\* What a caller asks is in its request, and nothing else changes.
LEMMA AskedKeeps ==
  ASSUME ConnPartsOK, CredentialsInv, NEW h \in Callers, NEW c \in ConnIds, NEW cred \in Credentials \cup {Scrubbed},
         \/ AskForConnection(h, c, cred) \/ AskToRotate(h, c, cred) \/ AskToValidate(h, c)
  PROVE  /\ ConnPartsOK' /\ CredentialsInv' /\ UNCHANGED <<conn, relay, reveal, answers>>
<1>1. PICK n \in CallRecords :
        /\ call' = [call EXCEPT ![h] = n]
        /\ n.pc = "validate" => /\ n.conn = c /\ n.version = conn[c].version /\ n.cred = conn[c].cred
                                /\ conn[c].status # "none"
  <2>0. 0 \in 0 .. MaxVersion + 1
    BY ConnectionsAssumption
  <2>1. CASE AskForConnection(h, c, cred)
    <3> DEFINE n == [NoCall EXCEPT !.pc = "create", !.conn = c, !.cred = cred]
    <3>1. n \in CallRecords /\ n.pc = "create"
      BY <2>0 DEF NoCall, CallRecords
    <3> QED  BY <2>1, <3>1 DEF AskForConnection
  <2>2. CASE AskToRotate(h, c, cred)
    <3> DEFINE n == [NoCall EXCEPT !.pc = "rotate", !.conn = c, !.cred = cred]
    <3>1. n \in CallRecords /\ n.pc = "rotate"
      BY <2>0 DEF NoCall, CallRecords
    <3> QED  BY <2>2, <3>1 DEF AskToRotate
  <2>3. CASE AskToValidate(h, c)
    <3> DEFINE n == [NoCall EXCEPT !.pc = "validate", !.conn = c, !.cred = conn[c].cred,
                                   !.version = conn[c].version]
    <3>1. conn[c].cred \in Credentials \cup {Scrubbed} /\ conn[c].version \in 0 .. MaxVersion + 1
      BY DEF ConnPartsOK, ConnRecords
    <3>2. n \in CallRecords /\ n.conn = c /\ n.version = conn[c].version /\ n.cred = conn[c].cred
      BY <3>1 DEF NoCall, CallRecords
    <3>3. call' = [call EXCEPT ![h] = n] /\ conn[c].status # "none"
      BY <2>3 DEF AskToValidate, Live
    <3> HIDE DEF n
    <3> QED  BY <3>2, <3>3
  <2> QED  BY <2>1, <2>2, <2>3
<1>2. /\ UNCHANGED <<conn, verified, hasChannel, relay, reveal, provedBy, answers>>
      /\ connEvents' \in 0 .. MaxConnEvents
  BY ConnectionsAssumption DEF AskForConnection, AskToRotate, AskToValidate, Asked, ConnPartsOK
<1>3. call \in [Callers -> CallRecords]
  BY DEF ConnPartsOK
<1>4. ConnPartsOK'
  BY <1>1, <1>2, <1>3 DEF ConnPartsOK
<1>5. ASSUME NEW i \in Callers
      PROVE  ValidatorSound(i)'
  <2>1. CASE i = h
    <3>1. call'[i] = n /\ conn[c].version \in Nat
      BY <1>1, <1>3, <2>1, ConnectionsAssumption DEF ConnPartsOK, ConnRecords
    <3> QED  BY <1>1, <1>2, <3>1 DEF ValidatorSound
  <2>2. CASE i # h
    <3>1. call'[i] = call[i] /\ ValidatorSound(i) /\ conn' = conn
      BY <1>1, <1>2, <1>3, <2>2 DEF CredentialsInv
    <3> QED  BY <3>1 DEF ValidatorSound
  <2> QED  BY <2>1, <2>2
<1>6. (\A d \in ConnIds : VersionSound(d)') /\ VerifiedByCurrentCredential'
  BY <1>2 DEF CredentialsInv, VersionSound, VerifiedByCurrentCredential, Live
<1> QED  BY <1>2, <1>4, <1>5, <1>6 DEF CredentialsInv

\* A call that ends.
LEMMA CallsEnd ==
  ASSUME NEW h \in Callers, call \in [Callers -> CallRecords], call' = [call EXCEPT ![h] = NoCall]
  PROVE  /\ call' \in [Callers -> CallRecords]
         /\ \A i \in Callers : call'[i] = call[i] \/ call'[i].pc = "idle"
  BY IdleCall

\* The writes that end a call renew its connection or keep everything.
WritesOf(h) ==
  \/ \E ok \in SUBSET Models : CreateAIConnection(h, ok) \/ UpdateAIConnectionValidation(h, ok)
  \/ RotateAIConnectionSecret(h) \/ CallEnds(h)

\* One connection is written, with the models that answered and the credential asked.
Writes(c, row, ok, cred) ==
  /\ conn' = [conn EXCEPT ![c] = row]
  /\ verified' = [verified EXCEPT ![c] = ok]
  /\ provedBy' = [provedBy EXCEPT ![c] = cred]

LEMMA WritingRenews ==
  ASSUME ConnPartsOK, NEW c \in ConnIds, NEW row \in ConnRecords, NEW ok \in SUBSET Models,
         NEW cred \in Credentials \cup {Scrubbed}, Writes(c, row, ok, cred),
         row.status \in {"active", "attention"}, conn[c].status # "deleted",
         row.version \in 1 .. MaxVersion, row.cred = cred,
         \/ conn[c].status = "none" \/ row.version = conn[c].version + 1
         \/ row.version = conn[c].version /\ row.cred = conn[c].cred
  PROVE  /\ conn' \in [ConnIds -> ConnRecords] /\ verified' \in [ConnIds -> SUBSET Models]
         /\ provedBy' \in [ConnIds -> Credentials \cup {Scrubbed}]
         /\ \A d \in ConnIds : Renews(d) \/ Keeps(d)
<1>1. /\ conn \in [ConnIds -> ConnRecords] /\ verified \in [ConnIds -> SUBSET Models]
      /\ provedBy \in [ConnIds -> Credentials \cup {Scrubbed}]
  BY DEF ConnPartsOK
<1>2. conn'[c] = row /\ verified'[c] = ok /\ provedBy'[c] = cred
  BY <1>1 DEF Writes
<1>3. Renews(c)
  BY <1>2 DEF Renews
<1>4. \A d \in ConnIds : d # c => Keeps(d)
  BY <1>1 DEF Writes, Keeps
<1> QED  BY <1>1, <1>3, <1>4 DEF Writes

LEMMA WritesRenew ==
  ASSUME ConnPartsOK, CredentialsInv, NEW h \in Callers, WritesOf(h)
  PROVE  /\ conn' \in [ConnIds -> ConnRecords] /\ verified' \in [ConnIds -> SUBSET Models]
         /\ provedBy' \in [ConnIds -> Credentials \cup {Scrubbed}]
         /\ \A c \in ConnIds : Renews(c) \/ Keeps(c)
         /\ call' = [call EXCEPT ![h] = NoCall]
         /\ UNCHANGED <<hasChannel, relay, reveal, answers, connEvents>>
<1>1. call' = [call EXCEPT ![h] = NoCall] /\ UNCHANGED <<hasChannel, relay, reveal, answers, connEvents>>
  BY DEF WritesOf, CreateAIConnection, UpdateAIConnectionValidation, RotateAIConnectionSecret, CallEnds
<1>2. PICK c \in ConnIds : c = call[h].conn
  BY DEF ConnPartsOK, CallRecords
<1>3. PICK cred \in Credentials \cup {Scrubbed} : cred = call[h].cred
  BY DEF ConnPartsOK, CallRecords
<1>4. PICK old \in ConnRecords : old = conn[c]
  BY DEF ConnPartsOK
<1>5. VersionSound(c) /\ ValidatorSound(h) /\ old.version \in Nat /\ MaxVersion \in Nat \ {0}
  BY <1>4, ConnectionsAssumption DEF CredentialsInv, ConnRecords
<1>6. \A ok : StatusFor(ok) \in {"active", "attention"}
  BY DEF StatusFor
<1>7. CASE UNCHANGED <<conn, verified, provedBy>>
  BY <1>1, <1>7 DEF Keeps, ConnPartsOK
<1>8. ASSUME NEW ok \in SUBSET Models, CreateAIConnection(h, ok), MayCreate(h)
      PROVE  \E row \in ConnRecords :
               /\ Writes(c, row, ok, cred)
               /\ row.status \in {"active", "attention"} /\ old.status # "deleted"
               /\ row.version \in 1 .. MaxVersion /\ row.cred = cred
               /\ old.status = "none"
  <2> DEFINE row == [status |-> StatusFor(ok), cred |-> cred, version |-> 1]
  <2>1. row \in ConnRecords
    BY <1>5, <1>6 DEF ConnRecords
  <2>2. Writes(c, row, ok, cred) /\ old.status = "none"
    BY <1>2, <1>3, <1>4, <1>8 DEF CreateAIConnection, Writes, MayCreate
  <2> QED  BY <1>5, <1>6, <2>1, <2>2
<1>9. ASSUME RotateAIConnectionSecret(h), MayRotate(h)
      PROVE  \E row \in ConnRecords :
               /\ Writes(c, row, Models, cred)
               /\ row.status \in {"active", "attention"} /\ old.status # "deleted"
               /\ row.version \in 1 .. MaxVersion /\ row.cred = cred
               /\ row.version = old.version + 1
  <2> DEFINE row == [status |-> "active", cred |-> cred, version |-> old.version + 1]
  <2>1. /\ Writes(c, row, Models, cred) /\ old.status \in {"active", "attention"} /\ old.version < MaxVersion
    BY <1>2, <1>3, <1>4, <1>9 DEF RotateAIConnectionSecret, Writes, MayRotate, Live
  <2>2. old.version + 1 \in 1 .. MaxVersion /\ old.version + 1 \in 0 .. MaxVersion + 1
    BY <1>5, <2>1
  <2>3. row \in ConnRecords
    BY <2>2 DEF ConnRecords
  <2> QED  BY <2>1, <2>2, <2>3
<1>10. ASSUME NEW ok \in SUBSET Models, UpdateAIConnectionValidation(h, ok), MayRecord(h)
       PROVE  \E row \in ConnRecords :
                /\ Writes(c, row, ok, cred)
                /\ row.status \in {"active", "attention"} /\ old.status # "deleted"
                /\ row.version \in 1 .. MaxVersion /\ row.cred = cred
                /\ row.version = old.version /\ row.cred = old.cred
  <2> DEFINE row == [old EXCEPT !.status = StatusFor(ok)]
  <2>1. row \in ConnRecords /\ row.status = StatusFor(ok) /\ row.version = old.version /\ row.cred = old.cred
    BY <1>6 DEF ConnRecords
  <2>2. conn' = [conn EXCEPT ![c] = [@ EXCEPT !.status = StatusFor(ok)]]
    BY <1>2, <1>10 DEF UpdateAIConnectionValidation
  <2>3. /\ Writes(c, row, ok, cred) /\ old.status \in {"active", "attention"}
        /\ call[h].pc = "validate" /\ old.version = call[h].version
    BY <1>2, <1>3, <1>4, <1>10, <2>2 DEF UpdateAIConnectionValidation, Writes, MayRecord, Live
  <2>4. c \in Live /\ old.cred = cred
    BY <1>2, <1>3, <1>4, <1>5, <2>3 DEF ValidatorSound, Live
  <2>5. old.version \in 1 .. MaxVersion
    BY <1>4, <1>5, <2>4 DEF VersionSound
  <2> QED  BY <1>6, <2>1, <2>3, <2>4, <2>5
<1>11. CASE ~UNCHANGED <<conn, verified, provedBy>>
  <2>1. \/ \E ok \in SUBSET Models : \/ CreateAIConnection(h, ok) /\ MayCreate(h)
                                     \/ UpdateAIConnectionValidation(h, ok) /\ MayRecord(h)
        \/ RotateAIConnectionSecret(h) /\ MayRotate(h)
    BY <1>11 DEF WritesOf, CreateAIConnection, UpdateAIConnectionValidation, RotateAIConnectionSecret, CallEnds
  <2>2. \E row \in ConnRecords, ok \in SUBSET Models :
          /\ Writes(c, row, ok, cred)
          /\ row.status \in {"active", "attention"} /\ conn[c].status # "deleted"
          /\ row.version \in 1 .. MaxVersion /\ row.cred = cred
          /\ \/ conn[c].status = "none" \/ row.version = conn[c].version + 1
             \/ row.version = conn[c].version /\ row.cred = conn[c].cred
    BY <1>4, <1>8, <1>9, <1>10, <2>1
  <2>3. PICK row \in ConnRecords, ok \in SUBSET Models :
          /\ Writes(c, row, ok, cred)
          /\ row.status \in {"active", "attention"} /\ conn[c].status # "deleted"
          /\ row.version \in 1 .. MaxVersion /\ row.cred = cred
          /\ \/ conn[c].status = "none" \/ row.version = conn[c].version + 1
             \/ row.version = conn[c].version /\ row.cred = conn[c].cred
    BY <2>2
  <2> QED  BY <1>1, <2>3, WritingRenews
<1> QED  BY <1>7, <1>11

\* A deletion takes the version on, so that no validation under way speaks for it.
LEMMA DeletionKeeps ==
  ASSUME ConnPartsOK, CredentialsInv, NEW c \in ConnIds, DeleteAIConnection(c)
  PROVE  ConnPartsOK' /\ CredentialsInv'
<1> DEFINE row == [status |-> "deleted", cred |-> Scrubbed, version |-> conn[c].version + 1]
<1>1. /\ conn \in [ConnIds -> ConnRecords] /\ call \in [Callers -> CallRecords]
      /\ conn' = [conn EXCEPT ![c] = row] /\ UNCHANGED <<verified, hasChannel, call, provedBy>>
      /\ VersionSound(c) /\ c \in Live /\ connEvents' \in 0 .. MaxConnEvents
  BY ConnectionsAssumption DEF ConnPartsOK, CredentialsInv, DeleteAIConnection, Asked
<1>2. row \in ConnRecords
  <2>1. conn[c].version + 1 \in 0 .. MaxVersion + 1
    BY <1>1, ConnectionsAssumption DEF VersionSound
  <2> QED  BY <2>1 DEF ConnRecords
<1>3. ConnPartsOK'
  BY <1>1, <1>2 DEF ConnPartsOK
<1>4. \A d \in ConnIds : IF d = c THEN conn'[d] = row ELSE conn'[d] = conn[d]
  BY <1>1
<1>5. \A d \in Live' : d \in Live /\ d # c /\ conn'[d] = conn[d]
  BY <1>4 DEF Live
<1>6. (\A d \in ConnIds : VersionSound(d)') /\ VerifiedByCurrentCredential'
  BY <1>1, <1>5 DEF CredentialsInv, VersionSound, VerifiedByCurrentCredential
<1>7. ASSUME NEW h \in Callers, call'[h].pc = "validate"
      PROVE  ValidatorSound(h)'
  <2>1. PICK d \in ConnIds : d = call[h].conn
    BY <1>1 DEF CallRecords
  <2>2. /\ conn[d].status # "none" /\ call[h].version <= conn[d].version
        /\ call[h].version = conn[d].version => call[h].cred = conn[d].cred
    BY <1>1, <1>7, <2>1 DEF CredentialsInv, ValidatorSound
  <2>3. call[h].version \in Nat /\ conn[d].version \in Nat
    BY <1>1, ConnectionsAssumption DEF CallRecords, ConnRecords
  <2>4. /\ conn'[d].status # "none" /\ call[h].version <= conn'[d].version
        /\ call[h].version = conn'[d].version => call[h].cred = conn'[d].cred
    BY <1>4, <2>2, <2>3
  <2> QED  BY <1>1, <2>1, <2>4 DEF ValidatorSound
<1>8. \A h \in Callers : ValidatorSound(h)'
  BY <1>7 DEF ValidatorSound
<1> QED  BY <1>3, <1>6, <1>8 DEF CredentialsInv

\* A relay has its key while it is open, and nothing of a deleted connection.
RelaySound(g) ==
  /\ relay[g].status = "none" => ~relay[g].linked
  /\ relay[g].key = "active" => g \in Open
  /\ relay[g].linked /\ conn[relay[g].conn].status = "deleted" => relay[g].on = {} /\ relay[g].key # "active"

\* A retry key that was used has asked for one thing, and every answer is that one; its
\* relay was made, and it can be read again only while the connection is there.
UsedFor(i, c, S) ==
  /\ reveal[i].asked = {<<c, S>>} /\ <<i, c, S, reveal[i].relay>> \in answers
  /\ \A a \in answers : a[1] = i => a = <<i, c, S, reveal[i].relay>>
  /\ conn[c].status = "deleted" => reveal[i].status # "completed"
Used(i) ==
  /\ reveal[i].status # "none" /\ reveal[i].relay \in Relays /\ relay[reveal[i].relay].status # "none"
  /\ \E c \in ConnIds, S \in SUBSET Models : UsedFor(i, c, S)
Unused(i) == reveal[i].status = "none" /\ reveal[i].asked = {} /\ \A a \in answers : a[1] # i

\* One retry key for a relay, and one for each relay that was made.
RelaysApart ==
  \A i, j \in RetryKeys : reveal[i].status # "none" /\ reveal[j].status # "none" /\ reveal[i].relay = reveal[j].relay
                          => i = j
RelaysHaveKeys ==
  \A g \in Relays : relay[g].status # "none" => \E i \in RetryKeys : reveal[i].status # "none" /\ reveal[i].relay = g
OneBrowserRelay ==
  \A g, k \in Open : /\ relay[g].linked /\ relay[k].linked /\ relay[g].conn = relay[k].conn
                     /\ ConnMethod[relay[g].conn] = "opencli_browser"
                     => g = k

RelaysInv ==
  /\ \A g \in Relays : RelaySound(g)
  /\ \A i \in RetryKeys : Used(i) \/ Unused(i)
  /\ RelaysApart /\ RelaysHaveKeys /\ OneBrowserRelay
  /\ \A c \in ConnIds : conn[c].status = "deleted" => conn[c].cred = Scrubbed

\* What the steps that make no relay do to one: it may close, be paused or lose its
\* upstreams, and its key is not given back.
Lessens(g) ==
  /\ relay'[g] \in RelayRecords /\ relay'[g].conn = relay[g].conn
  /\ relay'[g].linked => relay[g].linked
  /\ relay'[g].status = "none" <=> relay[g].status = "none"
  /\ g \in Open' => g \in Open
  /\ relay'[g].on \subseteq relay[g].on
  /\ relay'[g].key = "active" => relay[g].key = "active" /\ g \in Open'

\* What they do to a retry key.
Fades(i) ==
  /\ reveal'[i] \in RevealRecords
  /\ reveal'[i].asked = reveal[i].asked /\ reveal'[i].relay = reveal[i].relay
  /\ reveal'[i].status = "none" <=> reveal[i].status = "none"
  /\ reveal'[i].status = "completed" => reveal[i].status = "completed"

\* A connection that is deleted was it before, or is cut off in the step.
CutOffNow(c) ==
  /\ conn'[c].cred = Scrubbed
  /\ \A g \in Relays : relay'[g].linked /\ relay'[g].conn = c => relay'[g].on = {} /\ relay'[g].key # "active"
  /\ \A i \in RetryKeys, S \in SUBSET Models : <<c, S>> \in reveal'[i].asked => reveal'[i].status # "completed"
DeletedBefore(c) == conn[c].status = "deleted" /\ conn'[c] = conn[c]

\* Answers that are added repeat the one that was given.
Repeats == \A a \in answers' : a \in answers \/
             \E i \in RetryKeys, c \in ConnIds, S \in SUBSET Models :
               a = <<i, c, S, reveal[i].relay>> /\ <<c, S>> \in reveal[i].asked /\ reveal[i].status # "none"

LEMMA LesseningKeeps ==
  ASSUME RelaysInv, RelayPartsOK, relay' = [g \in Relays |-> relay'[g]], reveal' = [i \in RetryKeys |-> reveal'[i]],
         \A g \in Relays : Lessens(g), \A i \in RetryKeys : Fades(i),
         \A c \in ConnIds : conn'[c].status = "deleted" => DeletedBefore(c) \/ CutOffNow(c),
         answers \subseteq answers', Repeats
  PROVE  RelaysInv' /\ RelayPartsOK'
<1>1. RelayPartsOK'
  <2>1. relay' \in [Relays -> RelayRecords] /\ reveal' \in [RetryKeys -> RevealRecords]
    BY DEF Lessens, Fades
  <2>2. ASSUME NEW a \in answers'
        PROVE  a \in RetryKeys \X ConnIds \X (SUBSET Models) \X Relays
    <3>1. CASE a \in answers
      BY <3>1 DEF RelayPartsOK
    <3>2. CASE a \notin answers
      <4>1. PICK i \in RetryKeys, c \in ConnIds, S \in SUBSET Models :
              a = <<i, c, S, reveal[i].relay>> /\ reveal[i].status # "none"
        BY <3>2 DEF Repeats
      <4>2. reveal[i].relay \in Relays
        BY <4>1 DEF RelaysInv, Used, Unused
      <4> QED  BY <4>1, <4>2
    <3> QED  BY <3>1, <3>2
  <2> QED  BY <2>1, <2>2 DEF RelayPartsOK
<1>2. ASSUME NEW g \in Relays
      PROVE  RelaySound(g)'
  <2>1. RelaySound(g) /\ Lessens(g) /\ relay[g] \in RelayRecords
    BY DEF RelaysInv, RelayPartsOK
  <2>2. PICK c \in ConnIds : c = relay[g].conn
    BY <2>1 DEF RelayRecords
  <2>3. (relay'[g].status = "none" => ~relay'[g].linked) /\ (relay'[g].key = "active" => g \in Open')
    BY <2>1 DEF RelaySound, Lessens
  <2>4. ASSUME relay'[g].linked, conn'[c].status = "deleted"
        PROVE  relay'[g].on = {} /\ relay'[g].key # "active"
    <3>1. CASE CutOffNow(c)
      BY <2>1, <2>2, <2>4, <3>1 DEF CutOffNow, Lessens
    <3>2. CASE DeletedBefore(c)
      BY <2>1, <2>2, <2>4, <3>2 DEF DeletedBefore, Lessens, RelaySound
    <3> QED  BY <2>4, <3>1, <3>2
  <2>5. relay'[g].conn = c
    BY <2>1, <2>2 DEF Lessens
  <2> QED  BY <2>3, <2>4, <2>5 DEF RelaySound
<1>3. ASSUME NEW i \in RetryKeys
      PROVE  Used(i)' \/ Unused(i)'
  <2>1. Fades(i) /\ (Used(i) \/ Unused(i))
    BY DEF RelaysInv
  <2>2. CASE Unused(i)
    <3>1. reveal'[i].status = "none" /\ reveal'[i].asked = {}
      BY <2>1, <2>2 DEF Fades, Unused
    <3>2. ASSUME NEW a \in answers', a[1] = i
          PROVE  FALSE
      <4>1. a \notin answers
        BY <2>2, <3>2 DEF Unused
      <4>2. PICK j \in RetryKeys, c \in ConnIds, S \in SUBSET Models :
              a = <<j, c, S, reveal[j].relay>> /\ reveal[j].status # "none"
        BY <4>1 DEF Repeats
      <4> QED  BY <2>2, <3>2, <4>2 DEF Unused
    <3> QED  BY <3>1, <3>2 DEF Unused
  <2>3. CASE Used(i)
    <3>1. PICK c \in ConnIds, S \in SUBSET Models : UsedFor(i, c, S)
      BY <2>3 DEF Used
    <3>2. /\ reveal'[i].status # "none" /\ reveal'[i].relay = reveal[i].relay /\ reveal'[i].relay \in Relays
          /\ reveal'[i].asked = {<<c, S>>} /\ <<i, c, S, reveal'[i].relay>> \in answers'
      BY <2>1, <2>3, <3>1 DEF Fades, Used, UsedFor
    <3>3. relay'[reveal[i].relay].status # "none"
      <4>1. PICK g \in Relays : g = reveal[i].relay
        BY <2>3 DEF Used
      <4> QED  BY <2>3, <4>1 DEF Used, Lessens
    <3>4. ASSUME NEW a \in answers', a[1] = i
          PROVE  a = <<i, c, S, reveal[i].relay>>
      <4>1. CASE a \in answers
        BY <3>1, <3>4, <4>1 DEF UsedFor
      <4>2. CASE a \notin answers
        <5>1. PICK j \in RetryKeys, d \in ConnIds, T \in SUBSET Models :
                a = <<j, d, T, reveal[j].relay>> /\ <<d, T>> \in reveal[j].asked
          BY <4>2 DEF Repeats
        <5>2. j = i
          BY <3>4, <5>1
        <5>3. <<d, T>> = <<c, S>>
          BY <3>1, <5>1, <5>2 DEF UsedFor
        <5> QED  BY <5>1, <5>2, <5>3
      <4> QED  BY <4>1, <4>2
    <3>5. conn'[c].status = "deleted" => reveal'[i].status # "completed"
      <4>1. CASE CutOffNow(c)
        BY <3>2, <4>1 DEF CutOffNow
      <4>2. CASE DeletedBefore(c)
        BY <2>1, <3>1, <4>2 DEF DeletedBefore, UsedFor, Fades
      <4> QED  BY <4>1, <4>2
    <3>6. UsedFor(i, c, S)'
      BY <3>2, <3>4, <3>5 DEF UsedFor
    <3> QED  BY <3>2, <3>3, <3>6 DEF Used
  <2> QED  BY <2>1, <2>2, <2>3
<1>4. RelaysApart' /\ RelaysHaveKeys'
  BY DEF RelaysInv, RelaysApart, RelaysHaveKeys, Lessens, Fades
<1>5. OneBrowserRelay'
  <2> SUFFICES ASSUME NEW g \in Open', NEW k \in Open', relay'[g].linked, relay'[k].linked,
                      relay'[g].conn = relay'[k].conn, ConnMethod[relay'[g].conn] = "opencli_browser"
               PROVE  g = k
    BY DEF OneBrowserRelay
  <2>1. g \in Relays /\ k \in Relays
    BY DEF Open
  <2>2. g \in Open /\ k \in Open /\ relay[g].linked /\ relay[k].linked
        /\ relay'[g].conn = relay[g].conn /\ relay'[k].conn = relay[k].conn
    BY <2>1 DEF Lessens
  <2> QED  BY <2>2 DEF RelaysInv, OneBrowserRelay
<1>6. \A c \in ConnIds : conn'[c].status = "deleted" => conn'[c].cred = Scrubbed
  BY DEF RelaysInv, DeletedBefore, CutOffNow
<1> QED  BY <1>1, <1>2, <1>3, <1>4, <1>5, <1>6 DEF RelaysInv

\* Relays and retry keys that are left alone.
LEMMA RelayStays ==
  ASSUME RelaysInv, RelayPartsOK, relay' = relay
  PROVE  relay' = [g \in Relays |-> relay'[g]] /\ \A g \in Relays : Lessens(g)
  BY DEF RelaysInv, RelaySound, RelayPartsOK, Lessens, Open
LEMMA RevealStays ==
  ASSUME RelayPartsOK, reveal' = reveal
  PROVE  reveal' = [i \in RetryKeys |-> reveal'[i]] /\ \A i \in RetryKeys : Fades(i)
  BY DEF RelayPartsOK, Fades

\* Reveals that expire.
LEMMA ExpiredFades ==
  ASSUME RelayPartsOK, NEW T, reveal' = Expired(T)
  PROVE  /\ reveal' = [i \in RetryKeys |-> reveal'[i]] /\ \A i \in RetryKeys : Fades(i)
         /\ \A i \in RetryKeys : i \in T => reveal'[i].status # "completed"
<1>1. reveal \in [RetryKeys -> RevealRecords]
  BY DEF RelayPartsOK
<1>2. ASSUME NEW i \in RetryKeys
      PROVE  Fades(i) /\ (i \in T => reveal'[i].status # "completed")
  <2>1. reveal[i] \in RevealRecords /\ [reveal[i] EXCEPT !.status = "expired"] \in RevealRecords
    BY <1>1 DEF RevealRecords
  <2>2. reveal'[i] = IF i \in T /\ reveal[i].status = "completed"
                     THEN [reveal[i] EXCEPT !.status = "expired"] ELSE reveal[i]
    BY DEF Expired
  <2>3. LET e == [reveal[i] EXCEPT !.status = "expired"]
        IN e.status = "expired" /\ e.asked = reveal[i].asked /\ e.relay = reveal[i].relay
    BY <2>1 DEF RevealRecords
  <2> QED  BY <2>1, <2>2, <2>3 DEF Fades
<1> QED  BY <1>2 DEF Expired

\* The relays of a connection that is deleted.
LEMMA CuttingLessens ==
  ASSUME RelaysInv, RelayPartsOK, NEW c \in ConnIds, relay' = CutOff(c)
  PROVE  /\ relay' = [g \in Relays |-> relay'[g]] /\ \A g \in Relays : Lessens(g)
         /\ \A g \in Relays : relay'[g].linked /\ relay'[g].conn = c => relay'[g].on = {} /\ relay'[g].key # "active"
<1>1. ASSUME NEW g \in Relays
      PROVE  /\ Lessens(g)
             /\ relay'[g].linked /\ relay'[g].conn = c => relay'[g].on = {} /\ relay'[g].key # "active"
  <2>1. relay[g] \in RelayRecords /\ RelaySound(g)
    BY DEF RelayPartsOK, RelaysInv
  <2>2. CASE ~(relay[g].linked /\ relay[g].conn = c)
    <3>1. relay'[g] = relay[g]
      BY <2>2 DEF CutOff
    <3> QED  BY <2>1, <2>2, <3>1 DEF Lessens, Open, RelaySound
  <2>3. CASE relay[g].linked /\ relay[g].conn = c
    <3> DEFINE st == IF relay[g].status = "active" THEN "paused" ELSE relay[g].status
    <3> DEFINE ky == IF st = "paused" /\ relay[g].key = "active" THEN "revoked" ELSE relay[g].key
    <3>1. relay'[g] = [relay[g] EXCEPT !.on = {}, !.status = st, !.key = ky]
      BY <2>3 DEF CutOff
    <3>2. st \in {"none", "active", "paused", "deleted"} /\ ky \in {"none", "active", "revoked"}
      BY <2>1 DEF RelayRecords
    <3>3. /\ relay'[g] \in RelayRecords /\ relay'[g].conn = relay[g].conn /\ relay'[g].linked = relay[g].linked
          /\ relay'[g].status = st /\ relay'[g].on = {} /\ relay'[g].key = ky
      BY <2>1, <3>1, <3>2 DEF RelayRecords
    <3>4. ky # "active"
      BY <2>1 DEF RelaySound, Open
    <3> QED  BY <2>1, <3>3, <3>4 DEF Lessens, Open
  <2> QED  BY <2>2, <2>3
<1> QED  BY <1>1 DEF CutOff

\* What the owner does to one relay.
LEMMA OwnerLessens ==
  ASSUME RelaysInv, RelayPartsOK, NEW g \in Relays,
         ReplaceRelayUpstreams(g) \/ \E s \in {"active", "paused", "deleted"} : SetRelayStatus(g, s)
  PROVE  relay' = [k \in Relays |-> relay'[k]] /\ \A k \in Relays : Lessens(k)
<1>1. relay \in [Relays -> RelayRecords] /\ relay[g] \in RelayRecords /\ g \in Open /\ RelaySound(g)
  BY DEF RelayPartsOK, RelaysInv, ReplaceRelayUpstreams, SetRelayStatus
<1>2. PICK n \in RelayRecords :
        /\ relay' = [relay EXCEPT ![g] = n]
        /\ n.conn = relay[g].conn /\ (n.linked => relay[g].linked) /\ n.status # "none" /\ n.on \subseteq relay[g].on
        /\ n.key = "active" => relay[g].key = "active" /\ n.status \in {"active", "paused"}
  <2>1. CASE ReplaceRelayUpstreams(g)
    <3> DEFINE n == [relay[g] EXCEPT !.linked = FALSE, !.on = {}]
    <3>1. /\ n \in RelayRecords /\ n.conn = relay[g].conn /\ ~n.linked /\ n.status = relay[g].status
          /\ n.on = {} /\ n.key = relay[g].key
      BY <1>1 DEF RelayRecords
    <3>2. relay' = [relay EXCEPT ![g] = n]
      BY <2>1 DEF ReplaceRelayUpstreams
    <3>3. relay[g].status \in {"active", "paused"}
      BY <1>1 DEF Open
    <3> HIDE DEF n
    <3> QED  BY <3>1, <3>2, <3>3
  <2>2. ASSUME NEW s \in {"active", "paused", "deleted"}, SetRelayStatus(g, s)
        PROVE  \E n \in RelayRecords :
                 /\ relay' = [relay EXCEPT ![g] = n]
                 /\ n.conn = relay[g].conn /\ (n.linked => relay[g].linked) /\ n.status # "none"
                 /\ n.on \subseteq relay[g].on
                 /\ n.key = "active" => relay[g].key = "active" /\ n.status \in {"active", "paused"}
    <3> DEFINE ky == IF s = "deleted" /\ relay[g].key = "active" THEN "revoked" ELSE relay[g].key
    <3> DEFINE n == [relay[g] EXCEPT !.status = s, !.key = ky]
    <3>1. ky \in {"none", "active", "revoked"}
      BY <1>1 DEF RelayRecords
    <3>2. /\ n \in RelayRecords /\ n.conn = relay[g].conn /\ n.linked = relay[g].linked /\ n.status = s
          /\ n.on = relay[g].on /\ n.key = ky
      BY <1>1, <3>1 DEF RelayRecords
    <3>3. relay' = [relay EXCEPT ![g] = n]
      BY <2>2 DEF SetRelayStatus
    <3>4. ky = "active" => relay[g].key = "active" /\ s # "deleted"
      OBVIOUS
    <3> HIDE DEF n
    <3> QED  BY <3>2, <3>3, <3>4
  <2> QED  BY <2>1, <2>2
<1>3. \A k \in Relays : Lessens(k)
  <2> SUFFICES ASSUME NEW k \in Relays
               PROVE  Lessens(k)
    OBVIOUS
  <2>1. CASE k = g
    BY <1>1, <1>2, <2>1 DEF Lessens, Open
  <2>2. CASE k # g
    BY <1>1, <1>2, <2>2 DEF Lessens, Open, RelaysInv, RelaySound
  <2> QED  BY <2>1, <2>2
<1> QED  BY <1>1, <1>2, <1>3

\* A new retry key makes a new relay: the key was not used, and the relay not made.
LEMMA CreationKeeps ==
  ASSUME RelaysInv, RelayPartsOK, NEW i \in RetryKeys, NEW c \in ConnIds, NEW S \in SUBSET Models, NEW g \in Relays,
         CreateQuickRelay(i, c, S, g)
  PROVE  RelaysInv' /\ RelayPartsOK'
<1> DEFINE n == [status |-> "completed", asked |-> {<<c, S>>}, relay |-> g, late |-> FALSE]
<1>1. /\ relay \in [Relays -> RelayRecords] /\ reveal \in [RetryKeys -> RevealRecords]
      /\ answers \subseteq RetryKeys \X ConnIds \X (SUBSET Models) \X Relays
  BY DEF RelayPartsOK
<1>2. /\ relay' = [relay EXCEPT ![g] = NewRelay(c, S)] /\ reveal' = [reveal EXCEPT ![i] = n]
      /\ answers' = answers \cup {<<i, c, S, g>>} /\ conn' = conn
      /\ reveal[i].status = "none" /\ c \in Live /\ relay[g].status = "none" /\ ~RelayTaken(c)
  BY DEF CreateQuickRelay, FirstRequest
<1>3. /\ NewRelay(c, S) \in RelayRecords /\ NewRelay(c, S).status = "active" /\ NewRelay(c, S).conn = c
  BY DEF NewRelay, RelayRecords
<1>4. n \in RevealRecords /\ n.status = "completed" /\ n.asked = {<<c, S>>} /\ n.relay = g
  <2>1. <<c, S>> \in ConnIds \X (SUBSET Models)
    OBVIOUS
  <2>2. g \in 0 .. MaxRelays
    BY ConnectionsAssumption DEF Relays
  <2> QED  BY <2>1, <2>2 DEF RevealRecords
<1> HIDE DEF n
<1>5. relay'[g] = NewRelay(c, S) /\ reveal'[i] = n
      /\ (\A k \in Relays : k # g => relay'[k] = relay[k]) /\ (\A j \in RetryKeys : j # i => reveal'[j] = reveal[j])
  BY <1>1, <1>2
<1>6. RelayPartsOK'
  <2>1. <<i, c, S, g>> \in RetryKeys \X ConnIds \X (SUBSET Models) \X Relays
    OBVIOUS
  <2> QED  BY <1>1, <1>2, <1>3, <1>4, <2>1 DEF RelayPartsOK
<1>7. Unused(i)
  BY <1>2 DEF RelaysInv, Used
<1>8. \A j \in RetryKeys : reveal[j].status # "none" => reveal[j].relay # g /\ j # i
  BY <1>2 DEF RelaysInv, Used, Unused
<1>9. ASSUME NEW k \in Relays
      PROVE  RelaySound(k)'
  <2>1. CASE k = g
    BY <1>2, <1>5, <2>1 DEF RelaySound, NewRelay, Open, Live
  <2>2. CASE k # g
    <3>1. RelaySound(k) /\ relay'[k] = relay[k]
      BY <1>5, <2>2 DEF RelaysInv
    <3> QED  BY <1>2, <3>1 DEF RelaySound, Open
  <2> QED  BY <2>1, <2>2
<1>10. ASSUME NEW j \in RetryKeys
       PROVE  Used(j)' \/ Unused(j)'
  <2>1. CASE j = i
    <3>1. \A a \in answers' : a[1] = i => a = <<i, c, S, g>>
      BY <1>2, <1>7 DEF Unused
    <3>2. UsedFor(i, c, S)'
      BY <1>2, <1>4, <1>5, <3>1 DEF UsedFor, Live
    <3> QED  BY <1>3, <1>4, <1>5, <2>1, <3>2 DEF Used
  <2>2. CASE j # i /\ Used(j)
    <3>1. PICK d \in ConnIds, T \in SUBSET Models : UsedFor(j, d, T)
      BY <2>2 DEF Used
    <3>2. UsedFor(j, d, T)'
      BY <1>2, <1>5, <2>2, <3>1 DEF UsedFor
    <3>3. relay'[reveal[j].relay].status # "none" /\ reveal[j].relay \in Relays
      BY <1>5, <1>8, <2>2 DEF Used
    <3> QED  BY <1>5, <2>2, <3>2, <3>3 DEF Used
  <2>3. CASE j # i /\ Unused(j)
    BY <1>2, <1>5, <2>3 DEF Unused
  <2> QED  BY <2>1, <2>2, <2>3 DEF RelaysInv
<1>11. RelaysApart'
  BY <1>4, <1>5, <1>8 DEF RelaysInv, RelaysApart
<1>12. RelaysHaveKeys'
  BY <1>4, <1>5, <1>8 DEF RelaysInv, RelaysHaveKeys
<1>13. OneBrowserRelay'
  <2>1. \A k \in Open' : k # g => k \in Open /\ relay'[k] = relay[k]
    BY <1>5 DEF Open
  <2>2. \A k \in Open' : k # g /\ relay'[k].linked /\ relay'[k].conn = c => ConnMethod[c] # "opencli_browser"
    BY <1>2, <2>1 DEF RelayTaken
  <2> QED  BY <1>3, <1>5, <2>1, <2>2 DEF RelaysInv, OneBrowserRelay
<1> QED  BY <1>2, <1>6, <1>9, <1>10, <1>11, <1>12, <1>13 DEF RelaysInv

\* The inductive invariant.
ConnectionsInv == ConnPartsOK /\ RelayPartsOK /\ CredentialsInv /\ RelaysInv

\* Every step of a caller keeps it: no relay is touched and no connection is deleted.
LEMMA CallerKeeps ==
  ASSUME ConnectionsInv, NEW h \in Callers,
         \/ WritesOf(h)
         \/ \E c \in ConnIds : AskToValidate(h, c)
         \/ \E c \in ConnIds, cred \in Credentials : AskForConnection(h, c, cred) \/ AskToRotate(h, c, cred)
  PROVE  ConnectionsInv'
<1>1. /\ ConnPartsOK' /\ CredentialsInv' /\ UNCHANGED <<relay, reveal, answers>>
      /\ \A c \in ConnIds : conn'[c].status = "deleted" => DeletedBefore(c)
  <2>1. CASE WritesOf(h)
    <3>1. /\ conn' \in [ConnIds -> ConnRecords] /\ verified' \in [ConnIds -> SUBSET Models]
          /\ provedBy' \in [ConnIds -> Credentials \cup {Scrubbed}]
          /\ \A c \in ConnIds : Renews(c) \/ Keeps(c)
          /\ call' = [call EXCEPT ![h] = NoCall]
          /\ UNCHANGED <<hasChannel, relay, reveal, answers, connEvents>>
      BY <2>1, WritesRenew DEF ConnectionsInv
    <3>2. /\ call' \in [Callers -> CallRecords] /\ \A i \in Callers : call'[i] = call[i] \/ call'[i].pc = "idle"
      BY <3>1, CallsEnd DEF ConnectionsInv, ConnPartsOK
    <3>3. CredentialsInv'
      BY <3>1, <3>2, RenewalKeeps DEF ConnectionsInv, ConnPartsOK
    <3>4. ConnPartsOK'
      BY <3>1, <3>2 DEF ConnectionsInv, ConnPartsOK
    <3>5. \A c \in ConnIds : conn'[c].status = "deleted" => DeletedBefore(c)
      BY <3>1 DEF Renews, Keeps, DeletedBefore
    <3> QED  BY <3>1, <3>3, <3>4, <3>5
  <2>2. CASE ~WritesOf(h)
    <3>1. PICK c \in ConnIds, cred \in Credentials \cup {Scrubbed} :
            AskForConnection(h, c, cred) \/ AskToRotate(h, c, cred) \/ AskToValidate(h, c)
      BY <2>2
    <3>2. ConnPartsOK' /\ CredentialsInv' /\ UNCHANGED <<conn, relay, reveal, answers>>
      BY <3>1, AskedKeeps DEF ConnectionsInv
    <3> QED  BY <3>2 DEF DeletedBefore
  <2> QED  BY <2>1, <2>2
<1>2. /\ relay' = [g \in Relays |-> relay'[g]] /\ reveal' = [i \in RetryKeys |-> reveal'[i]]
      /\ (\A g \in Relays : Lessens(g)) /\ (\A i \in RetryKeys : Fades(i))
  BY <1>1, RelayStays, RevealStays DEF ConnectionsInv
<1>3. answers \subseteq answers' /\ Repeats
  BY <1>1 DEF Repeats
<1>4. RelaysInv' /\ RelayPartsOK'
  BY <1>1, <1>2, <1>3, LesseningKeeps DEF ConnectionsInv
<1> QED  BY <1>1, <1>4 DEF ConnectionsInv

\* The other steps leave the connections and the calls alone, except for a deletion.
LEMMA ConnectionsStep ==
  ConnectionsInv /\ [ConnectionsNext]_connVars => ConnectionsInv'
<1> SUFFICES ASSUME ConnectionsInv, [ConnectionsNext]_connVars
             PROVE  ConnectionsInv'
  OBVIOUS
<1>1. ASSUME UNCHANGED <<conn, verified, call, provedBy>>, hasChannel' \in [ConnIds -> SUBSET Models],
             connEvents' \in 0 .. MaxConnEvents
      PROVE  /\ ConnPartsOK' /\ CredentialsInv'
             /\ \A c \in ConnIds : conn'[c].status = "deleted" => DeletedBefore(c)
  BY <1>1 DEF ConnectionsInv, ConnPartsOK, CredentialsInv, VersionSound, ValidatorSound,
              VerifiedByCurrentCredential, Live, DeletedBefore
<1>2. hasChannel \in [ConnIds -> SUBSET Models] /\ connEvents \in 0 .. MaxConnEvents
  BY DEF ConnectionsInv, ConnPartsOK
<1>3. Asked => connEvents' \in 0 .. MaxConnEvents
  BY <1>2, ConnectionsAssumption DEF Asked
<1>4. answers' = answers => answers \subseteq answers' /\ Repeats
  BY DEF Repeats
<1>5. ASSUME NEW h \in Callers,
             \/ RotateAIConnectionSecret(h) \/ CallEnds(h)
             \/ \E ok \in SUBSET Models : CreateAIConnection(h, ok) \/ UpdateAIConnectionValidation(h, ok)
             \/ \E c \in ConnIds : AskToValidate(h, c)
             \/ \E c \in ConnIds, cred \in Credentials : AskForConnection(h, c, cred) \/ AskToRotate(h, c, cred)
      PROVE  ConnectionsInv'
  BY <1>5, CallerKeeps DEF WritesOf
<1>6. ASSUME NEW c \in ConnIds, DeleteAIConnection(c)
      PROVE  ConnectionsInv'
  <2>1. ConnPartsOK' /\ CredentialsInv'
    BY <1>6, DeletionKeeps DEF ConnectionsInv
  <2>2. relay' = CutOff(c) /\ reveal' = Expired(MadeFrom(c)) /\ answers' = answers
    BY <1>6 DEF DeleteAIConnection
  <2>3. /\ relay' = [g \in Relays |-> relay'[g]] /\ \A g \in Relays : Lessens(g)
        /\ \A g \in Relays : relay'[g].linked /\ relay'[g].conn = c => relay'[g].on = {} /\ relay'[g].key # "active"
    BY <2>2, CuttingLessens DEF ConnectionsInv
  <2>4. /\ reveal' = [i \in RetryKeys |-> reveal'[i]] /\ \A i \in RetryKeys : Fades(i)
        /\ \A i \in RetryKeys : i \in MadeFrom(c) => reveal'[i].status # "completed"
    BY <2>2, ExpiredFades DEF ConnectionsInv
  <2>5. ASSUME NEW i \in RetryKeys, NEW S \in SUBSET Models, <<c, S>> \in reveal'[i].asked
        PROVE  reveal'[i].status # "completed"
    <3>1. reveal'[i].asked = reveal[i].asked
      BY <2>4 DEF Fades
    <3> QED  BY <2>4, <2>5, <3>1 DEF MadeFrom
  <2>6. conn'[c].cred = Scrubbed /\ \A d \in ConnIds : d # c => conn'[d] = conn[d]
    BY <1>6 DEF DeleteAIConnection, ConnectionsInv, ConnPartsOK
  <2>7. CutOffNow(c)
    BY <2>3, <2>5, <2>6 DEF CutOffNow
  <2>8. \A d \in ConnIds : conn'[d].status = "deleted" => DeletedBefore(d) \/ CutOffNow(d)
    BY <2>6, <2>7 DEF DeletedBefore
  <2>9. RelaysInv' /\ RelayPartsOK'
    BY <1>4, <2>2, <2>3, <2>4, <2>8, LesseningKeeps DEF ConnectionsInv
  <2> QED  BY <2>1, <2>9 DEF ConnectionsInv
<1>7. ASSUME NEW i \in RetryKeys, NEW c \in ConnIds, NEW S \in SUBSET Models, NEW g \in Relays,
             CreateQuickRelay(i, c, S, g)
      PROVE  ConnectionsInv'
  <2>1. hasChannel' \in [ConnIds -> SUBSET Models]
    BY <1>2, <1>7 DEF CreateQuickRelay, WithChannels
  <2>2. ConnPartsOK' /\ CredentialsInv'
    BY <1>1, <1>3, <1>7, <2>1 DEF CreateQuickRelay
  <2>3. RelaysInv' /\ RelayPartsOK'
    BY <1>7, CreationKeeps DEF ConnectionsInv
  <2> QED  BY <2>2, <2>3 DEF ConnectionsInv
<1>8. ASSUME NEW i \in RetryKeys, NEW c \in ConnIds, NEW S \in SUBSET Models, ReplayQuickRelay(i, c, S)
      PROVE  ConnectionsInv'
  <2>1. /\ ConnPartsOK' /\ CredentialsInv'
        /\ \A d \in ConnIds : conn'[d].status = "deleted" => DeletedBefore(d)
    BY <1>1, <1>2, <1>3, <1>8 DEF ReplayQuickRelay
  <2>2. relay' = relay /\ reveal' = reveal /\ answers' = answers \cup {<<i, c, S, reveal[i].relay>>}
        /\ <<c, S>> \in reveal[i].asked /\ reveal[i].status # "none"
    BY <1>8 DEF ReplayQuickRelay
  <2>3. answers \subseteq answers' /\ Repeats
    BY <2>2 DEF Repeats
  <2>4. RelaysInv' /\ RelayPartsOK'
    BY <2>1, <2>2, <2>3, RelayStays, RevealStays, LesseningKeeps DEF ConnectionsInv
  <2> QED  BY <2>1, <2>4 DEF ConnectionsInv
<1>9. ASSUME ExpireAIQuickRelayReveals \/ \E i \in RetryKeys : RevealWindowEnds(i)
      PROVE  ConnectionsInv'
  <2>1. /\ ConnPartsOK' /\ CredentialsInv' /\ relay' = relay /\ answers' = answers
        /\ \A d \in ConnIds : conn'[d].status = "deleted" => DeletedBefore(d)
    BY <1>1, <1>2, <1>9 DEF ExpireAIQuickRelayReveals, RevealWindowEnds
  <2>2. reveal' = [i \in RetryKeys |-> reveal'[i]] /\ \A i \in RetryKeys : Fades(i)
    <3>1. CASE ExpireAIQuickRelayReveals
      BY <3>1, ExpiredFades DEF ExpireAIQuickRelayReveals, ConnectionsInv
    <3>2. ASSUME NEW i \in RetryKeys, RevealWindowEnds(i)
          PROVE  reveal' = [j \in RetryKeys |-> reveal'[j]] /\ \A j \in RetryKeys : Fades(j)
      <4>1. reveal \in [RetryKeys -> RevealRecords] /\ reveal' = [reveal EXCEPT ![i].late = TRUE]
        BY <3>2 DEF RevealWindowEnds, ConnectionsInv, RelayPartsOK
      <4> DEFINE n == [reveal[i] EXCEPT !.late = TRUE]
      <4>2. reveal[i] \in RevealRecords
        BY <4>1
      <4>3. n \in RevealRecords /\ n.asked = reveal[i].asked /\ n.relay = reveal[i].relay /\ n.status = reveal[i].status
        BY <4>2 DEF RevealRecords
      <4>4. reveal' = [reveal EXCEPT ![i] = n]
        BY <4>1
      <4> HIDE DEF n
      <4> QED  BY <4>1, <4>3, <4>4 DEF Fades
    <3> QED  BY <1>9, <3>1, <3>2
  <2>3. RelaysInv' /\ RelayPartsOK'
    BY <1>4, <2>1, <2>2, RelayStays, LesseningKeeps DEF ConnectionsInv
  <2> QED  BY <2>1, <2>3 DEF ConnectionsInv
<1>10. ASSUME NEW g \in Relays,
              ReplaceRelayUpstreams(g) \/ \E s \in {"active", "paused", "deleted"} : SetRelayStatus(g, s)
       PROVE  ConnectionsInv'
  <2>1. /\ ConnPartsOK' /\ CredentialsInv' /\ reveal' = reveal /\ answers' = answers
        /\ \A d \in ConnIds : conn'[d].status = "deleted" => DeletedBefore(d)
    BY <1>1, <1>2, <1>3, <1>10 DEF ReplaceRelayUpstreams, SetRelayStatus
  <2>2. relay' = [k \in Relays |-> relay'[k]] /\ \A k \in Relays : Lessens(k)
    BY <1>10, OwnerLessens DEF ConnectionsInv
  <2>3. RelaysInv' /\ RelayPartsOK'
    BY <1>4, <2>1, <2>2, RevealStays, LesseningKeeps DEF ConnectionsInv
  <2> QED  BY <2>1, <2>3 DEF ConnectionsInv
<1>11. CASE UNCHANGED connVars
  <2>1. /\ ConnPartsOK' /\ CredentialsInv' /\ relay' = relay /\ reveal' = reveal /\ answers' = answers
        /\ \A d \in ConnIds : conn'[d].status = "deleted" => DeletedBefore(d)
    BY <1>1, <1>2, <1>11 DEF connVars
  <2>2. RelaysInv' /\ RelayPartsOK'
    BY <1>4, <2>1, RelayStays, RevealStays, LesseningKeeps DEF ConnectionsInv
  <2> QED  BY <2>1, <2>2 DEF ConnectionsInv
<1> QED  BY <1>5, <1>6, <1>7, <1>8, <1>9, <1>10, <1>11 DEF ConnectionsNext, QuickCreateAIConnectionRelay

LEMMA ConnectionsInitial == ConnectionsInit => ConnectionsInv
<1> SUFFICES ASSUME ConnectionsInit
             PROVE  ConnectionsInv
  OBVIOUS
<1> USE DEF ConnectionsInit
<1>1. 0 \in 0 .. MaxVersion + 1 /\ 0 \in 0 .. MaxConnEvents /\ 0 \in 0 .. MaxRelays
  BY ConnectionsAssumption
<1>2. [status |-> "none", cred |-> Scrubbed, version |-> 0] \in ConnRecords
  BY <1>1 DEF ConnRecords
<1>3. ConnPartsOK
  BY <1>1, <1>2, IdleCall DEF ConnPartsOK
<1>4. RelayPartsOK
  <2>1. [status |-> "none", conn |-> NoCall.conn, linked |-> FALSE, on |-> {}, key |-> "none"] \in RelayRecords
    BY IdleCall DEF RelayRecords
  <2>2. NoReveal \in RevealRecords
    BY <1>1 DEF NoReveal, RevealRecords
  <2> QED  BY <2>1, <2>2 DEF RelayPartsOK
<1>5. CredentialsInv
  BY IdleCall DEF CredentialsInv, VersionSound, ValidatorSound, VerifiedByCurrentCredential, Live
<1>6. RelaysInv
  BY DEF RelaysInv, RelaySound, Unused, NoReveal, RelaysApart, RelaysHaveKeys, OneBrowserRelay, Open
<1> QED  BY <1>3, <1>4, <1>5, <1>6 DEF ConnectionsInv

\* The inductive invariant holds.
THEOREM ConnectionsInvariant == ConnectionsSpec => []ConnectionsInv
<1> QED  BY ConnectionsInitial, ConnectionsStep, PTL DEF ConnectionsSpec

\* The connections, their calls, relays and reveals keep their types.
THEOREM ConnectionTypesHold == ConnectionsSpec => []ConnectionsTypeOK
<1>1. ConnectionsInv => ConnectionsTypeOK
  BY ConnectionTypes DEF ConnectionsInv
<1> QED  BY <1>1, ConnectionsInvariant, PTL

\* A model counts as verified because the credential that is stored now answered for it
\* (UpdateAIConnectionValidation, RotateAIConnectionSecret).
THEOREM ValidationSpeaksForItsSecret == ConnectionsSpec => []VerifiedByCurrentCredential
<1>1. ConnectionsInv => VerifiedByCurrentCredential
  BY DEF ConnectionsInv, CredentialsInv
<1> QED  BY <1>1, ConnectionsInvariant, PTL

\* A retry key makes one gateway, its answers are all the same, and a browser connection
\* serves one open relay (CreateQuickRelay, quickRelayReplayTx).
THEOREM RetriesMakeOneRelay == ConnectionsSpec => []RelayMadeOnce
<1>1. ASSUME ConnectionsInv
      PROVE  RelayMadeOnce
  <2>1. ASSUME NEW a \in answers, NEW b \in answers, a[1] = b[1]
        PROVE  a = b
    <3>1. PICK i \in RetryKeys : i = a[1]
      BY <1>1 DEF ConnectionsInv, RelayPartsOK
    <3>2. Used(i)
      BY <1>1, <3>1 DEF ConnectionsInv, RelaysInv, Unused
    <3> QED  BY <2>1, <3>1, <3>2 DEF Used, UsedFor
  <2>2. ASSUME NEW g \in Relays, relay[g].status # "none"
        PROVE  Cardinality({i \in RetryKeys : \E a \in answers : a[1] = i /\ a[4] = g}) = 1
    <3>1. PICK i \in RetryKeys : reveal[i].status # "none" /\ reveal[i].relay = g
      BY <1>1, <2>2 DEF ConnectionsInv, RelaysInv, RelaysHaveKeys
    <3>2. PICK c \in ConnIds, S \in SUBSET Models : UsedFor(i, c, S)
      BY <1>1, <3>1 DEF ConnectionsInv, RelaysInv, Used, Unused
    <3>3. ASSUME NEW j \in RetryKeys, NEW a \in answers, a[1] = j, a[4] = g
          PROVE  j = i
      <4>1. Used(j)
        BY <1>1, <3>3 DEF ConnectionsInv, RelaysInv, Unused
      <4>2. a[4] = reveal[j].relay /\ reveal[j].status # "none"
        BY <3>3, <4>1 DEF Used, UsedFor
      <4> QED  BY <1>1, <3>1, <3>3, <4>2 DEF ConnectionsInv, RelaysInv, RelaysApart
    <3>4. \E a \in answers : a[1] = i /\ a[4] = g
      BY <3>1, <3>2 DEF UsedFor
    <3>5. {j \in RetryKeys : \E a \in answers : a[1] = j /\ a[4] = g} = {i}
      BY <3>3, <3>4
    <3> QED  BY <3>5, FS_Singleton
  <2> QED  BY <1>1, <2>1, <2>2 DEF RelayMadeOnce, ConnectionsInv, RelaysInv, OneBrowserRelay
<1> QED  BY <1>1, ConnectionsInvariant, PTL

\* Nothing of a deleted connection works: no secret, no upstream, no reveal, and no key
\* of a relay it served (deleteAIConnectionRecord).
THEOREM DeletionCutsOff == ConnectionsSpec => []DeletedConnectionIsCutOff
<1>1. ASSUME ConnectionsInv
      PROVE  DeletedConnectionIsCutOff
  <2> SUFFICES ASSUME NEW c \in ConnIds, conn[c].status = "deleted"
               PROVE  /\ conn[c].cred = Scrubbed
                      /\ \A i \in MadeFrom(c) : reveal[i].status # "completed"
                      /\ \A g \in Relays : relay[g].linked /\ relay[g].conn = c
                                           => relay[g].on = {} /\ relay[g].key # "active"
    BY DEF DeletedConnectionIsCutOff
  <2>1. ASSUME NEW i \in MadeFrom(c)
        PROVE  reveal[i].status # "completed"
    <3>1. PICK S \in SUBSET Models : <<c, S>> \in reveal[i].asked
      BY DEF MadeFrom
    <3>2. i \in RetryKeys /\ Used(i)
      BY <1>1, <3>1 DEF MadeFrom, ConnectionsInv, RelaysInv, Unused
    <3>3. PICK d \in ConnIds, T \in SUBSET Models : UsedFor(i, d, T)
      BY <3>2 DEF Used
    <3>4. d = c
      BY <3>1, <3>3 DEF UsedFor
    <3> QED  BY <3>3, <3>4 DEF UsedFor
  <2>2. conn[c].cred = Scrubbed
    BY <1>1 DEF ConnectionsInv, RelaysInv
  <2>3. \A g \in Relays : relay[g].linked /\ relay[g].conn = c => relay[g].on = {} /\ relay[g].key # "active"
    BY <1>1 DEF ConnectionsInv, RelaysInv, RelaySound
  <2> QED  BY <2>1, <2>2, <2>3
<1> QED  BY <1>1, ConnectionsInvariant, PTL

-----------------------------------------------------------------------------
(***************************************************************************)
(* Authorization attempts.                                                 *)
(***************************************************************************)

GrantRecords == [state : {"none", "live", "gone"}, session : LoginSessions \cup {NoneAuth}]
AttemptRecords == [status : {"none", "authorization_pending", "validating", "completed",
                             "failed", "expired", "cancelled"},
                   session : LoginSessions \cup {NoneAuth},
                   target : AuthConns \cup {NoneAuth}, over : BOOLEAN]
FinisherRecords == [pc : {"idle", "taken", "exchanging", "writing", "failing"},
                    attempt : Attempts \cup {NoneAuth}, session : LoginSessions \cup {NoneAuth},
                    account : ProviderAccounts \cup {NoneAuth}]
OriginalRecords == [account : ProviderAccounts \cup {NoneAuth},
                    method : {"none", "oauth", "deepseek_web_token", "api_key_guided"}]

\* An attempt has written when it is completed, and its transaction is there only
\* before anybody has taken it.
AttemptSound(a) ==
  /\ writes[a] = IF attempt[a].status = "completed" THEN 1 ELSE 0
  /\ transaction[a] => attempt[a].status \notin {"none", "completed"}

\* A request on its way has an attempt that nobody else can finish, of its own session;
\* the account it writes is the one its target was made for.
Identified(r) ==
  /\ finishing[r].account # NoneAuth
  /\ LET t == attempt[finishing[r].attempt].target
     IN t # NoneAuth => original[t].account = finishing[r].account
Busy(r) == finishing[r].pc # "idle"
FinisherSound(r) ==
  Busy(r) => /\ finishing[r].attempt \in Attempts /\ ~transaction[finishing[r].attempt]
             /\ attempt[finishing[r].attempt].status \notin {"none", "completed"}
             /\ finishing[r].session = attempt[finishing[r].attempt].session
             /\ finishing[r].pc = "writing" => Identified(r)
FinishersApart ==
  \A r, q \in Finishers : Busy(r) /\ Busy(q) /\ finishing[r].attempt = finishing[q].attempt => r = q

AttemptsInv ==
  /\ AuthorizationTypeOK
  /\ \A a \in Attempts : AttemptSound(a)
  /\ \A r \in Finishers : FinisherSound(r)
  /\ FinishersApart
  /\ ReauthorizationKeepsAccount

AuthPartsOK ==
  /\ grant \in [Grants -> GrantRecords] /\ attempt \in [Attempts -> AttemptRecords]
  /\ transaction \in [Attempts -> BOOLEAN] /\ finishing \in [Finishers -> FinisherRecords]
  /\ account \in [AuthConns -> ProviderAccounts \cup {NoneAuth}]
  /\ original \in [AuthConns -> OriginalRecords]
  /\ writes \in [Attempts -> Nat] /\ authEvents \in 0 .. MaxAuthEvents

LEMMA AuthTypes == AuthorizationTypeOK <=> AuthPartsOK
  BY DEF AuthorizationTypeOK, AuthPartsOK, GrantRecords, AttemptRecords, FinisherRecords, OriginalRecords

\* A step that begins no attempt and completes none.
AttemptMoves(a) ==
  /\ attempt'[a].session = attempt[a].session /\ attempt'[a].target = attempt[a].target
  /\ attempt'[a].status = "none" <=> attempt[a].status = "none"
  /\ attempt'[a].status = "completed" <=> attempt[a].status = "completed"
  /\ transaction'[a] => transaction[a]

\* A request that ends, or goes on with its attempt.
GoesOn(r) ==
  /\ Busy(r) /\ finishing'[r].attempt = finishing[r].attempt /\ finishing'[r].session = finishing[r].session
  /\ finishing'[r].pc = "writing" =>
       \/ finishing[r].pc = "writing" /\ finishing'[r].account = finishing[r].account
       \/ /\ finishing'[r].account # NoneAuth
          /\ SameIdentity(finishing[r].attempt, finishing'[r].account)
FinisherMoves(r) == finishing'[r].pc = "idle" \/ GoesOn(r)

\* Such steps keep the invariant: the account a request may write is the one that is
\* stored for its target, which is the one the target was made for.
LEMMA MovesKeep ==
  ASSUME AttemptsInv, AuthPartsOK', \A a \in Attempts : AttemptMoves(a), \A r \in Finishers : FinisherMoves(r),
         \A c \in AuthConns : account'[c] \in {account[c], NoneAuth}, original' = original, writes' = writes
  PROVE  AttemptsInv'
<1>1. AuthPartsOK /\ AuthorizationTypeOK'
  BY AuthTypes DEF AttemptsInv, AuthorizationTypeOK, AuthPartsOK, GrantRecords, AttemptRecords, FinisherRecords, OriginalRecords
<1>2. \A a \in Attempts : AttemptSound(a)'
  BY DEF AttemptsInv, AttemptSound, AttemptMoves
<1>3. ASSUME NEW r \in Finishers
      PROVE  FinisherSound(r)'
  <2> SUFFICES ASSUME Busy(r)'
               PROVE  FinisherSound(r)'
    BY DEF FinisherSound
  <2>1. GoesOn(r) /\ FinisherSound(r) /\ Busy(r)
    BY DEF FinisherMoves, Busy, AttemptsInv, GoesOn
  <2>2. PICK a \in Attempts : a = finishing[r].attempt /\ finishing'[r].attempt = a
    BY <2>1 DEF FinisherSound, GoesOn
  <2>3. /\ ~transaction'[a] /\ attempt'[a].status \notin {"none", "completed"}
        /\ finishing'[r].session = attempt'[a].session
    BY <2>1, <2>2 DEF FinisherSound, AttemptMoves, GoesOn
  <2>4. ASSUME finishing'[r].pc = "writing"
        PROVE  Identified(r)'
    <3> DEFINE t == attempt[a].target
    <3>1. t \in AuthConns \cup {NoneAuth} /\ attempt'[a].target = t
      BY <1>1 DEF AuthPartsOK, AttemptRecords, AttemptMoves
    <3>2. CASE finishing[r].pc = "writing" /\ finishing'[r].account = finishing[r].account
      BY <2>1, <2>2, <3>1, <3>2 DEF FinisherSound, Identified
    <3>3. CASE finishing'[r].account # NoneAuth /\ SameIdentity(finishing[r].attempt, finishing'[r].account)
      <4>1. t # NoneAuth => account[t] = finishing'[r].account
        BY <2>2, <3>3 DEF SameIdentity
      <4>2. t # NoneAuth => original[t].account = finishing'[r].account
        BY <3>1, <3>3, <4>1 DEF AttemptsInv, ReauthorizationKeepsAccount
      <4> QED  BY <2>2, <3>1, <3>3, <4>2 DEF Identified
    <3> QED  BY <2>1, <2>4, <3>2, <3>3 DEF GoesOn
  <2> QED  BY <2>2, <2>3, <2>4 DEF FinisherSound
<1>4. FinishersApart'
  BY DEF AttemptsInv, FinishersApart, FinisherMoves, GoesOn, Busy
<1>5. ReauthorizationKeepsAccount'
  BY DEF AttemptsInv, ReauthorizationKeepsAccount
<1> QED  BY <1>1, <1>2, <1>3, <1>4, <1>5 DEF AttemptsInv

\* One more event.
LEMMA AuthEventCounts ==
  ASSUME authEvents \in 0 .. MaxAuthEvents, AuthEvent
  PROVE  authEvents' \in 0 .. MaxAuthEvents
  BY AuthorizationAssumption DEF AuthEvent

\* The attempts when one of them is marked or its transaction is taken.
Marks(a) ==
  \/ attempt' = attempt
  \/ \E s \in {"validating", "failed", "expired", "cancelled"} :
       attempt' = [attempt EXCEPT ![a].status = s] /\ attempt[a].status \notin {"none", "completed"}
  \/ attempt' = [attempt EXCEPT ![a].over = TRUE]
LEMMA MarkingMoves ==
  ASSUME AuthPartsOK, NEW a \in Attempts, Marks(a),
         transaction' = transaction \/ transaction' = [transaction EXCEPT ![a] = FALSE]
  PROVE  /\ attempt' \in [Attempts -> AttemptRecords] /\ transaction' \in [Attempts -> BOOLEAN]
         /\ \A b \in Attempts : AttemptMoves(b)
<1>1. /\ attempt \in [Attempts -> AttemptRecords] /\ transaction \in [Attempts -> BOOLEAN]
      /\ attempt[a] \in AttemptRecords
  BY DEF AuthPartsOK
<1>2. transaction' \in [Attempts -> BOOLEAN] /\ \A b \in Attempts : transaction'[b] => transaction[b]
  BY <1>1
<1>3. \E n \in AttemptRecords :
        /\ attempt' = attempt \/ attempt' = [attempt EXCEPT ![a] = n]
        /\ n.session = attempt[a].session /\ n.target = attempt[a].target
        /\ n.status = "none" <=> attempt[a].status = "none"
        /\ n.status = "completed" <=> attempt[a].status = "completed"
  <2>1. CASE attempt' = attempt
    BY <1>1, <2>1
  <2>2. ASSUME NEW s \in {"validating", "failed", "expired", "cancelled"},
               attempt' = [attempt EXCEPT ![a].status = s], attempt[a].status \notin {"none", "completed"}
        PROVE  \E n \in AttemptRecords :
                 /\ attempt' = [attempt EXCEPT ![a] = n]
                 /\ n.session = attempt[a].session /\ n.target = attempt[a].target
                 /\ n.status = "none" <=> attempt[a].status = "none"
                 /\ n.status = "completed" <=> attempt[a].status = "completed"
    <3> DEFINE n == [attempt[a] EXCEPT !.status = s]
    <3>1. n \in AttemptRecords /\ n.session = attempt[a].session /\ n.target = attempt[a].target /\ n.status = s
      BY <1>1 DEF AttemptRecords
    <3>2. attempt' = [attempt EXCEPT ![a] = n]
      BY <2>2
    <3> HIDE DEF n
    <3> QED  BY <2>2, <3>1, <3>2
  <2>3. CASE attempt' = [attempt EXCEPT ![a].over = TRUE]
    <3> DEFINE n == [attempt[a] EXCEPT !.over = TRUE]
    <3>1. /\ n \in AttemptRecords /\ n.session = attempt[a].session /\ n.target = attempt[a].target
          /\ n.status = attempt[a].status
      BY <1>1 DEF AttemptRecords
    <3>2. attempt' = [attempt EXCEPT ![a] = n]
      BY <2>3
    <3> HIDE DEF n
    <3> QED  BY <3>1, <3>2
  <2> QED  BY <2>1, <2>2, <2>3 DEF Marks
<1>4. PICK n \in AttemptRecords :
        /\ attempt' = attempt \/ attempt' = [attempt EXCEPT ![a] = n]
        /\ n.session = attempt[a].session /\ n.target = attempt[a].target
        /\ n.status = "none" <=> attempt[a].status = "none"
        /\ n.status = "completed" <=> attempt[a].status = "completed"
  BY <1>3
<1>5. attempt' \in [Attempts -> AttemptRecords]
  BY <1>1, <1>4
<1>6. \A b \in Attempts : AttemptMoves(b)
  BY <1>1, <1>2, <1>4 DEF AttemptMoves
<1> QED  BY <1>2, <1>5, <1>6

LEMMA AttemptsStay ==
  ASSUME attempt' = attempt, transaction' = transaction
  PROVE  \A a \in Attempts : AttemptMoves(a)
  BY DEF AttemptMoves
LEMMA FinishersStay ==
  ASSUME finishing' = finishing
  PROVE  \A r \in Finishers : FinisherMoves(r)
  BY DEF FinisherMoves, GoesOn, Busy

\* One request that ends or takes its next step.
LEMMA OneMoves ==
  ASSUME finishing \in [Finishers -> FinisherRecords], NEW r \in Finishers, NEW n \in FinisherRecords,
         finishing' = [finishing EXCEPT ![r] = n],
         \/ n.pc = "idle"
         \/ /\ Busy(r) /\ n.attempt = finishing[r].attempt /\ n.session = finishing[r].session
            /\ n.pc = "writing" => n.account # NoneAuth /\ SameIdentity(finishing[r].attempt, n.account)
  PROVE  finishing' \in [Finishers -> FinisherRecords] /\ \A q \in Finishers : FinisherMoves(q)
<1>1. finishing'[r] = n /\ \A q \in Finishers : q # r => finishing'[q] = finishing[q]
  OBVIOUS
<1>2. FinisherMoves(r)
  BY <1>1 DEF FinisherMoves, GoesOn
<1>3. \A q \in Finishers : q # r => FinisherMoves(q)
  BY <1>1 DEF FinisherMoves, GoesOn, Busy
<1> QED  BY <1>2, <1>3

LEMMA IdleFinisher == NotFinishing \in FinisherRecords /\ NotFinishing.pc = "idle"
  BY DEF NotFinishing, FinisherRecords

\* The steps of a request that write no connection.
LEMMA FinisherStepMoves ==
  ASSUME AttemptsInv, NEW r \in Finishers,
         \/ SetValidating(r) \/ ExchangeFails(r) \/ WriteRefused(r) \/ FailAttempt(r) \/ FinisherLost(r)
         \/ \E acc \in ProviderAccounts : Exchange(r, acc)
  PROVE  AttemptsInv'
<1>1. AuthPartsOK
  BY AuthTypes DEF AttemptsInv
<1>2. /\ finishing \in [Finishers -> FinisherRecords] /\ finishing[r] \in FinisherRecords
      /\ FinisherSound(r) /\ Busy(r)
  BY <1>1 DEF AuthPartsOK, AttemptsInv, SetValidating, ExchangeFails, WriteRefused, FailAttempt, FinisherLost,
              Exchange, Busy
<1>3. UNCHANGED <<grant, transaction, account, original, writes, authEvents>>
  BY DEF SetValidating, ExchangeFails, WriteRefused, FailAttempt, FinisherLost, Exchange
<1>4. PICK a \in Attempts : a = finishing[r].attempt
  BY <1>2 DEF FinisherSound
<1>5. attempt' \in [Attempts -> AttemptRecords] /\ \A b \in Attempts : AttemptMoves(b)
  <2>1. Marks(a)
    BY <1>2, <1>4 DEF Marks, FinisherSound, SetValidating, ExchangeFails, WriteRefused, FailAttempt,
                      FinisherLost, Exchange
  <2> QED  BY <1>1, <1>3, <2>1, MarkingMoves
<1>6. \E n \in FinisherRecords :
        /\ finishing' = [finishing EXCEPT ![r] = n]
        /\ \/ n.pc = "idle"
           \/ /\ n.attempt = finishing[r].attempt /\ n.session = finishing[r].session
              /\ n.pc = "writing" => n.account # NoneAuth /\ SameIdentity(finishing[r].attempt, n.account)
  <2>1. CASE finishing' = [finishing EXCEPT ![r] = NotFinishing]
    BY <2>1, IdleFinisher
  <2>2. ASSUME NEW p \in {"exchanging", "failing"}, finishing' = [finishing EXCEPT ![r].pc = p]
        PROVE  \E n \in FinisherRecords :
                 /\ finishing' = [finishing EXCEPT ![r] = n]
                 /\ n.attempt = finishing[r].attempt /\ n.session = finishing[r].session /\ n.pc = p
    <3> DEFINE n == [finishing[r] EXCEPT !.pc = p]
    <3>1. n \in FinisherRecords /\ n.attempt = finishing[r].attempt /\ n.session = finishing[r].session /\ n.pc = p
      BY <1>2 DEF FinisherRecords
    <3>2. finishing' = [finishing EXCEPT ![r] = n]
      BY <2>2
    <3> HIDE DEF n
    <3> QED  BY <3>1, <3>2
  <2>3. ASSUME NEW acc \in ProviderAccounts, Exchange(r, acc)
        PROVE  \E n \in FinisherRecords :
                 /\ finishing' = [finishing EXCEPT ![r] = n]
                 /\ n.attempt = finishing[r].attempt /\ n.session = finishing[r].session
                 /\ n.pc = "writing" => n.account # NoneAuth /\ SameIdentity(finishing[r].attempt, n.account)
    <3> DEFINE p == IF SameIdentity(a, acc) THEN "writing" ELSE "failing"
    <3> DEFINE n == [finishing[r] EXCEPT !.pc = p, !.account = acc]
    <3>1. p \in {"writing", "failing"} /\ (p = "writing" => SameIdentity(a, acc))
      OBVIOUS
    <3>2. finishing' = [finishing EXCEPT ![r].pc = p, ![r].account = acc]
      BY <1>4, <2>3 DEF Exchange
    <3> HIDE DEF p
    <3>3. /\ n \in FinisherRecords /\ n.attempt = finishing[r].attempt /\ n.session = finishing[r].session
          /\ n.pc = p /\ n.account = acc
      BY <1>2, <3>1 DEF FinisherRecords
    <3>4. finishing' = [finishing EXCEPT ![r] = n]
      BY <1>2, <3>2
    <3>5. acc # NoneAuth
      BY AuthorizationAssumption
    <3> HIDE DEF n
    <3> QED  BY <1>4, <3>1, <3>3, <3>4, <3>5
  <2>4. \/ finishing' = [finishing EXCEPT ![r] = NotFinishing]
        \/ \E p \in {"exchanging", "failing"} : finishing' = [finishing EXCEPT ![r].pc = p]
        \/ \E acc \in ProviderAccounts : Exchange(r, acc)
    BY DEF SetValidating, ExchangeFails, WriteRefused, FailAttempt, FinisherLost
  <2> QED  BY <2>1, <2>2, <2>3, <2>4
<1>7. finishing' \in [Finishers -> FinisherRecords] /\ \A q \in Finishers : FinisherMoves(q)
  BY <1>2, <1>6, OneMoves
<1>8. AuthPartsOK'
  BY <1>1, <1>3, <1>5, <1>7 DEF AuthPartsOK
<1> QED  BY <1>3, <1>5, <1>7, <1>8, MovesKeep

\* An attempt that begins has a transaction only with its row, and nobody has taken it.
LEMMA StartKeeps ==
  ASSUME AttemptsInv, NEW a \in Attempts, NEW s \in LoginSessions, NEW target \in AuthConns \cup {NoneAuth},
         StartAuthorization(a, s, target)
  PROVE  AttemptsInv'
<1>1. AuthPartsOK /\ AttemptSound(a) /\ attempt[a].status = "none"
  BY AuthTypes DEF AttemptsInv, StartAuthorization
<1>2. PICK o \in StartOutcomes :
        /\ attempt' = IF o.row = "none" THEN attempt
                      ELSE [attempt EXCEPT ![a] = [status |-> o.row, session |-> s, target |-> target, over |-> FALSE]]
        /\ transaction' = [transaction EXCEPT ![a] = o.stored]
  BY DEF StartAuthorization
<1>3. /\ o.stored \in BOOLEAN /\ o.row \in {"none", "failed", "authorization_pending"}
      /\ o.stored => o.row = "authorization_pending"
  <2>1. \/ o = [row |-> "none", stored |-> FALSE] \/ o = [row |-> "failed", stored |-> FALSE]
        \/ o = [row |-> "authorization_pending", stored |-> FALSE]
        \/ o = [row |-> "authorization_pending", stored |-> TRUE]
    BY DEF StartOutcomes
  <2>2. o.stored = FALSE \/ (o.stored = TRUE /\ o.row = "authorization_pending")
    BY <2>1
  <2>3. o.row \in {"none", "failed", "authorization_pending"}
    BY <2>1
  <2> QED  BY <2>2, <2>3
<1>4. UNCHANGED <<finishing, account, original, writes>> /\ authEvents' \in 0 .. MaxAuthEvents
  BY <1>1, AuthEventCounts DEF StartAuthorization, AuthPartsOK
<1>5. grant' \in [Grants -> GrantRecords]
  <2>1. CASE UNCHANGED grant
    BY <1>1, <2>1 DEF AuthPartsOK
  <2>2. ASSUME NEW k \in Grants, ConsumeStepUp(k, s)
        PROVE  grant' \in [Grants -> GrantRecords]
    <3>1. [grant[k] EXCEPT !.state = "gone"] \in GrantRecords
      BY <1>1 DEF AuthPartsOK, GrantRecords
    <3> QED  BY <1>1, <2>2, <3>1 DEF ConsumeStepUp, AuthPartsOK
  <2> QED  BY <2>1, <2>2 DEF StartAuthorization
<1>6. PICK n \in AttemptRecords :
        /\ attempt' = [attempt EXCEPT ![a] = n] /\ n.status # "completed"
        /\ o.stored => n.status # "none"
  <2>1. CASE o.row = "none"
    <3>1. attempt[a] \in AttemptRecords /\ attempt' = [attempt EXCEPT ![a] = attempt[a]]
      BY <1>1, <1>2, <2>1 DEF AuthPartsOK
    <3> QED  BY <1>1, <1>3, <2>1, <3>1
  <2>2. CASE o.row # "none"
    <3> DEFINE n == [status |-> o.row, session |-> s, target |-> target, over |-> FALSE]
    <3>1. n \in AttemptRecords /\ n.status = o.row
      BY <1>3 DEF AttemptRecords
    <3> QED  BY <1>2, <1>3, <2>2, <3>1
  <2> QED  BY <2>1, <2>2
<1>7. AuthPartsOK'
  BY <1>1, <1>2, <1>3, <1>4, <1>5, <1>6 DEF AuthPartsOK
<1>8. /\ attempt'[a] = n /\ transaction'[a] = o.stored
      /\ \A b \in Attempts : b # a => attempt'[b] = attempt[b] /\ transaction'[b] = transaction[b]
  BY <1>1, <1>2, <1>6 DEF AuthPartsOK
<1>9. \A b \in Attempts : AttemptSound(b)'
  BY <1>1, <1>4, <1>6, <1>8 DEF AttemptsInv, AttemptSound
<1>10. ASSUME NEW r \in Finishers
       PROVE  FinisherSound(r)'
  <2> SUFFICES ASSUME Busy(r)'
               PROVE  FinisherSound(r)'
    BY DEF FinisherSound
  <2>1. Busy(r) /\ FinisherSound(r)
    BY <1>4 DEF Busy, AttemptsInv
  <2>2. PICK b \in Attempts : b = finishing[r].attempt
    BY <2>1 DEF FinisherSound
  <2>3. b # a
    BY <1>1, <2>1, <2>2 DEF FinisherSound
  <2> QED  BY <1>4, <1>8, <2>1, <2>2, <2>3 DEF FinisherSound, Identified
<1>11. FinishersApart' /\ ReauthorizationKeepsAccount'
  BY <1>4 DEF AttemptsInv, FinishersApart, Busy, ReauthorizationKeepsAccount
<1>12. AuthorizationTypeOK'
  BY <1>7 DEF AuthorizationTypeOK, AuthPartsOK, GrantRecords, AttemptRecords, FinisherRecords, OriginalRecords
<1> QED  BY <1>9, <1>10, <1>11, <1>12 DEF AttemptsInv

\* The request that takes the transaction is the only one that ever will.
LEMMA TakingKeeps ==
  ASSUME AttemptsInv, NEW r \in Finishers, NEW a \in Attempts, NEW s \in LoginSessions, ConsumeTransaction(r, a, s)
  PROVE  AttemptsInv'
<1> DEFINE n == [NotFinishing EXCEPT !.pc = "taken", !.attempt = a, !.session = s]
<1>1. AuthPartsOK /\ AttemptSound(a)
  BY AuthTypes DEF AttemptsInv
<1>2. /\ finishing' = [finishing EXCEPT ![r] = n] /\ transaction' = [transaction EXCEPT ![a] = FALSE]
      /\ UNCHANGED <<grant, attempt, account, original, writes>> /\ authEvents' \in 0 .. MaxAuthEvents
      /\ transaction[a] /\ attempt[a].session = s
  BY <1>1, AuthEventCounts DEF ConsumeTransaction, Taken, AuthPartsOK
<1>3. n \in FinisherRecords /\ n.pc = "taken" /\ n.attempt = a /\ n.session = s
  BY DEF NotFinishing, FinisherRecords
<1> HIDE DEF n
<1>4. AuthPartsOK'
  BY <1>1, <1>2, <1>3 DEF AuthPartsOK
<1>5. finishing'[r] = n /\ \A q \in Finishers : q # r => finishing'[q] = finishing[q]
  BY <1>1, <1>2 DEF AuthPartsOK
<1>6. ~transaction'[a] /\ \A b \in Attempts : transaction'[b] => transaction[b]
  BY <1>1, <1>2 DEF AuthPartsOK
<1>7. \A q \in Finishers : Busy(q) => finishing[q].attempt # a
  BY <1>2 DEF AttemptsInv, FinisherSound
<1>8. \A b \in Attempts : AttemptSound(b)'
  BY <1>2, <1>6 DEF AttemptsInv, AttemptSound
<1>9. ASSUME NEW q \in Finishers
      PROVE  FinisherSound(q)'
  <2>1. CASE q = r
    BY <1>1, <1>2, <1>3, <1>5, <1>6, <2>1 DEF FinisherSound, AttemptSound
  <2>2. CASE q # r
    <3>1. FinisherSound(q) /\ finishing'[q] = finishing[q]
      BY <1>5, <2>2 DEF AttemptsInv
    <3> QED  BY <1>2, <1>6, <3>1 DEF FinisherSound, Identified, Busy
  <2> QED  BY <2>1, <2>2
<1>10. FinishersApart'
  BY <1>3, <1>5, <1>7 DEF AttemptsInv, FinishersApart, Busy
<1>11. ReauthorizationKeepsAccount'
  BY <1>2 DEF AttemptsInv, ReauthorizationKeepsAccount
<1>12. AuthorizationTypeOK'
  BY <1>4 DEF AuthorizationTypeOK, AuthPartsOK, GrantRecords, AttemptRecords, FinisherRecords, OriginalRecords
<1> QED  BY <1>8, <1>9, <1>10, <1>11, <1>12 DEF AttemptsInv

\* A connection is written in the name of an attempt that is open: the attempt is then
\* completed, and the connection has the account it was made for.
LEMMA WritingKeeps ==
  ASSUME AttemptsInv, NEW r \in Finishers, NEW c \in AuthConns, finishing[r].pc = "writing",
         Completes(finishing[r].attempt), Written(r, c), UNCHANGED <<grant, transaction, authEvents>>,
         \/ attempt[finishing[r].attempt].target = c
         \/ original[c].account = NoneAuth
  PROVE  AttemptsInv'
<1>1. AuthPartsOK /\ FinisherSound(r) /\ Busy(r)
  BY AuthTypes DEF AttemptsInv, Busy
<1>2. PICK a \in Attempts : a = finishing[r].attempt
  BY <1>1 DEF FinisherSound
<1>3. PICK acc \in ProviderAccounts : acc = finishing[r].account
  BY <1>1 DEF FinisherSound, Identified, AuthPartsOK, FinisherRecords
<1>4. original[c].account \in {NoneAuth, acc} /\ original[c] \in OriginalRecords /\ acc # NoneAuth
  BY <1>1, <1>2, <1>3, AuthorizationAssumption DEF FinisherSound, Identified, AuthPartsOK
<1>5. PICK o \in OriginalRecords : o.account = acc /\ original' = [original EXCEPT ![c] = o]
                                   /\ (original[c].account # NoneAuth => o = original[c])
  <2>1. CASE original[c].account # NoneAuth
    <3>1. original' = [original EXCEPT ![c] = original[c]]
      BY <2>1 DEF Written
    <3> QED  BY <1>4, <2>1, <3>1
  <2>2. CASE original[c].account = NoneAuth
    <3> DEFINE o == [account |-> acc, method |-> AttemptMethod[a]]
    <3>1. o \in OriginalRecords /\ o.account = acc
      BY AuthorizationAssumption DEF OriginalRecords
    <3>2. original' = [original EXCEPT ![c] = o]
      BY <1>2, <1>3, <2>2 DEF Written
    <3> QED  BY <2>2, <3>1, <3>2
  <2> QED  BY <2>1, <2>2
<1>6. PICK n \in AttemptRecords :
        /\ attempt' = [attempt EXCEPT ![a] = n]
        /\ n.status = "completed" /\ n.session = attempt[a].session /\ n.target = attempt[a].target
  <2> DEFINE n == [attempt[a] EXCEPT !.status = "completed"]
  <2>1. attempt[a] \in AttemptRecords
    BY <1>1 DEF AuthPartsOK
  <2>2. /\ n \in AttemptRecords
        /\ n.status = "completed" /\ n.session = attempt[a].session /\ n.target = attempt[a].target
    BY <2>1 DEF AttemptRecords
  <2>3. attempt' = [attempt EXCEPT ![a] = n]
    BY <1>2 DEF Written
  <2> HIDE DEF n
  <2> QED  BY <2>2, <2>3
<1>7. /\ attempt'[a] = n /\ (\A b \in Attempts : b # a => attempt'[b] = attempt[b])
      /\ original'[c] = o /\ (\A d \in AuthConns : d # c => original'[d] = original[d])
  BY <1>1, <1>5, <1>6 DEF AuthPartsOK
<1>8. /\ account' = [account EXCEPT ![c] = acc] /\ finishing' = [finishing EXCEPT ![r] = NotFinishing]
      /\ writes' = [writes EXCEPT ![a] = writes[a] + 1]
  BY <1>2, <1>3 DEF Written
<1>9. writes[a] = 0 /\ writes'[a] = 1
  <2>1. attempt[a].status # "completed" /\ AttemptSound(a)
    BY <1>1, <1>2 DEF FinisherSound, AttemptsInv
  <2>2. writes[a] = 0
    BY <2>1 DEF AttemptSound
  <2> QED  BY <1>1, <1>8, <2>2 DEF AuthPartsOK
<1>10. AuthPartsOK'
  <2>1. writes' \in [Attempts -> Nat]
    BY <1>1, <1>8, <1>9 DEF AuthPartsOK
  <2> QED  BY <1>1, <1>5, <1>6, <1>8, <2>1, IdleFinisher DEF AuthPartsOK
<1>11. ASSUME NEW b \in Attempts
       PROVE  AttemptSound(b)'
  <2>1. CASE b = a
    BY <1>1, <1>2, <1>6, <1>7, <1>9, <2>1 DEF AttemptSound, FinisherSound
  <2>2. CASE b # a
    <3>1. attempt'[b] = attempt[b] /\ writes'[b] = writes[b] /\ AttemptSound(b)
      BY <1>1, <1>7, <1>8, <2>2 DEF AuthPartsOK, AttemptsInv
    <3> QED  BY <3>1 DEF AttemptSound
  <2> QED  BY <2>1, <2>2
<1>12. ~Busy(r)' /\ \A q \in Finishers : q # r => finishing'[q] = finishing[q]
  BY <1>1, <1>8, IdleFinisher DEF AuthPartsOK, Busy
<1>13. ASSUME NEW q \in Finishers
       PROVE  FinisherSound(q)'
  <2> SUFFICES ASSUME Busy(q)'
               PROVE  FinisherSound(q)'
    BY DEF FinisherSound
  <2>1. q # r /\ finishing'[q] = finishing[q] /\ Busy(q) /\ FinisherSound(q)
    BY <1>12 DEF Busy, AttemptsInv
  <2>2. PICK b \in Attempts : b = finishing[q].attempt
    BY <2>1 DEF FinisherSound
  <2>3. b # a
    BY <1>1, <1>2, <2>1, <2>2 DEF AttemptsInv, FinishersApart
  <2>4. attempt'[b] = attempt[b]
    BY <1>7, <2>3
  <2>5. ASSUME finishing[q].pc = "writing"
        PROVE  Identified(q)'
    <3>1. PICK t \in AuthConns \cup {NoneAuth} : t = attempt[b].target
      BY <1>1 DEF AuthPartsOK, AttemptRecords
    <3>2. finishing[q].account # NoneAuth /\ (t # NoneAuth => original[t].account = finishing[q].account)
      BY <2>1, <2>2, <2>5, <3>1 DEF FinisherSound, Identified
    <3>3. t # NoneAuth => original'[t] = original[t]
      <4>1. CASE t = c
        BY <1>5, <1>7, <3>2, <4>1
      <4>2. CASE t # c
        BY <1>7, <4>2
      <4> QED  BY <4>1, <4>2
    <3> QED  BY <2>1, <2>2, <2>4, <3>1, <3>2, <3>3 DEF Identified
  <2> QED  BY <2>1, <2>2, <2>4, <2>5 DEF FinisherSound
<1>14. FinishersApart'
  BY <1>12 DEF AttemptsInv, FinishersApart, Busy
<1>15. ReauthorizationKeepsAccount'
  <2> SUFFICES ASSUME NEW d \in AuthConns
               PROVE  account'[d] \in {NoneAuth, original'[d].account}
    BY DEF ReauthorizationKeepsAccount
  <2>1. CASE d = c
    BY <1>1, <1>5, <1>7, <1>8, <2>1 DEF AuthPartsOK
  <2>2. CASE d # c
    BY <1>1, <1>7, <1>8, <2>2 DEF AuthPartsOK, AttemptsInv, ReauthorizationKeepsAccount
  <2> QED  BY <2>1, <2>2
<1>16. AuthorizationTypeOK'
  BY <1>10 DEF AuthorizationTypeOK, AuthPartsOK, GrantRecords, AttemptRecords, FinisherRecords, OriginalRecords
<1> QED  BY <1>11, <1>13, <1>14, <1>15, <1>16 DEF AttemptsInv

LEMMA AttemptsStep ==
  AttemptsInv /\ [AuthorizationNext]_authVars => AttemptsInv'
<1> SUFFICES ASSUME AttemptsInv, [AuthorizationNext]_authVars
             PROVE  AttemptsInv'
  OBVIOUS
<1>0. AuthPartsOK
  BY AuthTypes DEF AttemptsInv
<1>1. ASSUME NEW k \in Grants, StepUpExpires(k) \/ \E s \in LoginSessions : PutStepUp(k, s)
      PROVE  AttemptsInv'
  <2>1. UNCHANGED <<attempt, transaction, finishing, account, original, writes>>
    BY <1>1 DEF StepUpExpires, PutStepUp
  <2>2. grant' \in [Grants -> GrantRecords] /\ authEvents' \in 0 .. MaxAuthEvents
    <3>1. CASE StepUpExpires(k)
      <4>1. [grant[k] EXCEPT !.state = "gone"] \in GrantRecords
        BY <1>0 DEF AuthPartsOK, GrantRecords
      <4> QED  BY <1>0, <3>1, <4>1 DEF StepUpExpires, AuthPartsOK
    <3>2. ASSUME NEW s \in LoginSessions, PutStepUp(k, s)
          PROVE  grant' \in [Grants -> GrantRecords] /\ authEvents' \in 0 .. MaxAuthEvents
      <4>1. [state |-> "live", session |-> s] \in GrantRecords
        BY DEF GrantRecords
      <4> QED  BY <1>0, <3>2, <4>1, AuthEventCounts DEF PutStepUp, AuthPartsOK
    <3> QED  BY <1>1, <3>1, <3>2
  <2>3. AuthPartsOK'
    BY <1>0, <2>1, <2>2 DEF AuthPartsOK
  <2> QED  BY <2>1, <2>3, AttemptsStay, FinishersStay, MovesKeep
<1>2. ASSUME NEW a \in Attempts,
             WindowEnds(a) \/ PollExpires(a) \/ \E s \in LoginSessions : CancelAuthorization(a, s)
      PROVE  AttemptsInv'
  <2>1. UNCHANGED <<grant, finishing, account, original, writes>> /\ authEvents' \in 0 .. MaxAuthEvents
    BY <1>0, <1>2, AuthEventCounts DEF WindowEnds, PollExpires, CancelAuthorization, AuthPartsOK
  <2>2. Marks(a)
    BY <1>2 DEF Marks, WindowEnds, PollExpires, CancelAuthorization, Pending
  <2>3. transaction' = transaction \/ transaction' = [transaction EXCEPT ![a] = FALSE]
    BY <1>2 DEF WindowEnds, PollExpires, CancelAuthorization
  <2>4. /\ attempt' \in [Attempts -> AttemptRecords] /\ transaction' \in [Attempts -> BOOLEAN]
        /\ \A b \in Attempts : AttemptMoves(b)
    BY <1>0, <2>2, <2>3, MarkingMoves
  <2>5. AuthPartsOK'
    BY <1>0, <2>1, <2>4 DEF AuthPartsOK
  <2> QED  BY <2>1, <2>4, <2>5, FinishersStay, MovesKeep
<1>3. ASSUME NEW a \in Attempts, NEW s \in LoginSessions, NEW c \in AuthConns \cup {NoneAuth},
             StartAuthorization(a, s, c)
      PROVE  AttemptsInv'
  BY <1>3, StartKeeps
<1>4. ASSUME NEW r \in Finishers,
             \/ SetValidating(r) \/ ExchangeFails(r) \/ WriteRefused(r) \/ FailAttempt(r) \/ FinisherLost(r)
             \/ \E acc \in ProviderAccounts : Exchange(r, acc)
      PROVE  AttemptsInv'
  BY <1>4, FinisherStepMoves
<1>5. ASSUME NEW r \in Finishers, NEW a \in Attempts, NEW s \in LoginSessions, ConsumeTransaction(r, a, s)
      PROVE  AttemptsInv'
  BY <1>5, TakingKeeps
<1>6. ASSUME NEW r \in Finishers, NEW c \in AuthConns, CreateAuthorized(r, c)
      PROVE  AttemptsInv'
  BY <1>6, WritingKeeps DEF CreateAuthorized
<1>7. ASSUME NEW r \in Finishers, ReplaceAuthorized(r)
      PROVE  AttemptsInv'
  <2>1. PICK a \in Attempts : a = finishing[r].attempt
    BY <1>7 DEF ReplaceAuthorized, AttemptsInv, FinisherSound, Busy
  <2>2. PICK c \in AuthConns : c = attempt[a].target
    BY <1>0, <1>7, <2>1 DEF ReplaceAuthorized, AuthPartsOK, AttemptRecords
  <2> QED  BY <1>7, <2>1, <2>2, WritingKeeps DEF ReplaceAuthorized
<1>8. ASSUME NEW c \in AuthConns, AuthorizedDeleted(c)
      PROVE  AttemptsInv'
  <2>1. /\ UNCHANGED <<grant, attempt, transaction, finishing, original, writes>>
        /\ account' = [account EXCEPT ![c] = NoneAuth] /\ authEvents' \in 0 .. MaxAuthEvents
    BY <1>0, <1>8, AuthEventCounts DEF AuthorizedDeleted, AuthPartsOK
  <2>2. AuthPartsOK' /\ \A d \in AuthConns : account'[d] \in {account[d], NoneAuth}
    BY <1>0, <2>1 DEF AuthPartsOK
  <2> QED  BY <2>1, <2>2, AttemptsStay, FinishersStay, MovesKeep
<1>9. CASE UNCHANGED authVars
  <2>1. UNCHANGED <<grant, attempt, transaction, finishing, account, original, writes, authEvents>>
    BY <1>9 DEF authVars
  <2>2. AuthPartsOK'
    BY <1>0, <2>1 DEF AuthPartsOK
  <2> QED  BY <2>1, <2>2, AttemptsStay, FinishersStay, MovesKeep
<1> QED  BY <1>1, <1>2, <1>3, <1>4, <1>5, <1>6, <1>7, <1>8, <1>9 DEF AuthorizationNext

LEMMA AttemptsInitial == AuthorizationInit => AttemptsInv
<1> SUFFICES ASSUME AuthorizationInit
             PROVE  AttemptsInv
  OBVIOUS
<1> USE DEF AuthorizationInit
<1>1. 0 \in 0 .. MaxAuthEvents /\ 0 \in Nat
  BY AuthorizationAssumption
<1>2. /\ [status |-> "none", session |-> NoneAuth, target |-> NoneAuth, over |-> FALSE] \in AttemptRecords
      /\ [state |-> "none", session |-> NoneAuth] \in GrantRecords
      /\ [account |-> NoneAuth, method |-> "none"] \in OriginalRecords
  BY DEF AttemptRecords, GrantRecords, OriginalRecords
<1>3. AuthPartsOK
  BY <1>1, <1>2, IdleFinisher DEF AuthPartsOK
<1>4. \A a \in Attempts : AttemptSound(a)
  BY DEF AttemptSound
<1>5. (\A r \in Finishers : FinisherSound(r)) /\ FinishersApart
  BY IdleFinisher DEF FinisherSound, FinishersApart, Busy
<1>6. ReauthorizationKeepsAccount
  BY DEF ReauthorizationKeepsAccount
<1> QED  BY <1>3, <1>4, <1>5, <1>6, AuthTypes DEF AttemptsInv

\* The inductive invariant holds.
THEOREM AttemptsInvariant == AuthorizationSpec => []AttemptsInv
<1> QED  BY AttemptsInitial, AttemptsStep, PTL DEF AuthorizationSpec

\* The attempts, their transactions and the requests that finish them keep their types.
THEOREM AuthorizationTypesHold == AuthorizationSpec => []AuthorizationTypeOK
<1>1. AttemptsInv => AuthorizationTypeOK
  BY DEF AttemptsInv
<1> QED  BY <1>1, AttemptsInvariant, PTL

\* An attempt writes one connection when it is completed and none otherwise, and only
\* the session that started it finishes it (consumeBoundAuthorizationScript,
\* completeAIAuthorizationAttemptTx).
THEOREM OneConnectionForAnAttempt == AuthorizationSpec => []AttemptMakesOneConnection
<1>1. AttemptsInv => AttemptMakesOneConnection
  BY DEF AttemptsInv, AttemptSound, FinisherSound, Busy, AttemptMakesOneConnection
<1> QED  BY <1>1, AttemptsInvariant, PTL

\* A connection keeps the account it was made for, however often it is authorized again
\* (verifyReauthorizationIdentity).
THEOREM AccountsAreKept == AuthorizationSpec => []ReauthorizationKeepsAccount
<1>1. AttemptsInv => ReauthorizationKeepsAccount
  BY DEF AttemptsInv
<1> QED  BY <1>1, AttemptsInvariant, PTL
=============================================================================
