---------------------------- MODULE ClientDevices ----------------------------
(***************************************************************************)
(* The pairing of an official-client connector and its signed requests.    *)
(*                                                                         *)
(* An installation that shows the pairing code of a pending connector      *)
(* registers its public key and is given a device token.  From then on it  *)
(* signs every request with the time of its own clock and a fresh nonce.   *)
(* The network may lose, delay and repeat requests.  The server accepts a  *)
(* signature within MaxSkew of its own clock and remembers the nonce in    *)
(* Redis for NonceTime; the two checks of a handler are MaxGap apart at    *)
(* most.  What claims and completions then do is the subject of module     *)
(* ClientTasks.                                                            *)
(***************************************************************************)
EXTENDS Integers, FiniteSets

CONSTANTS
  Installs,    \* installations of the connector program
  NoInstall,   \* no public key
  Requests,    \* signed requests, told apart by their nonces
  Verifiers,   \* handlers of signed requests
  Offsets,     \* how far the clock of an installation may be ahead of the server's
  MaxSkew,     \* MaximumClockSkew
  NonceTime,   \* time to live of a nonce
  MaxGap,      \* bound on the time between the two checks of a handler
  PairingTime, \* life of a pairing code
  MaxDTime,    \* bound on the clock
  MaxDEvents   \* bound on suspensions and reinstatements of the owner

ASSUME DevicesAssumption ==
  /\ NoInstall \notin Installs /\ Requests # {}
  /\ MaxSkew \in Nat /\ MaxGap \in Nat /\ PairingTime \in Nat
  /\ MaxDTime \in Nat /\ MaxDEvents \in Nat
  /\ NonceTime = 2 * MaxSkew
  /\ Offsets \subseteq Int

VARIABLES
  link,        \* the ai_client_connectors row
  install,     \* installations with a saved configuration
  ownerActive, \* user, workspace and membership are active
  packet,      \* requests that were signed, with the time they name
  verifier,    \* handlers between the two checks, and after them
  nonceUntil,  \* nonces in Redis, 0 for none
  acted,       \* how often a request passed both checks (history)
  held,        \* requests that acted again after a handler had checked their time
               \* while the nonce was there (history)
  dtime,
  dEvents

deviceVars == <<link, install, ownerActive, packet, verifier, nonceUntil, acted, held, dtime, dEvents>>

Unsent == [by |-> NoInstall, ts |-> 0, ahead |-> 0]
NoVerifier == [pc |-> "idle", request |-> CHOOSE n \in Requests : TRUE, at |-> 0]

DevicesTypeOK ==
  /\ link \in [status : {"none", "pending", "active", "revoked"}, codeUntil : 0 .. MaxDTime + PairingTime,
               key : Installs \cup {NoInstall}, online : BOOLEAN]
  /\ install \subseteq Installs
  /\ ownerActive \in BOOLEAN
  /\ packet \in [Requests -> [by : Installs \cup {NoInstall}, ts : Int, ahead : Int]]
  /\ verifier \in [Verifiers -> [pc : {"idle", "verified", "admitted"}, request : Requests, at : 0 .. MaxDTime]]
  /\ nonceUntil \in [Requests -> 0 .. MaxDTime + NonceTime]
  /\ acted \in [Requests -> Nat] /\ held \subseteq Requests
  /\ dtime \in 0 .. MaxDTime /\ dEvents \in 0 .. MaxDEvents

DevicesInit ==
  /\ link = [status |-> "none", codeUntil |-> 0, key |-> NoInstall, online |-> FALSE]
  /\ install = {} /\ ownerActive = TRUE
  /\ packet = [n \in Requests |-> Unsent]
  /\ verifier = [v \in Verifiers |-> NoVerifier]
  /\ nonceUntil = [n \in Requests |-> 0]
  /\ acted = [n \in Requests |-> 0] /\ held = {}
  /\ dtime = 0 /\ dEvents = 0

-----------------------------------------------------------------------------
(* Pairing. *)

\* CreateAIClientConnector: a row and its pairing code.
PendingLink == [link EXCEPT !.status = "pending", !.codeUntil = dtime + PairingTime]

\* createAIClientConnector, for an active owner.
CreateAIClientConnector ==
  /\ link.status = "none" /\ ownerActive
  /\ link' = PendingLink
  /\ UNCHANGED <<install, ownerActive, packet, verifier, nonceUntil, acted, held, dtime, dEvents>>

\* The code holds until its time is over, and for one installation.
CodeHolds == link.status = "pending" /\ dtime < link.codeUntil

\* PairAIClientConnector: one update takes the code and stores the key.
PairedLink(i) == [link EXCEPT !.status = "active", !.codeUntil = 0, !.key = i, !.online = TRUE]

\* pairAIClientConnector
PairAIClientConnector(i) == CodeHolds /\ ownerActive /\ link' = PairedLink(i)

\* Pair, on the installation: the answer with the device token may be lost, or the
\* program end before it is saved.
Pair(i) ==
  /\ PairAIClientConnector(i)
  /\ install' \in {install, install \cup {i}}
  /\ UNCHANGED <<ownerActive, packet, verifier, nonceUntil, acted, held, dtime, dEvents>>

\* RevokeAIClientConnector: token, key and code go.
RevokedLink == [link EXCEPT !.status = "revoked", !.codeUntil = 0, !.key = NoInstall, !.online = FALSE]

RevokeAIClientConnector ==
  /\ link.status \in {"pending", "active"}
  /\ link' = RevokedLink
  /\ UNCHANGED <<install, ownerActive, packet, verifier, nonceUntil, acted, held, dtime, dEvents>>

\* MaintainAIClientState: a code nobody used in time.
ExpirePairing ==
  /\ link.status = "pending" /\ link.codeUntil <= dtime
  /\ link' = RevokedLink
  /\ UNCHANGED <<install, ownerActive, packet, verifier, nonceUntil, acted, held, dtime, dEvents>>

-----------------------------------------------------------------------------
(* Signed requests. *)

\* signedJSONStatus: a fresh nonce, the installation's own time.
SignRequest(i, n, ahead) ==
  /\ i \in install /\ packet[n] = Unsent
  /\ packet' = [packet EXCEPT ![n] = [by |-> i, ts |-> dtime + ahead, ahead |-> ahead]]
  /\ UNCHANGED <<link, install, ownerActive, verifier, nonceUntil, acted, held, dtime, dEvents>>

\* AuthenticateAIClientConnector: the token belongs to an active connector of an active
\* owner.
Authenticates(n) == packet[n].by # NoInstall /\ link.status = "active" /\ link.key = packet[n].by /\ ownerActive

\* The time a request names lies within MaximumClockSkew of now, on either side.
InTime(n) == packet[n].ts >= dtime - MaxSkew /\ packet[n].ts <= dtime + MaxSkew

\* signedAIClientConnector, the signature.  A request that fails is answered 401.
VerifyRequest(v, n) ==
  /\ verifier[v].pc = "idle" /\ Authenticates(n) /\ InTime(n)
  /\ verifier' = [verifier EXCEPT ![v] = [pc |-> "verified", request |-> n, at |-> dtime]]
  /\ UNCHANGED <<link, install, ownerActive, packet, nonceUntil, acted, held, dtime, dEvents>>

\* Mutant: a nonce is kept for the skew, not for the whole window.
NonceLifeSkew == MaxSkew

NonceLife == NonceTime

\* UseOfficialClientNonce: set if absent.
UseOfficialClientNonce(v) ==
  LET n == verifier[v].request
  IN /\ verifier[v].pc = "verified"
     /\ IF nonceUntil[n] > dtime
        THEN /\ verifier' = [verifier EXCEPT ![v] = NoVerifier]
             /\ UNCHANGED <<nonceUntil, acted, held>>
        ELSE /\ nonceUntil' = [nonceUntil EXCEPT ![n] = dtime + NonceLife]
             /\ acted' = [acted EXCEPT ![n] = @ + 1]
             /\ held' = IF acted[n] > 0 /\ verifier[v].at <= nonceUntil[n] THEN held \cup {n} ELSE held
             /\ verifier' = [verifier EXCEPT ![v].pc = "admitted"]
     /\ UNCHANGED <<link, install, ownerActive, packet, dtime, dEvents>>

\* HeartbeatAIClientConnector: the row is looked at again.
SeenLink == [link EXCEPT !.online = @ \/ link.status = "active"]

\* heartbeatAIClientConnector
HeartbeatAIClientConnector(v) ==
  /\ verifier[v].pc = "admitted"
  /\ link' = SeenLink
  /\ verifier' = [verifier EXCEPT ![v] = NoVerifier]
  /\ UNCHANGED <<install, ownerActive, packet, nonceUntil, acted, held, dtime, dEvents>>

\* A claim, a completion or the question whether a lease holds; Redis is down; the
\* server ends.
VerifierEnds(v) ==
  /\ verifier[v].pc # "idle"
  /\ verifier' = [verifier EXCEPT ![v] = NoVerifier]
  /\ UNCHANGED <<link, install, ownerActive, packet, nonceUntil, acted, held, dtime, dEvents>>

\* connector.Online ends when no heartbeat came for a while.
GoesQuiet ==
  /\ link.online
  /\ link' = [link EXCEPT !.online = FALSE]
  /\ UNCHANGED <<install, ownerActive, packet, verifier, nonceUntil, acted, held, dtime, dEvents>>

-----------------------------------------------------------------------------
\* The owner is suspended or comes back (modules Accounts and Tenancy).
OwnerChanges ==
  /\ dEvents < MaxDEvents /\ dEvents' = dEvents + 1
  /\ ownerActive' = ~ownerActive
  /\ UNCHANGED <<link, install, packet, verifier, nonceUntil, acted, held, dtime>>

DeviceTick ==
  /\ dtime < MaxDTime /\ dtime' = dtime + 1
  /\ \A v \in Verifiers : verifier[v].pc = "verified" => dtime < verifier[v].at + MaxGap
  /\ UNCHANGED <<link, install, ownerActive, packet, verifier, nonceUntil, acted, held, dEvents>>

DevicesNext ==
  \/ CreateAIClientConnector \/ RevokeAIClientConnector \/ ExpirePairing
  \/ GoesQuiet \/ OwnerChanges \/ DeviceTick
  \/ \E i \in Installs : \/ Pair(i)
                         \/ \E n \in Requests, ahead \in Offsets : SignRequest(i, n, ahead)
  \/ \E v \in Verifiers : \/ UseOfficialClientNonce(v) \/ HeartbeatAIClientConnector(v) \/ VerifierEnds(v)
                          \/ \E n \in Requests : VerifyRequest(v, n)

DevicesSpec == DevicesInit /\ [][DevicesNext]_deviceVars

-----------------------------------------------------------------------------
(* Properties. *)

\* However often the network repeats a signed request and whatever the clocks say, it acts
\* again only through a handler that had found it in time before its nonce ended and
\* looked for the nonce when it was gone; and it acts once if the clock that signed it is
\* not at the edge of what the server accepts (signedAIClientConnector, VerifyRequest,
\* UseOfficialClientNonce).
SignedRequestActsOnce ==
  \A n \in Requests : /\ acted[n] <= 1 \/ n \in held
                      /\ packet[n].ahead + MaxGap < MaxSkew => acted[n] <= 1
=============================================================================
