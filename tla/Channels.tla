------------------------------ MODULE Channels ------------------------------
(***************************************************************************)
(* Channels (upstream services with a stored credential) and the gateways  *)
(* that list them as upstreams.  Platform channels are kept by             *)
(* administrators, private ones by the members of an organization.         *)
(*                                                                         *)
(* The transactions that change channels lock the rows they change, so     *)
(* each is one step.  Two operations read first and write in a later       *)
(* statement: the rotation of a platform credential and the choice of a    *)
(* gateway's upstreams.                                                    *)
(***************************************************************************)
EXTENDS Naturals, FiniteSets

CONSTANTS
  Chans,     \* channel ids
  ChanOrg,   \* "platform", or the organization of a private channel
  Fronts,    \* gateway ids
  FrontOrg,  \* the organization of a gateway
  MaxChannelWrites  \* bound on the operations on channels and their owner

ChannelOrgs == {"personal", "team"}

ASSUME ChannelsAssumption ==
  /\ ChanOrg \in [Chans -> ChannelOrgs \cup {"platform"}]
  /\ FrontOrg \in [Fronts -> ChannelOrgs]
  /\ MaxChannelWrites \in Nat

Platform == {c \in Chans : ChanOrg[c] = "platform"}
Private == Chans \ Platform

VARIABLES
  channel,   \* channels and channel_credentials
  upstream,  \* gateway_upstreams
  front,     \* the status of a gateway; its keys are in module Tenancy
  rotation,  \* rotations of a credential that have seen their channel
  choice,    \* gateway writes that have checked the channels they name
  owner,     \* the person whose private channels these are, and whose plan counts
  channelWrites

channelVars == <<channel, upstream, front, rotation, choice, owner, channelWrites>>

\* proven: a probe has found the channel working since it last pointed elsewhere
\* (history).  A secret or an upstream is "late" when the request that wrote it
\* had checked the channel before it was switched off (history).
ChannelRows == [status : {"none", "unknown", "healthy", "down", "disabled", "deleted"},
                open : BOOLEAN, secret : {"none", "live", "scrubbed", "late"}, proven : BOOLEAN]

ChannelsTypeOK ==
  /\ channel \in [Chans -> ChannelRows]
  /\ upstream \in [Fronts -> [Chans -> {"absent", "on", "off", "late"}]]
  /\ front \in [Fronts -> {"none", "active", "paused", "deleted"}]
  /\ rotation \in [Chans -> {"none", "checked", "overtaken"}]
  /\ choice \in [Fronts -> [pc : {"none", "checked"}, names : SUBSET Chans, stale : SUBSET Chans]]
  /\ owner \in [status : {"active", "deleted"}, vip : BOOLEAN]
  /\ channelWrites \in 0 .. MaxChannelWrites

NoChoice == [pc |-> "none", names |-> {}, stale |-> {}]

ChannelsInit ==
  /\ channel = [c \in Chans |-> [status |-> "none", open |-> FALSE, secret |-> "none", proven |-> FALSE]]
  /\ upstream = [g \in Fronts |-> [c \in Chans |-> "absent"]]
  /\ front = [g \in Fronts |-> "none"]
  /\ rotation = [c \in Chans |-> "none"]
  /\ choice = [g \in Fronts |-> NoChoice]
  /\ owner = [status |-> "active", vip |-> TRUE]
  /\ channelWrites = 0

-----------------------------------------------------------------------------
(* Rows. *)

ChannelWrite == channelWrites < MaxChannelWrites /\ channelWrites' = channelWrites + 1

Present(c) == channel[c].status \notin {"none", "deleted"}

\* update gateway_upstreams set enabled=false where channel_id = any(S).
UpstreamsOff(S) ==
  [g \in Fronts |-> [c \in Chans |-> IF c \in S /\ upstream[g][c] # "absent" THEN "off" ELSE upstream[g][c]]]

\* Gateway writes that have already checked a channel of S no longer know it.
ChoicesOvertaken(S) ==
  [g \in Fronts |-> [choice[g] EXCEPT !.stale = @ \cup (S \cap choice[g].names)]]

RotationsOvertaken(S) ==
  [c \in Chans |-> IF c \in S /\ rotation[c] = "checked" THEN "overtaken" ELSE rotation[c]]

\* The upstreams of the channels in S are switched off with them.
Close(S) ==
  /\ upstream' = UpstreamsOff(S)
  /\ choice' = ChoicesOvertaken(S)

DisabledRow(row) == [row EXCEPT !.status = "disabled", !.open = FALSE]
DeletedRow(row) == [row EXCEPT !.status = "deleted", !.open = FALSE,
                               !.secret = IF @ = "none" THEN @ ELSE "scrubbed"]

\* A channel with a fresh credential that nobody has probed.
FreshRow(enabled, open) ==
  [status |-> IF enabled THEN "unknown" ELSE "disabled", open |-> open, secret |-> "live", proven |-> FALSE]

-----------------------------------------------------------------------------
(* Platform channels. *)

\* All of them or none.
CreatePlatformChannels(S) ==
  /\ ChannelWrite
  /\ S # {} /\ \A c \in S : channel[c].status = "none"
  /\ \E enabled, open \in BOOLEAN :
       channel' = [c \in Chans |-> IF c \in S THEN FreshRow(enabled, open) ELSE channel[c]]
  /\ UNCHANGED <<upstream, front, rotation, choice, owner>>

\* The credential stays.
UpdatePlatformChannel(c, enabled, open) ==
  /\ ChannelWrite
  /\ Present(c)
  /\ channel' = [channel EXCEPT ![c].open = open,
       ![c].status = IF ~enabled THEN "disabled" ELSE IF @ = "disabled" THEN "unknown" ELSE @]
  /\ IF enabled /\ open THEN UNCHANGED <<upstream, choice>> ELSE Close({c})
  /\ UNCHANGED <<front, rotation, owner>>

\* RotatePlatformCredential looks for the channel in a statement of its own ...
SeeChannelToRotate(c) ==
  /\ Present(c) /\ rotation[c] = "none"
  /\ rotation' = [rotation EXCEPT ![c] = "checked"]
  /\ UNCHANGED <<channel, upstream, front, choice, owner, channelWrites>>

\* ... and upsertPlatformCredentialTx writes whatever became of it; the request may
\* also fail in between.
RotatePlatformCredential(c) ==
  /\ rotation[c] # "none"
  /\ rotation' = [rotation EXCEPT ![c] = "none"]
  /\ \/ channel' = [channel EXCEPT ![c].secret = IF rotation[c] = "overtaken" /\ ~Present(c)
                                                  THEN "late" ELSE "live"]
     \/ channel' = channel
  /\ UNCHANGED <<upstream, front, choice, owner, channelWrites>>

\* ImportPlatformChannels, for a CSV file or the synchronization interface of another
\* installation: a row creates a channel, changes one, or brings a deleted one back,
\* always with a fresh credential; an imported snapshot gives it a status.  A row with
\* the id of a private channel, or without a key, undoes the whole import.
ImportPlatformChannels(S, enabled, open, status) ==
  /\ ChannelWrite
  /\ S # {}
  /\ channel' = [c \in Chans |-> IF c \in S
       THEN [FreshRow(enabled, open) EXCEPT !.status = IF enabled THEN status ELSE @, !.proven = status = "healthy"]
       ELSE channel[c]]
  /\ IF enabled /\ open THEN UNCHANGED <<upstream, choice>> ELSE Close(S)
  /\ UNCHANGED <<front, rotation, owner>>

\* All of them or none.
BulkDisablePlatformChannels(S) ==
  /\ ChannelWrite
  /\ S # {} /\ \A c \in S : Present(c)
  /\ channel' = [c \in Chans |-> IF c \in S THEN DisabledRow(channel[c]) ELSE channel[c]]
  /\ Close(S)
  /\ UNCHANGED <<front, rotation, owner>>

\* BulkEnablePlatformChannels: the upstreams stay as they are.
BulkEnablePlatformChannels(S) ==
  /\ ChannelWrite
  /\ S # {} /\ \A c \in S : Present(c)
  /\ channel' = [c \in Chans |-> IF c \in S
       THEN [channel[c] EXCEPT !.open = TRUE, !.status = IF @ = "disabled" THEN "unknown" ELSE @]
       ELSE channel[c]]
  /\ UNCHANGED <<upstream, front, rotation, choice, owner>>

DisablePlatformChannel(c) == BulkDisablePlatformChannels({c})

\* The rows, their upstreams and their credentials in one transaction.
DeleteChannels(S) ==
  /\ ChannelWrite
  /\ S # {} /\ \A c \in S : Present(c)
  /\ channel' = [c \in Chans |-> IF c \in S THEN DeletedRow(channel[c]) ELSE channel[c]]
  /\ Close(S)
  /\ rotation' = RotationsOvertaken(S)
  /\ UNCHANGED <<front, owner>>

DeletePlatformChannel(c) == DeleteChannels({c})
BulkDeletePlatformChannels(S) == DeleteChannels(S)

\* The handlers of the administration.
CreateAdminChannel(S) == CreatePlatformChannels(S)
UpdateAdminChannel(c) == \E enabled, open \in BOOLEAN : UpdatePlatformChannel(c, enabled, open)
RotateAdminChannelCredential(c) == SeeChannelToRotate(c)
DisableAdminChannel(c) == DisablePlatformChannel(c)
DeleteAdminChannel(c) == DeletePlatformChannel(c)
BulkAdminChannels(S) ==
  BulkDisablePlatformChannels(S) \/ BulkEnablePlatformChannels(S) \/ BulkDeletePlatformChannels(S)

\* A file has no snapshot; another installation sends one with each channel.
ImportAdminChannels(S) == \E enabled, open \in BOOLEAN : ImportPlatformChannels(S, enabled, open, "unknown")
SyncAdminChannelsFromAPI(S) ==
  \E enabled, open \in BOOLEAN, status \in {"unknown", "healthy", "down"} :
     ImportPlatformChannels(S, enabled, open, status)

-----------------------------------------------------------------------------
(* Private channels. *)

\* gateway_enabled defaults to true.
CreatePrivateChannelForOrg(c) ==
  /\ ChannelWrite
  /\ channel[c].status = "none" /\ owner.status = "active"
  /\ channel' = [channel EXCEPT ![c] = FreshRow(TRUE, TRUE)]
  /\ UNCHANGED <<upstream, front, rotation, choice, owner>>

\* Mutant: the upstreams of a channel that points elsewhere stay enabled.
RedirectAndKeepUpstreams(c) ==
  /\ ChannelWrite
  /\ Present(c)
  /\ channel' = [channel EXCEPT ![c].status = IF @ = "disabled" THEN @ ELSE "unknown",
                                ![c].proven = FALSE]
  /\ UNCHANGED <<upstream, choice, front, rotation, owner>>

\* UpdatePrivateChannelForOrg when the endpoint, the model or
\* the credential changes: what was proven is no longer, and the gateways stop using it.
RedirectPrivateChannel(c) ==
  /\ ChannelWrite
  /\ Present(c)
  /\ channel' = [channel EXCEPT ![c].status = IF @ = "disabled" THEN @ ELSE "unknown",
                                ![c].proven = FALSE]
  /\ Close({c})
  /\ UNCHANGED <<front, rotation, owner>>

BulkUpdatePrivateChannelsStatus(S, status) ==
  /\ ChannelWrite
  /\ S # {} /\ \A c \in S : Present(c)
  /\ \E o \in ChannelOrgs : \A c \in S : ChanOrg[c] = o
  /\ channel' = [c \in Chans |-> IF c \in S
       THEN [channel[c] EXCEPT !.status = status, !.open = status # "disabled"] ELSE channel[c]]
  /\ IF status = "disabled" THEN Close(S) ELSE UNCHANGED <<upstream, choice>>
  /\ UNCHANGED <<front, rotation, owner>>

DeletePrivateChannelForOrg(c) == DeleteChannels({c})
BulkDeletePrivateChannelsForOrg(S) ==
  (\E o \in ChannelOrgs : \A c \in S : ChanOrg[c] = o) /\ DeleteChannels(S)

\* The handlers of the console; the workspace they ask for is in module Tenancy.
CreatePrivateChannel(c) == CreatePrivateChannelForOrg(c)
UpdatePrivateChannel(c) == RedirectPrivateChannel(c)
DeletePrivateChannel(c) == DeletePrivateChannelForOrg(c)
BulkPrivateChannels(S) ==
  \/ \E status \in {"disabled", "unknown"} : BulkUpdatePrivateChannelsStatus(S, status)
  \/ BulkDeletePrivateChannelsForOrg(S)

\* ApplyProbeStatusWithL3: a switched-off channel keeps its status.
ApplyProbeStatus(c, status) ==
  /\ channel[c].status \in {"unknown", "healthy", "down"}
  /\ channel' = [channel EXCEPT ![c].status = status, ![c].proven = @ \/ status = "healthy"]
  /\ UNCHANGED <<upstream, front, rotation, choice, owner, channelWrites>>

\* An administrator's probe with the stored credential.
ValidateAdminChannel(c) ==
  /\ Present(c) /\ channel[c].secret \in {"live", "late"}
  /\ \E status \in {"healthy", "down"} : ApplyProbeStatus(c, status)

-----------------------------------------------------------------------------
(* Gateways and their upstreams. *)

\* gatewayEligiblePlatformPredicate, gatewayEligiblePrivatePredicate.  Platform
\* channels are for the platform's own organization and the highest plan.
Eligible(g, c) ==
  /\ channel[c].open /\ channel[c].status = "healthy"
  /\ \/ ChanOrg[c] = FrontOrg[g]
     \/ ChanOrg[c] = "platform" /\ (FrontOrg[g] = "personal" => owner.vip)

\* CreateGateway and UpdateGatewayForOrg: gatewayAllowedChannelIDs knows all the names.
GatewayAllowedChannelIDs(g, S) ==
  /\ choice[g].pc = "none" /\ front[g] # "deleted"
  /\ FrontOrg[g] = "personal" => owner.status = "active"
  /\ S # {} /\ \A c \in S : Eligible(g, c)
  /\ choice' = [choice EXCEPT ![g] = [pc |-> "checked", names |-> S, stale |-> {}]]
  /\ UNCHANGED <<channel, upstream, front, rotation, owner, channelWrites>>

\* The upstreams of the gateway are replaced by the ones named.
NewUpstreams(g) ==
  [c \in Chans |-> IF c \notin choice[g].names THEN "absent"
                   ELSE IF c \in choice[g].stale THEN "late" ELSE "on"]

\* The rest of CreateGateway and UpdateGatewayForOrg.  An update of a gateway that has
\* been deleted meanwhile finds no row.
WriteUpstreams(g) ==
  /\ choice[g].pc = "checked"
  /\ \/ /\ front[g] # "deleted"
        /\ \E s \in {"active", "paused"} :
             /\ front[g] = "none" => s = "active"
             /\ front' = [front EXCEPT ![g] = s]
        /\ upstream' = [upstream EXCEPT ![g] = NewUpstreams(g)]
     \/ front[g] = "deleted" /\ UNCHANGED <<front, upstream>>
  /\ choice' = [choice EXCEPT ![g] = NoChoice]
  /\ UNCHANGED <<channel, rotation, owner, channelWrites>>

\* revokePersonalPlatformGatewayUpstreamsTx: any edit of an account that leaves it
\* without the highest plan takes the platform channels out of its gateways, and
\* pauses the gateways that have nothing left.
RevokePersonalPlatformUpstreams ==
  LET mine == {g \in Fronts : FrontOrg[g] = "personal"}
      left == [g \in Fronts |-> [c \in Chans |-> IF g \in mine /\ c \in Platform THEN "absent"
                                                 ELSE upstream[g][c]]]
  IN /\ ChannelWrite
     /\ owner.status = "active"
     /\ owner' = [owner EXCEPT !.vip = FALSE]
     /\ upstream' = left
     /\ front' = [g \in Fronts |-> IF g \in mine /\ front[g] = "active"
                                      /\ \A c \in Chans : left[g][c] = "absent"
                                   THEN "paused" ELSE front[g]]
     /\ UNCHANGED <<channel, rotation, choice>>

\* deactivateDeletedUsersRuntimeResources: the gateways of the personal workspace and
\* all private channels of the person go; other gateways that used one of them and
\* have no enabled upstream left are paused.  (The keys go with their gateways.)
GoneChannels == {c \in Private : Present(c)}
DeleteOwner ==
  LET uses(g) == \E c \in GoneChannels : upstream[g][c] # "absent"
      idle(g) == \A c \in Chans : UpstreamsOff(GoneChannels)[g][c] \in {"absent", "off"}
  IN /\ ChannelWrite
     /\ owner.status = "active"
     /\ owner' = [owner EXCEPT !.status = "deleted"]
     /\ channel' = [c \in Chans |-> IF c \in GoneChannels THEN DeletedRow(channel[c]) ELSE channel[c]]
     /\ Close(GoneChannels)
     /\ front' = [g \in Fronts |->
          IF FrontOrg[g] = "personal" /\ front[g] # "none" THEN "deleted"
          ELSE IF front[g] = "active" /\ uses(g) /\ idle(g) THEN "paused"
          ELSE front[g]]
     /\ UNCHANGED rotation

ChannelsNext ==
  \/ \E S \in SUBSET Platform : \/ CreateAdminChannel(S) \/ BulkAdminChannels(S)
                                \/ ImportAdminChannels(S) \/ SyncAdminChannelsFromAPI(S)
  \/ \E c \in Platform : \/ UpdateAdminChannel(c) \/ DisableAdminChannel(c) \/ DeleteAdminChannel(c)
                         \/ RotateAdminChannelCredential(c) \/ RotatePlatformCredential(c)
                         \/ ValidateAdminChannel(c)
  \/ \E c \in Private : CreatePrivateChannel(c) \/ UpdatePrivateChannel(c) \/ DeletePrivateChannel(c)
  \/ \E S \in SUBSET Private : BulkPrivateChannels(S)
  \/ \E c \in Chans, s \in {"unknown", "healthy", "down"} : ApplyProbeStatus(c, s)
  \/ \E g \in Fronts, S \in SUBSET Chans : GatewayAllowedChannelIDs(g, S)
  \/ \E g \in Fronts : WriteUpstreams(g)
  \/ RevokePersonalPlatformUpstreams
  \/ DeleteOwner

ChannelsSpec == ChannelsInit /\ [][ChannelsNext]_channelVars

-----------------------------------------------------------------------------
(* Properties. *)

\* A gateway sends requests only to channels that are switched on, and to private
\* channels only as they were when a probe found them working: every operation that
\* switches a channel off or points it elsewhere also disables the upstreams, except
\* for gateway writes that had checked the channel before (gatewayAllowedChannelIDs).
EnabledUpstreamIsUsable ==
  \A g \in Fronts, c \in Chans : upstream[g][c] = "on" =>
     /\ Present(c) /\ channel[c].status # "disabled" /\ channel[c].open
     /\ c \in Private => channel[c].proven
=============================================================================
