---------------------------- MODULE ChannelProofs ----------------------------
(***************************************************************************)
(* Proofs about channels and the gateways that use them, about the         *)
(* deliveries of alerts, and about the schedule of the probes.             *)
(***************************************************************************)
EXTENDS Channels, Alerts, ProbeSchedule, SequenceTheorems, FiniteSetTheorems, WellFoundedInduction, TLAPS

-----------------------------------------------------------------------------
(***************************************************************************)
(* Channels.                                                               *)
(***************************************************************************)

\* A channel a gateway may send requests to; one that a gateway trusts, because it lists
\* it or is about to; and the only way to be healthy.
Usable(c) ==
  /\ Present(c) /\ channel[c].status # "disabled" /\ channel[c].open
  /\ c \in Private => channel[c].proven
Trusted(g, c) ==
  \/ upstream[g][c] = "on"
  \/ choice[g].pc = "checked" /\ c \in choice[g].names \ choice[g].stale
HealthySound(c) == channel[c].status = "healthy" => channel[c].proven

ChannelsInv ==
  /\ ChannelsTypeOK
  /\ \A c \in Chans : HealthySound(c)
  /\ \A g \in Fronts, c \in Chans : Trusted(g, c) => Usable(c)

RotationsTyped == rotation \in [Chans -> {"none", "checked", "overtaken"}]
FrontsTyped == front \in [Fronts -> {"none", "active", "paused", "deleted"}]
OwnerTyped == owner \in [status : {"active", "deleted"}, vip : BOOLEAN]

\* Nobody trusts a channel that has been closed, and nobody trusts another one for it.
LEMMA ClosedTrust ==
  ASSUME ChannelsInv, NEW S \in SUBSET Chans, Close(S)
  PROVE  /\ upstream' \in [Fronts -> [Chans -> {"absent", "on", "off", "late"}]]
         /\ choice' \in [Fronts -> [pc : {"none", "checked"}, names : SUBSET Chans, stale : SUBSET Chans]]
         /\ \A g \in Fronts, c \in Chans : Trusted(g, c)' => Trusted(g, c) /\ c \notin S
<1>1. /\ upstream \in [Fronts -> [Chans -> {"absent", "on", "off", "late"}]]
      /\ choice \in [Fronts -> [pc : {"none", "checked"}, names : SUBSET Chans, stale : SUBSET Chans]]
  BY DEF ChannelsInv, ChannelsTypeOK
<1>2. upstream' = [g \in Fronts |-> [c \in Chans |->
        IF c \in S /\ upstream[g][c] # "absent" THEN "off" ELSE upstream[g][c]]]
  BY DEF Close, UpstreamsOff
<1>3. upstream' \in [Fronts -> [Chans -> {"absent", "on", "off", "late"}]]
  BY <1>1, <1>2
<1>4. ASSUME NEW g \in Fronts
      PROVE  /\ choice'[g] \in [pc : {"none", "checked"}, names : SUBSET Chans, stale : SUBSET Chans]
             /\ choice'[g].pc = choice[g].pc /\ choice'[g].names = choice[g].names
             /\ choice'[g].stale = choice[g].stale \cup (S \cap choice[g].names)
  <2>1. choice'[g] = [choice[g] EXCEPT !.stale = choice[g].stale \cup (S \cap choice[g].names)]
    BY DEF Close, ChoicesOvertaken
  <2> QED  BY <1>1, <2>1
<1>5. choice' \in [Fronts -> [pc : {"none", "checked"}, names : SUBSET Chans, stale : SUBSET Chans]]
  BY <1>4 DEF Close, ChoicesOvertaken
<1>6. ASSUME NEW g \in Fronts, NEW c \in Chans, Trusted(g, c)'
      PROVE  Trusted(g, c) /\ c \notin S
  <2>1. CASE upstream'[g][c] = "on"
    BY <1>2, <2>1 DEF Trusted
  <2>2. CASE choice'[g].pc = "checked" /\ c \in choice'[g].names \ choice'[g].stale
    BY <1>4, <2>2 DEF Trusted
  <2> QED  BY <1>6, <2>1, <2>2 DEF Trusted
<1> QED  BY <1>3, <1>5, <1>6

\* A change of channels keeps the invariant when it closes the ones it makes unusable.
LEMMA ChannelsChange ==
  ASSUME ChannelsInv, NEW S \in SUBSET Chans, Close(S) \/ (UNCHANGED <<upstream, choice>> /\ S = {}),
         channel' \in [Chans -> ChannelRows], RotationsTyped', FrontsTyped', OwnerTyped',
         channelWrites' \in 0 .. MaxChannelWrites,
         \A c \in Chans : HealthySound(c)' /\ (c \notin S /\ Usable(c) => Usable(c)')
  PROVE  ChannelsInv'
<1>1. /\ upstream' \in [Fronts -> [Chans -> {"absent", "on", "off", "late"}]]
      /\ choice' \in [Fronts -> [pc : {"none", "checked"}, names : SUBSET Chans, stale : SUBSET Chans]]
      /\ \A g \in Fronts, c \in Chans : Trusted(g, c)' => Trusted(g, c) /\ c \notin S
  <2>1. CASE Close(S)
    BY <2>1, ClosedTrust
  <2>2. CASE UNCHANGED <<upstream, choice>> /\ S = {}
    BY <2>2 DEF ChannelsInv, ChannelsTypeOK, Trusted
  <2> QED  BY <2>1, <2>2
<1> QED  BY <1>1 DEF ChannelsInv, ChannelsTypeOK, RotationsTyped, FrontsTyped, OwnerTyped

\* What most changes leave alone.
LEMMA OthersStand ==
  ASSUME ChannelsInv, ChannelWrite, UNCHANGED <<front, rotation, owner>>
  PROVE  RotationsTyped' /\ FrontsTyped' /\ OwnerTyped' /\ channelWrites' \in 0 .. MaxChannelWrites
  BY ChannelsAssumption
  DEF ChannelWrite, ChannelsInv, ChannelsTypeOK, RotationsTyped, FrontsTyped, OwnerTyped

LEMMA CreationKeeps ==
  ASSUME ChannelsInv, NEW S \in SUBSET Chans, NEW enabled \in BOOLEAN, NEW open \in BOOLEAN,
         \A c \in S : channel[c].status = "none",
         channel' = [c \in Chans |-> IF c \in S THEN FreshRow(enabled, open) ELSE channel[c]],
         ChannelWrite, UNCHANGED <<upstream, front, rotation, choice, owner>>
  PROVE  ChannelsInv'
<1>1. channel \in [Chans -> ChannelRows] /\ \A c \in Chans : HealthySound(c)
  BY DEF ChannelsInv, ChannelsTypeOK
<1>2. ASSUME NEW c \in Chans
      PROVE  channel'[c] \in ChannelRows /\ HealthySound(c)' /\ (Usable(c) => Usable(c)')
  <2>1. CASE c \in S
    BY <2>1 DEF FreshRow, ChannelRows, HealthySound, Usable, Present
  <2>2. CASE c \notin S
    BY <1>1, <2>2 DEF HealthySound, Usable, Present
  <2> QED  BY <2>1, <2>2
<1>3. channel' \in [Chans -> ChannelRows]
  BY <1>2
<1>4. {} \in SUBSET Chans /\ \A c \in Chans : c \notin {}
  OBVIOUS
<1> QED  BY <1>2, <1>3, <1>4, OthersStand, ChannelsChange

LEMMA PlatformUpdateKeeps ==
  ASSUME ChannelsInv, NEW c \in Platform, NEW enabled \in BOOLEAN, NEW open \in BOOLEAN,
         UpdatePlatformChannel(c, enabled, open)
  PROVE  ChannelsInv'
<1>1. channel \in [Chans -> ChannelRows] /\ \A d \in Chans : HealthySound(d)
  BY DEF ChannelsInv, ChannelsTypeOK
<1>2. c \in Chans /\ c \notin Private
  BY DEF Platform, Private
<1> DEFINE row == [channel[c] EXCEPT !.open = open,
                     !.status = IF ~enabled THEN "disabled" ELSE IF @ = "disabled" THEN "unknown" ELSE @]
<1>3. /\ row \in ChannelRows /\ row.proven = channel[c].proven /\ row.open = open
      /\ row.status = "healthy" => channel[c].status = "healthy"
      /\ enabled => row.status # "disabled"
      /\ row.status \in {"none", "deleted"} => channel[c].status = row.status
  BY <1>1, <1>2 DEF ChannelRows
<1>4. channel' = [channel EXCEPT ![c] = row]
  BY <1>1, <1>2 DEF UpdatePlatformChannel
<1> HIDE DEF row
<1>5. channel' \in [Chans -> ChannelRows]
  BY <1>1, <1>2, <1>3, <1>4
<1>6. PICK S \in SUBSET Chans : /\ Close(S) \/ (UNCHANGED <<upstream, choice>> /\ S = {})
                                /\ c \notin S => enabled /\ open
  <2>1. CASE enabled /\ open
    <3> WITNESS {} \in SUBSET Chans
    <3> QED  BY <2>1 DEF UpdatePlatformChannel
  <2>2. CASE ~(enabled /\ open)
    <3> {c} \in SUBSET Chans
      BY <1>2
    <3> WITNESS {c} \in SUBSET Chans
    <3> QED  BY <2>2 DEF UpdatePlatformChannel
  <2> QED  BY <2>1, <2>2
<1>7. ASSUME NEW d \in Chans
      PROVE  HealthySound(d)' /\ (d \notin S /\ Usable(d) => Usable(d)')
  <2>1. CASE d = c
    BY <1>1, <1>2, <1>3, <1>4, <1>6, <2>1 DEF HealthySound, Usable, Present
  <2>2. CASE d # c
    BY <1>1, <1>2, <1>4, <2>2 DEF HealthySound, Usable, Present
  <2> QED  BY <2>1, <2>2
<1>8. ChannelWrite /\ UNCHANGED <<front, rotation, owner>>
  BY DEF UpdatePlatformChannel
<1> QED  BY <1>5, <1>6, <1>7, <1>8, OthersStand, ChannelsChange

LEMMA ImportKeeps ==
  ASSUME ChannelsInv, NEW S \in SUBSET Platform, NEW enabled \in BOOLEAN, NEW open \in BOOLEAN,
         NEW status \in {"unknown", "healthy", "down"}, ImportPlatformChannels(S, enabled, open, status)
  PROVE  ChannelsInv'
<1>1. channel \in [Chans -> ChannelRows] /\ \A d \in Chans : HealthySound(d)
  BY DEF ChannelsInv, ChannelsTypeOK
<1>2. S \in SUBSET Chans /\ \A c \in S : c \notin Private
  BY DEF Platform, Private
<1> DEFINE row == [FreshRow(enabled, open) EXCEPT !.status = IF enabled THEN status ELSE @,
                                                  !.proven = status = "healthy"]
<1>3. /\ row \in ChannelRows /\ row.open = open /\ row.status # "none" /\ row.status # "deleted"
      /\ row.status = "healthy" => row.proven
      /\ enabled => row.status # "disabled"
  BY DEF FreshRow, ChannelRows
<1>4. channel' = [c \in Chans |-> IF c \in S THEN row ELSE channel[c]]
  BY DEF ImportPlatformChannels
<1> HIDE DEF row
<1>5. channel' \in [Chans -> ChannelRows]
  BY <1>1, <1>3, <1>4
<1>6. PICK T \in SUBSET Chans : /\ Close(T) \/ (UNCHANGED <<upstream, choice>> /\ T = {})
                                /\ \A c \in S : c \notin T => enabled /\ open
  <2>1. CASE enabled /\ open
    <3> WITNESS {} \in SUBSET Chans
    <3> QED  BY <2>1 DEF ImportPlatformChannels
  <2>2. CASE ~(enabled /\ open)
    <3> S \in SUBSET Chans
      BY <1>2
    <3> WITNESS S \in SUBSET Chans
    <3> QED  BY <2>2 DEF ImportPlatformChannels
  <2> QED  BY <2>1, <2>2
<1>7. ASSUME NEW d \in Chans
      PROVE  HealthySound(d)' /\ (d \notin T /\ Usable(d) => Usable(d)')
  <2>1. CASE d \in S
    BY <1>2, <1>3, <1>4, <1>6, <2>1 DEF HealthySound, Usable, Present
  <2>2. CASE d \notin S
    BY <1>1, <1>4, <2>2 DEF HealthySound, Usable, Present
  <2> QED  BY <2>1, <2>2
<1>8. ChannelWrite /\ UNCHANGED <<front, rotation, owner>>
  BY DEF ImportPlatformChannels
<1> QED  BY <1>5, <1>6, <1>7, <1>8, OthersStand, ChannelsChange

LEMMA DeletedRowTyped ==
  ASSUME NEW row \in ChannelRows
  PROVE  DeletedRow(row) \in ChannelRows /\ DeletedRow(row).status = "deleted"
  BY DEF DeletedRow, ChannelRows

\* What is switched off or deleted is closed with its upstreams.
LEMMA SwitchOffKeeps ==
  ASSUME ChannelsInv, NEW S \in SUBSET Chans, BulkDisablePlatformChannels(S)
  PROVE  ChannelsInv'
<1>1. channel \in [Chans -> ChannelRows] /\ \A d \in Chans : HealthySound(d)
  BY DEF ChannelsInv, ChannelsTypeOK
<1>2. ASSUME NEW c \in Chans
      PROVE  channel'[c] \in ChannelRows /\ HealthySound(c)' /\ (c \notin S /\ Usable(c) => Usable(c)')
  <2>1. CASE c \in S
    <3>1. channel'[c] = DisabledRow(channel[c])
      BY <2>1 DEF BulkDisablePlatformChannels
    <3> QED  BY <1>1, <2>1, <3>1 DEF DisabledRow, ChannelRows, HealthySound
  <2>2. CASE c \notin S
    <3>1. channel'[c] = channel[c]
      BY <2>2 DEF BulkDisablePlatformChannels
    <3> QED  BY <1>1, <3>1 DEF HealthySound, Usable, Present
  <2> QED  BY <2>1, <2>2
<1>3. channel' \in [Chans -> ChannelRows]
  BY <1>2 DEF BulkDisablePlatformChannels
<1>4. ChannelWrite /\ UNCHANGED <<front, rotation, owner>> /\ Close(S)
  BY DEF BulkDisablePlatformChannels
<1> QED  BY <1>2, <1>3, <1>4, OthersStand, ChannelsChange

LEMMA DeletionOfChannelsKeeps ==
  ASSUME ChannelsInv, NEW S \in SUBSET Chans, DeleteChannels(S)
  PROVE  ChannelsInv'
<1>1. channel \in [Chans -> ChannelRows] /\ \A d \in Chans : HealthySound(d)
  BY DEF ChannelsInv, ChannelsTypeOK
<1>2. ASSUME NEW c \in Chans
      PROVE  channel'[c] \in ChannelRows /\ HealthySound(c)' /\ (c \notin S /\ Usable(c) => Usable(c)')
  <2>1. CASE c \in S
    <3>1. channel'[c] = DeletedRow(channel[c])
      BY <2>1 DEF DeleteChannels
    <3> QED  BY <1>1, <2>1, <3>1, DeletedRowTyped DEF HealthySound
  <2>2. CASE c \notin S
    <3>1. channel'[c] = channel[c]
      BY <2>2 DEF DeleteChannels
    <3> QED  BY <1>1, <3>1 DEF HealthySound, Usable, Present
  <2> QED  BY <2>1, <2>2
<1>3. channel' \in [Chans -> ChannelRows]
  BY <1>2 DEF DeleteChannels
<1>4. Close(S) /\ channelWrites' \in 0 .. MaxChannelWrites
  BY ChannelsAssumption DEF DeleteChannels, ChannelWrite, ChannelsInv, ChannelsTypeOK
<1>5. RotationsTyped' /\ FrontsTyped' /\ OwnerTyped'
  BY DEF DeleteChannels, RotationsOvertaken, RotationsTyped, FrontsTyped, OwnerTyped, ChannelsInv, ChannelsTypeOK
<1> QED  BY <1>2, <1>3, <1>4, <1>5, ChannelsChange

LEMMA BulkEnablingKeeps ==
  ASSUME ChannelsInv, NEW S \in SUBSET Chans, BulkEnablePlatformChannels(S)
  PROVE  ChannelsInv'
<1>1. channel \in [Chans -> ChannelRows] /\ \A d \in Chans : HealthySound(d)
  BY DEF ChannelsInv, ChannelsTypeOK
<1>2. ASSUME NEW c \in Chans
      PROVE  channel'[c] \in ChannelRows /\ HealthySound(c)' /\ (Usable(c) => Usable(c)')
  <2>1. CASE c \in S
    <3> DEFINE row == [channel[c] EXCEPT !.open = TRUE, !.status = IF @ = "disabled" THEN "unknown" ELSE @]
    <3>1. /\ row \in ChannelRows /\ row.proven = channel[c].proven /\ row.open = TRUE
          /\ row.status = IF channel[c].status = "disabled" THEN "unknown" ELSE channel[c].status
      BY <1>1 DEF ChannelRows
    <3>2. channel'[c] = row
      BY <2>1 DEF BulkEnablePlatformChannels
    <3> HIDE DEF row
    <3> QED  BY <1>1, <3>1, <3>2 DEF HealthySound, Usable, Present
  <2>2. CASE c \notin S
    <3>1. channel'[c] = channel[c]
      BY <2>2 DEF BulkEnablePlatformChannels
    <3> QED  BY <1>1, <3>1 DEF HealthySound, Usable, Present
  <2> QED  BY <2>1, <2>2
<1>3. channel' \in [Chans -> ChannelRows]
  BY <1>2 DEF BulkEnablePlatformChannels
<1>4. ChannelWrite /\ UNCHANGED <<front, rotation, owner>> /\ UNCHANGED <<upstream, choice>>
  BY DEF BulkEnablePlatformChannels
<1>5. {} \in SUBSET Chans /\ \A c \in Chans : c \notin {}
  OBVIOUS
<1> QED  BY <1>2, <1>3, <1>4, <1>5, OthersStand, ChannelsChange

\* Private channels that point elsewhere, and changes of their status.
LEMMA RedirectionKeeps ==
  ASSUME ChannelsInv, NEW c \in Private, RedirectPrivateChannel(c)
  PROVE  ChannelsInv'
<1>1. channel \in [Chans -> ChannelRows] /\ \A d \in Chans : HealthySound(d)
  BY DEF ChannelsInv, ChannelsTypeOK
<1>2. c \in Chans /\ {c} \in SUBSET Chans
  BY DEF Private
<1> DEFINE row == [channel[c] EXCEPT !.status = IF @ = "disabled" THEN @ ELSE "unknown", !.proven = FALSE]
<1>3. row \in ChannelRows /\ row.status \in {"disabled", "unknown"}
  BY <1>1, <1>2 DEF ChannelRows
<1>4. channel' = [channel EXCEPT ![c] = row]
  BY <1>1, <1>2 DEF RedirectPrivateChannel
<1> HIDE DEF row
<1>5. channel' \in [Chans -> ChannelRows]
  BY <1>1, <1>2, <1>3, <1>4
<1>6. ASSUME NEW d \in Chans
      PROVE  HealthySound(d)' /\ (d \notin {c} /\ Usable(d) => Usable(d)')
  <2>1. CASE d = c
    BY <1>1, <1>3, <1>4, <2>1 DEF HealthySound
  <2>2. CASE d # c
    BY <1>1, <1>2, <1>4, <2>2 DEF HealthySound, Usable, Present
  <2> QED  BY <2>1, <2>2
<1>7. ChannelWrite /\ UNCHANGED <<front, rotation, owner>> /\ Close({c})
  BY DEF RedirectPrivateChannel
<1> QED  BY <1>2, <1>5, <1>6, <1>7, OthersStand, ChannelsChange

LEMMA PrivateStatusKeeps ==
  ASSUME ChannelsInv, NEW S \in SUBSET Chans, NEW status \in {"disabled", "unknown"},
         BulkUpdatePrivateChannelsStatus(S, status)
  PROVE  ChannelsInv'
<1>1. channel \in [Chans -> ChannelRows] /\ \A d \in Chans : HealthySound(d)
  BY DEF ChannelsInv, ChannelsTypeOK
<1>2. PICK T \in SUBSET Chans : /\ Close(T) \/ (UNCHANGED <<upstream, choice>> /\ T = {})
                                /\ \A c \in S : c \notin T => status = "unknown"
  <2>1. CASE status # "disabled"
    <3> WITNESS {} \in SUBSET Chans
    <3> QED  BY <2>1 DEF BulkUpdatePrivateChannelsStatus
  <2>2. CASE status = "disabled"
    <3> WITNESS S \in SUBSET Chans
    <3> QED  BY <2>2 DEF BulkUpdatePrivateChannelsStatus
  <2> QED  BY <2>1, <2>2
<1>3. ASSUME NEW c \in Chans
      PROVE  channel'[c] \in ChannelRows /\ HealthySound(c)' /\ (c \notin T /\ Usable(c) => Usable(c)')
  <2>1. CASE c \in S
    <3> DEFINE row == [channel[c] EXCEPT !.status = status, !.open = status # "disabled"]
    <3>1. /\ row \in ChannelRows /\ row.proven = channel[c].proven /\ row.open = (status # "disabled")
          /\ row.status = status
      BY <1>1 DEF ChannelRows
    <3>2. channel'[c] = row
      BY <2>1 DEF BulkUpdatePrivateChannelsStatus
    <3> HIDE DEF row
    <3> QED  BY <1>1, <1>2, <2>1, <3>1, <3>2 DEF HealthySound, Usable, Present
  <2>2. CASE c \notin S
    <3>1. channel'[c] = channel[c]
      BY <2>2 DEF BulkUpdatePrivateChannelsStatus
    <3> QED  BY <1>1, <3>1 DEF HealthySound, Usable, Present
  <2> QED  BY <2>1, <2>2
<1>4. channel' \in [Chans -> ChannelRows]
  BY <1>3 DEF BulkUpdatePrivateChannelsStatus
<1>5. ChannelWrite /\ UNCHANGED <<front, rotation, owner>>
  BY DEF BulkUpdatePrivateChannelsStatus
<1> QED  BY <1>2, <1>3, <1>4, <1>5, OthersStand, ChannelsChange

\* Probes and the rotation of a credential touch neither what is switched on nor what a
\* channel points to.
LEMMA ProbeStatusKeeps ==
  ASSUME ChannelsInv, NEW c \in Chans, NEW status \in {"unknown", "healthy", "down"}, ApplyProbeStatus(c, status)
  PROVE  ChannelsInv'
<1>1. channel \in [Chans -> ChannelRows] /\ \A d \in Chans : HealthySound(d)
  BY DEF ChannelsInv, ChannelsTypeOK
<1> DEFINE row == [channel[c] EXCEPT !.status = status, !.proven = @ \/ status = "healthy"]
<1>2. /\ row \in ChannelRows /\ row.status = status /\ row.open = channel[c].open
      /\ channel[c].proven \/ status = "healthy" => row.proven
  BY <1>1 DEF ChannelRows
<1>3. channel' = [channel EXCEPT ![c] = row]
  BY <1>1 DEF ApplyProbeStatus
<1> HIDE DEF row
<1>4. channel' \in [Chans -> ChannelRows]
  BY <1>1, <1>2, <1>3
<1>5. ASSUME NEW d \in Chans
      PROVE  HealthySound(d)' /\ (Usable(d) => Usable(d)')
  <2>1. CASE d = c
    BY <1>1, <1>2, <1>3, <2>1 DEF HealthySound, Usable, Present
  <2>2. CASE d # c
    BY <1>1, <1>3, <2>2 DEF HealthySound, Usable, Present
  <2> QED  BY <2>1, <2>2
<1>6. RotationsTyped' /\ FrontsTyped' /\ OwnerTyped' /\ channelWrites' \in 0 .. MaxChannelWrites
  BY DEF ApplyProbeStatus, RotationsTyped, FrontsTyped, OwnerTyped, ChannelsInv, ChannelsTypeOK
<1>7. UNCHANGED <<upstream, choice>> /\ {} \in SUBSET Chans /\ \A d \in Chans : d \notin {}
  BY DEF ApplyProbeStatus
<1> QED  BY <1>4, <1>5, <1>6, <1>7, ChannelsChange

LEMMA RotationKeeps ==
  ASSUME ChannelsInv, NEW c \in Chans, SeeChannelToRotate(c) \/ RotatePlatformCredential(c)
  PROVE  ChannelsInv'
<1>1. channel \in [Chans -> ChannelRows] /\ \A d \in Chans : HealthySound(d)
  BY DEF ChannelsInv, ChannelsTypeOK
<1>2. PICK secret \in {"none", "live", "scrubbed", "late"} :
        channel' = [channel EXCEPT ![c].secret = secret] \/ channel' = channel
  BY DEF SeeChannelToRotate, RotatePlatformCredential
<1> DEFINE row == [channel[c] EXCEPT !.secret = secret]
<1>3. /\ row \in ChannelRows /\ row.status = channel[c].status /\ row.open = channel[c].open
      /\ row.proven = channel[c].proven
  BY <1>1 DEF ChannelRows
<1>4. channel' = [channel EXCEPT ![c] = row] \/ channel' = channel
  BY <1>1, <1>2
<1> HIDE DEF row
<1>5. channel' \in [Chans -> ChannelRows]
  BY <1>1, <1>3, <1>4
<1>6. ASSUME NEW d \in Chans
      PROVE  HealthySound(d)' /\ (Usable(d) => Usable(d)')
  <2>1. CASE channel'[d] = channel[d]
    BY <1>1, <2>1 DEF HealthySound, Usable, Present
  <2>2. CASE d = c /\ channel'[d] = row
    BY <1>1, <1>3, <2>2 DEF HealthySound, Usable, Present
  <2> QED  BY <1>1, <1>4, <2>1, <2>2
<1>7. RotationsTyped' /\ FrontsTyped' /\ OwnerTyped' /\ channelWrites' \in 0 .. MaxChannelWrites
  <2>1. RotationsTyped'
    BY DEF SeeChannelToRotate, RotatePlatformCredential, RotationsTyped, ChannelsInv, ChannelsTypeOK
  <2>2. UNCHANGED <<front, owner>>
    BY DEF SeeChannelToRotate, RotatePlatformCredential
  <2>3. FrontsTyped' /\ OwnerTyped'
    BY <2>2 DEF FrontsTyped, OwnerTyped, ChannelsInv, ChannelsTypeOK
  <2>4. channelWrites' \in 0 .. MaxChannelWrites
    BY DEF SeeChannelToRotate, RotatePlatformCredential, ChannelsInv, ChannelsTypeOK
  <2> QED  BY <2>1, <2>3, <2>4
<1>8. UNCHANGED <<upstream, choice>> /\ {} \in SUBSET Chans /\ \A d \in Chans : d \notin {}
  BY DEF SeeChannelToRotate, RotatePlatformCredential
<1> QED  BY <1>5, <1>6, <1>7, <1>8, ChannelsChange

\* A gateway trusts what it finds eligible, which is healthy and so has been proven, and
\* lists what it still trusts.
LEMMA ChoiceOfUpstreamsKeeps ==
  ASSUME ChannelsInv, NEW g \in Fronts, NEW S \in SUBSET Chans, GatewayAllowedChannelIDs(g, S)
  PROVE  ChannelsInv'
<1>1. UNCHANGED <<channel, upstream, front, rotation, owner, channelWrites>>
  BY DEF GatewayAllowedChannelIDs
<1> DEFINE row == [pc |-> "checked", names |-> S, stale |-> {}]
<1>2. choice' = [choice EXCEPT ![g] = row]
  BY DEF GatewayAllowedChannelIDs
<1>3. choice \in [Fronts -> [pc : {"none", "checked"}, names : SUBSET Chans, stale : SUBSET Chans]]
  BY DEF ChannelsInv, ChannelsTypeOK
<1>4. choice' \in [Fronts -> [pc : {"none", "checked"}, names : SUBSET Chans, stale : SUBSET Chans]]
  BY <1>2, <1>3
<1>5. ASSUME NEW c \in S
      PROVE  Usable(c)
  <2>1. channel[c].open /\ channel[c].status = "healthy" /\ c \in Chans
    BY DEF GatewayAllowedChannelIDs, Eligible
  <2>2. channel[c].proven
    BY <2>1 DEF ChannelsInv, HealthySound
  <2> QED  BY <2>1, <2>2 DEF Usable, Present
<1>6. ASSUME NEW h \in Fronts, NEW c \in Chans, Trusted(h, c)'
      PROVE  Usable(c)'
  <2>1. Usable(c)' <=> Usable(c)
    BY <1>1 DEF Usable, Present
  <2>2. Trusted(h, c) \/ c \in S
    BY <1>1, <1>2, <1>3, <1>6 DEF Trusted
  <2> QED  BY <1>5, <2>1, <2>2 DEF ChannelsInv
<1>7. ChannelsTypeOK'
  BY <1>1, <1>4 DEF ChannelsInv, ChannelsTypeOK
<1> QED  BY <1>1, <1>6, <1>7 DEF ChannelsInv, HealthySound

LEMMA UpstreamsWriteKeeps ==
  ASSUME ChannelsInv, NEW g \in Fronts, WriteUpstreams(g)
  PROVE  ChannelsInv'
<1>1. UNCHANGED <<channel, rotation, owner, channelWrites>>
  BY DEF WriteUpstreams
<1>2. /\ choice \in [Fronts -> [pc : {"none", "checked"}, names : SUBSET Chans, stale : SUBSET Chans]]
      /\ upstream \in [Fronts -> [Chans -> {"absent", "on", "off", "late"}]]
      /\ front \in [Fronts -> {"none", "active", "paused", "deleted"}]
  BY DEF ChannelsInv, ChannelsTypeOK
<1>3. choice' = [choice EXCEPT ![g] = NoChoice] /\ choice[g].pc = "checked"
  BY DEF WriteUpstreams
<1>4. choice' \in [Fronts -> [pc : {"none", "checked"}, names : SUBSET Chans, stale : SUBSET Chans]]
  BY <1>2, <1>3 DEF NoChoice
<1>5. PICK new \in [Chans -> {"absent", "on", "late"}] : new = NewUpstreams(g)
  BY DEF NewUpstreams
<1>6. \A c \in Chans : new[c] = "on" => c \in choice[g].names \ choice[g].stale
  BY <1>5 DEF NewUpstreams
<1>7. upstream' = [upstream EXCEPT ![g] = new] \/ upstream' = upstream
  BY <1>5 DEF WriteUpstreams
<1>8. upstream' \in [Fronts -> [Chans -> {"absent", "on", "off", "late"}]]
  <2>1. new \in [Chans -> {"absent", "on", "off", "late"}]
    OBVIOUS
  <2> QED  BY <1>2, <1>7, <2>1
<1>9. front' \in [Fronts -> {"none", "active", "paused", "deleted"}]
  BY <1>2 DEF WriteUpstreams
<1>10. ASSUME NEW h \in Fronts, NEW c \in Chans, Trusted(h, c)'
       PROVE  Usable(c)'
  <2>1. Usable(c)' <=> Usable(c)
    BY <1>1 DEF Usable, Present
  <2>2. Trusted(h, c) \/ Trusted(g, c)
    <3>1. choice'[h] = choice[h] \/ choice'[h].pc = "none"
      BY <1>2, <1>3 DEF NoChoice
    <3>2. upstream'[h] = upstream[h] \/ (h = g /\ upstream'[h] = new)
      BY <1>2, <1>7
    <3> QED  BY <1>3, <1>6, <1>10, <3>1, <3>2 DEF Trusted
  <2> QED  BY <2>1, <2>2 DEF ChannelsInv
<1>11. ChannelsTypeOK'
  BY <1>1, <1>4, <1>8, <1>9 DEF ChannelsInv, ChannelsTypeOK
<1> QED  BY <1>1, <1>10, <1>11 DEF ChannelsInv, HealthySound

LEMMA RevocationKeeps ==
  ASSUME ChannelsInv, RevokePersonalPlatformUpstreams
  PROVE  ChannelsInv'
<1>1. UNCHANGED <<channel, rotation, choice>>
  BY DEF RevokePersonalPlatformUpstreams
<1>2. /\ upstream \in [Fronts -> [Chans -> {"absent", "on", "off", "late"}]]
      /\ front \in [Fronts -> {"none", "active", "paused", "deleted"}]
      /\ owner \in [status : {"active", "deleted"}, vip : BOOLEAN]
  BY DEF ChannelsInv, ChannelsTypeOK
<1>3. upstream' = [g \in Fronts |-> [c \in Chans |->
        IF g \in {h \in Fronts : FrontOrg[h] = "personal"} /\ c \in Platform THEN "absent" ELSE upstream[g][c]]]
  BY DEF RevokePersonalPlatformUpstreams
<1>4. upstream' \in [Fronts -> [Chans -> {"absent", "on", "off", "late"}]]
  BY <1>2, <1>3
<1>5. front' \in [Fronts -> {"none", "active", "paused", "deleted"}]
  BY <1>2 DEF RevokePersonalPlatformUpstreams
<1>6. owner' \in [status : {"active", "deleted"}, vip : BOOLEAN]
  BY <1>2 DEF RevokePersonalPlatformUpstreams
<1>7. channelWrites' \in 0 .. MaxChannelWrites
  BY ChannelsAssumption DEF RevokePersonalPlatformUpstreams, ChannelWrite, ChannelsInv, ChannelsTypeOK
<1>8. ASSUME NEW g \in Fronts, NEW c \in Chans, Trusted(g, c)'
      PROVE  Usable(c)'
  <2>1. Usable(c)' <=> Usable(c)
    BY <1>1 DEF Usable, Present
  <2>2. Trusted(g, c)
    BY <1>1, <1>3, <1>8 DEF Trusted
  <2> QED  BY <2>1, <2>2 DEF ChannelsInv
<1>9. ChannelsTypeOK'
  BY <1>1, <1>4, <1>5, <1>6, <1>7 DEF ChannelsInv, ChannelsTypeOK
<1> QED  BY <1>1, <1>8, <1>9 DEF ChannelsInv, HealthySound

LEMMA OwnerGoneKeeps ==
  ASSUME ChannelsInv, DeleteOwner
  PROVE  ChannelsInv'
<1>1. PICK S \in SUBSET Chans : S = GoneChannels
  BY DEF GoneChannels, Private
<1>2. channel \in [Chans -> ChannelRows] /\ \A d \in Chans : HealthySound(d)
  BY DEF ChannelsInv, ChannelsTypeOK
<1>3. ASSUME NEW c \in Chans
      PROVE  channel'[c] \in ChannelRows /\ HealthySound(c)' /\ (c \notin S /\ Usable(c) => Usable(c)')
  <2>1. CASE c \in S
    <3>1. channel'[c] = DeletedRow(channel[c])
      BY <1>1, <2>1 DEF DeleteOwner
    <3> QED  BY <1>2, <2>1, <3>1, DeletedRowTyped DEF HealthySound
  <2>2. CASE c \notin S
    <3>1. channel'[c] = channel[c]
      BY <1>1, <2>2 DEF DeleteOwner
    <3> QED  BY <1>2, <3>1 DEF HealthySound, Usable, Present
  <2> QED  BY <2>1, <2>2
<1>4. channel' \in [Chans -> ChannelRows]
  BY <1>3 DEF DeleteOwner
<1>5. Close(S) /\ channelWrites' \in 0 .. MaxChannelWrites
  BY <1>1, ChannelsAssumption DEF DeleteOwner, ChannelWrite, ChannelsInv, ChannelsTypeOK
<1>6. RotationsTyped' /\ OwnerTyped'
  BY DEF DeleteOwner, RotationsTyped, OwnerTyped, ChannelsInv, ChannelsTypeOK
<1>7. FrontsTyped'
  BY DEF DeleteOwner, FrontsTyped, ChannelsInv, ChannelsTypeOK
<1> QED  BY <1>3, <1>4, <1>5, <1>6, <1>7, ChannelsChange

-----------------------------------------------------------------------------
LEMMA ChannelsStep ==
  ASSUME ChannelsInv, [ChannelsNext]_channelVars
  PROVE  ChannelsInv'
<1>1. ASSUME NEW S \in SUBSET Platform,
             \/ CreateAdminChannel(S) \/ BulkAdminChannels(S)
             \/ ImportAdminChannels(S) \/ SyncAdminChannelsFromAPI(S)
      PROVE  ChannelsInv'
  <2>1. S \in SUBSET Chans
    BY DEF Platform
  <2>2. CASE CreateAdminChannel(S)
    <3>1. PICK enabled \in BOOLEAN, open \in BOOLEAN :
            channel' = [c \in Chans |-> IF c \in S THEN FreshRow(enabled, open) ELSE channel[c]]
      BY <2>2 DEF CreateAdminChannel, CreatePlatformChannels
    <3>2. /\ \A c \in S : channel[c].status = "none"
          /\ ChannelWrite /\ UNCHANGED <<upstream, front, rotation, choice, owner>>
      BY <2>2 DEF CreateAdminChannel, CreatePlatformChannels
    <3> QED  BY <2>1, <3>1, <3>2, CreationKeeps
  <2>3. CASE BulkAdminChannels(S)
    BY <2>1, <2>3, SwitchOffKeeps, BulkEnablingKeeps, DeletionOfChannelsKeeps
    DEF BulkAdminChannels, BulkDeletePlatformChannels
  <2>4. CASE ImportAdminChannels(S) \/ SyncAdminChannelsFromAPI(S)
    <3>1. PICK enabled \in BOOLEAN, open \in BOOLEAN, status \in {"unknown", "healthy", "down"} :
            ImportPlatformChannels(S, enabled, open, status)
      BY <2>4 DEF ImportAdminChannels, SyncAdminChannelsFromAPI
    <3> QED  BY <3>1, ImportKeeps
  <2> QED  BY <1>1, <2>2, <2>3, <2>4
<1>2. ASSUME NEW c \in Platform,
             \/ UpdateAdminChannel(c) \/ DisableAdminChannel(c) \/ DeleteAdminChannel(c)
             \/ RotateAdminChannelCredential(c) \/ RotatePlatformCredential(c) \/ ValidateAdminChannel(c)
      PROVE  ChannelsInv'
  <2>1. c \in Chans /\ {c} \in SUBSET Chans
    BY DEF Platform
  <2>2. CASE UpdateAdminChannel(c)
    BY <2>2, PlatformUpdateKeeps DEF UpdateAdminChannel
  <2>3. CASE DisableAdminChannel(c)
    BY <2>1, <2>3, SwitchOffKeeps DEF DisableAdminChannel, DisablePlatformChannel
  <2>4. CASE DeleteAdminChannel(c)
    BY <2>1, <2>4, DeletionOfChannelsKeeps DEF DeleteAdminChannel, DeletePlatformChannel
  <2>5. CASE RotateAdminChannelCredential(c) \/ RotatePlatformCredential(c)
    BY <2>1, <2>5, RotationKeeps DEF RotateAdminChannelCredential
  <2>6. CASE ValidateAdminChannel(c)
    BY <2>1, <2>6, ProbeStatusKeeps DEF ValidateAdminChannel
  <2> QED  BY <1>2, <2>2, <2>3, <2>4, <2>5, <2>6
<1>3. ASSUME NEW c \in Private, CreatePrivateChannel(c) \/ UpdatePrivateChannel(c) \/ DeletePrivateChannel(c)
      PROVE  ChannelsInv'
  <2>1. c \in Chans /\ {c} \in SUBSET Chans
    BY DEF Private
  <2>2. CASE CreatePrivateChannel(c)
    <3>1. channel' = [d \in Chans |-> IF d \in {c} THEN FreshRow(TRUE, TRUE) ELSE channel[d]]
      <4>1. channel' = [channel EXCEPT ![c] = FreshRow(TRUE, TRUE)]
        BY <2>2 DEF CreatePrivateChannel, CreatePrivateChannelForOrg
      <4>2. DOMAIN channel = Chans
        BY DEF ChannelsInv, ChannelsTypeOK
      <4> QED  BY <4>1, <4>2
    <3>2. /\ \A d \in {c} : channel[d].status = "none"
          /\ ChannelWrite /\ UNCHANGED <<upstream, front, rotation, choice, owner>>
      BY <2>2 DEF CreatePrivateChannel, CreatePrivateChannelForOrg
    <3>3. TRUE \in BOOLEAN
      OBVIOUS
    <3> QED  BY <2>1, <3>1, <3>2, <3>3, CreationKeeps
  <2>3. CASE UpdatePrivateChannel(c)
    BY <2>3, RedirectionKeeps DEF UpdatePrivateChannel
  <2>4. CASE DeletePrivateChannel(c)
    BY <2>1, <2>4, DeletionOfChannelsKeeps DEF DeletePrivateChannel, DeletePrivateChannelForOrg
  <2> QED  BY <1>3, <2>2, <2>3, <2>4
<1>4. ASSUME NEW S \in SUBSET Private, BulkPrivateChannels(S)
      PROVE  ChannelsInv'
  <2>1. S \in SUBSET Chans
    BY DEF Private
  <2> QED  BY <1>4, <2>1, PrivateStatusKeeps, DeletionOfChannelsKeeps
           DEF BulkPrivateChannels, BulkDeletePrivateChannelsForOrg
<1>5. CASE UNCHANGED channelVars
  <2>1. UNCHANGED <<channel, upstream, front, rotation, choice, owner, channelWrites>>
    BY <1>5 DEF channelVars
  <2>2. ChannelsTypeOK'
    BY <2>1 DEF ChannelsInv, ChannelsTypeOK
  <2> QED  BY <2>1, <2>2 DEF ChannelsInv, HealthySound, Trusted, Usable, Present
<1>6. CASE ChannelsNext
  BY <1>1, <1>2, <1>3, <1>4, <1>6, ProbeStatusKeeps, ChoiceOfUpstreamsKeeps, UpstreamsWriteKeeps,
     RevocationKeeps, OwnerGoneKeeps DEF ChannelsNext
<1> QED  BY <1>5, <1>6

LEMMA ChannelsInitial == ChannelsInit => ChannelsInv
<1> SUFFICES ASSUME ChannelsInit
             PROVE  ChannelsInv
  OBVIOUS
<1>1. channel \in [Chans -> ChannelRows]
  BY DEF ChannelsInit, ChannelRows
<1>2. choice \in [Fronts -> [pc : {"none", "checked"}, names : SUBSET Chans, stale : SUBSET Chans]]
  BY DEF ChannelsInit, NoChoice
<1>3. ChannelsTypeOK
  BY <1>1, <1>2, ChannelsAssumption DEF ChannelsInit, ChannelsTypeOK
<1>4. \A g \in Fronts, c \in Chans : ~Trusted(g, c)
  BY DEF ChannelsInit, NoChoice, Trusted
<1>5. \A c \in Chans : HealthySound(c)
  BY DEF ChannelsInit, HealthySound
<1> QED  BY <1>3, <1>4, <1>5 DEF ChannelsInv

\* In every reachable state a gateway lists, and is about to list, only channels it may
\* use (gatewayAllowedChannelIDs and the statements that disable upstreams).
THEOREM ChannelsInvariant == ChannelsSpec => []ChannelsInv
<1>1. ChannelsInv /\ [ChannelsNext]_channelVars => ChannelsInv'
  BY ChannelsStep
<1> QED  BY <1>1, ChannelsInitial, PTL DEF ChannelsSpec

\* Channels, credentials, upstreams and the choices under way keep their types.
THEOREM ChannelTypesHold == ChannelsSpec => []ChannelsTypeOK
<1>1. ChannelsInv => ChannelsTypeOK
  BY DEF ChannelsInv
<1> QED  BY <1>1, ChannelsInvariant, PTL

\* A gateway sends requests only to channels that are switched on, and to private ones
\* only as a probe found them working (gatewayAllowedChannelIDs,
\* disableGatewayUpstreamsForChannels).
THEOREM UpstreamsAreUsable == ChannelsSpec => []EnabledUpstreamIsUsable
<1>1. ChannelsInv => EnabledUpstreamIsUsable
  BY DEF ChannelsInv, Trusted, Usable, EnabledUpstreamIsUsable
<1> QED  BY <1>1, ChannelsInvariant, PTL

-----------------------------------------------------------------------------
(***************************************************************************)
(* Alerts.                                                                 *)
(***************************************************************************)

\* What an evaluation saw when it looked at its rule is still so, unless another one has
\* inserted for the rule since: nothing was sent within the window, or something was sent
\* after the last recovery.
SawNothingRecent(r) == \A i \in Made(r, "sent") : ~delivery[i].recent
SawUnanswered(r) ==
  \E k \in DOMAIN delivery : /\ delivery[k].rule = r /\ delivery[k].status \in {"sent", "failed"}
                             /\ \A i \in Made(r, "recovered") : i < k
LookSound(e) ==
  /\ evaluation[e].pc \in {"triggered", "recovered"} => evaluation[e].rule \in Rules
  /\ evaluation[e].pc = "triggered" /\ ~evaluation[e].overtaken /\ ~evaluation[e].recent
       => SawNothingRecent(evaluation[e].rule)
  /\ evaluation[e].pc = "recovered" /\ ~evaluation[e].overtaken => SawUnanswered(evaluation[e].rule)

\* An evaluation sends rows that exist, and an idle one sends none.
OutSound(e) ==
  /\ evaluation[e].out \subseteq DOMAIN delivery
  /\ evaluation[e].pc = "idle" => evaluation[e].out = {}

RowSound(i) == delivery[i].rule = NoRule => delivery[i].status \in {"test", "failed"}

AlertsInv ==
  /\ AlertsTypeOK
  /\ \A i \in DOMAIN delivery : RowSound(i)
  /\ \A e \in Evaluators : LookSound(e) /\ OutSound(e)
  /\ AlertsNotRepeated
  /\ SentMeansTold

SettingsTyped ==
  /\ configured \in BOOLEAN /\ routed \in BOOLEAN
  /\ rule \in [Rules -> {"none", "on", "off", "deleted"}]
  /\ note \in [Notes -> NoteRows]
  /\ preferred \in 0 .. MaxNotes
  /\ patching \in [Notes -> PatchRows]
  /\ firing \in [Rules -> BOOLEAN]
  /\ alertEvents \in 0 .. MaxAlertEvents
DeliveriesTyped ==
  /\ delivery \in Seq(Deliveries) /\ Len(delivery) <= MaxDeliveries
  /\ evaluation \in [Evaluators -> Evaluations]

LEMMA AlertsTyped == AlertsTypeOK <=> SettingsTyped /\ DeliveriesTyped
  BY DEF AlertsTypeOK, SettingsTyped, DeliveriesTyped

LEMMA EventCounted ==
  ASSUME AlertsInv, AlertEvent
  PROVE  alertEvents' \in 0 .. MaxAlertEvents
  BY AlertsAssumption DEF AlertEvent, AlertsInv, AlertsTypeOK

\* A nonempty set of positions has a last one, and a nonempty set of channels a first.
LEMMA FirstOfNaturals ==
  ASSUME NEW S \in SUBSET Nat, S # {}
  PROVE  \E m \in S : \A n \in S : m <= n
<1>1. PICK m \in S : \A n \in S : ~(<<n, m>> \in OpToRel(<, Nat))
  BY WFMin, NatLessThanWellFounded
<1>2. ASSUME NEW n \in S
      PROVE  m <= n
  <2>1. m \in Nat /\ n \in Nat /\ <<n, m>> \in Nat \X Nat
    OBVIOUS
  <2>2. ~(n < m)
    BY <1>1, <2>1 DEF OpToRel
  <2> QED  BY <2>1, <2>2
<1> QED  BY <1>2

LEMMA LastOfPositions ==
  ASSUME NEW len \in Nat, NEW S \in SUBSET (1 .. len), S # {}
  PROVE  LastOf(S) \in S /\ \A j \in S : j <= LastOf(S)
<1> DEFINE T == {n \in Nat : \E j \in S : n = len - j}
<1>1. T \in SUBSET Nat /\ T # {}
  <2>1. PICK j \in S : TRUE
    OBVIOUS
  <2>2. len - j \in Nat
    OBVIOUS
  <2> QED  BY <2>1, <2>2
<1>2. PICK m \in T : \A n \in T : m <= n
  BY <1>1, FirstOfNaturals
<1>3. PICK i \in S : m = len - i
  BY <1>2
<1>4. \A j \in S : j <= i
  <2> SUFFICES ASSUME NEW j \in S
               PROVE  j <= i
    OBVIOUS
  <2>1. len - j \in T
    OBVIOUS
  <2> QED  BY <1>2, <1>3, <2>1
<1>5. \E k \in S : \A j \in S : j <= k
  BY <1>4
<1> QED  BY <1>5 DEF LastOf

LEMMA FirstChannel ==
  ASSUME EnabledNotes # {}, MaxNotes \in Nat
  PROVE  FirstNotificationChannel \in EnabledNotes
<1>1. EnabledNotes \in SUBSET Nat
  BY DEF EnabledNotes, Notes
<1>2. PICK m \in EnabledNotes : \A n \in EnabledNotes : m <= n
  BY <1>1, FirstOfNaturals
<1> QED  BY <1>2 DEF FirstNotificationChannel

\* Rows grow old, and fail; nothing else happens to the ones that exist.
Ages ==
  /\ delivery' \in Seq(Deliveries) /\ Len(delivery') = Len(delivery)
  /\ \A i \in DOMAIN delivery :
       /\ delivery'[i].rule = delivery[i].rule /\ delivery'[i].twin = delivery[i].twin
       /\ delivery'[i].recent => delivery[i].recent
       /\ delivery'[i].status = delivery[i].status \/ (Sendable(i) /\ delivery'[i].status = "failed")

\* An evaluation that is not looking at a rule any more, or still at the same one.
Looks(e) ==
  \/ evaluation'[e].pc \notin {"triggered", "recovered"}
  \/ /\ evaluation'[e].pc = evaluation[e].pc /\ evaluation'[e].rule = evaluation[e].rule
     /\ evaluation'[e].recent = evaluation[e].recent
     /\ evaluation[e].overtaken => evaluation'[e].overtaken

LEMMA AgingKeeps ==
  ASSUME AlertsInv, Ages
  PROVE  /\ AlertsNotRepeated' /\ \A i \in DOMAIN delivery' : RowSound(i)'
         /\ \A r \in Rules : (SawNothingRecent(r) => SawNothingRecent(r)') /\ (SawUnanswered(r) => SawUnanswered(r)')
<1>1. delivery \in Seq(Deliveries)
  BY DEF AlertsInv, AlertsTypeOK
<1>2. DOMAIN delivery' = DOMAIN delivery /\ DOMAIN delivery = 1 .. Len(delivery) /\ Len(delivery) \in Nat
  BY <1>1 DEF Ages
<1>3. \A i \in DOMAIN delivery' : RowSound(i)'
  BY <1>2 DEF Ages, RowSound, AlertsInv
<1>4. \A i \in DOMAIN delivery :
        /\ delivery'[i].status \in {"sent", "recovered"} => delivery'[i].status = delivery[i].status
        /\ delivery[i].status \in {"sent", "failed"} => delivery'[i].status \in {"sent", "failed"}
  BY DEF Ages, Sendable
<1>5. AlertsNotRepeated'
  <2> SUFFICES ASSUME NEW i \in DOMAIN delivery, NEW j \in DOMAIN delivery, i < j,
                      delivery'[i].rule = delivery'[j].rule, ~delivery'[j].twin
               PROVE  /\ delivery'[i].status = "sent" /\ delivery'[j].status = "sent" => ~delivery'[i].recent
                      /\ delivery'[i].status = "recovered" /\ delivery'[j].status = "recovered" =>
                           \E k \in (i + 1) .. (j - 1) : delivery'[k].rule = delivery'[j].rule
                                                         /\ delivery'[k].status \in {"sent", "failed"}
    BY <1>2 DEF AlertsNotRepeated
  <2>1. delivery[i].rule = delivery[j].rule /\ ~delivery[j].twin
    BY DEF Ages
  <2>2. ASSUME delivery'[i].status = "sent", delivery'[j].status = "sent"
        PROVE  ~delivery'[i].recent
    BY <1>4, <2>1, <2>2 DEF Ages, AlertsInv, AlertsNotRepeated
  <2>3. ASSUME delivery'[i].status = "recovered", delivery'[j].status = "recovered"
        PROVE  \E k \in (i + 1) .. (j - 1) : delivery'[k].rule = delivery'[j].rule
                                             /\ delivery'[k].status \in {"sent", "failed"}
    <3>1. PICK k \in (i + 1) .. (j - 1) : delivery[k].rule = delivery[j].rule
                                         /\ delivery[k].status \in {"sent", "failed"}
      BY <1>4, <2>1, <2>3 DEF AlertsInv, AlertsNotRepeated
    <3>2. k \in DOMAIN delivery
      BY <1>2
    <3> QED  BY <1>4, <3>1, <3>2 DEF Ages
  <2> QED  BY <2>2, <2>3
<1>6. ASSUME NEW r \in Rules
      PROVE  (SawNothingRecent(r) => SawNothingRecent(r)') /\ (SawUnanswered(r) => SawUnanswered(r)')
  <2>1. SawNothingRecent(r) => SawNothingRecent(r)'
    BY <1>2, <1>4 DEF Ages, SawNothingRecent, Made
  <2>2. SawUnanswered(r) => SawUnanswered(r)'
    <3> SUFFICES ASSUME NEW k \in DOMAIN delivery, delivery[k].rule = r,
                        delivery[k].status \in {"sent", "failed"}, \A i \in Made(r, "recovered") : i < k
                 PROVE  SawUnanswered(r)'
      BY DEF SawUnanswered
    <3>1. \A i \in Made(r, "recovered")' : i < k
      BY <1>2, <1>4 DEF Ages, Made
    <3> QED  BY <1>2, <1>4, <3>1 DEF Ages, SawUnanswered
  <2> QED  BY <2>1, <2>2
<1> QED  BY <1>3, <1>5, <1>6

\* A change of rules, channels or the world around.
LEMMA SettingsStep ==
  ASSUME AlertsInv, UNCHANGED <<delivery, evaluation>>, SettingsTyped'
  PROVE  AlertsInv'
<1>1. AlertsTypeOK'
  BY AlertsTyped DEF AlertsInv, AlertsTypeOK, SettingsTyped
<1>2. \A e \in Evaluators : LookSound(e)' /\ OutSound(e)'
  BY DEF AlertsInv, LookSound, OutSound, SawNothingRecent, SawUnanswered, Made
<1>3. AlertsNotRepeated'
  BY DEF AlertsInv, AlertsNotRepeated
<1>4. SentMeansTold'
  BY DEF AlertsInv, SentMeansTold, Sendable
<1>5. \A i \in DOMAIN delivery' : RowSound(i)'
  BY DEF AlertsInv, RowSound
<1> QED  BY <1>1, <1>2, <1>3, <1>4, <1>5 DEF AlertsInv

\* A step of an evaluation while rows at most grow old.
LEMMA EvaluationStep ==
  ASSUME AlertsInv, SettingsTyped', Ages, evaluation' \in [Evaluators -> Evaluations],
         \A e \in Evaluators : (Looks(e) \/ LookSound(e)') /\ OutSound(e)',
         SentMeansTold'
  PROVE  AlertsInv'
<1>1. AlertsTypeOK'
  BY DEF AlertsInv, AlertsTypeOK, SettingsTyped, Ages
<1>2. ASSUME NEW e \in Evaluators, Looks(e)
      PROVE  LookSound(e)'
  <2>1. LookSound(e)
    BY DEF AlertsInv
  <2>2. CASE evaluation'[e].pc \notin {"triggered", "recovered"}
    BY <2>2 DEF LookSound
  <2>3. CASE evaluation'[e].pc \in {"triggered", "recovered"}
    <3>1. /\ evaluation'[e].pc = evaluation[e].pc /\ evaluation'[e].rule = evaluation[e].rule
          /\ evaluation'[e].recent = evaluation[e].recent
          /\ evaluation[e].overtaken => evaluation'[e].overtaken
      BY <1>2, <2>3 DEF Looks
    <3>2. PICK r \in Rules : r = evaluation[e].rule
      BY <2>1, <2>3, <3>1 DEF LookSound
    <3>3. (SawNothingRecent(r) => SawNothingRecent(r)') /\ (SawUnanswered(r) => SawUnanswered(r)')
      BY AgingKeeps
    <3> QED  BY <2>1, <3>1, <3>2, <3>3 DEF LookSound
  <2> QED  BY <2>2, <2>3
<1> QED  BY <1>1, <1>2, AgingKeeps DEF AlertsInv

LEMMA SameRowsAge ==
  ASSUME AlertsInv, delivery' = delivery
  PROVE  Ages
  BY DEF AlertsInv, AlertsTypeOK, Ages

\* One evaluation moves on; what it has to send stays.
LEMMA OneEvaluation ==
  ASSUME AlertsInv, SettingsTyped', delivery' = delivery, NEW e \in Evaluators, NEW row \in Evaluations,
         evaluation' = [evaluation EXCEPT ![e] = row],
         row.out = evaluation[e].out, row.pc = "idle" => row.out = {}, LookSound(e)'
  PROVE  AlertsInv'
<1>1. evaluation \in [Evaluators -> Evaluations]
  BY DEF AlertsInv, AlertsTypeOK
<1>2. evaluation' \in [Evaluators -> Evaluations] /\ evaluation'[e] = row
  BY <1>1
<1>3. ASSUME NEW f \in Evaluators
      PROVE  (Looks(f) \/ LookSound(f)') /\ OutSound(f)' /\ evaluation'[f].out = evaluation[f].out
  <2>1. OutSound(f)
    BY DEF AlertsInv
  <2>2. CASE f = e
    BY <1>2, <2>1, <2>2 DEF OutSound
  <2>3. CASE f # e
    <3>1. evaluation'[f] = evaluation[f]
      BY <1>1, <2>3
    <3> QED  BY <2>1, <3>1 DEF Looks, OutSound
  <2> QED  BY <2>2, <2>3
<1>4. SentMeansTold'
  BY <1>3 DEF AlertsInv, SentMeansTold, Sendable
<1> QED  BY <1>2, <1>3, <1>4, SameRowsAge, EvaluationStep

\* A row that is appended repeats nothing if its evaluation saw so; the evaluations that
\* look at the same rule are overtaken.
LEMMA AppendedRow ==
  ASSUME AlertsInv, NEW d \in Deliveries, delivery' = Append(delivery, d)
  PROVE  /\ delivery' \in Seq(Deliveries) /\ Len(delivery') = Len(delivery) + 1 /\ Len(delivery) \in Nat
         /\ DOMAIN delivery = 1 .. Len(delivery) /\ DOMAIN delivery' = 1 .. (Len(delivery) + 1)
         /\ \A i \in DOMAIN delivery : delivery'[i] = delivery[i] /\ i # Len(delivery) + 1
         /\ delivery'[Len(delivery) + 1] = d
<1>1. delivery \in Seq(Deliveries)
  BY DEF AlertsInv, AlertsTypeOK
<1>2. Len(delivery) \in Nat /\ DOMAIN delivery = 1 .. Len(delivery)
  BY <1>1
<1>3. /\ delivery' \in Seq(Deliveries) /\ Len(delivery') = Len(delivery) + 1
      /\ \A i \in 1 .. Len(delivery) : delivery'[i] = delivery[i]
      /\ delivery'[Len(delivery) + 1] = d
  BY <1>1, AppendProperties
<1>4. DOMAIN delivery' = 1 .. (Len(delivery) + 1)
  BY <1>3
<1> QED  BY <1>2, <1>3, <1>4

LEMMA AppendKeeps ==
  ASSUME AlertsInv, SettingsTyped', NEW e \in Evaluators, NEW d \in Deliveries,
         Len(delivery) < MaxDeliveries, delivery' = Append(delivery, d),
         d.rule = NoRule => d.status \in {"test", "failed"},
         ~d.twin /\ d.status = "sent" => SawNothingRecent(d.rule),
         ~d.twin /\ d.status = "recovered" => SawUnanswered(d.rule),
         evaluation' \in [Evaluators -> Evaluations],
         evaluation'[e].pc \in {"rules", "deliver"},
         evaluation'[e].out = evaluation[e].out \cup {Len(delivery) + 1},
         \A f \in Evaluators \ {e} :
            /\ evaluation'[f].pc = evaluation[f].pc /\ evaluation'[f].rule = evaluation[f].rule
            /\ evaluation'[f].recent = evaluation[f].recent /\ evaluation'[f].out = evaluation[f].out
            /\ evaluation[f].overtaken \/ evaluation[f].rule = d.rule => evaluation'[f].overtaken
               \/ evaluation[f].pc \notin {"triggered", "recovered"}
  PROVE  AlertsInv'
<1> DEFINE n == Len(delivery) + 1
<1>1. /\ delivery' \in Seq(Deliveries) /\ Len(delivery') = n /\ Len(delivery) \in Nat
      /\ DOMAIN delivery = 1 .. Len(delivery) /\ DOMAIN delivery' = 1 .. n
      /\ \A i \in DOMAIN delivery : delivery'[i] = delivery[i] /\ i # n
      /\ delivery'[n] = d
  BY AppendedRow
<1>2. n \in Nat /\ n <= MaxDeliveries /\ n \in DOMAIN delivery' /\ n = Len(delivery) + 1
      /\ \A i \in DOMAIN delivery' : i \in DOMAIN delivery \/ i = n
  BY <1>1, AlertsAssumption
<1>3. DOMAIN delivery \subseteq DOMAIN delivery' /\ \A i \in DOMAIN delivery : i \in Nat /\ i < n
  BY <1>1
<1> HIDE DEF n
<1>4. AlertsTypeOK'
  BY <1>1, <1>2 DEF SettingsTyped, AlertsTypeOK
<1>5. \A i \in DOMAIN delivery' : RowSound(i)'
  BY <1>1, <1>2 DEF AlertsInv, RowSound
<1>6. ASSUME NEW r \in Rules, r # d.rule
      PROVE  (SawNothingRecent(r) => SawNothingRecent(r)') /\ (SawUnanswered(r) => SawUnanswered(r)')
  <2>1. \A s : Made(r, s)' = Made(r, s)
    BY <1>1, <1>2, <1>3, <1>6 DEF Made
  <2>2. \A s : Made(r, s) \subseteq DOMAIN delivery
    BY DEF Made
  <2>3. SawNothingRecent(r) => SawNothingRecent(r)'
    BY <1>1, <2>1, <2>2 DEF SawNothingRecent
  <2>4. SawUnanswered(r) => SawUnanswered(r)'
    BY <1>1, <1>3, <2>1 DEF SawUnanswered
  <2> QED  BY <2>3, <2>4
<1>7. ASSUME NEW f \in Evaluators
      PROVE  LookSound(f)' /\ OutSound(f)'
  <2>1. LookSound(f) /\ OutSound(f)
    BY DEF AlertsInv
  <2>2. CASE f = e
    BY <1>2, <1>3, <2>1, <2>2 DEF LookSound, OutSound
  <2>3. CASE f # e
    <3>1. /\ evaluation'[f].pc = evaluation[f].pc /\ evaluation'[f].rule = evaluation[f].rule
          /\ evaluation'[f].recent = evaluation[f].recent /\ evaluation'[f].out = evaluation[f].out
          /\ evaluation[f].overtaken \/ evaluation[f].rule = d.rule => evaluation'[f].overtaken
             \/ evaluation[f].pc \notin {"triggered", "recovered"}
      BY <2>3
    <3>2. OutSound(f)'
      BY <1>3, <2>1, <3>1 DEF OutSound
    <3>3. CASE evaluation[f].pc \notin {"triggered", "recovered"}
      BY <3>1, <3>2, <3>3 DEF LookSound
    <3>4. CASE evaluation'[f].overtaken
      BY <2>1, <3>1, <3>2, <3>4 DEF LookSound
    <3>5. CASE evaluation[f].pc \in {"triggered", "recovered"} /\ ~evaluation'[f].overtaken
      <4>1. PICK r \in Rules : r = evaluation[f].rule
        BY <2>1, <3>5 DEF LookSound
      <4>2. r # d.rule /\ ~evaluation[f].overtaken
        BY <3>1, <3>5, <4>1
      <4> QED  BY <1>6, <2>1, <3>1, <3>2, <3>5, <4>1, <4>2 DEF LookSound
    <3> QED  BY <3>3, <3>4, <3>5
  <2> QED  BY <2>2, <2>3
<1>8. AlertsNotRepeated'
  <2> SUFFICES ASSUME NEW i \in DOMAIN delivery', NEW j \in DOMAIN delivery', i < j,
                      delivery'[i].rule = delivery'[j].rule, ~delivery'[j].twin
               PROVE  /\ delivery'[i].status = "sent" /\ delivery'[j].status = "sent" => ~delivery'[i].recent
                      /\ delivery'[i].status = "recovered" /\ delivery'[j].status = "recovered" =>
                           \E k \in (i + 1) .. (j - 1) : delivery'[k].rule = delivery'[j].rule
                                                         /\ delivery'[k].status \in {"sent", "failed"}
    BY DEF AlertsNotRepeated
  <2>1. i \in DOMAIN delivery /\ i \in Nat /\ delivery'[i] = delivery[i]
    BY <1>1, <1>2, <1>3
  <2>2. CASE j \in DOMAIN delivery
    <3>1. delivery'[j] = delivery[j] /\ j \in Nat
      BY <1>1, <1>3, <2>2
    <3>2. \A k \in (i + 1) .. (j - 1) : k \in DOMAIN delivery
      BY <1>1, <2>1, <2>2
    <3>3. /\ delivery[i].status = "sent" /\ delivery[j].status = "sent" => ~delivery[i].recent
          /\ delivery[i].status = "recovered" /\ delivery[j].status = "recovered" =>
               \E k \in (i + 1) .. (j - 1) : delivery[k].rule = delivery[j].rule
                                             /\ delivery[k].status \in {"sent", "failed"}
      BY <2>1, <2>2, <3>1 DEF AlertsInv, AlertsNotRepeated
    <3> QED  BY <1>1, <2>1, <3>1, <3>2, <3>3
  <2>3. CASE j = n
    <3>1. delivery'[j] = d /\ delivery[i].rule = d.rule
      BY <1>1, <2>1, <2>3
    <3>2. ASSUME delivery[i].status = "sent", d.status = "sent"
          PROVE  ~delivery[i].recent
      BY <2>1, <3>1, <3>2 DEF SawNothingRecent, Made
    <3>3. ASSUME delivery[i].status = "recovered", d.status = "recovered"
          PROVE  \E k \in (i + 1) .. (j - 1) : delivery'[k].rule = d.rule
                                               /\ delivery'[k].status \in {"sent", "failed"}
      <4>1. PICK k \in DOMAIN delivery : /\ delivery[k].rule = d.rule /\ delivery[k].status \in {"sent", "failed"}
                                         /\ i < k
        BY <2>1, <3>1, <3>3 DEF SawUnanswered, Made
      <4>2. k \in (i + 1) .. (j - 1)
        BY <1>2, <1>3, <2>1, <2>3, <4>1
      <4> QED  BY <1>1, <4>1, <4>2
    <3> QED  BY <2>1, <3>1, <3>2, <3>3
  <2> QED  BY <1>2, <2>2, <2>3
<1>9. SentMeansTold'
  <2> SUFFICES ASSUME NEW i \in DOMAIN delivery', Sendable(i)'
               PROVE  \/ delivery'[i].reach = "target" \/ delivery'[i].dropped \/ (delivery'[i].reach = "outbox" /\ SMTPURL = "")
                      \/ \E f \in Evaluators : i \in evaluation'[f].out
    BY DEF SentMeansTold
  <2>1. CASE i = n
    BY <1>2, <2>1
  <2>2. CASE i \in DOMAIN delivery
    <3>1. delivery'[i] = delivery[i] /\ Sendable(i)
      BY <1>1, <2>2 DEF Sendable
    <3>2. \A f \in Evaluators : evaluation[f].out \subseteq evaluation'[f].out
      OBVIOUS
    <3> QED  BY <2>2, <3>1, <3>2 DEF AlertsInv, SentMeansTold
  <2> QED  BY <1>2, <2>1, <2>2
<1> QED  BY <1>4, <1>5, <1>7, <1>8, <1>9 DEF AlertsInv

\* Rules, notification channels and the world around.
LEMMA DefaultsTyped ==
  ASSUME AlertsInv, WithDefaults
  PROVE  /\ configured' \in BOOLEAN
         /\ rule' \in [Rules -> {"none", "on", "off", "deleted"}]
         /\ note' \in [Notes -> NoteRows]
<1>1. 1 \in Notes
  BY AlertsAssumption DEF Notes
<1> QED  BY <1>1 DEF WithDefaults, NoteRows, NoteKinds, NoteTargets, AlertsInv, AlertsTypeOK

LEMMA RuleChangesKeep ==
  ASSUME AlertsInv, NEW S \in SUBSET Rules, NEW s \in {"on", "off", "deleted"}, SetAlertRules(S, s)
  PROVE  AlertsInv'
<1>1. UNCHANGED <<configured, note, preferred, patching, firing, routed, delivery, evaluation>>
  BY DEF SetAlertRules
<1>2. rule' \in [Rules -> {"none", "on", "off", "deleted"}]
  BY DEF SetAlertRules, AlertsInv, AlertsTypeOK
<1>3. alertEvents' \in 0 .. MaxAlertEvents
  BY EventCounted DEF SetAlertRules
<1>4. SettingsTyped'
  BY <1>1, <1>2, <1>3 DEF AlertsInv, AlertsTypeOK, SettingsTyped
<1> QED  BY <1>1, <1>4, SettingsStep

LEMMA SurroundingsKeep ==
  ASSUME AlertsInv,
         \/ AlertCenter \/ UpstreamsEnabled
         \/ \E r \in Rules : UpsertAlertRule(r) \/ ConditionChanges(r)
  PROVE  AlertsInv'
<1>1. UNCHANGED <<preferred, patching, delivery, evaluation>>
  BY DEF AlertCenter, UpstreamsEnabled, UpsertAlertRule, ConditionChanges
<1>2. alertEvents' \in 0 .. MaxAlertEvents
  BY EventCounted DEF AlertCenter, UpstreamsEnabled, UpsertAlertRule, ConditionChanges
<1>3. CASE AlertCenter
  <2>1. SettingsTyped'
    BY <1>1, <1>2, <1>3, DefaultsTyped DEF AlertCenter, AlertsInv, AlertsTypeOK, SettingsTyped
  <2> QED  BY <1>1, <2>1, SettingsStep
<1>4. CASE UpstreamsEnabled
  <2>1. SettingsTyped'
    BY <1>1, <1>2, <1>4 DEF UpstreamsEnabled, AlertsInv, AlertsTypeOK, SettingsTyped
  <2> QED  BY <1>1, <2>1, SettingsStep
<1>5. ASSUME NEW r \in Rules, UpsertAlertRule(r)
      PROVE  AlertsInv'
  <2>1. rule' \in [Rules -> {"none", "on", "off", "deleted"}]
    BY <1>5 DEF UpsertAlertRule, AlertsInv, AlertsTypeOK
  <2>2. SettingsTyped'
    BY <1>1, <1>2, <1>5, <2>1 DEF UpsertAlertRule, AlertsInv, AlertsTypeOK, SettingsTyped
  <2> QED  BY <1>1, <2>2, SettingsStep
<1>6. ASSUME NEW r \in Rules, ConditionChanges(r)
      PROVE  AlertsInv'
  <2>1. firing' \in [Rules -> BOOLEAN]
    BY <1>6 DEF ConditionChanges, AlertsInv, AlertsTypeOK
  <2>2. SettingsTyped'
    BY <1>1, <1>2, <1>6, <2>1 DEF ConditionChanges, AlertsInv, AlertsTypeOK, SettingsTyped
  <2> QED  BY <1>1, <2>2, SettingsStep
<1> QED  BY <1>3, <1>4, <1>5, <1>6

LEMMA NotesKeep ==
  ASSUME AlertsInv, NEW n \in Notes,
         \/ UpsertNotificationChannel(n) \/ ReadForPatch(n)
         \/ PatchNotificationChannel(n) \/ PreferNotificationChannel(n)
  PROVE  AlertsInv'
<1>1. UNCHANGED <<configured, rule, firing, routed, delivery, evaluation>>
  BY DEF UpsertNotificationChannel, ReadForPatch, PatchNotificationChannel, PreferNotificationChannel
<1>2. alertEvents' \in 0 .. MaxAlertEvents
  BY EventCounted DEF UpsertNotificationChannel, ReadForPatch, PatchNotificationChannel,
                      PreferNotificationChannel, AlertsInv, AlertsTypeOK
<1>3. note \in [Notes -> NoteRows] /\ patching \in [Notes -> PatchRows] /\ preferred \in 0 .. MaxNotes
  BY DEF AlertsInv, AlertsTypeOK
<1>4. \A s \in {"on", "off"}, k \in NoteKinds, target \in NoteTargets :
        /\ [state |-> s, kind |-> k, target |-> target] \in NoteRows
        /\ [kind |-> k, target |-> target] \in PatchRows
  BY DEF NoteRows, PatchRows
<1>5. note' \in [Notes -> NoteRows]
  <2>1. CASE note' = note
    BY <1>3, <2>1
  <2>2. CASE UpsertNotificationChannel(n)
    <3>1. PICK s \in {"on", "off"}, k \in NoteKinds : note' = [note EXCEPT ![n] = [state |-> s, kind |-> k, target |-> "sealed"]]
      BY <2>2 DEF UpsertNotificationChannel
    <3> QED  BY <1>3, <1>4, <3>1 DEF NoteTargets
  <2>3. CASE PatchNotificationChannel(n) /\ note' # note
    <3>1. PICK s \in {"on", "off"}, q \in {patching[n]} \cup [kind : NoteKinds, target : {"sealed"}] :
            note' = [note EXCEPT ![n] = [state |-> s, kind |-> q.kind, target |-> q.target]]
      BY <2>3 DEF PatchNotificationChannel
    <3>2. q.kind \in NoteKinds /\ q.target \in NoteTargets
      BY <1>3, <3>1 DEF PatchRows, NoteTargets
    <3>3. PICK k \in NoteKinds, target \in NoteTargets : k = q.kind /\ target = q.target
      BY <3>2
    <3> QED  BY <1>3, <1>4, <3>1, <3>3
  <2> QED  BY <2>1, <2>2, <2>3 DEF ReadForPatch, PreferNotificationChannel
<1>6. patching' \in [Notes -> PatchRows]
  <2>1. NoPatch \in PatchRows
    BY DEF NoPatch, PatchRows, NoteKinds, NoteTargets
  <2>2. CASE patching' = patching
    BY <1>3, <2>2
  <2>3. CASE ReadForPatch(n)
    BY <1>3, <1>4, <2>3 DEF ReadForPatch, NoteRows, PatchRows
  <2>4. CASE patching' = [patching EXCEPT ![n] = NoPatch]
    BY <1>3, <2>1, <2>4
  <2> QED  BY <2>2, <2>3, <2>4 DEF UpsertNotificationChannel, PatchNotificationChannel, PreferNotificationChannel
<1>7. preferred' \in 0 .. MaxNotes
  <2>1. n \in 0 .. MaxNotes
    BY AlertsAssumption DEF Notes
  <2> QED  BY <1>3, <2>1
           DEF UpsertNotificationChannel, ReadForPatch, PatchNotificationChannel, PreferNotificationChannel
<1>8. SettingsTyped'
  BY <1>1, <1>2, <1>5, <1>6, <1>7 DEF AlertsInv, AlertsTypeOK, SettingsTyped
<1> QED  BY <1>1, <1>8, SettingsStep

LEMMA BulkNotesKeep ==
  ASSUME AlertsInv, NEW S \in SUBSET Notes,
         \/ \E s \in {"on", "off"} : BulkUpdateNotificationChannels(S, s)
         \/ BulkDeleteNotificationChannels(S)
  PROVE  AlertsInv'
<1>1. UNCHANGED <<configured, rule, patching, firing, routed, delivery, evaluation>>
  BY DEF BulkUpdateNotificationChannels, BulkDeleteNotificationChannels
<1>2. alertEvents' \in 0 .. MaxAlertEvents
  BY EventCounted DEF BulkUpdateNotificationChannels, BulkDeleteNotificationChannels
<1>3. note \in [Notes -> NoteRows]
  BY DEF AlertsInv, AlertsTypeOK, NoteRows
<1>4. note' \in [Notes -> NoteRows]
  <2>1. CASE BulkDeleteNotificationChannels(S)
    BY <1>3, <2>1 DEF BulkDeleteNotificationChannels, NoNote, NoteRows, NoteKinds, NoteTargets
  <2>2. ASSUME NEW s \in {"on", "off"}, BulkUpdateNotificationChannels(S, s)
        PROVE  note' \in [Notes -> NoteRows]
    BY <1>3, <2>2 DEF BulkUpdateNotificationChannels, NoteRows
  <2> QED  BY <2>1, <2>2
<1>5. preferred' \in 0 .. MaxNotes
  BY AlertsAssumption DEF BulkUpdateNotificationChannels, BulkDeleteNotificationChannels, AlertsInv, AlertsTypeOK
<1>6. SettingsTyped'
  BY <1>1, <1>2, <1>4, <1>5 DEF AlertsInv, AlertsTypeOK, SettingsTyped
<1> QED  BY <1>1, <1>6, SettingsStep

LEMMA WindowPassing ==
  ASSUME AlertsInv, DedupeWindowPasses
  PROVE  AlertsInv'
<1>1. UNCHANGED <<configured, rule, note, preferred, patching, firing, routed, evaluation>>
  BY DEF DedupeWindowPasses
<1>2. delivery \in Seq(Deliveries) /\ Len(delivery) \in Nat /\ DOMAIN delivery = 1 .. Len(delivery)
  BY DEF AlertsInv, AlertsTypeOK
<1>3. delivery' = [i \in 1 .. Len(delivery) |-> [delivery[i] EXCEPT !.recent = FALSE]]
  BY <1>2 DEF DedupeWindowPasses
<1>4. ASSUME NEW i \in 1 .. Len(delivery)
      PROVE  LET row == [delivery[i] EXCEPT !.recent = FALSE]
             IN /\ row \in Deliveries /\ row.rule = delivery[i].rule /\ row.twin = delivery[i].twin
                /\ row.status = delivery[i].status /\ row.reach = delivery[i].reach
                /\ row.dropped = delivery[i].dropped /\ row.recent = FALSE
  <2>1. delivery[i] \in Deliveries
    BY <1>2
  <2> QED  BY <2>1 DEF Deliveries
<1>5. delivery' \in Seq(Deliveries) /\ Len(delivery') = Len(delivery)
  <2>1. delivery' \in [1 .. Len(delivery) -> Deliveries]
    BY <1>3, <1>4
  <2> QED  BY <1>2, <2>1
<1>6. \A i \in DOMAIN delivery :
        /\ delivery'[i].rule = delivery[i].rule /\ delivery'[i].twin = delivery[i].twin
        /\ delivery'[i].status = delivery[i].status /\ delivery'[i].reach = delivery[i].reach
        /\ delivery'[i].dropped = delivery[i].dropped /\ delivery'[i].recent = FALSE
  BY <1>2, <1>3, <1>4
<1>7. Ages
  BY <1>5, <1>6 DEF Ages
<1>8. DOMAIN delivery' = DOMAIN delivery
  BY <1>2, <1>3
<1>9. SentMeansTold'
  BY <1>1, <1>6, <1>8 DEF AlertsInv, SentMeansTold, Sendable
<1>10. \A e \in Evaluators : Looks(e) /\ OutSound(e)'
  BY <1>1, <1>8 DEF AlertsInv, Looks, OutSound
<1>11. alertEvents' \in 0 .. MaxAlertEvents
  BY EventCounted DEF DedupeWindowPasses
<1>12. SettingsTyped' /\ evaluation' \in [Evaluators -> Evaluations]
  BY <1>1, <1>11 DEF AlertsInv, AlertsTypeOK, SettingsTyped
<1> QED  BY <1>7, <1>9, <1>10, <1>12, EvaluationStep

\* The steps of an evaluation.
LEMMA NoEvaluationTyped ==
  /\ NoEvaluation \in Evaluations /\ NoEvaluation.pc = "idle" /\ NoEvaluation.out = {}
  BY DEF NoEvaluation, Evaluations

LEMMA EvaluationBegins ==
  ASSUME AlertsInv, NEW e \in Evaluators, EvaluateAlerts(e)
  PROVE  AlertsInv'
<1>1. UNCHANGED <<preferred, patching, firing, routed, delivery>>
  BY DEF EvaluateAlerts
<1>2. alertEvents' \in 0 .. MaxAlertEvents
  BY EventCounted DEF EvaluateAlerts
<1>3. SettingsTyped'
  BY <1>1, <1>2, DefaultsTyped DEF EvaluateAlerts, AlertsInv, AlertsTypeOK, SettingsTyped
<1>4. PICK todo \in SUBSET Rules : todo = {r \in Rules : rule'[r] = "on"}
  OBVIOUS
<1> DEFINE row == [NoEvaluation EXCEPT !.pc = "rules", !.todo = todo]
<1>5. row \in Evaluations /\ row.pc = "rules" /\ row.out = {}
  BY DEF NoEvaluation, Evaluations
<1>6. evaluation' = [evaluation EXCEPT ![e] = row]
  BY <1>4 DEF EvaluateAlerts
<1> HIDE DEF row
<1>7. evaluation[e].out = {}
  BY DEF EvaluateAlerts, AlertsInv, OutSound
<1>8. LookSound(e)'
  <2>1. evaluation'[e].pc = "rules"
    BY <1>5, <1>6 DEF AlertsInv, AlertsTypeOK
  <2> QED  BY <2>1 DEF LookSound
<1> QED  BY <1>1, <1>3, <1>5, <1>6, <1>7, <1>8, OneEvaluation

\* What an evaluation looks for it has seen: here LookSound begins to hold.
LEMMA RuleEvaluationKeeps ==
  ASSUME AlertsInv, NEW e \in Evaluators, NEW r \in Rules, EvaluateAlertRule(e, r)
  PROVE  AlertsInv'
<1>1. UNCHANGED <<configured, rule, note, preferred, patching, firing, delivery, alertEvents>>
  BY DEF EvaluateAlertRule
<1>2. /\ evaluation \in [Evaluators -> Evaluations] /\ delivery \in Seq(Deliveries)
      /\ Len(delivery) \in Nat /\ DOMAIN delivery = 1 .. Len(delivery) /\ firing \in [Rules -> BOOLEAN]
  BY DEF AlertsInv, AlertsTypeOK
<1>3. SettingsTyped'
  BY <1>1 DEF EvaluateAlertRule, AlertsInv, AlertsTypeOK, SettingsTyped
<1>4. PICK pc \in {"triggered", "recovered", "rules"} :
        pc = IF firing[r] THEN "triggered" ELSE IF AwaitsRecovery(r) THEN "recovered" ELSE "rules"
  OBVIOUS
<1>5. PICK recent \in BOOLEAN : recent = (firing[r] /\ RecentlySent(r))
  BY <1>2
<1> DEFINE row == [evaluation[e] EXCEPT !.todo = evaluation[e].todo \ {r}, !.rule = r, !.overtaken = FALSE,
                                        !.pc = pc, !.recent = recent]
<1>6. /\ row \in Evaluations /\ row.pc = pc /\ row.rule = r /\ row.recent = recent
      /\ row.out = evaluation[e].out
  <2>1. PICK old \in Evaluations : old = evaluation[e]
    BY <1>2
  <2>2. PICK todo \in SUBSET Rules : todo = old.todo \ {r}
    BY DEF Evaluations
  <2> DEFINE new == [old EXCEPT !.todo = todo, !.rule = r, !.overtaken = FALSE, !.pc = pc, !.recent = recent]
  <2>3. new \in Evaluations /\ new.pc = pc /\ new.rule = r /\ new.recent = recent /\ new.out = old.out
    BY DEF Evaluations
  <2>4. row = new
    BY <2>1, <2>2
  <2> HIDE DEF new, row
  <2> QED  BY <2>1, <2>3, <2>4
<1>7. evaluation' = [evaluation EXCEPT ![e] = row]
  BY <1>4, <1>5 DEF EvaluateAlertRule
<1> HIDE DEF row
<1>8. evaluation'[e] = row
  BY <1>2, <1>7
<1>9. pc = "triggered" /\ ~recent => SawNothingRecent(r)'
  BY <1>1, <1>4, <1>5 DEF RecentlySent, SawNothingRecent, Made
<1>10. pc = "recovered" => SawUnanswered(r)'
  <2> SUFFICES ASSUME AwaitsRecovery(r)
               PROVE  SawUnanswered(r)
    BY <1>1, <1>4 DEF SawUnanswered, Made
  <2>1. PICK S \in SUBSET (1 .. Len(delivery)) : S = Made(r, "sent")
    BY <1>2 DEF Made
  <2>2. PICK R \in SUBSET (1 .. Len(delivery)) : R = Made(r, "recovered")
    BY <1>2 DEF Made
  <2>3. LastOf(S) > LastOf(R)
    BY <2>1, <2>2 DEF AwaitsRecovery
  <2>4. CASE R = {}
    <3>1. S # {}
      BY <2>3, <2>4 DEF LastOf
    <3>2. PICK k \in S : TRUE
      BY <3>1
    <3> QED  BY <2>1, <2>2, <2>4, <3>2 DEF SawUnanswered, Made
  <2>5. CASE R # {}
    <3>1. LastOf(R) \in R /\ \A j \in R : j <= LastOf(R)
      BY <1>2, <2>5, LastOfPositions
    <3>2. LastOf(R) \in 1 .. Len(delivery)
      BY <3>1
    <3> PICK b \in 1 .. Len(delivery) : b = LastOf(R)
      BY <3>2
    <3>3. S # {}
      <4>1. LastOf({}) = 0
        BY DEF LastOf
      <4>2. ASSUME S = {}
            PROVE  FALSE
        <5>1. 0 > b
          BY <2>3, <4>1, <4>2
        <5> QED  BY <1>2, <5>1
      <4> QED  BY <4>2
    <3>4. LastOf(S) \in S
      BY <1>2, <3>3, LastOfPositions
    <3> PICK a \in S : a = LastOf(S)
      BY <3>4
    <3>5. \A j \in R : j < LastOf(S)
      <4>1. a > b /\ \A j \in R : j <= b
        BY <2>3, <3>1
      <4>2. a \in Nat /\ b \in Nat /\ \A j \in R : j \in Nat
        BY <1>2
      <4> QED  BY <4>1, <4>2
    <3> QED  BY <2>1, <2>2, <3>4, <3>5 DEF SawUnanswered, Made
  <2> QED  BY <2>4, <2>5
<1>11. LookSound(e)'
  BY <1>6, <1>8, <1>9, <1>10 DEF LookSound
<1>12. row.pc = "idle" => row.out = {}
  BY <1>6
<1> QED  BY <1>1, <1>3, <1>6, <1>7, <1>11, <1>12, OneEvaluation

LEMMA NotesSealed ==
  ASSUME AlertsInv, note' = Sealed
  PROVE  note' \in [Notes -> NoteRows]
  BY DEF Sealed, NoteRows, NoteTargets, AlertsInv, AlertsTypeOK

\* The first phase is over, or the second.
LEMMA PhaseKeeps ==
  ASSUME AlertsInv, NEW e \in Evaluators, StartDelivering(e) \/ EvaluationEnds(e)
  PROVE  AlertsInv'
<1>1. UNCHANGED <<configured, rule, preferred, patching, firing, routed, delivery, alertEvents>>
  BY DEF StartDelivering, EvaluationEnds
<1>2. note' \in [Notes -> NoteRows]
  BY NotesSealed DEF StartDelivering, EvaluationEnds, NoteRows, AlertsInv, AlertsTypeOK
<1>3. SettingsTyped'
  BY <1>1, <1>2 DEF AlertsInv, AlertsTypeOK, SettingsTyped
<1>4. evaluation \in [Evaluators -> Evaluations]
  BY DEF AlertsInv, AlertsTypeOK
<1> DEFINE deliver == [evaluation[e] EXCEPT !.pc = "deliver"]
<1>5. deliver \in Evaluations /\ deliver.pc = "deliver" /\ deliver.out = evaluation[e].out
  BY <1>4 DEF Evaluations
<1>6. CASE StartDelivering(e)
  <2>1. evaluation' = [evaluation EXCEPT ![e] = deliver]
    BY <1>6 DEF StartDelivering
  <2> HIDE DEF deliver
  <2>2. LookSound(e)'
    BY <1>4, <1>5, <2>1 DEF LookSound
  <2> QED  BY <1>1, <1>3, <1>5, <2>1, <2>2, OneEvaluation
<1>7. CASE EvaluationEnds(e)
  <2>1. evaluation' = [evaluation EXCEPT ![e] = NoEvaluation] /\ evaluation[e].out = {}
    BY <1>7 DEF EvaluationEnds
  <2>2. LookSound(e)'
    BY <1>4, <2>1, NoEvaluationTyped DEF LookSound
  <2> QED  BY <1>1, <1>3, <2>1, <2>2, NoEvaluationTyped, OneEvaluation
<1> QED  BY <1>6, <1>7

\* A request that ends early leaves rows that count as sent behind: they are dropped.
LEMMA FailureOfEvaluationKeeps ==
  ASSUME AlertsInv, NEW e \in Evaluators, EvaluationFails(e)
  PROVE  AlertsInv'
<1>1. UNCHANGED <<configured, rule, note, preferred, patching, firing, routed, alertEvents>>
  BY DEF EvaluationFails
<1>2. /\ evaluation \in [Evaluators -> Evaluations] /\ delivery \in Seq(Deliveries)
      /\ Len(delivery) \in Nat /\ DOMAIN delivery = 1 .. Len(delivery)
  BY DEF AlertsInv, AlertsTypeOK
<1>3. SettingsTyped'
  BY <1>1 DEF AlertsInv, AlertsTypeOK, SettingsTyped
<1>4. PICK out : out = evaluation[e].out
  OBVIOUS
<1>5. evaluation' = [evaluation EXCEPT ![e] = NoEvaluation]
  BY DEF EvaluationFails
<1>6. delivery' = [i \in 1 .. Len(delivery) |->
        IF i \in out THEN [delivery[i] EXCEPT !.dropped = TRUE] ELSE delivery[i]]
  BY <1>2, <1>4 DEF EvaluationFails, Dropped
<1>7. ASSUME NEW i \in 1 .. Len(delivery)
      PROVE  /\ delivery'[i] \in Deliveries
             /\ delivery'[i].rule = delivery[i].rule /\ delivery'[i].twin = delivery[i].twin
             /\ delivery'[i].status = delivery[i].status /\ delivery'[i].reach = delivery[i].reach
             /\ delivery'[i].recent = delivery[i].recent
             /\ delivery[i].dropped \/ i \in out => delivery'[i].dropped
  <2>1. delivery[i] \in Deliveries
    BY <1>2
  <2> DEFINE row == [delivery[i] EXCEPT !.dropped = TRUE]
  <2>2. /\ row \in Deliveries /\ row.rule = delivery[i].rule /\ row.twin = delivery[i].twin
        /\ row.status = delivery[i].status /\ row.reach = delivery[i].reach
        /\ row.recent = delivery[i].recent /\ row.dropped
    BY <2>1 DEF Deliveries
  <2>3. delivery'[i] = IF i \in out THEN row ELSE delivery[i]
    BY <1>6
  <2> HIDE DEF row
  <2> QED  BY <2>1, <2>2, <2>3
<1>8. delivery' \in Seq(Deliveries) /\ Len(delivery') = Len(delivery) /\ DOMAIN delivery' = DOMAIN delivery
  <2>1. delivery' \in [1 .. Len(delivery) -> Deliveries]
    BY <1>6, <1>7
  <2> QED  BY <1>2, <2>1
<1>9. Ages
  BY <1>2, <1>7, <1>8 DEF Ages
<1>10. ASSUME NEW f \in Evaluators
       PROVE  Looks(f) /\ OutSound(f)' /\ (f # e => evaluation'[f].out = evaluation[f].out)
  <2>1. CASE f = e
    <3>1. evaluation'[f] = NoEvaluation
      BY <1>2, <1>5, <2>1
    <3> QED  BY <2>1, <3>1, NoEvaluationTyped DEF Looks, OutSound
  <2>2. CASE f # e
    <3>1. evaluation'[f] = evaluation[f]
      BY <1>2, <1>5, <2>2
    <3> QED  BY <1>8, <3>1 DEF Looks, OutSound, AlertsInv
  <2> QED  BY <2>1, <2>2
<1>11. SentMeansTold'
  <2> SUFFICES ASSUME NEW i \in DOMAIN delivery, Sendable(i)'
               PROVE  \/ delivery'[i].reach = "target" \/ delivery'[i].dropped \/ (delivery'[i].reach = "outbox" /\ SMTPURL = "")
                      \/ \E f \in Evaluators : i \in evaluation'[f].out
    BY <1>8 DEF SentMeansTold
  <2>1. Sendable(i)
    BY <1>2, <1>7 DEF Sendable
  <2>2. \/ delivery[i].reach = "target" \/ delivery[i].dropped \/ (delivery[i].reach = "outbox" /\ SMTPURL = "")
        \/ \E f \in Evaluators : i \in evaluation[f].out
    BY <2>1 DEF AlertsInv, SentMeansTold
  <2> QED  BY <1>2, <1>4, <1>7, <1>10, <2>2
<1>12. evaluation' \in [Evaluators -> Evaluations]
  BY <1>2, <1>5, NoEvaluationTyped
<1> QED  BY <1>3, <1>9, <1>10, <1>11, <1>12, EvaluationStep

\* A row that is sent fails, is told, stays in the outbox or is dropped: it needs its
\* evaluation no more.
LEMMA OutcomeSettles ==
  ASSUME NEW i \in DOMAIN delivery, delivery[i] \in Deliveries, NEW d \in Outcomes(i)
  PROVE  /\ d \in Deliveries /\ d.rule = delivery[i].rule /\ d.twin = delivery[i].twin /\ d.recent = delivery[i].recent
         /\ d.status = delivery[i].status \/ (Sendable(i) /\ d.status = "failed")
         /\ d.status \in {"sent", "test", "recovered"} => d.reach = "target" \/ d.dropped \/ (d.reach = "outbox" /\ SMTPURL = "")
<1> DEFINE failed == [delivery[i] EXCEPT !.status = "failed"]
           dropped == [delivery[i] EXCEPT !.dropped = TRUE]
           told == [delivery[i] EXCEPT !.reach = "target"]
           outbox == [delivery[i] EXCEPT !.reach = "outbox"]
<1>1. /\ failed \in Deliveries /\ failed.rule = delivery[i].rule /\ failed.twin = delivery[i].twin
      /\ failed.recent = delivery[i].recent /\ failed.status = "failed"
  BY DEF Deliveries
<1>2. /\ dropped \in Deliveries /\ dropped.rule = delivery[i].rule /\ dropped.twin = delivery[i].twin
      /\ dropped.recent = delivery[i].recent /\ dropped.status = delivery[i].status /\ dropped.dropped
  BY DEF Deliveries
<1>3. /\ told \in Deliveries /\ told.rule = delivery[i].rule /\ told.twin = delivery[i].twin
      /\ told.recent = delivery[i].recent /\ told.status = delivery[i].status /\ told.reach = "target"
  BY DEF Deliveries
<1>4. /\ outbox \in Deliveries /\ outbox.rule = delivery[i].rule /\ outbox.twin = delivery[i].twin
      /\ outbox.recent = delivery[i].recent /\ outbox.status = delivery[i].status /\ outbox.reach = "outbox"
  BY DEF Deliveries
<1>5. ~Sendable(i) => d = delivery[i]
  BY DEF Outcomes
<1>6. Sendable(i) => d = failed \/ d = dropped \/ d = told \/ (d = outbox /\ SMTPURL = "")
  BY DEF Outcomes, Transmitted
<1> HIDE DEF failed, dropped, told, outbox
<1> QED  BY <1>1, <1>2, <1>3, <1>4, <1>5, <1>6 DEF Sendable

LEMMA SendingKeeps ==
  ASSUME AlertsInv, NEW e \in Evaluators, NEW i \in 1 .. MaxDeliveries, DeliverAlertNotification(e, i)
  PROVE  AlertsInv'
<1>1. UNCHANGED <<configured, rule, note, preferred, patching, firing, routed, alertEvents>>
  BY DEF DeliverAlertNotification
<1>2. /\ evaluation \in [Evaluators -> Evaluations] /\ delivery \in Seq(Deliveries)
      /\ Len(delivery) \in Nat /\ DOMAIN delivery = 1 .. Len(delivery)
  BY DEF AlertsInv, AlertsTypeOK
<1>3. SettingsTyped'
  BY <1>1 DEF AlertsInv, AlertsTypeOK, SettingsTyped
<1>4. evaluation[e].pc = "deliver" /\ i \in evaluation[e].out /\ i \in DOMAIN delivery
  BY DEF DeliverAlertNotification, AlertsInv, OutSound
<1>5. PICK d \in Outcomes(i) : delivery' = [delivery EXCEPT ![i] = d]
  BY DEF DeliverAlertNotification
<1>6. delivery[i] \in Deliveries
  BY <1>2, <1>4
<1>7. /\ d \in Deliveries /\ d.rule = delivery[i].rule /\ d.twin = delivery[i].twin /\ d.recent = delivery[i].recent
      /\ d.status = delivery[i].status \/ (Sendable(i) /\ d.status = "failed")
      /\ d.status \in {"sent", "test", "recovered"} => d.reach = "target" \/ d.dropped \/ (d.reach = "outbox" /\ SMTPURL = "")
  BY <1>4, <1>6, OutcomeSettles
<1>8. /\ delivery' \in Seq(Deliveries) /\ Len(delivery') = Len(delivery) /\ DOMAIN delivery' = DOMAIN delivery
      /\ delivery'[i] = d /\ \A j \in DOMAIN delivery : j # i => delivery'[j] = delivery[j]
  BY <1>2, <1>4, <1>5, <1>7, ExceptSeq
<1>9. Ages
  BY <1>7, <1>8 DEF Ages
<1> DEFINE row == [evaluation[e] EXCEPT !.out = evaluation[e].out \ {i}]
<1>10. row \in Evaluations /\ row.pc = "deliver" /\ row.out = evaluation[e].out \ {i}
  BY <1>2, <1>4 DEF Evaluations
<1>11. evaluation' = [evaluation EXCEPT ![e] = row]
  BY DEF DeliverAlertNotification
<1> HIDE DEF row
<1>12. evaluation' \in [Evaluators -> Evaluations]
  BY <1>2, <1>10, <1>11
<1>13. ASSUME NEW f \in Evaluators
       PROVE  Looks(f) /\ OutSound(f)' /\ evaluation[f].out \ {i} \subseteq evaluation'[f].out
  <2>1. OutSound(f)
    BY DEF AlertsInv
  <2>2. CASE f = e
    <3>1. evaluation'[f] = row
      BY <1>2, <1>11, <2>2
    <3> QED  BY <1>8, <1>10, <2>1, <2>2, <3>1 DEF Looks, OutSound
  <2>3. CASE f # e
    <3>1. evaluation'[f] = evaluation[f]
      BY <1>2, <1>11, <2>3
    <3> QED  BY <1>8, <2>1, <3>1 DEF Looks, OutSound
  <2> QED  BY <2>2, <2>3
<1>14. SentMeansTold'
  <2> SUFFICES ASSUME NEW j \in DOMAIN delivery, Sendable(j)'
               PROVE  \/ delivery'[j].reach = "target" \/ delivery'[j].dropped \/ (delivery'[j].reach = "outbox" /\ SMTPURL = "")
                      \/ \E f \in Evaluators : j \in evaluation'[f].out
    BY <1>8 DEF SentMeansTold
  <2>1. CASE j = i
    BY <1>7, <1>8, <2>1 DEF Sendable
  <2>2. CASE j # i
    <3>1. delivery'[j] = delivery[j] /\ Sendable(j)
      BY <1>8, <2>2 DEF Sendable
    <3> QED  BY <1>13, <2>2, <3>1 DEF AlertsInv, SentMeansTold
  <2> QED  BY <2>1, <2>2
<1> QED  BY <1>3, <1>9, <1>12, <1>13, <1>14, EvaluationStep

\* The row that is inserted says what its evaluation saw.
LEMMA InsertedRow ==
  ASSUME AlertsInv, NEW e \in Evaluators, InsertAlertDelivery(e)
  PROVE  /\ NewDelivery(e) \in Deliveries /\ NewDelivery(e).rule = evaluation[e].rule
         /\ evaluation[e].rule \in Rules
         /\ ~NewDelivery(e).twin /\ NewDelivery(e).status = "sent" => SawNothingRecent(evaluation[e].rule)
         /\ ~NewDelivery(e).twin /\ NewDelivery(e).status = "recovered" => SawUnanswered(evaluation[e].rule)
<1>1. evaluation[e] \in Evaluations /\ LookSound(e) /\ evaluation[e].pc \in {"triggered", "recovered"}
  BY DEF InsertAlertDelivery, AlertsInv, AlertsTypeOK
<1>2. PICK r \in Rules : r = evaluation[e].rule
  BY <1>1 DEF LookSound
<1>3. PICK n \in Notes : n = FirstNotificationChannel
  BY FirstChannel, AlertsAssumption DEF InsertAlertDelivery, EnabledNotes
<1>4. PICK s \in {"recovered", "suppressed", "sent"} :
        s = IF evaluation[e].pc = "recovered" THEN "recovered"
            ELSE IF evaluation[e].recent THEN "suppressed" ELSE "sent"
  OBVIOUS
<1>5. PICK twin \in BOOLEAN : twin = evaluation[e].overtaken
  BY <1>1 DEF Evaluations
<1> DEFINE d == [rule |-> r, note |-> n, status |-> s, recent |-> TRUE, reach |-> "nobody",
                 twin |-> twin, dropped |-> FALSE]
<1>6. NewDelivery(e) = d
  BY <1>2, <1>3, <1>4, <1>5 DEF NewDelivery
<1>7. d \in Deliveries /\ d.rule = r /\ d.twin = twin /\ d.status = s
  BY DEF Deliveries
<1> HIDE DEF d
<1>8. ~twin /\ s = "sent" => SawNothingRecent(r)
  BY <1>1, <1>2, <1>4, <1>5 DEF LookSound
<1>9. ~twin /\ s = "recovered" => SawUnanswered(r)
  BY <1>1, <1>2, <1>4, <1>5 DEF LookSound
<1> QED  BY <1>2, <1>6, <1>7, <1>8, <1>9

LEMMA InsertionKeeps ==
  ASSUME AlertsInv, NEW e \in Evaluators, InsertAlertDelivery(e)
  PROVE  AlertsInv'
<1>1. /\ UNCHANGED <<configured, rule, note, preferred, patching, firing, routed, alertEvents>>
      /\ Len(delivery) < MaxDeliveries /\ delivery' = Append(delivery, NewDelivery(e))
  BY DEF InsertAlertDelivery
<1>2. SettingsTyped'
  BY <1>1 DEF AlertsInv, AlertsTypeOK, SettingsTyped
<1>3. evaluation \in [Evaluators -> Evaluations] /\ Len(delivery) \in Nat
  BY DEF AlertsInv, AlertsTypeOK
<1>4. PICK d \in Deliveries : d = NewDelivery(e)
  BY InsertedRow
<1>5. PICK n \in 1 .. MaxDeliveries : n = Len(delivery) + 1
  BY <1>1, <1>3, AlertsAssumption
<1> DEFINE row == [evaluation[e] EXCEPT !.pc = "rules", !.rule = NoRule, !.recent = FALSE,
                                        !.overtaken = FALSE, !.out = evaluation[e].out \cup {n}]
           other(f) == [evaluation[f] EXCEPT !.overtaken =
                          evaluation[f].overtaken \/ evaluation[f].rule = evaluation[e].rule]
<1>6. row \in Evaluations /\ row.pc = "rules" /\ row.out = evaluation[e].out \cup {n}
  BY <1>3 DEF Evaluations
<1>7. ASSUME NEW f \in Evaluators
      PROVE  /\ other(f) \in Evaluations /\ other(f).pc = evaluation[f].pc /\ other(f).rule = evaluation[f].rule
             /\ other(f).recent = evaluation[f].recent /\ other(f).out = evaluation[f].out
             /\ evaluation[f].overtaken \/ evaluation[f].rule = evaluation[e].rule => other(f).overtaken
  <2>1. PICK over \in BOOLEAN : over = (evaluation[f].overtaken \/ evaluation[f].rule = evaluation[e].rule)
    OBVIOUS
  <2> DEFINE o == [evaluation[f] EXCEPT !.overtaken = over]
  <2>2. /\ o \in Evaluations /\ o.pc = evaluation[f].pc /\ o.rule = evaluation[f].rule
        /\ o.recent = evaluation[f].recent /\ o.out = evaluation[f].out /\ o.overtaken = over
    BY <1>3 DEF Evaluations
  <2>3. other(f) = o
    BY <2>1
  <2> HIDE DEF o, other
  <2> QED  BY <2>1, <2>2, <2>3
<1>8. evaluation' = [f \in Evaluators |-> IF f = e THEN row ELSE other(f)]
  BY <1>5 DEF InsertAlertDelivery
<1> HIDE DEF row, other
<1>9. evaluation' \in [Evaluators -> Evaluations] /\ evaluation'[e] = row
      /\ \A f \in Evaluators \ {e} : evaluation'[f] = other(f)
  BY <1>6, <1>7, <1>8
<1>10. d.rule = NoRule => d.status \in {"test", "failed"}
  BY <1>4, InsertedRow, AlertsAssumption
<1>11. /\ ~d.twin /\ d.status = "sent" => SawNothingRecent(d.rule)
       /\ ~d.twin /\ d.status = "recovered" => SawUnanswered(d.rule)
       /\ d.rule = evaluation[e].rule
  BY <1>4, InsertedRow
<1>12. evaluation'[e].pc \in {"rules", "deliver"} /\ evaluation'[e].out = evaluation[e].out \cup {Len(delivery) + 1}
  BY <1>5, <1>6, <1>9
<1>13. \A f \in Evaluators \ {e} :
         /\ evaluation'[f].pc = evaluation[f].pc /\ evaluation'[f].rule = evaluation[f].rule
         /\ evaluation'[f].recent = evaluation[f].recent /\ evaluation'[f].out = evaluation[f].out
         /\ evaluation[f].overtaken \/ evaluation[f].rule = d.rule => evaluation'[f].overtaken
            \/ evaluation[f].pc \notin {"triggered", "recovered"}
  BY <1>7, <1>9, <1>11
<1> QED  BY <1>1, <1>2, <1>4, <1>9, <1>10, <1>11, <1>12, <1>13, AppendKeeps

\* A test message belongs to no rule: it overtakes nobody.
LEMMA TestKeeps ==
  ASSUME AlertsInv, NEW e \in Evaluators, NEW n \in Notes, TestNotificationChannel(e, n)
  PROVE  AlertsInv'
<1>1. /\ UNCHANGED <<configured, rule, preferred, patching, firing, routed>>
      /\ Len(delivery) < MaxDeliveries /\ evaluation[e].pc = "idle"
  BY DEF TestNotificationChannel
<1>2. note' \in [Notes -> NoteRows]
  BY NotesSealed DEF TestNotificationChannel
<1>3. alertEvents' \in 0 .. MaxAlertEvents
  BY EventCounted DEF TestNotificationChannel
<1>4. SettingsTyped'
  BY <1>1, <1>2, <1>3 DEF AlertsInv, AlertsTypeOK, SettingsTyped
<1>5. evaluation \in [Evaluators -> Evaluations] /\ Len(delivery) \in Nat
  BY DEF AlertsInv, AlertsTypeOK
<1>6. PICK status \in {"test", "failed"} : status = IF note[n].state = "on" THEN "test" ELSE "failed"
  OBVIOUS
<1>7. PICK m \in 1 .. MaxDeliveries : m = Len(delivery) + 1
  BY <1>1, <1>5, AlertsAssumption
<1> DEFINE d == [rule |-> NoRule, note |-> n, status |-> status,
                 recent |-> TRUE, reach |-> "nobody", twin |-> FALSE, dropped |-> FALSE]
           row == [NoEvaluation EXCEPT !.pc = "deliver", !.out = {m}]
<1>8. d \in Deliveries /\ d.rule = NoRule /\ d.status = status
  BY DEF Deliveries
<1>9. row \in Evaluations /\ row.pc = "deliver" /\ row.out = {m}
  BY DEF Evaluations, NoEvaluation
<1>10. delivery' = Append(delivery, d)
  BY <1>6 DEF TestNotificationChannel
<1>11. evaluation' = [evaluation EXCEPT ![e] = row]
  BY <1>7 DEF TestNotificationChannel
<1> HIDE DEF d, row
<1>12. evaluation' \in [Evaluators -> Evaluations] /\ evaluation'[e] = row
       /\ \A f \in Evaluators \ {e} : evaluation'[f] = evaluation[f]
  BY <1>5, <1>9, <1>11
<1>13. evaluation[e].out = {}
  BY <1>1 DEF AlertsInv, OutSound
<1>14. evaluation'[e].pc \in {"rules", "deliver"} /\ evaluation'[e].out = evaluation[e].out \cup {Len(delivery) + 1}
  BY <1>7, <1>9, <1>12, <1>13
<1>15. \A f \in Evaluators \ {e} :
         /\ evaluation'[f].pc = evaluation[f].pc /\ evaluation'[f].rule = evaluation[f].rule
         /\ evaluation'[f].recent = evaluation[f].recent /\ evaluation'[f].out = evaluation[f].out
         /\ evaluation[f].overtaken \/ evaluation[f].rule = d.rule => evaluation'[f].overtaken
            \/ evaluation[f].pc \notin {"triggered", "recovered"}
  BY <1>8, <1>12, AlertsAssumption DEF AlertsInv, LookSound
<1>16. d.status \notin {"sent", "recovered"}
  BY <1>8
<1> QED  BY <1>1, <1>4, <1>8, <1>10, <1>12, <1>14, <1>15, <1>16, AppendKeeps

LEMMA AlertsStep ==
  ASSUME AlertsInv, [AlertsNext]_alertVars
  PROVE  AlertsInv'
<1>1. ASSUME NEW S \in SUBSET Rules, BulkAlertRules(S)
      PROVE  AlertsInv'
  BY <1>1, RuleChangesKeep DEF BulkAlertRules, BulkUpdateAlertRules, BulkDeleteAlertRules
<1>2. ASSUME NEW r \in Rules,
             \/ CreateConsoleAlertRule(r) \/ PatchConsoleAlertRule(r)
             \/ DeleteConsoleAlertRule(r) \/ ConditionChanges(r)
      PROVE  AlertsInv'
  <2>1. {r} \in SUBSET Rules
    OBVIOUS
  <2>2. CASE CreateConsoleAlertRule(r) \/ ConditionChanges(r)
    BY <2>2, SurroundingsKeep DEF CreateConsoleAlertRule
  <2>3. CASE PatchConsoleAlertRule(r)
    BY <2>1, <2>3, RuleChangesKeep DEF PatchConsoleAlertRule, PatchAlertRule
  <2>4. CASE DeleteConsoleAlertRule(r)
    BY <2>1, <2>4, RuleChangesKeep DEF DeleteConsoleAlertRule, DeleteAlertRule
  <2> QED  BY <1>2, <2>2, <2>3, <2>4
<1>3. ASSUME NEW n \in Notes,
             \/ CreateConsoleNotificationChannel(n) \/ PatchConsoleNotificationChannel(n)
             \/ DeleteConsoleNotificationChannel(n)
             \/ PatchNotificationChannel(n) \/ PreferNotificationChannel(n)
      PROVE  AlertsInv'
  <2>1. {n} \in SUBSET Notes
    OBVIOUS
  <2> QED  BY <1>3, <2>1, NotesKeep, BulkNotesKeep
           DEF CreateConsoleNotificationChannel, PatchConsoleNotificationChannel,
               DeleteConsoleNotificationChannel, DeleteNotificationChannel
<1>4. ASSUME NEW S \in SUBSET Notes, BulkNotificationChannels(S)
      PROVE  AlertsInv'
  BY <1>4, BulkNotesKeep DEF BulkNotificationChannels
<1>5. ASSUME NEW e \in Evaluators,
             \/ EvaluateAlerts(e) \/ InsertAlertDelivery(e) \/ EvaluationFails(e)
             \/ StartDelivering(e) \/ EvaluationEnds(e)
             \/ \E r \in Rules : EvaluateAlertRule(e, r)
             \/ \E i \in 1 .. MaxDeliveries : DeliverAlertNotification(e, i)
             \/ \E n \in Notes : TestNotificationChannel(e, n)
      PROVE  AlertsInv'
  BY <1>5, EvaluationBegins, InsertionKeeps, FailureOfEvaluationKeeps, PhaseKeeps,
     RuleEvaluationKeeps, SendingKeeps, TestKeeps
<1>6. CASE UNCHANGED alertVars
  <2>1. UNCHANGED <<configured, rule, note, preferred, patching, firing, routed, delivery, evaluation, alertEvents>>
    BY <1>6 DEF alertVars
  <2>2. SettingsTyped'
    BY <2>1 DEF AlertsInv, AlertsTypeOK, SettingsTyped
  <2> QED  BY <2>1, <2>2, SettingsStep
<1>7. CASE AlertsNext
  BY <1>1, <1>2, <1>3, <1>4, <1>5, <1>7, SurroundingsKeep, WindowPassing DEF AlertsNext
<1> QED  BY <1>6, <1>7

LEMMA AlertsInitial == AlertsInit => AlertsInv
<1> SUFFICES ASSUME AlertsInit
             PROVE  AlertsInv
  OBVIOUS
<1>1. /\ configured = FALSE /\ routed = TRUE
      /\ rule = [r \in Rules |-> "none"]
      /\ note = [n \in Notes |-> NoNote]
      /\ preferred = 0
      /\ patching = [n \in Notes |-> NoPatch]
      /\ firing = [r \in Rules |-> FALSE]
      /\ alertEvents = 0
  BY DEF AlertsInit
<1>2. SettingsTyped
  <2>1. 0 \in 0 .. MaxNotes /\ 0 \in 0 .. MaxAlertEvents
    BY AlertsAssumption
  <2>2. note \in [Notes -> NoteRows]
    BY <1>1 DEF NoNote, NoteRows, NoteKinds, NoteTargets
  <2>3. patching \in [Notes -> PatchRows]
    BY <1>1 DEF NoPatch, PatchRows, NoteKinds, NoteTargets
  <2> QED  BY <1>1, <2>1, <2>2, <2>3 DEF SettingsTyped
<1>3. delivery = <<>> /\ evaluation = [e \in Evaluators |-> NoEvaluation]
  BY DEF AlertsInit
<1>4. DeliveriesTyped
  BY <1>3, NoEvaluationTyped, AlertsAssumption DEF DeliveriesTyped
<1>5. DOMAIN delivery = {}
  BY <1>3
<1>6. \A e \in Evaluators : LookSound(e) /\ OutSound(e)
  BY <1>3, NoEvaluationTyped DEF LookSound, OutSound
<1>7. AlertsTypeOK
  BY <1>2, <1>4, AlertsTyped
<1>8. AlertsNotRepeated /\ SentMeansTold
  BY <1>5 DEF AlertsNotRepeated, SentMeansTold
<1> QED  BY <1>5, <1>6, <1>7, <1>8 DEF AlertsInv

\* In every reachable state an evaluation that has looked at a rule may rely on what it
\* saw, or has been overtaken (recordTriggeredAlert, recordRecoveredAlert).
THEOREM AlertsInvariant == AlertsSpec => []AlertsInv
<1>1. AlertsInv /\ [AlertsNext]_alertVars => AlertsInv'
  BY AlertsStep
<1> QED  BY <1>1, AlertsInitial, PTL DEF AlertsSpec

\* Every variable of the alerts keeps its type.
THEOREM AlertTypesHold == AlertsSpec => []AlertsTypeOK
<1>1. AlertsInv => AlertsTypeOK
  BY DEF AlertsInv
<1> QED  BY <1>1, AlertsInvariant, PTL

\* Nobody is told twice of a rule within its window, and no recovery is announced twice,
\* but by two evaluations that looked before either inserted (recordTriggeredAlert,
\* recordRecoveredAlert).
THEOREM AlertsRepeatInRacesOnly == AlertsSpec => []AlertsNotRepeated
<1>1. AlertsInv => AlertsNotRepeated
  BY DEF AlertsInv
<1> QED  BY <1>1, AlertsInvariant, PTL

\* A row that suppresses later alerts was transmitted, is about to be, was dropped when
\* its request ended early, or is mail of a server without SMTP_URL
\* (UpdateAlertDeliverySendResult, sendMail).
THEOREM SentIsTold == AlertsSpec => []SentMeansTold
<1>1. AlertsInv => SentMeansTold
  BY DEF AlertsInv
<1> QED  BY <1>1, AlertsInvariant, PTL

-----------------------------------------------------------------------------
(***************************************************************************)
(* The schedule of the probes.                                             *)
(***************************************************************************)

\* The layers that were run, or will be unless their task is lost.
Pairs == FleetChannels \X Layers
Taken == {p \in Pairs : age[p[1]][p[2]] # Missing \/ (p \in task /\ fleet[p[1]] # "off")}

\* Ticks until c is served, as long as nothing interferes once the missing layers are published.
Rest(c) == IF \E l \in Layers : Lacking(l) # {} THEN Len(Fleet) ELSE Turn(c) + 1

\* Ticks that a channel may have waited and will have to wait: a round for each
\* interference and the first, and one tick for each layer that was missing, or task lost.
Budget == Len(Fleet) * (1 + edits) + Cardinality(Taken) + lost

ScheduleInv ==
  /\ ScheduleTypeOK
  /\ \A c \in FleetChannels : IF fleet[c] = "off" THEN late[c] = 0 ELSE late[c] + Rest(c) <= Budget

\* Every channel has a position in the list, and there are three layers of it.
LEMMA FleetFacts ==
  /\ Len(Fleet) \in Nat
  /\ IsFiniteSet(FleetChannels) /\ Cardinality(FleetChannels) = Len(Fleet)
  /\ \A c \in FleetChannels : Position(c) \in 1..Len(Fleet) /\ Fleet[Position(c)] = c
  /\ IsFiniteSet(Pairs) /\ Cardinality(Pairs) = 3 * Len(Fleet)
<1>1. Len(Fleet) \in Nat /\ Fleet \in [1..Len(Fleet) -> FleetChannels]
  BY ScheduleAssumption
<1>2. \A c \in FleetChannels : Position(c) \in 1..Len(Fleet) /\ Fleet[Position(c)] = c
  BY DEF FleetChannels, Position
<1>3. IsFiniteSet(1..Len(Fleet)) /\ Cardinality(1..Len(Fleet)) = Len(Fleet)
  BY <1>1, FS_Interval
<1>4. Fleet \in Bijection(1..Len(Fleet), FleetChannels)
  BY <1>1, ScheduleAssumption DEF Bijection, Injection, Surjection, IsInjective, FleetChannels
<1>5. IsFiniteSet(FleetChannels) /\ Cardinality(FleetChannels) = Len(Fleet)
  BY <1>3, <1>4, FS_Bijection DEF ExistsBijection
<1>6. IsFiniteSet(Layers) /\ Cardinality(Layers) = 3
  <2>1. IsFiniteSet({"l1"}) /\ Cardinality({"l1"}) = 1
    BY FS_Singleton
  <2>2. IsFiniteSet({"l1"} \cup {"l2"}) /\ Cardinality({"l1"} \cup {"l2"}) = 2
    BY <2>1, FS_AddElement
  <2>3. IsFiniteSet({"l1"} \cup {"l2"} \cup {"l3"}) /\ Cardinality({"l1"} \cup {"l2"} \cup {"l3"}) = 3
    BY <2>2, FS_AddElement
  <2>4. Layers = {"l1"} \cup {"l2"} \cup {"l3"}
    BY DEF Layers
  <2> QED  BY <2>3, <2>4
<1>7. IsFiniteSet(Pairs) /\ Cardinality(Pairs) = Len(Fleet) * 3
  <2>1. /\ IsFiniteSet(FleetChannels \X Layers)
        /\ Cardinality(FleetChannels \X Layers) = Cardinality(FleetChannels) * Cardinality(Layers)
    BY <1>5, <1>6, FS_Product
  <2> QED  BY <1>5, <1>6, <2>1 DEF Pairs
<1>8. Cardinality(Pairs) = 3 * Len(Fleet)
  BY <1>1, <1>7
<1> QED  BY <1>1, <1>2, <1>5, <1>7, <1>8

\* The targets have different indexes, below their number.
LEMMA TargetFacts ==
  /\ ProbeScheduleTargets \subseteq FleetChannels
  /\ Targets \in Nat /\ Targets <= Len(Fleet)
  /\ \A c \in ProbeScheduleTargets : TargetIndex(c) \in Nat /\ TargetIndex(c) < Targets
  /\ \A c, d \in ProbeScheduleTargets : TargetIndex(c) = TargetIndex(d) => c = d
<1> DEFINE Before(c) == {d \in ProbeScheduleTargets : Position(d) < Position(c)}
<1>1. ProbeScheduleTargets \subseteq FleetChannels
  BY DEF ProbeScheduleTargets
<1>2. IsFiniteSet(ProbeScheduleTargets) /\ Targets \in Nat /\ Targets <= Len(Fleet)
  BY <1>1, FleetFacts, FS_Subset, FS_CardinalityType DEF Targets
<1>3. ASSUME NEW S \in SUBSET ProbeScheduleTargets
      PROVE  IsFiniteSet(S) /\ Cardinality(S) \in Nat /\ Cardinality(S) <= Targets
  BY <1>2, FS_Subset, FS_CardinalityType DEF Targets
<1>4. \A c \in ProbeScheduleTargets : Position(c) \in Nat
  BY <1>1, FleetFacts
<1>5. ASSUME NEW c \in ProbeScheduleTargets, NEW S \in SUBSET ProbeScheduleTargets, Before(c) \cup {c} \subseteq S
      PROVE  TargetIndex(c) < Cardinality(S)
  <2>1. c \notin Before(c) /\ Before(c) \in SUBSET ProbeScheduleTargets
    BY <1>4
  <2> HIDE DEF Before
  <2>2. Cardinality(Before(c) \cup {c}) = Cardinality(Before(c)) + 1
    BY <1>3, <2>1, FS_AddElement
  <2>3. Cardinality(Before(c) \cup {c}) <= Cardinality(S)
    BY <1>3, <1>5, FS_Subset
  <2>4. TargetIndex(c) = Cardinality(Before(c))
    BY DEF TargetIndex, Before
  <2> QED  BY <1>3, <2>1, <2>2, <2>3, <2>4
<1>6. ASSUME NEW c \in ProbeScheduleTargets, NEW d \in ProbeScheduleTargets, Position(c) < Position(d)
      PROVE  TargetIndex(c) < TargetIndex(d)
  <2>1. Before(c) \cup {c} \subseteq Before(d) /\ Before(d) \in SUBSET ProbeScheduleTargets
    BY <1>4, <1>6
  <2>2. TargetIndex(d) = Cardinality(Before(d))
    BY DEF TargetIndex
  <2> HIDE DEF Before
  <2> QED  BY <1>5, <2>1, <2>2
<1>7. ASSUME NEW c \in ProbeScheduleTargets
      PROVE  TargetIndex(c) \in Nat /\ TargetIndex(c) < Targets
  <2>1. TargetIndex(c) = Cardinality(Before(c)) /\ Before(c) \in SUBSET ProbeScheduleTargets
    BY DEF TargetIndex
  <2> HIDE DEF Before
  <2> QED  BY <1>3, <1>5, <2>1 DEF Targets
<1>8. ASSUME NEW c \in ProbeScheduleTargets, NEW d \in ProbeScheduleTargets, c # d
      PROVE  TargetIndex(c) # TargetIndex(d)
  <2>1. Position(c) # Position(d)
    BY <1>1, <1>8, FleetFacts
  <2> QED  BY <1>4, <1>6, <1>7, <2>1
<1> QED  BY <1>1, <1>2, <1>7, <1>8

\* Their turns are different, too.
LEMMA TurnFacts ==
  ASSUME cursor \in Nat
  PROVE  /\ \A c \in ProbeScheduleTargets : Turn(c) \in Nat /\ Turn(c) < Targets
         /\ \A c, d \in ProbeScheduleTargets : Turn(c) = Turn(d) => c = d
<1>1. Start \in Nat /\ (Targets > 0 => Start < Targets)
  BY TargetFacts DEF Start
<1>2. ASSUME NEW c \in ProbeScheduleTargets
      PROVE  Turn(c) \in Nat /\ Turn(c) < Targets
  BY <1>1, TargetFacts DEF Turn
<1>3. ASSUME NEW c \in ProbeScheduleTargets, NEW d \in ProbeScheduleTargets, Turn(c) = Turn(d)
      PROVE  TargetIndex(c) = TargetIndex(d)
  BY <1>1, <1>3, TargetFacts DEF Turn
<1> QED  BY <1>2, <1>3, TargetFacts

\* The first target of a set, counted from the cursor.
LEMMA FirstInTurn ==
  ASSUME cursor \in Nat, NEW S \in SUBSET ProbeScheduleTargets, S # {}
  PROVE  FirstFromCursor(S) \in S /\ \A d \in S : Turn(FirstFromCursor(S)) <= Turn(d)
<1> DEFINE T == {Turn(d) : d \in S}
<1>1. T \in SUBSET Nat /\ T # {}
  BY TurnFacts
<1>2. PICK n \in T : \A m \in T : n <= m
  <2> HIDE DEF T
  <2> QED  BY <1>1, FirstOfNaturals
<1>3. PICK c \in S : Turn(c) = n
  OBVIOUS
<1>4. \E x \in S : \A d \in S : Turn(x) <= Turn(d)
  BY <1>2, <1>3
<1> QED  BY <1>4 DEF FirstFromCursor

LEMMA FirstOfLayers ==
  ASSUME NEW S \in SUBSET Layers
  PROVE  /\ S = {} => FirstLayer(S) = {}
         /\ S # {} => \E l \in S : FirstLayer(S) = {l}
         /\ "l1" \in S => FirstLayer(S) = {"l1"}
<1> DEFINE at == {j \in 1..3 : ProbeLayers[j] \in S /\ \A k \in 1..(j - 1) : ProbeLayers[k] \notin S}
<1>1. ProbeLayers[1] = "l1" /\ ProbeLayers[2] = "l2" /\ ProbeLayers[3] = "l3"
  BY DEF ProbeLayers
<1>2. FirstLayer(S) = {ProbeLayers[i] : i \in at}
  BY DEF FirstLayer
<1>3. CASE "l1" \in S
  <2>1. at = {1}
    BY <1>1, <1>3
  <2> QED  BY <1>1, <1>2, <1>3, <2>1
<1>4. CASE "l1" \notin S /\ "l2" \in S
  <2>1. at = {2}
    BY <1>1, <1>4
  <2> QED  BY <1>1, <1>2, <1>4, <2>1
<1>5. CASE "l1" \notin S /\ "l2" \notin S /\ "l3" \in S
  <2>1. at = {3}
    BY <1>1, <1>5
  <2> QED  BY <1>1, <1>2, <1>5, <2>1
<1>6. CASE S = {}
  BY <1>2, <1>6
<1> QED  BY <1>3, <1>4, <1>5, <1>6 DEF Layers

\* A target whose first layer is due is chosen, or a target whose turn comes before it,
\* unless a layer is missing.
LEMMA TaskChosen ==
  ASSUME cursor \in Nat
  PROVE  /\ ScheduledProbeTasks = {} \/ \E c \in ProbeScheduleTargets, l \in Layers : ScheduledProbeTasks = {<<c, l>>}
         /\ (\E l \in Layers : Lacking(l) # {}) =>
               \E l \in Layers, c \in ProbeScheduleTargets :
                 ScheduledProbeTasks = {<<c, l>>} /\ ProbeLayerMissing(c, l)
         /\ (\A l \in Layers : Lacking(l) = {}) =>
               \A d \in ProbeScheduleTargets : ProbeLayerDue(d, "l1") =>
                 \/ <<d, "l1">> \in ScheduledProbeTasks
                 \/ \E c \in ProbeScheduleTargets, l \in Layers :
                      ScheduledProbeTasks = {<<c, l>>} /\ Turn(c) < Turn(d)
<1> DEFINE lacking == {k \in Layers : Lacking(k) # {}}
           dueOf(c) == {l \in Layers : ProbeLayerDue(c, l)}
<1>1. /\ MissingTask = {<<FirstFromCursor(Lacking(l)), l>> : l \in FirstLayer(lacking)}
      /\ \A c : FirstDueProbeLayer(c) = FirstLayer(dueOf(c))
      /\ lacking \in SUBSET Layers /\ \A c : dueOf(c) \in SUBSET Layers
  BY DEF MissingTask, FirstDueProbeLayer
<1>2. /\ \A l : Lacking(l) \in SUBSET ProbeScheduleTargets
      /\ \A l, c : c \in Lacking(l) => ProbeLayerMissing(c, l)
      /\ Due \in SUBSET ProbeScheduleTargets
  BY DEF Lacking, Due
<1>3. CASE lacking # {}
  <2>1. PICK l \in lacking : FirstLayer(lacking) = {l}
    BY <1>1, <1>3, FirstOfLayers
  <2>2. MissingTask = {<<FirstFromCursor(Lacking(l)), l>>}
    BY <1>1, <2>1
  <2>3. FirstFromCursor(Lacking(l)) \in Lacking(l) /\ l \in Layers /\ Lacking(l) # {}
    BY <1>2, <2>1, FirstInTurn
  <2>4. ScheduledProbeTasks = {<<FirstFromCursor(Lacking(l)), l>>}
    BY <2>2 DEF ScheduledProbeTasks
  <2> QED  BY <1>2, <2>3, <2>4
<1>4. CASE lacking = {}
  <2>1. MissingTask = {} /\ ScheduledProbeTasks = DueTask
    BY <1>1, <1>4, FirstOfLayers DEF ScheduledProbeTasks
  <2>2. CASE Due = {}
    <3>1. ASSUME NEW d \in ProbeScheduleTargets
          PROVE  ~ProbeLayerDue(d, "l1")
      <4>1. dueOf(d) = {}
        <5>1. FirstDueProbeLayer(d) = {} /\ dueOf(d) \in SUBSET Layers
          BY <2>2 DEF Due
        <5> HIDE DEF dueOf
        <5> QED  BY <1>1, <5>1, FirstOfLayers
      <4> QED  BY <4>1 DEF Layers
    <3> QED  BY <1>4, <2>1, <2>2, <3>1 DEF DueTask
  <2>3. CASE Due # {}
    <3> DEFINE c == FirstFromCursor(Due)
    <3>1. c \in Due /\ \A d \in Due : Turn(c) <= Turn(d)
      BY <1>2, <2>3, FirstInTurn
    <3> HIDE DEF c
    <3>2. PICK l \in Layers : FirstDueProbeLayer(c) = {l} /\ ("l1" \in dueOf(c) => l = "l1")
      <4>1. dueOf(c) # {}
        BY <1>1, <3>1, FirstOfLayers DEF Due
      <4>2. \E l \in dueOf(c) : FirstLayer(dueOf(c)) = {l}
        BY <1>1, <4>1, FirstOfLayers
      <4>3. "l1" \in dueOf(c) => FirstLayer(dueOf(c)) = {"l1"}
        BY <1>1, FirstOfLayers
      <4> QED  BY <1>1, <4>2, <4>3
    <3>3. ScheduledProbeTasks = {<<c, l>>}
      BY <2>1, <2>3, <3>2 DEF DueTask, c
    <3>4. ASSUME NEW d \in ProbeScheduleTargets, ProbeLayerDue(d, "l1")
          PROVE  <<d, "l1">> \in ScheduledProbeTasks \/ Turn(c) < Turn(d)
      <4>1. "l1" \in dueOf(d)
        BY <3>4 DEF Layers
      <4>2. d \in Due
        <5>1. FirstLayer(dueOf(d)) = {"l1"}
          BY <1>1, <4>1, FirstOfLayers
        <5> QED  BY <1>1, <5>1 DEF Due
      <4>3. CASE d = c
        BY <3>2, <3>3, <4>1, <4>3
      <4>4. CASE d # c
        <5>1. Turn(c) <= Turn(d) /\ Turn(c) # Turn(d) /\ Turn(c) \in Nat /\ Turn(d) \in Nat
          BY <1>2, <3>1, <4>2, <4>4, TurnFacts
        <5> QED  BY <5>1
      <4> QED  BY <4>3, <4>4
    <3> QED  BY <1>2, <1>4, <3>1, <3>3, <3>4
  <2> QED  BY <2>2, <2>3
<1> QED  BY <1>3, <1>4

\* The scan goes on behind the target that was served: the turn of every later one comes closer.
LEMMA TurnComesCloser ==
  ASSUME cursor \in Nat, NEW c \in ProbeScheduleTargets, NEW d \in ProbeScheduleTargets, Turn(c) < Turn(d),
         fleet' = fleet, cursor' = NextCursor(c)
  PROVE  Turn(d)' < Turn(d)
<1>1. /\ ProbeScheduleTargets' = ProbeScheduleTargets
      /\ Targets' = Targets /\ TargetIndex(d)' = TargetIndex(d)
  BY DEF ProbeScheduleTargets, Targets, TargetIndex
<1>2. /\ TargetIndex(c) \in Nat /\ TargetIndex(c) < Targets /\ TargetIndex(d) \in Nat /\ TargetIndex(d) < Targets
      /\ Targets \in Nat /\ Start \in Nat /\ Start < Targets
  BY TargetFacts DEF Start
<1>3. NextCursor(c) \in Nat /\ NextCursor(c) < Targets /\ Start' = NextCursor(c)
  BY <1>1, <1>2 DEF Start, NextCursor
<1>4. Turn(d)' = IF TargetIndex(d) >= NextCursor(c) THEN TargetIndex(d) - NextCursor(c)
                 ELSE TargetIndex(d) + Targets - NextCursor(c)
  BY <1>1, <1>3 DEF Turn
<1> QED  BY <1>2, <1>4 DEF Turn, NextCursor

\* Counting layers of channels.
LEMMA CountPairs ==
  ASSUME NEW S \in SUBSET Pairs
  PROVE  /\ Cardinality(S) \in Nat /\ Cardinality(S) <= 3 * Len(Fleet)
         /\ \A R \in SUBSET S : Cardinality(R) <= Cardinality(S)
         /\ \A p \in Pairs \ S : Cardinality(S \cup {p}) = Cardinality(S) + 1
         /\ \A R \in SUBSET Pairs, p \in Pairs : S \subseteq R \cup {p} => Cardinality(S) <= Cardinality(R) + 1
<1>1. ASSUME NEW R \in SUBSET Pairs
      PROVE  IsFiniteSet(R) /\ Cardinality(R) \in Nat /\ Cardinality(R) <= Cardinality(Pairs)
  BY FleetFacts, FS_Subset, FS_CardinalityType
<1>2. \A R \in SUBSET S : Cardinality(R) <= Cardinality(S)
  BY <1>1, FS_Subset
<1>3. ASSUME NEW R \in SUBSET Pairs, NEW p \in Pairs \ R
      PROVE  Cardinality(R \cup {p}) = Cardinality(R) + 1
  BY <1>1, FS_AddElement
<1>4. ASSUME NEW R \in SUBSET Pairs, NEW p \in Pairs, S \subseteq R \cup {p}
      PROVE  Cardinality(S) <= Cardinality(R) + 1
  <2>1. R \cup {p} \in SUBSET Pairs /\ Cardinality(S) <= Cardinality(R \cup {p})
    BY <1>1, <1>4, FS_Subset
  <2>2. CASE p \in R
    <3>1. R \cup {p} = R
      BY <2>2
    <3> QED  BY <1>1, <2>1, <3>1
  <2>3. CASE p \notin R
    BY <1>1, <1>3, <2>1, <2>3
  <2> QED  BY <2>2, <2>3
<1> QED  BY <1>1, <1>2, <1>3, <1>4, FleetFacts

LEMMA TakenPairs == Taken \in SUBSET Pairs
  BY DEF Taken

LEMMA OneTask ==
  ASSUME ScheduleTypeOK
  PROVE  task = {} \/ \E p \in Pairs : task = {p}
<1>1. task \in SUBSET Pairs /\ IsFiniteSet(task) /\ Cardinality(task) <= 1
  BY FleetFacts, FS_Subset DEF ScheduleTypeOK, Pairs
<1>2. Cardinality(task) = 0 \/ Cardinality(task) = 1
  BY <1>1, FS_CardinalityType
<1>3. task = {} \/ \E p : task = {p}
  BY <1>1, <1>2, FS_EmptySet, FS_Singleton
<1> QED  BY <1>1, <1>3

LEMMA NextScheduleTypes ==
  ASSUME age' \in [FleetChannels -> [Layers -> 0..Missing]],
         fleet' \in [FleetChannels -> {"present", "new", "off"}],
         standing' \in [FleetChannels -> ProbeStatuses], cursor' \in 0..Len(Fleet),
         task' = {} \/ \E p \in Pairs : task' = {p},
         late' \in [FleetChannels -> 0..MaxLate], lost' \in 0..MaxLost, edits' \in 0..MaxEdits
  PROVE  ScheduleTypeOK'
<1>1. task' \in SUBSET (FleetChannels \X Layers)
  BY DEF Pairs
<1>2. \A p : Cardinality({p}) = 1
  BY FS_Singleton
<1>3. Cardinality(task') <= 1
  <2>1. CASE task' = {}
    <3>1. Cardinality(task') = 0
      BY <2>1, FS_EmptySet
    <3> QED  BY <3>1
  <2>2. CASE \E p \in Pairs : task' = {p}
    <3>1. Cardinality(task') = 1
      BY <1>2, <2>2
    <3> QED  BY <3>1
  <2> QED  BY <2>1, <2>2
<1> QED  BY <1>1, <1>3 DEF ScheduleTypeOK

\* A round, and one more of them.
LEMMA Rounds ==
  ASSUME NEW n \in Nat, NEW e \in Nat
  PROVE  n * (1 + e) \in Nat /\ n * (1 + (e + 1)) = n * (1 + e) + n /\ n <= n * (1 + e)
<1>1. n * e \in Nat /\ n * (1 + e) = n + n * e /\ n * (1 + (e + 1)) = n + n * e + n
  OBVIOUS
<1> QED  BY <1>1

LEMMA LostRounds ==
  ASSUME NEW n \in Nat, NEW m \in Nat, n >= 1
  PROVE  m <= n * m
<1>1. PICK k \in Nat : n = k + 1
  <2>1. n - 1 \in Nat /\ n = (n - 1) + 1
    OBVIOUS
  <2> QED  BY <2>1
<1>2. n * m = k * m + m /\ k * m \in Nat
  BY <1>1
<1> QED  BY <1>2

\* A target never has more than a round to wait, and never less than a tick.
LEMMA RestBound == cursor \in Nat => \A c \in ProbeScheduleTargets : Rest(c) \in Nat /\ 1 <= Rest(c) /\ Rest(c) <= Len(Fleet)
<1> SUFFICES ASSUME cursor \in Nat, NEW c \in ProbeScheduleTargets
             PROVE  Rest(c) \in Nat /\ 1 <= Rest(c) /\ Rest(c) <= Len(Fleet)
  OBVIOUS
<1>1. Turn(c) \in Nat /\ Turn(c) < Targets /\ Targets \in Nat /\ Targets <= Len(Fleet) /\ Len(Fleet) \in Nat
  BY TurnFacts, TargetFacts, FleetFacts
<1> QED  BY <1>1 DEF Rest

LEMMA NextRestBound == (cursor \in Nat => \A c \in ProbeScheduleTargets : Rest(c) \in Nat /\ 1 <= Rest(c) /\ Rest(c) <= Len(Fleet))'
  BY RestBound, PTL

\* What the invariant says of the numbers in it.
LEMMA ScheduleNumbers ==
  ASSUME ScheduleInv
  PROVE  /\ Len(Fleet) \in Nat /\ cursor \in Nat /\ edits \in Nat /\ lost \in Nat
         /\ Cardinality(Taken) \in Nat /\ Budget \in Nat /\ Len(Fleet) <= Budget
         /\ \A c \in FleetChannels : late[c] \in Nat
         /\ \A c \in ProbeScheduleTargets : /\ c \in FleetChannels /\ late[c] + Rest(c) <= Budget
                                           /\ Rest(c) \in Nat /\ 1 <= Rest(c) /\ Rest(c) <= Len(Fleet)
<1>1. /\ Len(Fleet) \in Nat /\ cursor \in Nat /\ edits \in Nat /\ lost \in Nat
      /\ \A c \in FleetChannels : late[c] \in Nat
  BY FleetFacts, ScheduleAssumption DEF ScheduleInv, ScheduleTypeOK
<1>2. Cardinality(Taken) \in Nat
  BY TakenPairs, CountPairs
<1>3. Budget \in Nat /\ Len(Fleet) <= Budget
  <2> DEFINE r == Len(Fleet) * (1 + edits)
  <2>1. r \in Nat /\ Len(Fleet) <= r
    BY <1>1, Rounds
  <2>2. Budget = r + Cardinality(Taken) + lost
    BY DEF Budget
  <2> HIDE DEF r
  <2> QED  BY <1>1, <1>2, <2>1, <2>2
<1>4. \A c \in ProbeScheduleTargets : c \in FleetChannels /\ late[c] + Rest(c) <= Budget
  BY DEF ScheduleInv, ProbeScheduleTargets
<1> QED  BY <1>1, <1>2, <1>3, <1>4, RestBound

\* What interferes costs at most a round, and one layer that was to be run.
LEMMA Interferes ==
  ASSUME ScheduleInv, ScheduleTypeOK', edits' = edits + 1, lost' = lost,
         NEW p \in Pairs, Taken \subseteq Taken' \cup {p},
         \A c \in FleetChannels : late'[c] = 0 \/ (late'[c] = late[c] /\ (fleet[c] = "off" <=> fleet'[c] = "off"))
  PROVE  ScheduleInv'
<1>1. /\ Taken' \in SUBSET Pairs /\ cursor' \in Nat
      /\ \A c \in FleetChannels : c \in ProbeScheduleTargets' <=> fleet'[c] # "off"
      /\ \A c \in FleetChannels : c \in ProbeScheduleTargets <=> fleet[c] # "off"
  BY FleetFacts DEF Taken, ScheduleTypeOK, ProbeScheduleTargets
<1>2. Cardinality(Taken') \in Nat /\ Cardinality(Taken) <= Cardinality(Taken') + 1 /\ Cardinality(Taken) \in Nat
  BY <1>1, TakenPairs, CountPairs
<1>3. Budget' >= Budget + Len(Fleet) - 1 /\ Budget' \in Nat /\ Len(Fleet) <= Budget'
  <2> DEFINE r == Len(Fleet) * (1 + edits)
             q == Len(Fleet) * (1 + (edits + 1))
  <2>1. Len(Fleet) \in Nat /\ lost \in Nat /\ edits \in Nat
    BY ScheduleNumbers
  <2>2. r \in Nat /\ q = r + Len(Fleet) /\ Len(Fleet) <= r
    BY <2>1, Rounds
  <2>3. Budget = r + Cardinality(Taken) + lost /\ Budget' = q + Cardinality(Taken') + lost
    BY DEF Budget
  <2> HIDE DEF r, q
  <2> QED  BY <1>2, <2>1, <2>2, <2>3
<1>4. ASSUME NEW c \in FleetChannels, fleet'[c] # "off"
      PROVE  late'[c] + Rest(c)' <= Budget'
  <2>1. Rest(c)' \in Nat /\ Rest(c)' <= Len(Fleet)
    BY <1>1, <1>4, NextRestBound
  <2>2. CASE late'[c] = 0
    BY <1>3, <2>1, <2>2, ScheduleNumbers
  <2>3. CASE late'[c] = late[c] /\ fleet[c] # "off"
    <3>1. late[c] \in Nat /\ late[c] + Rest(c) <= Budget /\ Rest(c) \in Nat /\ 1 <= Rest(c)
      BY <1>1, <2>3, ScheduleNumbers
    <3> QED  BY <1>3, <2>1, <2>3, <3>1, ScheduleNumbers
  <2> QED  BY <1>4, <2>2, <2>3
<1>5. ASSUME NEW c \in FleetChannels, fleet'[c] = "off"
      PROVE  late'[c] = 0
  BY <1>5 DEF ScheduleInv
<1> QED  BY <1>4, <1>5 DEF ScheduleInv

\* The pairs of a channel, whatever their ages.
LEMMA AgesTyped ==
  ASSUME ScheduleTypeOK
  PROVE  /\ \A c \in FleetChannels, l \in Layers : age[c][l] \in 0..Missing /\ <<c, l>> \in Pairs
         /\ 0 \in 0..Missing /\ 0 # Missing /\ 0 \in 0..Len(Fleet) /\ 0 \in 0..MaxLate
         /\ Missing \in Nat /\ Missing = MaxAge + 1
  BY ScheduleAssumption, FleetFacts DEF ScheduleTypeOK, Pairs, Missing

LEMMA EditTypes ==
  ASSUME ScheduleTypeOK, edits < MaxEdits, edits' = edits + 1, lost' = lost, task' = task, standing' = standing,
         age' = age \/ age' \in [FleetChannels -> [Layers -> 0..Missing]],
         fleet' = fleet \/ fleet' \in [FleetChannels -> {"present", "new", "off"}],
         cursor' = cursor \/ cursor' = 0, late' = late \/ late' \in [FleetChannels -> 0..MaxLate]
  PROVE  ScheduleTypeOK'
<1>1. edits' \in 0..MaxEdits /\ cursor' \in 0..Len(Fleet)
  BY ScheduleAssumption, FleetFacts DEF ScheduleTypeOK
<1>2. /\ age' \in [FleetChannels -> [Layers -> 0..Missing]]
      /\ fleet' \in [FleetChannels -> {"present", "new", "off"}]
      /\ standing' \in [FleetChannels -> ProbeStatuses]
      /\ late' \in [FleetChannels -> 0..MaxLate] /\ lost' \in 0..MaxLost
  BY DEF ScheduleTypeOK
<1> QED  BY <1>1, <1>2, OneTask, NextScheduleTypes

LEMMA Restarted ==
  ASSUME ScheduleInv, SchedulerRestarts
  PROVE  ScheduleInv'
<1>1. /\ edits < MaxEdits /\ edits' = edits + 1 /\ cursor' = 0
      /\ UNCHANGED <<age, fleet, standing, task, late, lost>>
  BY DEF SchedulerRestarts
<1>2. ScheduleTypeOK'
  BY <1>1, EditTypes, AgesTyped DEF ScheduleInv
<1>3. Taken' = Taken
  BY <1>1 DEF Taken
<1>4. CASE Pairs = {}
  <2>1. FleetChannels = {}
    <3> SUFFICES ASSUME NEW c \in FleetChannels PROVE FALSE
      OBVIOUS
    <3>1. <<c, "l1">> \in Pairs
      BY DEF Pairs, Layers
    <3> QED  BY <1>4, <3>1
  <2> QED  BY <1>2, <2>1 DEF ScheduleInv
<1>5. CASE Pairs # {}
  BY <1>1, <1>2, <1>3, <1>5, Interferes
<1> QED  BY <1>4, <1>5

LEMMA Probed ==
  ASSUME ScheduleInv, NEW c \in FleetChannels, ProbedNow(c)
  PROVE  ScheduleInv'
<1>1. /\ edits < MaxEdits /\ edits' = edits + 1 /\ fleet[c] # "off"
      /\ age' = [age EXCEPT ![c]["l1"] = 0, ![c]["l2"] = 0] /\ late' = [late EXCEPT ![c] = 0]
      /\ UNCHANGED <<fleet, standing, cursor, task, lost>>
  BY DEF ProbedNow
<1>2. ScheduleTypeOK
  BY DEF ScheduleInv
<1>3. ASSUME NEW d \in FleetChannels, NEW l \in Layers
      PROVE  age'[d][l] = age[d][l] \/ age'[d][l] = 0
  <2>1. "l1" \in Layers /\ "l2" \in Layers /\ age \in [FleetChannels -> [Layers -> 0..Missing]]
    BY <1>2 DEF Layers, ScheduleTypeOK
  <2> QED  BY <1>1, <2>1
<1>4. age' \in [FleetChannels -> [Layers -> 0..Missing]]
  BY <1>1, <1>2, AgesTyped DEF ScheduleTypeOK
<1>5. ScheduleTypeOK'
  <2>1. late' \in [FleetChannels -> 0..MaxLate]
    BY <1>1, <1>2, AgesTyped DEF ScheduleTypeOK
  <2> QED  BY <1>1, <1>2, <1>4, <2>1, EditTypes
<1>6. Taken \subseteq Taken'
  BY <1>1, <1>2, <1>3, AgesTyped DEF Taken, Pairs
<1>7. <<c, "l1">> \in Pairs
  BY DEF Pairs, Layers
<1>8. \A d \in FleetChannels : late'[d] = 0 \/ late'[d] = late[d]
  BY <1>1, <1>2 DEF ScheduleTypeOK
<1> QED  BY <1>1, <1>5, <1>6, <1>7, <1>8, Interferes

LEMMA Changed ==
  ASSUME ScheduleInv, NEW c \in FleetChannels, FleetChanges(c)
  PROVE  ScheduleInv'
<1>1. /\ edits < MaxEdits /\ edits' = edits + 1 /\ late' = [late EXCEPT ![c] = 0]
      /\ UNCHANGED <<age, standing, cursor, task, lost>>
  BY DEF FleetChanges
<1>2. PICK state \in {"new", "present", "off"} : fleet' = [fleet EXCEPT ![c] = state]
  BY DEF FleetChanges
<1>3. ScheduleTypeOK /\ ScheduleTypeOK'
  <2>1. ScheduleTypeOK
    BY DEF ScheduleInv
  <2>2. /\ late' \in [FleetChannels -> 0..MaxLate]
        /\ fleet' \in [FleetChannels -> {"present", "new", "off"}]
    BY <1>1, <1>2, <2>1, AgesTyped DEF ScheduleTypeOK
  <2> QED  BY <1>1, <2>1, <2>2, EditTypes
<1>4. PICK p \in Pairs : task \subseteq {p}
  <2>1. <<c, "l1">> \in Pairs
    BY DEF Pairs, Layers
  <2> QED  BY <1>3, <2>1, OneTask
<1>5. Taken \subseteq Taken' \cup {p}
  BY <1>1, <1>4 DEF Taken
<1>6. \A d \in FleetChannels : late'[d] = 0 \/ (late'[d] = late[d] /\ fleet'[d] = fleet[d])
  BY <1>1, <1>2, <1>3 DEF ScheduleTypeOK
<1> QED  BY <1>1, <1>3, <1>5, <1>6, Interferes

LEMMA Aged ==
  ASSUME ScheduleInv, NEW c \in FleetChannels, FirstDayOver(c)
  PROVE  ScheduleInv'
<1>1. /\ edits < MaxEdits /\ edits' = edits + 1 /\ fleet[c] = "new" /\ fleet' = [fleet EXCEPT ![c] = "present"]
      /\ UNCHANGED <<age, standing, cursor, task, late, lost>>
  BY DEF FirstDayOver
<1>2. ScheduleTypeOK /\ ScheduleTypeOK'
  <2>1. ScheduleTypeOK
    BY DEF ScheduleInv
  <2>2. fleet' \in [FleetChannels -> {"present", "new", "off"}]
    BY <1>1, <2>1 DEF ScheduleTypeOK
  <2> QED  BY <1>1, <2>1, <2>2, EditTypes
<1>3. \A d \in FleetChannels : fleet'[d] = "off" <=> fleet[d] = "off"
  BY <1>1, <1>2 DEF ScheduleTypeOK
<1>4. Taken' = Taken
  BY <1>1, <1>3 DEF Taken, Pairs
<1>5. <<c, "l1">> \in Pairs
  BY DEF Pairs, Layers
<1> QED  BY <1>1, <1>2, <1>3, <1>4, <1>5, Interferes

\* As long as neither the cursor nor a target moves, no turn does.
LEMMA TurnsStay ==
  ASSUME fleet' = fleet, cursor' = cursor
  PROVE  ProbeScheduleTargets' = ProbeScheduleTargets /\ \A c : Turn(c)' = Turn(c)
<1>1. ProbeScheduleTargets' = ProbeScheduleTargets
  BY DEF ProbeScheduleTargets
<1>2. Targets' = Targets /\ \A c : TargetIndex(c)' = TargetIndex(c)
  BY <1>1 DEF Targets, TargetIndex
<1> QED  BY <1>1, <1>2 DEF Turn, Start

\* A step that is no tick: the budget holds if what was taken stays so, or was lost.
LEMMA Waits ==
  ASSUME ScheduleInv, ScheduleTypeOK', UNCHANGED <<fleet, cursor, late, edits>>,
         \A l \in Layers : Lacking(l)' \subseteq Lacking(l), lost' \in Nat,
         Cardinality(Taken) + lost <= Cardinality(Taken') + lost'
  PROVE  ScheduleInv'
<1>1. /\ ProbeScheduleTargets' = ProbeScheduleTargets /\ \A c : Turn(c)' = Turn(c)
      /\ \A c \in FleetChannels : c \in ProbeScheduleTargets <=> fleet[c] # "off"
  BY TurnsStay DEF ProbeScheduleTargets
<1>2. Budget <= Budget' /\ Budget' \in Nat
  <2> DEFINE r == Len(Fleet) * (1 + edits)
  <2>1. /\ r \in Nat /\ Budget = r + Cardinality(Taken) + lost /\ Budget' = r + Cardinality(Taken') + lost'
        /\ lost \in Nat /\ Cardinality(Taken) \in Nat
    BY ScheduleNumbers, Rounds DEF Budget
  <2>2. Cardinality(Taken') \in Nat
    <3>1. Taken' \in SUBSET Pairs
      BY DEF Taken
    <3> QED  BY <3>1, CountPairs
  <2> HIDE DEF r
  <2> QED  BY <2>1, <2>2
<1>3. ASSUME NEW c \in FleetChannels, fleet[c] # "off"
      PROVE  late[c] + Rest(c)' <= Budget'
  <2>1. Turn(c) \in Nat /\ Turn(c) + 1 <= Len(Fleet) /\ Len(Fleet) \in Nat
    BY <1>1, <1>3, ScheduleNumbers, TurnFacts, TargetFacts
  <2>2. Rest(c)' = IF (\E l \in Layers : Lacking(l) # {})' THEN Len(Fleet) ELSE Turn(c) + 1
    BY <1>1 DEF Rest
  <2>3. (\E l \in Layers : Lacking(l) # {})' => \E l \in Layers : Lacking(l) # {}
    OBVIOUS
  <2>4. Rest(c)' <= Rest(c) /\ Rest(c)' \in Nat
    BY <2>1, <2>2, <2>3 DEF Rest
  <2>5. late[c] + Rest(c) <= Budget /\ late[c] \in Nat /\ Rest(c) \in Nat /\ Budget \in Nat
    BY <1>1, <1>3, ScheduleNumbers
  <2> QED  BY <1>2, <2>4, <2>5
<1> QED  BY <1>3 DEF ScheduleInv

LEMMA Run ==
  ASSUME ScheduleInv, RunTask
  PROVE  ScheduleInv'
<1>1. PICK c \in FleetChannels, l \in Layers, s \in ProbeStatuses :
        /\ task = {<<c, l>>} /\ age' = [age EXCEPT ![c][l] = 0] /\ standing' = [standing EXCEPT ![c] = s]
        /\ task' = {} /\ UNCHANGED <<fleet, cursor, late, lost, edits>>
  BY DEF RunTask
<1>2. ScheduleTypeOK
  BY DEF ScheduleInv
<1>3. ScheduleTypeOK'
  <2>1. /\ age' \in [FleetChannels -> [Layers -> 0..Missing]]
        /\ standing' \in [FleetChannels -> ProbeStatuses]
    BY <1>1, <1>2, AgesTyped DEF ScheduleTypeOK
  <2>2. /\ fleet' \in [FleetChannels -> {"present", "new", "off"}]
        /\ cursor' \in 0..Len(Fleet) /\ late' \in [FleetChannels -> 0..MaxLate]
        /\ lost' \in 0..MaxLost /\ edits' \in 0..MaxEdits
    BY <1>1, <1>2 DEF ScheduleTypeOK
  <2> QED  BY <1>1, <2>1, <2>2, NextScheduleTypes
<1>4. ASSUME NEW d \in FleetChannels, NEW k \in Layers
      PROVE  age'[d][k] = IF d = c /\ k = l THEN 0 ELSE age[d][k]
  BY <1>1, <1>2 DEF ScheduleTypeOK
<1>5. Taken \subseteq Taken'
  BY <1>1, <1>2, <1>4, AgesTyped DEF Taken, Pairs
<1>6. \A k \in Layers : Lacking(k)' \subseteq Lacking(k)
  BY <1>1, <1>2, <1>4, AgesTyped DEF Lacking, ProbeLayerMissing, ProbeScheduleTargets
<1>7. /\ lost' = lost /\ lost \in Nat
      /\ Cardinality(Taken) \in Nat /\ Cardinality(Taken') \in Nat /\ Cardinality(Taken) <= Cardinality(Taken')
  <2>1. Taken' \in SUBSET Pairs
    BY DEF Taken
  <2> QED  BY <1>1, <1>5, <2>1, CountPairs, ScheduleNumbers
<1>8. Cardinality(Taken) + lost <= Cardinality(Taken') + lost'
  BY <1>7
<1> QED  BY <1>1, <1>3, <1>6, <1>7, <1>8, Waits

LEMMA Lost ==
  ASSUME ScheduleInv, TaskLost
  PROVE  ScheduleInv'
<1>1. /\ task # {} /\ task' = {} /\ lost' = IF lost < MaxLost THEN lost + 1 ELSE lost
      /\ lost < MaxLost \/ \E c \in FleetChannels, l \in Layers : task = {<<c, l>>} /\ fleet[c] = "off"
      /\ UNCHANGED <<age, fleet, standing, cursor, late, edits>>
  BY DEF TaskLost
<1>2. ScheduleTypeOK /\ lost \in 0..MaxLost /\ MaxLost \in Nat /\ lost \in Nat
  BY ScheduleAssumption, ScheduleNumbers DEF ScheduleInv, ScheduleTypeOK
<1>3. lost' \in 0..MaxLost /\ lost' \in Nat
  BY <1>1, <1>2
<1>4. ScheduleTypeOK'
  BY <1>1, <1>2, <1>3, NextScheduleTypes DEF ScheduleTypeOK
<1>5. \A l \in Layers : Lacking(l)' \subseteq Lacking(l)
  BY <1>1 DEF Lacking, ProbeLayerMissing, ProbeScheduleTargets
<1>6. PICK p \in Pairs : task = {p}
  BY <1>1, <1>2, OneTask
<1>7. Taken' \in SUBSET Pairs /\ Taken \subseteq Taken' \cup {p}
  BY <1>1, <1>6 DEF Taken
<1>8. Cardinality(Taken) \in Nat /\ Cardinality(Taken') \in Nat /\ Cardinality(Taken) <= Cardinality(Taken') + 1
  BY <1>7, TakenPairs, CountPairs
<1>9. CASE lost < MaxLost
  <2>1. Cardinality(Taken) + lost <= Cardinality(Taken') + lost'
    BY <1>1, <1>2, <1>8, <1>9
  <2> QED  BY <1>1, <1>3, <1>4, <1>5, <2>1, Waits
<1>10. CASE ~(lost < MaxLost)
  <2>1. Taken' = Taken
    BY <1>1, <1>10 DEF Taken
  <2>2. Cardinality(Taken) + lost <= Cardinality(Taken') + lost'
    BY <1>1, <1>2, <1>8, <1>10, <2>1
  <2> QED  BY <1>1, <1>3, <1>4, <1>5, <2>2, Waits
<1> QED  BY <1>9, <1>10

\* A layer that is missing stays so until it is run.
LEMMA OlderKeepsMissing ==
  ASSUME ScheduleTypeOK, age' = [c \in FleetChannels |-> [l \in Layers |-> Older(age[c][l])]]
  PROVE  /\ age' \in [FleetChannels -> [Layers -> 0..Missing]]
         /\ \A c \in FleetChannels, l \in Layers : age'[c][l] = Missing <=> age[c][l] = Missing
<1>1. ASSUME NEW n \in 0..Missing
      PROVE  Older(n) \in 0..Missing /\ (Older(n) = Missing <=> n = Missing)
  BY ScheduleAssumption DEF Older, Missing
<1> HIDE DEF Older
<1>2. \A c \in FleetChannels, l \in Layers : age[c][l] \in 0..Missing
  BY AgesTyped
<1> QED  BY <1>1, <1>2

LEMMA Publish ==
  ASSUME ScheduleInv, PublishDue
  PROVE  ScheduleInv'
<1>1. /\ task = {} /\ task' = ScheduledProbeTasks
      /\ age' = [c \in FleetChannels |-> [l \in Layers |-> Older(age[c][l])]]
      /\ UNCHANGED <<fleet, standing, lost, edits>>
      /\ late' = [c \in FleetChannels |->
               IF fleet[c] # "off" /\ ProbeLayerDue(c, "l1") /\ <<c, "l1">> \notin task'
               THEN Later(late[c]) ELSE 0]
  BY DEF PublishDue
<1>2. ScheduleTypeOK /\ cursor \in Nat
  BY ScheduleNumbers DEF ScheduleInv
<1>3. task' = {} \/ \E c \in ProbeScheduleTargets, l \in Layers : task' = {<<c, l>>}
  BY <1>1, <1>2, TaskChosen
<1>4. /\ \A c \in FleetChannels : c \in ProbeScheduleTargets <=> fleet[c] # "off"
      /\ ProbeScheduleTargets' = ProbeScheduleTargets /\ ProbeScheduleTargets \subseteq FleetChannels
  BY <1>1 DEF ProbeScheduleTargets
<1>5. \A c \in ProbeScheduleTargets, l \in Layers : task' = {<<c, l>>} => cursor' = NextCursor(c)
  <2> SUFFICES ASSUME NEW c \in ProbeScheduleTargets, NEW l \in Layers, task' = {<<c, l>>}
               PROVE  cursor' = NextCursor(c)
    OBVIOUS
  <2>1. PICK d \in FleetChannels, k \in Layers : task' = {<<d, k>>} /\ cursor' = NextCursor(d)
    BY DEF PublishDue
  <2>2. <<c, l>> = <<d, k>>
    BY <2>1
  <2>3. c = d
    BY <2>2
  <2> QED  BY <2>1, <2>3
<1>6. cursor' \in 0..Len(Fleet)
  <2>1. /\ Targets \in Nat /\ Targets <= Len(Fleet) /\ Len(Fleet) \in Nat /\ Start \in 0..Len(Fleet)
        /\ \A c \in ProbeScheduleTargets : TargetIndex(c) \in Nat /\ TargetIndex(c) < Targets
    BY <1>2, TargetFacts, ScheduleNumbers DEF Start, ScheduleTypeOK
  <2>2. \A c \in ProbeScheduleTargets : NextCursor(c) \in 0..Len(Fleet)
    BY <2>1 DEF NextCursor
  <2>3. CASE task' = {}
    BY <2>1, <2>3 DEF PublishDue
  <2> QED  BY <1>3, <1>5, <2>2, <2>3
<1>7. /\ age' \in [FleetChannels -> [Layers -> 0..Missing]]
      /\ \A c \in FleetChannels, l \in Layers : age'[c][l] = Missing <=> age[c][l] = Missing
  BY <1>1, <1>2, OlderKeepsMissing
<1>8. \A l \in Layers : Lacking(l)' = Lacking(l)
  BY <1>4, <1>7 DEF Lacking, ProbeLayerMissing
<1>9. \A c \in FleetChannels : Later(late[c]) \in 0..MaxLate /\ Later(late[c]) <= late[c] + 1 /\ late[c] \in Nat
  BY <1>2, ScheduleAssumption DEF ScheduleTypeOK, Later
<1>10. ScheduleTypeOK'
  <2>1. late' \in [FleetChannels -> 0..MaxLate]
    <3>1. 0 \in 0..MaxLate
      BY ScheduleAssumption
    <3> QED  BY <1>1, <1>9, <3>1
  <2>2. task' = {} \/ \E p \in Pairs : task' = {p}
    BY <1>3, <1>4 DEF Pairs
  <2>3. /\ standing' \in [FleetChannels -> ProbeStatuses] /\ fleet' \in [FleetChannels -> {"present", "new", "off"}]
        /\ lost' \in 0..MaxLost /\ edits' \in 0..MaxEdits
    BY <1>1, <1>2 DEF ScheduleTypeOK
  <2> QED  BY <1>6, <1>7, <2>1, <2>2, <2>3, NextScheduleTypes
<1>11. /\ Taken' \in SUBSET Pairs /\ Taken \subseteq Taken' /\ Taken = {p \in Pairs : age[p[1]][p[2]] # Missing}
       /\ \A c \in ProbeScheduleTargets, l \in Layers : task' = {<<c, l>>} => <<c, l>> \in Taken'
  <2>1. Taken = {p \in Pairs : age[p[1]][p[2]] # Missing}
    BY <1>1 DEF Taken
  <2>2. \A p \in Pairs : age'[p[1]][p[2]] = Missing <=> age[p[1]][p[2]] = Missing
    BY <1>7 DEF Pairs
  <2>3. \A c \in ProbeScheduleTargets, l \in Layers :
          <<c, l>> \in Pairs /\ <<c, l>>[1] = c /\ <<c, l>>[2] = l /\ fleet'[c] # "off"
    BY <1>1, <1>4 DEF Pairs
  <2>4. Taken' \in SUBSET Pairs /\ Taken \subseteq Taken'
    BY <2>1, <2>2 DEF Taken
  <2>5. ASSUME NEW c \in ProbeScheduleTargets, NEW l \in Layers, task' = {<<c, l>>}
        PROVE  <<c, l>> \in Taken'
    BY <2>3, <2>5 DEF Taken
  <2> QED  BY <2>1, <2>4, <2>5
<1>12. Cardinality(Taken) \in Nat /\ Cardinality(Taken') \in Nat /\ Cardinality(Taken) <= Cardinality(Taken')
  BY <1>11, CountPairs, ScheduleNumbers
<1>13. /\ Budget' = Budget + (Cardinality(Taken') - Cardinality(Taken))
       /\ Budget \in Nat /\ Budget' \in Nat /\ Len(Fleet) <= Budget /\ Budget <= Budget'
  <2> DEFINE r == Len(Fleet) * (1 + edits)
  <2>1. /\ r \in Nat /\ Budget = r + Cardinality(Taken) + lost /\ Budget' = r + Cardinality(Taken') + lost
        /\ lost \in Nat /\ Budget \in Nat /\ Len(Fleet) <= Budget /\ Len(Fleet) \in Nat
    BY <1>1, ScheduleNumbers, Rounds DEF Budget
  <2> HIDE DEF r
  <2> QED  BY <1>12, <2>1
<1>14. ASSUME NEW d \in FleetChannels, fleet[d] # "off"
       PROVE  late'[d] + Rest(d)' <= Budget'
  <2>1. Rest(d)' \in Nat /\ Rest(d)' <= Len(Fleet)
    <3>1. cursor' \in Nat /\ d \in ProbeScheduleTargets'
      BY <1>4, <1>6, <1>14
    <3> QED  BY <3>1, NextRestBound
  <2>2. CASE late'[d] = 0
    BY <1>13, <2>1, <2>2, ScheduleNumbers
  <2>3. CASE ProbeLayerDue(d, "l1") /\ <<d, "l1">> \notin task' /\ late'[d] = Later(late[d])
    <3>1. /\ late'[d] <= late[d] + 1 /\ late[d] \in Nat /\ late'[d] \in Nat
          /\ late[d] + Rest(d) <= Budget /\ Rest(d) \in Nat /\ d \in ProbeScheduleTargets
      BY <1>4, <1>9, <1>14, <2>3, ScheduleNumbers
    <3>2. CASE \E l \in Layers : Lacking(l) # {}
      <4>1. PICK l \in Layers, c \in ProbeScheduleTargets : task' = {<<c, l>>} /\ ProbeLayerMissing(c, l)
        BY <1>1, <1>2, <3>2, TaskChosen
      <4>2. <<c, l>> \in Pairs \ Taken /\ Taken \cup {<<c, l>>} \in SUBSET Taken'
        BY <1>4, <1>11, <4>1 DEF Pairs, ProbeLayerMissing
      <4>3. Cardinality(Taken) + 1 <= Cardinality(Taken')
        <5>1. Cardinality(Taken \cup {<<c, l>>}) = Cardinality(Taken) + 1
          BY <4>2, TakenPairs, CountPairs
        <5>2. Cardinality(Taken \cup {<<c, l>>}) <= Cardinality(Taken')
          BY <1>11, <4>2, CountPairs
        <5> QED  BY <5>1, <5>2
      <4>4. Rest(d)' = Len(Fleet) /\ Rest(d) = Len(Fleet)
        BY <1>8, <3>2 DEF Rest
      <4> QED  BY <1>12, <1>13, <3>1, <4>3, <4>4
    <3>3. CASE \A l \in Layers : Lacking(l) = {}
      <4>1. PICK c \in ProbeScheduleTargets, l \in Layers : task' = {<<c, l>>} /\ Turn(c) < Turn(d)
        BY <1>1, <1>2, <2>3, <3>1, <3>3, TaskChosen
      <4>2. Turn(d)' < Turn(d)
        BY <1>1, <1>2, <1>5, <3>1, <4>1, TurnComesCloser
      <4>3. Rest(d)' = Turn(d)' + 1 /\ Rest(d) = Turn(d) + 1
        BY <1>8, <3>3 DEF Rest
      <4>4. Turn(d) \in Nat /\ Turn(d)' \in Int
        <5>1. Turn(d) \in Nat
          BY <1>2, <3>1, TurnFacts
        <5>2. Turn(d)' \in Int
          <6>1. cursor' \in Nat /\ TargetIndex(d)' = TargetIndex(d) /\ Targets' = Targets
            BY <1>4, <1>6 DEF TargetIndex, Targets
          <6>2. TargetIndex(d) \in Nat /\ Targets \in Nat
            BY <3>1, TargetFacts
          <6> QED  BY <6>1, <6>2 DEF Turn, Start
        <5> QED  BY <5>1, <5>2
      <4> QED  BY <1>13, <2>1, <3>1, <4>2, <4>3, <4>4
    <3> QED  BY <3>2, <3>3
  <2> QED  BY <1>1, <1>14, <2>2, <2>3
<1>15. ASSUME NEW d \in FleetChannels, fleet[d] = "off"
       PROVE  late'[d] = 0
  BY <1>1, <1>15
<1> QED  BY <1>1, <1>10, <1>14, <1>15 DEF ScheduleInv

\* The strengthening of EveryChannelIsProbed: what a channel has waited and will have to
\* wait stays within the budget, at every tick of scheduledProbeTasks and whatever interferes.
THEOREM ScheduleInvariant == ScheduleSpec => []ScheduleInv
<1>1. ScheduleInit => ScheduleInv
  <2> SUFFICES ASSUME ScheduleInit PROVE ScheduleInv
    OBVIOUS
  <2>1. ScheduleTypeOK
    <3>1. Cardinality({}) = 0
      BY FS_EmptySet
    <3>2. Missing \in 0..Missing /\ 0 \in 0..Len(Fleet) /\ 0 \in 0..MaxLate /\ 0 \in 0..MaxLost /\ 0 \in 0..MaxEdits
      BY ScheduleAssumption, FleetFacts DEF Missing
    <3> QED  BY <3>1, <3>2, ScheduleAssumption DEF ScheduleInit, ScheduleTypeOK
  <2>2. cursor \in Nat /\ Cardinality(Taken) \in Nat /\ Len(Fleet) \in Nat
    BY FleetFacts, TakenPairs, CountPairs DEF ScheduleInit
  <2>3. Budget = Len(Fleet) + Cardinality(Taken)
    BY <2>2 DEF Budget, ScheduleInit
  <2>4. ASSUME NEW c \in FleetChannels
        PROVE  late[c] + Rest(c) <= Budget /\ fleet[c] # "off"
    <3>1. late[c] = 0 /\ fleet[c] # "off" /\ c \in ProbeScheduleTargets
      BY DEF ScheduleInit, ProbeScheduleTargets
    <3>2. Rest(c) \in Nat /\ Rest(c) <= Len(Fleet)
      BY <2>2, <3>1, RestBound
    <3> QED  BY <2>2, <2>3, <3>1, <3>2
  <2> QED  BY <2>1, <2>4 DEF ScheduleInv
<1>2. ScheduleInv /\ [ScheduleNext]_scheduleVars => ScheduleInv'
  <2> SUFFICES ASSUME ScheduleInv, [ScheduleNext]_scheduleVars PROVE ScheduleInv'
    OBVIOUS
  <2>1. CASE PublishDue
    BY <2>1, Publish
  <2>2. CASE RunTask
    BY <2>2, Run
  <2>3. CASE TaskLost
    BY <2>3, Lost
  <2>4. CASE SchedulerRestarts
    BY <2>4, Restarted
  <2>5. CASE \E c \in FleetChannels : ProbedNow(c) \/ FleetChanges(c) \/ FirstDayOver(c)
    BY <2>5, Probed, Changed, Aged
  <2>6. CASE UNCHANGED scheduleVars
    <3>1. UNCHANGED <<age, fleet, standing, cursor, task, late, lost, edits>>
      BY <2>6 DEF scheduleVars
    <3>2. ScheduleTypeOK'
      BY <3>1 DEF ScheduleInv, ScheduleTypeOK
    <3>3. Taken' = Taken /\ \A l \in Layers : Lacking(l)' \subseteq Lacking(l)
      BY <3>1 DEF Taken, Lacking, ProbeScheduleTargets, ProbeLayerMissing
    <3>4. Cardinality(Taken) + lost <= Cardinality(Taken') + lost' /\ lost' \in Nat
      BY <3>1, <3>3, ScheduleNumbers
    <3> QED  BY <3>1, <3>2, <3>3, <3>4, Waits
  <2> QED  BY <2>1, <2>2, <2>3, <2>4, <2>5, <2>6 DEF ScheduleNext
<1> QED  BY <1>1, <1>2, PTL DEF ScheduleSpec

\* The schedule keeps its shape: ages are counted or missing, the cursor is the place
\* of a channel in the list or the end of it, and one task at most is published
\* (scheduledProbeTasks returns one, and the next tick finds it gone).
THEOREM ScheduleTypesHold == ScheduleSpec => []ScheduleTypeOK
<1>1. ScheduleInv => ScheduleTypeOK
  BY DEF ScheduleInv
<1> QED  BY <1>1, ScheduleInvariant, PTL

\* A round of the channels for each interference and the first of them, and a tick
\* for each layer there is and each task that was lost, is all that a first layer waits.
THEOREM NoChannelIsLeftOut == ScheduleSpec => []EveryChannelIsProbed
<1>1. ScheduleInv => EveryChannelIsProbed
  <2> SUFFICES ASSUME ScheduleInv, NEW c \in FleetChannels
               PROVE  late[c] < Len(Fleet) * (4 + lost + edits)
    BY DEF EveryChannelIsProbed
  <2>1. /\ Len(Fleet) \in Nat /\ lost \in Nat /\ edits \in Nat /\ late[c] \in Nat
        /\ Cardinality(Taken) \in Nat /\ Budget \in Nat /\ Cardinality(Taken) <= 3 * Len(Fleet)
    BY ScheduleNumbers, TakenPairs, CountPairs
  <2>2. Len(Fleet) >= 1
    <3>1. Position(c) \in 1..Len(Fleet)
      BY FleetFacts
    <3> QED  BY <2>1, <3>1
  <2>3. late[c] < Budget
    <3>1. CASE fleet[c] = "off"
      <4>1. late[c] = 0 /\ Len(Fleet) <= Budget
        BY <3>1, ScheduleNumbers DEF ScheduleInv
      <4> QED  BY <2>1, <2>2, <4>1
    <3>2. CASE fleet[c] # "off"
      <4>1. c \in ProbeScheduleTargets
        BY <3>2 DEF ProbeScheduleTargets
      <4>2. late[c] + Rest(c) <= Budget /\ Rest(c) \in Nat /\ 1 <= Rest(c)
        BY <4>1, ScheduleNumbers
      <4> QED  BY <2>1, <4>2
    <3> QED  BY <3>1, <3>2
  <2>4. lost <= Len(Fleet) * lost
    BY <2>1, <2>2, LostRounds
  <2>5. Len(Fleet) * (4 + lost + edits) = Len(Fleet) * (1 + edits) + 3 * Len(Fleet) + Len(Fleet) * lost
    BY <2>1
  <2>6. Budget = Len(Fleet) * (1 + edits) + Cardinality(Taken) + lost
    BY DEF Budget
  <2> DEFINE r == Len(Fleet) * (1 + edits)
             q == Len(Fleet) * lost
             w == Len(Fleet) * (4 + lost + edits)
  <2>7. /\ r \in Nat /\ q \in Nat /\ lost <= q /\ w = r + 3 * Len(Fleet) + q
        /\ Budget = r + Cardinality(Taken) + lost
    BY <2>1, <2>4, <2>5, <2>6
  <2> HIDE DEF r, q, w
  <2>8. late[c] < w
    BY <2>1, <2>3, <2>7
  <2> QED  BY <2>8 DEF w
<1> QED  BY <1>1, ScheduleInvariant, PTL
=============================================================================
