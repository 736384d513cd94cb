-------------------------- MODULE MCAdministration --------------------------
(***************************************************************************)
(* TLC instance of what administrators and console users do: accounts,     *)
(* organizations, channels, the schedule of their probes and alerts.  The  *)
(* components share no variable; a behaviour moves the one that focus      *)
(* names, so that the instance is their sum and not their product.         *)
(* Accounts are looked at twice: with email tokens and with agent tokens.  *)
(***************************************************************************)
EXTENDS Accounts, Tenancy, Channels, Alerts, ProbeSchedule, TLC

CONSTANTS u1, u2, a, b, od, oa, g1, p1, fp, f1, f2, f3

VARIABLE focus

Op(kind, targets, role, status) ==
  [kind |-> kind, targets |-> targets, role |-> role, status |-> status]

\* Every kind of request, and the pairs that can remove both owners.
MCOperations ==
  {Op("edit", {u2}, "keep", "keep"), Op("edit", {u2}, "user", "suspended"),
   Op("status", {u2}, "keep", "suspended"), Op("edit", {u1}, "user", "keep"),
   Op("delete", {u2}, "keep", "keep"), Op("create", {u2}, "owner", "active"),
   Op("bulk_status", {u1, u2}, "keep", "suspended"),
   Op("bulk_role", {u1, u2}, "user", "keep"), Op("bulk_delete", {u2}, "keep", "keep")}

MemberWish(kind, who, role) ==
  [kind |-> kind, who |-> who, role |-> role, gateway |-> None, keys |-> {}, status |-> "keep"]
GatewayWish(kind, status) ==
  [kind |-> kind, who |-> {}, role |-> "viewer", gateway |-> g1, keys |-> {}, status |-> status]
KeyWish(kind, status) ==
  [kind |-> kind, who |-> {}, role |-> "viewer", gateway |-> None, keys |-> GatewayKeys, status |-> status]

MCWishes ==
  {MemberWish("invite", {b}, "admin"), MemberWish("invite", {a}, "viewer"),
   MemberWish("patch", {b}, "viewer"), MemberWish("bulk_role", {b}, "viewer"),
   MemberWish("bulk_role", {a, b}, "viewer"), MemberWish("remove", {b}, "viewer"),
   MemberWish("bulk_remove", {b}, "viewer"), MemberWish("settings", {}, "viewer"),
   MemberWish("reset", {}, "viewer"),
   GatewayWish("create_gateway", "keep"), GatewayWish("patch_gateway", "keep"),
   GatewayWish("delete_gateway", "deleted"), GatewayWish("bulk_gateways", "active"),
   GatewayWish("create_key", "keep"), KeyWish("patch_key", "keep"), KeyWish("bulk_keys", "paused"),
   KeyWish("revoke_keys", "keep"), KeyWish("delete_keys", "keep")}

\* oa is a's own organization; p1 is the platform's channel, fp a personal gateway.
MCPersonal == [o \in Orgs |-> IF o = oa THEN a ELSE None]
MCChanOrg == [c \in Chans |-> IF c = p1 THEN "platform" ELSE "team"]
MCFrontOrg == [g \in Fronts |-> IF g = fp THEN "personal" ELSE "team"]

\* Three channels; a first layer may be due again after one tick, so that the
\* first layers alone can take every tick.
MCFleet == <<f1, f2, f3>>
Ticks(x, y, z) == ("l1" :> x) @@ ("l2" :> y) @@ ("l3" :> z)
MCInterval == ("unknown" :> Ticks(1, 2, 4)) @@ ("healthy" :> Ticks(2, 3, 4))

\* Administrative requests in flight are interchangeable.
RequestSymmetry == Permutations(Admins)

-----------------------------------------------------------------------------
adminVars == <<focus, accountVars, tenancyVars, channelVars, alertVars, scheduleVars>>

AdministrationInit ==
  /\ focus \in {"accounts", "agents", "tenancy", "channels", "alerts", "schedule"}
  /\ AccountsInit /\ TenancyInit /\ ChannelsInit /\ AlertsInit /\ ScheduleInit
  /\ focus # "tenancy" => gateway[g1].org = None

AdministrationNext ==
  /\ UNCHANGED focus
  /\ \/ focus = "accounts" /\ AccountsNext /\ UNCHANGED <<agent, tenancyVars, channelVars, alertVars, scheduleVars>>
     \/ focus = "agents" /\ AccountsNext /\ UNCHANGED <<mail, tenancyVars, channelVars, alertVars, scheduleVars>>
     \/ focus = "tenancy" /\ TenancyNext /\ UNCHANGED <<accountVars, channelVars, alertVars, scheduleVars>>
     \/ focus = "channels" /\ ChannelsNext /\ UNCHANGED <<accountVars, tenancyVars, alertVars, scheduleVars>>
     \/ focus = "alerts" /\ AlertsNext /\ UNCHANGED <<accountVars, tenancyVars, channelVars, scheduleVars>>
     \/ focus = "schedule" /\ ScheduleNext /\ UNCHANGED <<accountVars, tenancyVars, channelVars, alertVars>>

AdministrationSpec == AdministrationInit /\ [][AdministrationNext]_adminVars

\* Accounts alone.
AccountsAlone == AdministrationSpec /\ focus = "accounts"
=============================================================================
