------------------------------ MODULE Tenancy ------------------------------
(***************************************************************************)
(* Workspaces (organizations), their members, gateways and gateway keys.   *)
(*                                                                         *)
(* A console request is three steps, each of them statements of their own  *)
(* at READ COMMITTED: the handler prepares the caller's workspace and      *)
(* looks up the caller's role; the repository checks what it is about to   *)
(* change; the repository writes.  Administrators close, reopen, replan    *)
(* and delete organizations meanwhile.                                     *)
(***************************************************************************)
EXTENDS Naturals, FiniteSets

CONSTANTS
  Users,           \* user ids
  Orgs,            \* organization ids
  DefaultOrg,      \* org_default, the platform's own organization
  Personal,        \* the user a personal organization belongs to, None for the others
  Gateways,        \* gateway ids
  GatewayKeys,     \* gateway key ids
  Consoles,        \* requests to the console or to the platform's member and gateway pages
  Wishes,          \* what those requests ask for (see AllWishes)
  None,            \* no user, no organization, no gateway
  MaxAdminWrites,  \* bound on the administrators' changes to organizations
  MaxConsoleUses   \* bound on the number of requests

MemberRoles == {"owner", "admin", "operator", "viewer"}
WritableRoles == MemberRoles \ {"owner"}
BulkMemberKinds == {"bulk_role", "bulk_remove"}
MemberKinds == {"invite", "patch", "remove"} \cup BulkMemberKinds
GatewayKinds == {"create_gateway", "patch_gateway", "delete_gateway", "bulk_gateways", "create_key"}
KeyKinds == {"patch_key", "bulk_keys", "revoke_keys", "delete_keys"}

\* A wish names members and a role, a gateway, or keys; "keep" is an empty status.
AllWishes ==
  {w \in [kind : MemberKinds \cup GatewayKinds \cup KeyKinds \cup {"settings", "reset"},
          who : SUBSET Users, role : WritableRoles, gateway : Gateways \cup {None},
          keys : SUBSET GatewayKeys, status : {"keep", "active", "paused", "deleted"}] :
     /\ w.kind \in MemberKinds <=> w.who # {}
     /\ w.kind \in MemberKinds \ BulkMemberKinds => Cardinality(w.who) = 1
     /\ w.kind \in GatewayKinds <=> w.gateway # None
     /\ w.kind \in KeyKinds <=> w.keys # {}
     /\ w.kind = "patch_key" => Cardinality(w.keys) = 1
     /\ w.status = "deleted" => w.kind \in {"patch_gateway", "delete_gateway", "bulk_gateways"}
     /\ w.kind = "delete_gateway" => w.status = "deleted"
     /\ w.kind \in {"bulk_gateways", "bulk_keys"} => w.status # "keep"}

ASSUME TenancyAssumption ==
  /\ DefaultOrg \in Orgs
  /\ Personal \in [Orgs -> Users \cup {None}] /\ Personal[DefaultOrg] = None
  /\ \A o, p \in Orgs : Personal[o] = Personal[p] /\ Personal[o] # None => o = p
  /\ None \notin Users \cup Orgs \cup Gateways
  /\ Wishes \subseteq AllWishes
  /\ MaxAdminWrites \in Nat /\ MaxConsoleUses \in Nat

VARIABLES
  org,         \* orgs.status
  rules,       \* whether the alert rules and the notification channel of an organization are on
  defaultNote, \* whether the organization names that channel as its default
  member,      \* the active rows of org_members
  gateway,     \* gateways; late: made active by a request that overlapped a closing (history)
  gatewayKey,  \* gateway_keys, likewise
  console,     \* requests in flight
  replanned,   \* organizations with an admin.org.bulk_plan entry in audit_events
  adminWrites, consoleUses

tenancyVars == <<org, rules, defaultNote, member, gateway, gatewayKey, console, replanned, adminWrites, consoleUses>>

GatewayRows == [org : Orgs \cup {None}, status : {"none", "active", "paused", "deleted"}, late : BOOLEAN]
KeyRows == [gateway : Gateways \cup {None}, status : {"none", "active", "paused", "revoked", "deleted"}, late : BOOLEAN]

\* stale: the organization was closed, or the caller lost the role, since the
\* request was admitted (history).
ConsoleRecords == [pc : {"idle", "admitted", "checked"}, actor : Users \cup {None},
                   org : Orgs \cup {None}, wish : Wishes \cup {None},
                   seen : {"none", "active", "paused", "deleted"}, stale : BOOLEAN]
Idle == [pc |-> "idle", actor |-> None, org |-> None, wish |-> None, seen |-> "none", stale |-> FALSE]

TenancyTypeOK ==
  /\ org \in [Orgs -> {"none", "active", "suspended", "deleted"}]
  /\ rules \in [Orgs -> BOOLEAN] /\ defaultNote \in [Orgs -> BOOLEAN]
  /\ member \in [Orgs -> [Users -> MemberRoles \cup {"out"}]]
  /\ gateway \in [Gateways -> GatewayRows]
  /\ gatewayKey \in [GatewayKeys -> KeyRows]
  /\ console \in [Consoles -> ConsoleRecords]
  /\ replanned \subseteq Orgs
  /\ adminWrites \in 0 .. MaxAdminWrites /\ consoleUses \in 0 .. MaxConsoleUses

\* A fresh installation, or one in use: everybody has a personal workspace, and one
\* organization runs the gateways, with the keys to one of them.
TenancyInit ==
  \E home \in {o \in Orgs : o = DefaultOrg \/ Personal[o] # None} \cup {None} :
    LET used == home # None
        open(o) == o = DefaultOrg \/ (used /\ Personal[o] # None)
    IN /\ org = [o \in Orgs |-> IF open(o) THEN "active" ELSE "none"]
       /\ rules = [o \in Orgs |-> TRUE] /\ defaultNote = [o \in Orgs |-> FALSE]
       /\ member = [o \in Orgs |-> [u \in Users |-> IF used /\ u = Personal[o] THEN "owner" ELSE "out"]]
       /\ gateway = [g \in Gateways |-> [org |-> home, status |-> IF used THEN "active" ELSE "none", late |-> FALSE]]
       /\ \E g \in Gateways : gatewayKey = [k \in GatewayKeys |->
            [gateway |-> IF used THEN g ELSE None, status |-> IF used THEN "active" ELSE "none", late |-> FALSE]]
       /\ console = [c \in Consoles |-> Idle]
       /\ replanned = {} /\ adminWrites = 0 /\ consoleUses = 0

-----------------------------------------------------------------------------
(* A request to the console. *)

\* EnsurePersonalWorkspace: the caller is the owner of an active workspace.
EnsurePersonalWorkspace(u) ==
  LET mine == {o \in Orgs : Personal[o] = u}
      orgAfter == [o \in Orgs |-> IF o \in mine /\ org[o] = "none" THEN "active" ELSE org[o]]
  IN /\ org' = orgAfter
     /\ member' = [o \in Orgs |-> IF o \in mine /\ orgAfter[o] = "active"
                                  THEN [member[o] EXCEPT ![u] = "owner"] ELSE member[o]]

CanManageWorkspace(role) == role \in {"owner", "admin"}
CanOperateWorkspace(role) == role \in {"owner", "admin", "operator"}

\* Who may ask for what.
RoleAdmits(w, role) ==
  IF w.kind \in GatewayKinds \cup KeyKinds THEN CanOperateWorkspace(role) ELSE CanManageWorkspace(role)

Admitted(c, u, o, w) ==
  console' = [console EXCEPT ![c] = [Idle EXCEPT !.pc = "admitted", !.actor = u, !.org = o, !.wish = w]]

FreeConsoles == {c \in Consoles : console[c].pc = "idle" /\ consoleUses < MaxConsoleUses}

\* consoleWorkspaceForRead, ...ForWrite, ...ForOperate: prepare the caller's own
\* workspace, then look at the role and the status of the one the request names.
ConsoleWorkspace(c, u, o, w) ==
  /\ c \in FreeConsoles
  /\ consoleUses' = consoleUses + 1
  /\ EnsurePersonalWorkspace(u)
  /\ IF org'[o] = "active" /\ RoleAdmits(w, member'[o][u])
     THEN Admitted(c, u, o, w) ELSE console' = console
  /\ UNCHANGED <<rules, defaultNote, gateway, gatewayKey, replanned, adminWrites>>

\* The platform's own member and gateway pages: an administrator, the default
\* organization, no look at its status and no workspace role.
AdminWorkspace(c, u, w) ==
  /\ c \in FreeConsoles
  /\ w.kind \notin {"settings", "reset"}
  /\ consoleUses' = consoleUses + 1
  /\ Admitted(c, u, DefaultOrg, w)
  /\ UNCHANGED <<org, rules, defaultNote, member, gateway, gatewayKey, replanned, adminWrites>>

\* The handlers of the console.
InviteConsoleMember(c, u, o, w) == w.kind = "invite" /\ ConsoleWorkspace(c, u, o, w)
PatchConsoleMember(c, u, o, w) == w.kind = "patch" /\ ConsoleWorkspace(c, u, o, w)
DeleteConsoleMember(c, u, o, w) == w.kind = "remove" /\ ConsoleWorkspace(c, u, o, w)
BulkConsoleMembers(c, u, o, w) == w.kind \in BulkMemberKinds /\ ConsoleWorkspace(c, u, o, w)
UpdateConsoleSettings(c, u, o, w) == w.kind = "settings" /\ ConsoleWorkspace(c, u, o, w)
ResetConsoleSettings(c, u, o, w) == w.kind = "reset" /\ ConsoleWorkspace(c, u, o, w)
CreateConsoleGateway(c, u, o, w) == w.kind = "create_gateway" /\ ConsoleWorkspace(c, u, o, w)
PatchConsoleGateway(c, u, o, w) == w.kind = "patch_gateway" /\ ConsoleWorkspace(c, u, o, w)
DeleteConsoleGateways(c, u, o, w) ==
  w.kind \in {"delete_gateway", "bulk_gateways"} /\ ConsoleWorkspace(c, u, o, w)
CreateConsoleGatewayKey(c, u, o, w) == w.kind = "create_key" /\ ConsoleWorkspace(c, u, o, w)
PatchConsoleGatewayKey(c, u, o, w) == w.kind = "patch_key" /\ ConsoleWorkspace(c, u, o, w)
BulkConsoleGatewayKeys(c, u, o, w) == w.kind \in KeyKinds \ {"patch_key"} /\ ConsoleWorkspace(c, u, o, w)

\* The same for the platform's own pages.
InviteAdminMember(c, u, w) == w.kind = "invite" /\ AdminWorkspace(c, u, w)
PatchAdminMember(c, u, w) == w.kind = "patch" /\ AdminWorkspace(c, u, w)
DeleteAdminMember(c, u, w) == w.kind = "remove" /\ AdminWorkspace(c, u, w)
BulkAdminMembers(c, u, w) == w.kind \in BulkMemberKinds /\ AdminWorkspace(c, u, w)
CreateAdminGateway(c, u, w) == w.kind = "create_gateway" /\ AdminWorkspace(c, u, w)
PatchAdminGateway(c, u, w) == w.kind = "patch_gateway" /\ AdminWorkspace(c, u, w)
DeleteAdminGateways(c, u, w) == w.kind \in {"delete_gateway", "bulk_gateways"} /\ AdminWorkspace(c, u, w)
CreateAdminGatewayKey(c, u, w) == w.kind = "create_key" /\ AdminWorkspace(c, u, w)
PatchAdminGatewayKey(c, u, w) == w.kind = "patch_key" /\ AdminWorkspace(c, u, w)
BulkAdminGatewayKeys(c, u, w) == w.kind \in KeyKinds \ {"patch_key"} /\ AdminWorkspace(c, u, w)

-----------------------------------------------------------------------------
(* What the repository reads, and what it writes. *)

\* GatewayByIDForOrg finds it.
OwnGateway(c) ==
  /\ gateway[console[c].wish.gateway].org = console[c].org
  /\ gateway[console[c].wish.gateway].status \in {"active", "paused"}

\* The key belongs to the organization and is not deleted.
OwnKey(c, k) ==
  /\ gatewayKey[k].status \notin {"none", "deleted"}
  /\ gateway[gatewayKey[k].gateway].org = console[c].org

\* gatewayKeyBulkStatesForOrg: all the keys, each of a gateway that is not deleted.
LiveKeys(c) ==
  \A k \in console[c].wish.keys : OwnKey(c, k) /\ gateway[gatewayKey[k].gateway].status # "deleted"

NoneRevoked(c) == \A k \in console[c].wish.keys : gatewayKey[k].status # "revoked"

\* Mutant: owners are not protected.
MembersMayChangeOwners(c) ==
  \A u \in console[c].wish.who :
     u # console[c].actor /\ (console[c].wish.kind # "invite" => member[console[c].org][u] # "out")

\* Members other than the caller, none of them an owner; all of them members
\* already unless the request invites.
MembersMayChange(c) ==
  \A u \in console[c].wish.who :
     /\ u # console[c].actor
     /\ member[console[c].org][u] # "owner"
     /\ console[c].wish.kind # "invite" => member[console[c].org][u] # "out"

\* What the repository demands before it writes.
MayWrite(c) ==
  CASE console[c].wish.kind \in MemberKinds -> MembersMayChange(c)
    [] console[c].wish.kind = "create_gateway" ->
         /\ org[console[c].org] = "active"
         /\ gateway[console[c].wish.gateway].status = "none"
    [] console[c].wish.kind = "create_key" -> OwnGateway(c) /\ org[console[c].org] = "active"
    [] console[c].wish.kind = "patch_gateway" -> OwnGateway(c)
    [] console[c].wish.kind = "patch_key" -> LiveKeys(c) /\ NoneRevoked(c)
    [] console[c].wish.kind = "settings" -> rules[console[c].org]
    [] OTHER -> TRUE

\* The status an edit reads, to write it back when the request names none.
StatusRead(c) ==
  CASE console[c].wish.kind = "patch_gateway" -> gateway[console[c].wish.gateway].status
    [] console[c].wish.kind = "patch_key" -> (CHOOSE k \in {gatewayKey[k] : k \in console[c].wish.keys} : TRUE).status
    [] OTHER -> "none"

\* The statements before the write.
Check(c) ==
  /\ console[c].pc = "admitted"
  /\ console' = [console EXCEPT ![c] = IF MayWrite(c)
                                       THEN [@ EXCEPT !.pc = "checked", !.seen = StatusRead(c)] ELSE Idle]
  /\ UNCHANGED <<org, rules, defaultNote, member, gateway, gatewayKey, replanned, adminWrites, consoleUses>>

\* The keys of a gateway that goes away are revoked with it.
KeysRevoked(G) ==
  [k \in GatewayKeys |-> IF gatewayKey[k].gateway \in G /\ gatewayKey[k].status = "active"
                         THEN [gatewayKey[k] EXCEPT !.status = "revoked"] ELSE gatewayKey[k]]

MemberRole(w) == IF w.kind \in {"remove", "bulk_remove"} THEN "out" ELSE w.role

\* Only the upsert does not ask again whether the row is active.
MembersWritten(c) ==
  LET o == console[c].org
      w == console[c].wish
  IN IF w.kind # "invite" /\ \E u \in w.who : member[o][u] = "out" THEN member[o]
     ELSE [u \in Users |-> IF u \in w.who THEN MemberRole(w) ELSE member[o][u]]

\* Requests of people whose role changes are overtaken by the change.
WriteMembers(c, kind) ==
  LET o == console[c].org
      after == MembersWritten(c)
  IN /\ console[c].pc = "checked" /\ console[c].wish.kind = kind
     /\ member' = [member EXCEPT ![o] = after]
     /\ console' = [d \in Consoles |-> IF d = c THEN Idle
          ELSE [console[d] EXCEPT !.stale = @ \/ (/\ console[d].pc # "idle" /\ console[d].org = o
                                                  /\ console[d].actor \in Users
                                                  /\ after[console[d].actor] # member[o][console[d].actor])]]
     /\ UNCHANGED <<org, rules, defaultNote, gateway, gatewayKey, replanned, adminWrites, consoleUses>>

UpsertWorkspaceMember(c) == WriteMembers(c, "invite")
UpdateWorkspaceMember(c) == WriteMembers(c, "patch")
RemoveWorkspaceMember(c) == WriteMembers(c, "remove")
BulkUpdateWorkspaceMembersRole(c) == WriteMembers(c, "bulk_role")
BulkRemoveWorkspaceMembers(c) == WriteMembers(c, "bulk_remove")

CreateGateway(c) ==
  LET g == console[c].wish.gateway
  IN /\ console[c].pc = "checked" /\ console[c].wish.kind = "create_gateway"
     /\ gateway[g].status = "none"
     /\ gateway' = [gateway EXCEPT ![g] = [org |-> console[c].org, status |-> "active",
                                           late |-> console[c].stale]]
     /\ console' = [console EXCEPT ![c] = Idle]
     /\ UNCHANGED <<org, rules, defaultNote, member, gatewayKey, replanned, adminWrites, consoleUses>>

\* An edit of a gateway or key writes the status the request names, or the one it read.
StatusWritten(c) == IF console[c].wish.status = "keep" THEN console[c].seen ELSE console[c].wish.status

\* The statement finds the row unless it is deleted.
WriteGatewayStatus(c, kind) ==
  LET g == console[c].wish.gateway
      next == StatusWritten(c)
      found == gateway[g].org = console[c].org /\ gateway[g].status \in {"active", "paused"}
  IN /\ console[c].pc = "checked" /\ console[c].wish.kind = kind
     /\ gateway' = IF found
                   THEN [gateway EXCEPT ![g].status = next,
                           ![g].late = next = "active" /\ (console[c].stale \/ gateway[g].late)]
                   ELSE gateway
     /\ gatewayKey' = IF found /\ next = "deleted" THEN KeysRevoked({g}) ELSE gatewayKey
     /\ console' = [console EXCEPT ![c] = Idle]
     /\ UNCHANGED <<org, rules, defaultNote, member, replanned, adminWrites, consoleUses>>

\* The upstreams an update chooses are in module Channels.
UpdateGateway(c) == WriteGatewayStatus(c, "patch_gateway")
DeleteGateway(c) == WriteGatewayStatus(c, "delete_gateway")
BulkUpdateGateways(c) == WriteGatewayStatus(c, "bulk_gateways")

\* The insert looks neither at the organization nor at the gateway.
CreateGatewayKey(c, k) ==
  /\ console[c].pc = "checked" /\ console[c].wish.kind = "create_key"
  /\ gatewayKey[k].status = "none"
  /\ gatewayKey' = [gatewayKey EXCEPT ![k] = [gateway |-> console[c].wish.gateway,
                                              status |-> "active", late |-> console[c].stale]]
  /\ console' = [console EXCEPT ![c] = Idle]
  /\ UNCHANGED <<org, rules, defaultNote, member, gateway, replanned, adminWrites, consoleUses>>

\* All the keys named get the status, if the statement finds them all.
WriteKeys(c, kind, found, status) ==
  /\ console[c].pc = "checked" /\ console[c].wish.kind = kind
  /\ gatewayKey' = [k \in GatewayKeys |->
       IF found /\ k \in console[c].wish.keys
       THEN [gatewayKey[k] EXCEPT !.status = status,
               !.late = status = "active" /\ (console[c].stale \/ gatewayKey[k].late)]
       ELSE gatewayKey[k]]
  /\ console' = [console EXCEPT ![c] = Idle]
  /\ UNCHANGED <<org, rules, defaultNote, member, gateway, replanned, adminWrites, consoleUses>>

\* The update does not look again whether the key has been revoked; the bulk form
\* reads the rows with a lock, and so do revocation and deletion.
UpdateGatewayKey(c) == WriteKeys(c, "patch_key", LiveKeys(c), StatusWritten(c))
BulkUpdateGatewayKeys(c) == WriteKeys(c, "bulk_keys", LiveKeys(c) /\ NoneRevoked(c), StatusWritten(c))
BulkRevokeGatewayKeys(c) == WriteKeys(c, "revoke_keys", LiveKeys(c), "revoked")
BulkDeleteGatewayKeys(c) ==
  WriteKeys(c, "delete_keys", \A k \in console[c].wish.keys : OwnKey(c, k), "deleted")

\* The default notification channel of an organization that is still active.
WriteSettings(c, kind, named) ==
  LET o == console[c].org
  IN /\ console[c].pc = "checked" /\ console[c].wish.kind = kind
     /\ defaultNote' = [defaultNote EXCEPT ![o] = IF org[o] = "active" THEN named ELSE @]
     /\ console' = [console EXCEPT ![c] = Idle]
     /\ UNCHANGED <<org, rules, member, gateway, gatewayKey, replanned, adminWrites, consoleUses>>

UpdateWorkspaceSettings(c) == WriteSettings(c, "settings", TRUE)
ResetWorkspaceSettings(c) == WriteSettings(c, "reset", FALSE)

-----------------------------------------------------------------------------
(* Administrators change organizations. *)

Live(o) == org[o] \in {"active", "suspended"}
GatewaysOf(O) == {g \in Gateways : gateway[g].org \in O}

\* Requests admitted to one of the organizations are overtaken.
Overtaken(O) ==
  [c \in Consoles |-> IF console[c].pc # "idle" /\ console[c].org \in O
                      THEN [console[c] EXCEPT !.stale = TRUE] ELSE console[c]]

AdminWrites == adminWrites < MaxAdminWrites /\ adminWrites' = adminWrites + 1

\* CreateAdminOrg: an organization of no person, without members.
CreateAdminOrg(o) ==
  /\ Personal[o] = None /\ org[o] = "none" /\ AdminWrites
  /\ \E s \in {"active", "suspended"} : org' = [org EXCEPT ![o] = s]
  /\ UNCHANGED <<rules, defaultNote, member, gateway, gatewayKey, console, replanned, consoleUses>>

\* Mutant: the gateways are paused, their keys stay.
DeactivateOrgsButKeys(O) ==
  /\ gateway' = [g \in Gateways |-> IF gateway[g].org \in O /\ gateway[g].status = "active"
                   THEN [gateway[g] EXCEPT !.status = "paused", !.late = FALSE] ELSE gateway[g]]
  /\ gatewayKey' = gatewayKey

\* deactivateInactiveOrgsGatewayAccessTx, revokeActiveGatewayKeysForOrgsTx.
DeactivateInactiveOrgs(O) ==
  /\ gateway' = [g \in Gateways |-> IF gateway[g].org \in O /\ gateway[g].status = "active"
                   THEN [gateway[g] EXCEPT !.status = "paused", !.late = FALSE] ELSE gateway[g]]
  /\ gatewayKey' = KeysRevoked(GatewaysOf(O))

\* deactivateDeletedOrgsRuntimeResourcesTx.
DeactivateDeletedOrgs(O) ==
  /\ gateway' = [g \in Gateways |-> IF gateway[g].org \in O
                   THEN [gateway[g] EXCEPT !.status = "deleted", !.late = FALSE] ELSE gateway[g]]
  /\ gatewayKey' = KeysRevoked(GatewaysOf(O))
  /\ member' = [o \in Orgs |-> IF o \in O THEN [u \in Users |-> "out"] ELSE member[o]]
  /\ rules' = [o \in Orgs |-> rules[o] /\ o \notin O]
  /\ defaultNote' = [o \in Orgs |-> defaultNote[o] /\ o \notin O]

\* The organizations whose gateways and keys a change of status closes.
Closing(O, status) == IF status = "active" THEN {} ELSE O

\* The rows are locked by the read or by the update; the default organization stays
\* active.
SetOrgStatus(O, status) ==
  /\ \A o \in O : Live(o)
  /\ DefaultOrg \in O => status = "active"
  /\ AdminWrites
  /\ org' = [o \in Orgs |-> IF o \in O THEN status ELSE org[o]]
  /\ DeactivateInactiveOrgs(Closing(O, status))
  /\ console' = Overtaken(Closing(O, status))
  /\ UNCHANGED <<rules, defaultNote, member, replanned, consoleUses>>

DeleteAdminOrg(o) ==
  /\ o # DefaultOrg /\ Live(o) /\ AdminWrites
  /\ org' = [org EXCEPT ![o] = "deleted"]
  /\ DeactivateDeletedOrgs({o})
  /\ console' = Overtaken({o})
  /\ UNCHANGED <<replanned, consoleUses>>

\* BulkUpdateAdminOrgPlans calls the deactivation of deleted organizations.
BulkUpdateAdminOrgPlans(O) ==
  /\ \A o \in O : Live(o)
  /\ AdminWrites /\ replanned' = replanned \cup O
  /\ DeactivateDeletedOrgs(O)
  /\ console' = Overtaken(O)
  /\ UNCHANGED <<org, consoleUses>>

\* BulkDeleteAdminOrgs does not.
BulkDeleteAdminOrgs(O) ==
  /\ DefaultOrg \notin O /\ \A o \in O : Live(o)
  /\ AdminWrites
  /\ org' = [o \in Orgs |-> IF o \in O THEN "deleted" ELSE org[o]]
  /\ console' = Overtaken(O)
  /\ UNCHANGED <<rules, defaultNote, member, gateway, gatewayKey, replanned, consoleUses>>

UpdateAdminOrg(o, status) == SetOrgStatus({o}, status)
UpdateAdminOrgStatus(o, status) == SetOrgStatus({o}, status)
BulkUpdateAdminOrgs(O, status) == SetOrgStatus(O, status)

\* The handlers: an edit may keep the status of the row, which it has locked.
PatchAdminOrg(o) == \E status \in {"active", "suspended"} : UpdateAdminOrg(o, status)
PatchAdminOrgStatus(o) == \E status \in {"active", "suspended"} : UpdateAdminOrgStatus(o, status)
DeleteAdminOrgRequest(o) == DeleteAdminOrg(o)
BulkAdminOrgs(O) ==
  \/ \E status \in {"active", "suspended"} : BulkUpdateAdminOrgs(O, status)
  \/ BulkUpdateAdminOrgPlans(O)
  \/ BulkDeleteAdminOrgs(O)

TenancyNext ==
  \/ \E c \in FreeConsoles, u \in Users, o \in Orgs, w \in Wishes :
        \/ InviteConsoleMember(c, u, o, w) \/ PatchConsoleMember(c, u, o, w)
        \/ DeleteConsoleMember(c, u, o, w) \/ BulkConsoleMembers(c, u, o, w)
        \/ UpdateConsoleSettings(c, u, o, w) \/ ResetConsoleSettings(c, u, o, w)
        \/ CreateConsoleGateway(c, u, o, w) \/ PatchConsoleGateway(c, u, o, w)
        \/ DeleteConsoleGateways(c, u, o, w) \/ CreateConsoleGatewayKey(c, u, o, w)
        \/ PatchConsoleGatewayKey(c, u, o, w) \/ BulkConsoleGatewayKeys(c, u, o, w)
  \/ \E c \in FreeConsoles, u \in Users, w \in Wishes :
        \/ InviteAdminMember(c, u, w) \/ PatchAdminMember(c, u, w) \/ DeleteAdminMember(c, u, w)
        \/ BulkAdminMembers(c, u, w) \/ CreateAdminGateway(c, u, w) \/ PatchAdminGateway(c, u, w)
        \/ DeleteAdminGateways(c, u, w) \/ CreateAdminGatewayKey(c, u, w)
        \/ PatchAdminGatewayKey(c, u, w) \/ BulkAdminGatewayKeys(c, u, w)
  \/ \E c \in Consoles :
        \/ Check(c) \/ UpsertWorkspaceMember(c) \/ UpdateWorkspaceMember(c) \/ RemoveWorkspaceMember(c)
        \/ BulkUpdateWorkspaceMembersRole(c) \/ BulkRemoveWorkspaceMembers(c)
        \/ CreateGateway(c) \/ UpdateGateway(c) \/ DeleteGateway(c) \/ BulkUpdateGateways(c)
        \/ UpdateGatewayKey(c) \/ BulkUpdateGatewayKeys(c) \/ BulkRevokeGatewayKeys(c)
        \/ BulkDeleteGatewayKeys(c) \/ UpdateWorkspaceSettings(c) \/ ResetWorkspaceSettings(c)
        \/ \E k \in GatewayKeys : CreateGatewayKey(c, k)
  \/ \E o \in Orgs : \/ CreateAdminOrg(o) \/ DeleteAdminOrgRequest(o)
                     \/ PatchAdminOrg(o) \/ PatchAdminOrgStatus(o)
  \/ \E O \in SUBSET Orgs \ {{}} : BulkAdminOrgs(O)

TenancySpec == TenancyInit /\ [][TenancyNext]_tenancyVars

-----------------------------------------------------------------------------
(* Properties. *)

\* The gateways and keys of a suspended organization are switched off, so that
\* reopening it does not bring old access back, except what a request admitted
\* before the suspension wrote after it (deactivateInactiveOrgsGatewayAccessTx).
SuspendedOrgIsClosed ==
  \A g \in Gateways : gateway[g].org \in Orgs /\ org[gateway[g].org] = "suspended" =>
     /\ gateway[g].status = "active" => gateway[g].late
     /\ \A k \in GatewayKeys : gatewayKey[k].gateway = g /\ gatewayKey[k].status = "active"
                                 => gatewayKey[k].late

\* Nobody takes the ownership of a workspace from its owner, although the role is
\* checked in one statement and written in another (ErrWorkspaceOwnerProtected).
\* The exception is a workspace whose members a bulk plan change has removed: its
\* owner comes back as a guest of whoever was admitted before.
OwnersKeepTheirWorkspace ==
  [][\A o \in Orgs \ replanned, u \in Users :
       member[o][u] = "owner" => member'[o][u] = "owner" \/ org'[o] = "deleted" \/ o \in replanned']_tenancyVars

\* A bulk change of plans changes plans: "将所选组织套餐改为"
\* (web/src/pages/AdminOrgsPage.tsx:149).
PlanChangeKeepsAccess ==
  [][replanned' # replanned => UNCHANGED <<gateway, gatewayKey, member, rules>>]_tenancyVars
=============================================================================
