--------------------------- MODULE OrgMembership ---------------------------
(* Memberships, roles and invitations of one organization: OrgService and  *)
(* RbacAccessControl.assignRole. Every awaited store call is a step of its *)
(* own, so concurrent requests interleave between what one read and what   *)
(* it writes, and a request may be cut off at any await. The repository    *)
(* stores update a row by DELETE and INSERT, the postgres stores in place. *)
(* Rows refer to each other ON DELETE CASCADE.                             *)
EXTENDS Naturals, FiniteSets

CONSTANTS
  Users,
  Requests,      \* requests that may be served at the same time
  Invitations,
  OrgOps,        \* the operations clients call
  AssignedRoles, \* the role names clients ask for, seeded or not
  Stores,        \* the stores a deployment may be configured with
  MaxJoins       \* bound, for each store: memberships one user is ever given

ASSUME OrgAssumption ==
  Stores \subseteq {"postgres", "repository"} /\ MaxJoins \in [Stores -> Nat \ {0}]

VARIABLES
  store,         \* "postgres" or "repository", fixed at start
  organization,  \* its row: "absent", "stored" or "deleted"
  roles,         \* names of the role rows
  membership,    \* user -> row, NoRow without one
  invitation,    \* invitation -> status of its row
  request,       \* request -> program counter and locals
  joins,         \* history: user -> memberships given so far
  joined,        \* history: invitations that brought their user in, or found it inside
  removed,       \* history: users removed and not let in by an acceptance since
  overtaken,     \* history: users removed while a role change held their row
  lost           \* history: users whose row an interruption or a cascade took

orgVars == <<store, organization, roles, membership, invitation, request,
             joins, joined, removed, overtaken, lost>>
rows == <<organization, roles, membership, invitation>>
history == <<joins, joined, removed, overtaken, lost>>

RoleNames == {"Administrator", "Member"}
Membership == [id: Nat \ {0}, role: RoleNames]
NoRow == [id |-> 0, role |-> "none"]
Members == {u \in Users : membership[u] # NoRow}
Administrators == {u \in Users : membership[u].role = "Administrator"}

NoUser == "nobody"
NoInvitation == "none"
Idle == [op |-> "none", at |-> "idle", user |-> NoUser, row |-> NoRow,
         role |-> "none", inv |-> NoInvitation, alone |-> FALSE]
Busy(r) == request[r].at # "idle"

Steps == {"idle", "adminRole", "memberRole", "founder", "save", "findMember", "join", "mark",
          "remark", "find", "count", "delete", "set", "reinsert", "restore"}
RequestState ==
  [op: {"none", "create", "invite", "accept", "remove", "assign", "settings"}, at: Steps,
   user: Users \union {NoUser}, row: Membership \union {NoRow},
   role: AssignedRoles \union {"none"}, inv: Invitations \union {NoInvitation},
   alone: BOOLEAN]

(* A request ends: it returned, was refused, or a store call rejected. *)
Return(r) == request' = [request EXCEPT ![r] = Idle]
Goto(r, step) == request' = [request EXCEPT ![r].at = step]
At(r, op, step) == request[r].op = op /\ request[r].at = step

(* A request arrives. The flag alone is history: it has overlapped no      *)
(* other.                                                                  *)
Arrive(r, call) ==
  /\ ~Busy(r)
  /\ call.op \in OrgOps
  /\ request' = [q \in Requests |->
       IF q = r THEN [call EXCEPT !.alone = \A p \in Requests : ~Busy(p)]
                ELSE [request[q] EXCEPT !.alone = FALSE]]

Call(op, step) == [Idle EXCEPT !.op = op, !.at = step]

OrgInit ==
  /\ store \in Stores
  /\ organization = "absent"
  /\ roles = {}
  /\ membership = [u \in Users |-> NoRow]
  /\ invitation = [i \in Invitations |-> "unsent"]
  /\ request = [r \in Requests |-> Idle]
  /\ joins = [u \in Users |-> 0]
  /\ joined = {}
  /\ removed = {}
  /\ overtaken = {}
  /\ lost = {}

---------------------------------------------------------------------------
(* createMembership: the unique index refuses a second row of the user,    *)
(* the foreign key a role that is gone.                                    *)
CanInsert(u, role) == membership[u] = NoRow /\ role \in roles

InsertMembership(u, role) ==
  /\ membership' = [membership EXCEPT ![u] = [id |-> joins[u] + 1, role |-> role]]
  /\ joins' = [joins EXCEPT ![u] = @ + 1]
  /\ removed' = removed \ {u}
  /\ overtaken' = overtaken \ {u}
  /\ lost' = lost \ {u}

(* createOrg: the organization, its two roles, then the founder. *)
CreateOrg(r, u) ==
  /\ organization = "absent"
  /\ Arrive(r, [Call("create", "adminRole") EXCEPT !.user = u])
  /\ organization' = "stored"
  /\ UNCHANGED <<store, roles, membership, invitation, history>>

(* Faulty variant: the founder is recorded before the Member role. *)
CreateFounderEarly(r) ==
  /\ At(r, "create", "adminRole")
  /\ roles' = roles \union {"Administrator"}
  /\ Goto(r, "founder")
  /\ UNCHANGED <<store, organization, membership, invitation, history>>

CreateAdminRole(r) ==
  /\ At(r, "create", "adminRole")
  /\ roles' = roles \union {"Administrator"}
  /\ Goto(r, "memberRole")
  /\ UNCHANGED <<store, organization, membership, invitation, history>>

CreateMemberRole(r) ==
  /\ At(r, "create", "memberRole")
  /\ roles' = roles \union {"Member"}
  /\ Goto(r, "founder")
  /\ UNCHANGED <<store, organization, membership, invitation, history>>

CreateFounder(r) ==
  /\ At(r, "create", "founder")
  /\ CanInsert(request[r].user, "Administrator")
  /\ InsertMembership(request[r].user, "Administrator")
  /\ Return(r)
  /\ UNCHANGED <<store, organization, roles, invitation, joined>>

(* invite: requireMembership, then the pending row. *)
Invite(r, i) ==
  /\ Members # {}
  /\ invitation[i] = "unsent"
  /\ Arrive(r, [Call("invite", "save") EXCEPT !.inv = i])
  /\ UNCHANGED <<store, rows, history>>

SaveInvitation(r) ==
  /\ At(r, "invite", "save")
  /\ invitation' = IF organization = "stored" /\ invitation[request[r].inv] = "unsent"
                   THEN [invitation EXCEPT ![request[r].inv] = "pending"]
                   ELSE invitation
  /\ Return(r)
  /\ UNCHANGED <<store, organization, roles, membership, history>>

(* acceptInvitation: valid while the row read is pending. *)
Accept(r, i, u) ==
  /\ invitation[i] = "pending"
  /\ Arrive(r, [Call("accept", "findMember") EXCEPT !.user = u, !.inv = i])
  /\ UNCHANGED <<store, rows, history>>

(* Faulty variant: the invitation is marked before the membership is made. *)
AcceptMarksFirst(r) ==
  /\ At(r, "accept", "findMember")
  /\ invitation' = [invitation EXCEPT ![request[r].inv] = "accepted"]
  /\ Goto(r, "join")
  /\ UNCHANGED <<store, organization, roles, membership, history>>

AcceptFindsMember(r) ==
  LET u == request[r].user
      i == request[r].inv
  IN /\ At(r, "accept", "findMember")
     /\ \/ u \in Members /\ joined' = joined \union {i} /\ Goto(r, "mark")
        \/ u \notin Members /\ "Member" \in roles /\ Goto(r, "join") /\ UNCHANGED joined
        \/ u \notin Members /\ "Member" \notin roles /\ Return(r) /\ UNCHANGED joined
     /\ UNCHANGED <<store, rows, joins, removed, overtaken, lost>>

AcceptJoins(r) ==
  /\ At(r, "accept", "join")
  /\ LET u == request[r].user
     IN \/ /\ ~CanInsert(u, "Member")
           /\ Return(r)
           /\ UNCHANGED <<membership, history>>
        \/ /\ CanInsert(u, "Member")
           /\ joins[u] < MaxJoins[store]
           /\ InsertMembership(u, "Member")
           /\ joined' = joined \union {request[r].inv}
           /\ Goto(r, "mark")
  /\ UNCHANGED <<store, organization, roles, invitation>>

(* setInvitationStatus(accepted). *)
MarkAccepted(r) ==
  LET i == request[r].inv
      stored == invitation[i] \in {"pending", "accepted"}
  IN /\ At(r, "accept", "mark")
     /\ IF store = "postgres"
        THEN /\ invitation' = IF stored THEN [invitation EXCEPT ![i] = "accepted"] ELSE invitation
             /\ Return(r)
        ELSE /\ invitation' = [invitation EXCEPT ![i] = "deleted"]
             /\ Goto(r, "remark")
     /\ UNCHANGED <<store, organization, roles, membership, history>>

RemarkAccepted(r) ==
  /\ At(r, "accept", "remark")
  /\ invitation' = IF organization = "stored" /\ invitation[request[r].inv] = "deleted"
                   THEN [invitation EXCEPT ![request[r].inv] = "accepted"]
                   ELSE invitation
  /\ Return(r)
  /\ UNCHANGED <<store, organization, roles, membership, history>>

---------------------------------------------------------------------------
(* removeMember, assignRole and updateSettings begin with the same reads:  *)
(* the actor's membership, then its role. An actor who is not an           *)
(* administrator is refused and nothing happens, so who it is matters no   *)
(* further. Role rows never change: read with the row that names them.     *)
Gated(r, call) ==
  /\ Administrators # {}
  /\ "Administrator" \in roles
  /\ Arrive(r, call)
  /\ UNCHANGED <<store, rows, history>>

RemoveMember(r, u) == Gated(r, [Call("remove", "find") EXCEPT !.user = u])
AssignRole(r, u, role) == Gated(r, [Call("assign", "find") EXCEPT !.user = u, !.role = role])
UpdateSettings(r) == organization = "stored" /\ Gated(r, Call("settings", "save"))

(* findMembership of the target: its row is kept for the write.            *)
FindRemoved(r) ==
  LET u == request[r].user
  IN /\ At(r, "remove", "find")
     /\ IF u \in Members
        THEN request' = [request EXCEPT ![r].at = "count", ![r].row = membership[u]]
        ELSE Return(r)
     /\ UNCHANGED <<store, rows, history>>

(* Faulty variant: an off-by-one in the last-administrator rule. *)
MayRemoveLast(row) ==
  ("Administrator" \in roles /\ row.role = "Administrator") => Cardinality(Administrators) >= 1

(* The last-administrator rule: findRoleByName and listMemberships. *)
MayRemove(row) ==
  ("Administrator" \in roles /\ row.role = "Administrator") => Cardinality(Administrators) > 1

CountAdministrators(r) ==
  /\ At(r, "remove", "count")
  /\ IF MayRemove(request[r].row) THEN Goto(r, "delete") ELSE Return(r)
  /\ UNCHANGED <<store, rows, history>>

(* A role change has read the user's row and not written it yet. *)
HoldsRow(q, u) ==
  request[q].op = "assign" /\ request[q].at \in {"set", "reinsert"} /\ request[q].user = u

DeleteMembership(r) ==
  LET u == request[r].user
      held == \E q \in Requests : HoldsRow(q, u)
  IN /\ At(r, "remove", "delete")
     /\ membership' = IF membership[u].id = request[r].row.id
                      THEN [membership EXCEPT ![u] = NoRow] ELSE membership
     /\ IF membership'[u] = NoRow
        THEN /\ removed' = removed \union {u}
             /\ overtaken' = IF held THEN overtaken \union {u} ELSE overtaken \ {u}
        ELSE UNCHANGED <<removed, overtaken>>
     /\ Return(r)
     /\ UNCHANGED <<store, organization, roles, invitation, joins, joined, lost>>

(* Faulty variant: the role name is taken as given. *)
FindAssignedUnchecked(r) ==
  LET u == request[r].user
  IN /\ At(r, "assign", "find")
     /\ IF u \in Members
        THEN request' = [request EXCEPT ![r].at = "set", ![r].row = membership[u]]
        ELSE Return(r)
     /\ UNCHANGED <<store, rows, history>>

(* The target's row and, by its name, the role it is to have. *)
FindAssigned(r) ==
  LET u == request[r].user
  IN /\ At(r, "assign", "find")
     /\ IF u \in Members /\ request[r].role \in roles
        THEN request' = [request EXCEPT ![r].at = "set", ![r].row = membership[u]]
        ELSE Return(r)
     /\ UNCHANGED <<store, rows, history>>

(* Faulty variant: an upsert. *)
SetRoleUpsert(r) ==
  /\ At(r, "assign", "set")
  /\ membership' = [membership EXCEPT ![request[r].user] =
                      [id |-> request[r].row.id, role |-> request[r].role]]
  /\ Return(r)
  /\ UNCHANGED <<store, organization, roles, invitation, history>>

(* setMembershipRole, on the row with the id that was read. *)
SetRole(r) ==
  LET u == request[r].user
      same == membership[u].id = request[r].row.id
  IN /\ At(r, "assign", "set")
     /\ IF store = "postgres"
        THEN /\ membership' = IF same THEN [membership EXCEPT ![u].role = request[r].role] ELSE membership
             /\ Return(r)
        ELSE /\ membership' = IF same THEN [membership EXCEPT ![u] = NoRow] ELSE membership
             /\ Goto(r, "reinsert")
     /\ UNCHANGED <<store, organization, roles, invitation, history>>

ReinsertMembership(r) ==
  LET u == request[r].user
  IN /\ At(r, "assign", "reinsert")
     /\ membership' = IF CanInsert(u, request[r].role)
                      THEN [membership EXCEPT ![u] = [id |-> request[r].row.id, role |-> request[r].role]]
                      ELSE membership
     /\ Return(r)
     /\ UNCHANGED <<store, organization, roles, invitation, history>>

(* updateSettings: the settings themselves are left out, the organization  *)
(* row is not. Deleting it takes every row that refers to it.              *)
SaveSettings(r) ==
  /\ At(r, "settings", "save")
  /\ \/ store = "postgres" /\ Return(r) /\ UNCHANGED <<rows, lost>>
     \/ /\ store = "repository"
        /\ organization' = "deleted"
        /\ roles' = {}
        /\ membership' = [u \in Users |-> NoRow]
        /\ invitation' = [i \in Invitations |->
                            IF invitation[i] = "unsent" THEN "unsent" ELSE "deleted"]
        /\ lost' = Users
        /\ Goto(r, "restore")
  /\ UNCHANGED <<store, joins, joined, removed, overtaken>>

RestoreOrganization(r) ==
  /\ At(r, "settings", "restore")
  /\ organization' = "stored"
  /\ Return(r)
  /\ UNCHANGED <<store, roles, membership, invitation, history>>

(* The process ends, or a store call rejects, at any await. *)
Interrupt(r) ==
  /\ Busy(r)
  /\ lost' = IF At(r, "assign", "reinsert") THEN lost \union {request[r].user} ELSE lost
  /\ Return(r)
  /\ UNCHANGED <<store, rows, joins, joined, removed, overtaken>>

OrgNext ==
  \E r \in Requests :
    \/ \E u \in Users : CreateOrg(r, u) \/ RemoveMember(r, u)
    \/ \E u \in Users, i \in Invitations : Accept(r, i, u)
    \/ \E u \in Users, role \in AssignedRoles : AssignRole(r, u, role)
    \/ \E i \in Invitations : Invite(r, i)
    \/ UpdateSettings(r)
    \/ CreateAdminRole(r) \/ CreateMemberRole(r) \/ CreateFounder(r)
    \/ SaveInvitation(r)
    \/ AcceptFindsMember(r) \/ AcceptJoins(r)
    \/ MarkAccepted(r) \/ RemarkAccepted(r)
    \/ FindRemoved(r) \/ CountAdministrators(r) \/ DeleteMembership(r)
    \/ FindAssigned(r) \/ SetRole(r) \/ ReinsertMembership(r)
    \/ SaveSettings(r) \/ RestoreOrganization(r)
    \/ Interrupt(r)

OrgSpec == OrgInit /\ [][OrgNext]_orgVars

---------------------------------------------------------------------------
(* Every variable holds a value of its type. *)
OrgTypeOK ==
  /\ store \in Stores
  /\ organization \in {"absent", "stored", "deleted"}
  /\ roles \subseteq RoleNames
  /\ membership \in [Users -> Membership \union {NoRow}]
  /\ invitation \in [Invitations -> {"unsent", "pending", "accepted", "deleted"}]
  /\ request \in [Requests -> RequestState]
  /\ joins \in [Users -> 0..MaxJoins[store]]
  /\ joined \subseteq Invitations
  /\ removed \subseteq Users
  /\ overtaken \subseteq Users
  /\ lost \subseteq Users

(* An organization with a member has both seeded roles, whatever createOrg *)
(* was interrupted at: an invitation is never accepted into an             *)
(* organization without a Member role.                                     *)
MembersHaveRoles == Members # {} => roles = RoleNames

(* acceptInvitation: an invitation marked accepted has brought somebody in *)
(* (or found the invitee inside), wherever the request was cut off.        *)
AcceptedMeansJoined ==
  \A i \in Invitations : invitation[i] = "accepted" => i \in joined

(* removeMember revokes access: a removed user stays out until an          *)
(* acceptance lets it in, of any invitation still pending, an older one    *)
(* too. Over the postgres stores no role change under way brings it back.  *)
(* Over the repository stores only one can that had read the row when the  *)
(* row was removed: it inserts what it read.                               *)
RemovedStaysOut ==
  \A u \in removed \intersect Members : store = "repository" /\ u \in overtaken

(* Nobody drops out of the organization by a role change or a refused      *)
(* request: whoever joined is inside unless removed, unless a role change  *)
(* is between its DELETE and its INSERT, or was cut off there, or the      *)
(* settings were saved over the repository store.                          *)
MemberUntilRemoved ==
  \A u \in Users : joins[u] > 0 =>
    \/ u \in Members \union removed \union lost
    \/ \E r \in Requests : At(r, "assign", "reinsert") /\ request[r].user = u

(* The last-administrator rule holds for a removal that overlaps no other  *)
(* request.                                                                *)
LoneRemovalKeepsAdministrator ==
  [][\A r \in Requests :
       At(r, "remove", "delete") /\ request[r].alone => Administrators' # {}]_orgVars

(* "An organization always retains at least one Administrator": no removal *)
(* takes the last one.                                                     *)
RemovalKeepsAdministrator ==
  [][\A r \in Requests :
       At(r, "remove", "delete") /\ ~Busy(r)' /\ Administrators # {}
         => Administrators' # {}]_orgVars
=============================================================================
