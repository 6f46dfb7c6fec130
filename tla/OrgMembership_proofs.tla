------------------------ MODULE OrgMembership_proofs ------------------------
(***************************************************************************)
(* Theorems about OrgMembership, for any users, requests, invitations and  *)
(* stores: types, that members have their roles and accepted invitations   *)
(* their members, that a removed user stays out but for the role changes   *)
(* that overtook its removal, that nobody else drops out, and that a       *)
(* removal which overlaps no other request leaves an administrator.        *)
(***************************************************************************)
EXTENDS OrgMembership, FiniteSetTheorems, TLAPS

\* What a step may do to the requests: one comes, goes on or ends.
Unmoved(q) ==
  /\ request'[q].op = request[q].op /\ request'[q].at = request[q].at
  /\ request'[q].user = request[q].user /\ request'[q].row = request[q].row
  /\ request'[q].role = request[q].role /\ request'[q].inv = request[q].inv

Named(q) ==
  /\ q.op \in {"create", "accept", "remove", "assign"} => q.user \in Users
  /\ q.op \in {"invite", "accept"} => q.inv \in Invitations

Comes(r, op, step) ==
  /\ request' \in [Requests -> RequestState]
  /\ ~Busy(r)
  /\ request'[r].op = op /\ request'[r].at = step /\ Named(request'[r])
  /\ request'[r].alone => \A p \in Requests : ~Busy(p)
  /\ \A q \in Requests \ {r} : Unmoved(q) /\ ~request'[q].alone

GoesOn(r, step) ==
  /\ request' \in [Requests -> RequestState]
  /\ request'[r].at = step
  /\ request'[r].op = request[r].op /\ request'[r].user = request[r].user
  /\ request'[r].role = request[r].role /\ request'[r].inv = request[r].inv
  /\ request'[r].alone = request[r].alone
  /\ \A q \in Requests \ {r} : request'[q] = request[q]

Ends(r) ==
  /\ request' \in [Requests -> RequestState]
  /\ request'[r].op = "none" /\ request'[r].at = "idle" /\ ~request'[r].alone
  /\ \A q \in Requests \ {r} : request'[q] = request[q]

\* Until the founder is recorded nobody has joined, and nothing but the
\* creation runs; afterwards the roles are both there, or went with the
\* organization and its members.
NotFounded == \A u \in Users : joins[u] = 0

Founding ==
  /\ organization = "absent" => NotFounded /\ roles = {} /\ \A r \in Requests : ~Busy(r)
  /\ \A r \in Requests : Busy(r) /\ request[r].op = "create" =>
       /\ NotFounded
       /\ \A q \in Requests : Busy(q) => q = r
       /\ request[r].at = "memberRole" => "Administrator" \in roles
       /\ request[r].at = "founder" => roles = RoleNames
  /\ NotFounded =>
       /\ \A u \in Users : membership[u] = NoRow
       /\ \A i \in Invitations : invitation[i] = "unsent"
       /\ \A r \in Requests : Busy(r) => request[r].op = "create"
  /\ ~NotFounded => roles = {} \/ roles = RoleNames
  /\ roles = {} => \A u \in Users : membership[u] = NoRow

\* What a request has read or done holds while it goes on.
RequestsKnow ==
  \A r \in Requests :
    /\ Named(request[r])
    /\ request[r].op = "accept" /\ request[r].at \in {"mark", "remark"} => request[r].inv \in joined
    /\ request[r].op = "assign" /\ request[r].at \in {"set", "reinsert"} =>
         request[r].row.id \in Nat \ {0} /\ request[r].role \in RoleNames
    /\ request[r].op = "assign" /\ request[r].at = "reinsert" => store = "repository"

\* Who was inside when the roles went is counted as lost.
LostWithRoles == \A u \in Users : joins[u] > 0 /\ roles # RoleNames => u \in lost

\* Whoever has a row in the hands of a role change and was removed since is
\* counted as overtaken.
HoldersKnown ==
  \A q \in Requests : HoldsRow(q, request[q].user) =>
    request[q].user \notin removed \ overtaken

Outcomes ==
  AcceptedMeansJoined /\ RemovedStaysOut /\ HoldersKnown /\ MemberUntilRemoved /\ LostWithRoles

\* A removal that overlapped no other request runs alone, and deletes a row that
\* is not the last administrator's.
AloneKnows ==
  \A r \in Requests : request[r].alone =>
    /\ \A q \in Requests : Busy(q) => q = r
    /\ request[r].op = "remove" => Administrators # {}
    /\ At(r, "remove", "count") =>
         request[r].user \in Members /\ request[r].row = membership[request[r].user]
    /\ At(r, "remove", "delete") => \E a \in Administrators : a # request[r].user

Base == OrgTypeOK /\ Founding /\ RequestsKnow
IInv == Base /\ Outcomes /\ AloneKnows

------------------------------------------------------------------------------
\* Every step is one of the actions or changes nothing.
LEMMA StepCases ==
  ASSUME [OrgNext]_orgVars
  PROVE  \/ \E r \in Requests, u \in Users : CreateOrg(r, u)
         \/ \E r \in Requests, u \in Users : RemoveMember(r, u)
         \/ \E r \in Requests, i \in Invitations, u \in Users : Accept(r, i, u)
         \/ \E r \in Requests, u \in Users, role \in AssignedRoles : AssignRole(r, u, role)
         \/ \E r \in Requests, i \in Invitations : Invite(r, i)
         \/ \E r \in Requests : UpdateSettings(r)
         \/ \E r \in Requests : CreateAdminRole(r)
         \/ \E r \in Requests : CreateMemberRole(r)
         \/ \E r \in Requests : CreateFounder(r)
         \/ \E r \in Requests : SaveInvitation(r)
         \/ \E r \in Requests : AcceptFindsMember(r)
         \/ \E r \in Requests : AcceptJoins(r)
         \/ \E r \in Requests : MarkAccepted(r)
         \/ \E r \in Requests : RemarkAccepted(r)
         \/ \E r \in Requests : FindRemoved(r)
         \/ \E r \in Requests : CountAdministrators(r)
         \/ \E r \in Requests : DeleteMembership(r)
         \/ \E r \in Requests : FindAssigned(r)
         \/ \E r \in Requests : SetRole(r)
         \/ \E r \in Requests : ReinsertMembership(r)
         \/ \E r \in Requests : SaveSettings(r)
         \/ \E r \in Requests : RestoreOrganization(r)
         \/ \E r \in Requests : Interrupt(r)
         \/ UNCHANGED orgVars
  BY DEF OrgNext

\* What Call, Return, Goto and the two finds do to the requests.
LEMMA CallFields ==
  ASSUME NEW op \in {"create", "invite", "accept", "remove", "assign", "settings"},
         NEW step \in Steps
  PROVE  /\ Call(op, step) \in RequestState
         /\ Call(op, step).op = op /\ Call(op, step).at = step
<1>1. Idle \in RequestState
  BY DEF Idle, RequestState, Steps
<1>. QED
  BY <1>1 DEF Call, RequestState

\* A request arrives: the others lose their claim to be alone.
LEMMA ArriveEffect ==
  ASSUME OrgTypeOK,
         NEW r \in Requests,
         NEW call \in RequestState,
         Named(call),
         Arrive(r, call)
  PROVE  Comes(r, call.op, call.at)
<1> DEFINE here == [call EXCEPT !.alone = \A p \in Requests : ~Busy(p)]
           there(q) == [request[q] EXCEPT !.alone = FALSE]
<1>1. /\ here \in RequestState
      /\ here.op = call.op /\ here.at = call.at /\ Named(here)
      /\ here.alone => \A p \in Requests : ~Busy(p)
  BY DEF RequestState, Named
<1>2. ASSUME NEW q \in Requests
      PROVE  /\ there(q) \in RequestState
             /\ there(q).op = request[q].op /\ there(q).at = request[q].at
             /\ there(q).user = request[q].user /\ there(q).row = request[q].row
             /\ there(q).role = request[q].role /\ there(q).inv = request[q].inv
             /\ there(q).alone = FALSE
  BY DEF OrgTypeOK, RequestState
<1>3. /\ ~Busy(r)
      /\ request' = [q \in Requests |-> IF q = r THEN here ELSE there(q)]
  BY DEF Arrive
<1> HIDE DEF here, there
<1>. QED
  BY <1>1, <1>2, <1>3 DEF Comes, Unmoved

\* A request that returns is idle, the others are as they were.
LEMMA ReturnEffect ==
  ASSUME OrgTypeOK,
         NEW r \in Requests,
         Return(r)
  PROVE  Ends(r)
<1>1. Idle \in RequestState /\ Idle.op = "none" /\ Idle.at = "idle" /\ ~Idle.alone
  BY DEF Idle, RequestState, Steps
<1>. QED
  BY <1>1 DEF Return, Ends, OrgTypeOK

\* A request that goes on keeps its locals.
LEMMA GotoEffect ==
  ASSUME OrgTypeOK,
         NEW r \in Requests,
         NEW step \in Steps,
         Goto(r, step)
  PROVE  GoesOn(r, step) /\ request'[r].row = request[r].row
  BY DEF Goto, GoesOn, OrgTypeOK, RequestState

\* A find keeps the row it read.
LEMMA FindEffect ==
  ASSUME OrgTypeOK,
         NEW r \in Requests,
         NEW step \in Steps,
         NEW row \in Membership \union {NoRow},
         request' = [request EXCEPT ![r].at = step, ![r].row = row]
  PROVE  GoesOn(r, step) /\ request'[r].row = row
  BY DEF GoesOn, OrgTypeOK, RequestState

\* The arrival of createOrg, field by field; the next five lemmas likewise.
LEMMA CreateOrgComes ==
  ASSUME OrgTypeOK,
         NEW r \in Requests,
         NEW u \in Users,
         CreateOrg(r, u)
  PROVE  Comes(r, "create", "adminRole")
<1> DEFINE call == [Call("create", "adminRole") EXCEPT !.user = u]
<1>1. /\ Call("create", "adminRole") \in RequestState
      /\ Call("create", "adminRole").op = "create" /\ Call("create", "adminRole").at = "adminRole"
  BY CallFields DEF Steps
<1>2. /\ call \in RequestState /\ Named(call)
      /\ call.op = "create" /\ call.at = "adminRole"
  BY <1>1 DEF Named, RequestState
<1>3. Arrive(r, call)
  BY DEF CreateOrg
<1> HIDE DEF call
<1>. QED
  BY <1>2, <1>3, ArriveEffect

\* The arrival of invite.
LEMMA InviteComes ==
  ASSUME OrgTypeOK,
         NEW r \in Requests,
         NEW i \in Invitations,
         Invite(r, i)
  PROVE  Comes(r, "invite", "save")
<1> DEFINE call == [Call("invite", "save") EXCEPT !.inv = i]
<1>1. /\ Call("invite", "save") \in RequestState
      /\ Call("invite", "save").op = "invite" /\ Call("invite", "save").at = "save"
  BY CallFields DEF Steps
<1>2. /\ call \in RequestState /\ Named(call)
      /\ call.op = "invite" /\ call.at = "save"
  BY <1>1 DEF Named, RequestState
<1>3. Arrive(r, call)
  BY DEF Invite
<1> HIDE DEF call
<1>. QED
  BY <1>2, <1>3, ArriveEffect

\* The arrival of acceptInvitation.
LEMMA AcceptComes ==
  ASSUME OrgTypeOK,
         NEW r \in Requests,
         NEW i \in Invitations,
         NEW u \in Users,
         Accept(r, i, u)
  PROVE  Comes(r, "accept", "findMember")
<1> DEFINE call == [Call("accept", "findMember") EXCEPT !.user = u, !.inv = i]
<1>1. /\ Call("accept", "findMember") \in RequestState
      /\ Call("accept", "findMember").op = "accept" /\ Call("accept", "findMember").at = "findMember"
  BY CallFields DEF Steps
<1>2. /\ call \in RequestState /\ Named(call)
      /\ call.op = "accept" /\ call.at = "findMember"
  BY <1>1 DEF Named, RequestState
<1>3. Arrive(r, call)
  BY DEF Accept
<1> HIDE DEF call
<1>. QED
  BY <1>2, <1>3, ArriveEffect

\* The arrival of removeMember.
LEMMA RemoveMemberComes ==
  ASSUME OrgTypeOK,
         NEW r \in Requests,
         NEW u \in Users,
         RemoveMember(r, u)
  PROVE  Comes(r, "remove", "find")
<1> DEFINE call == [Call("remove", "find") EXCEPT !.user = u]
<1>1. /\ Call("remove", "find") \in RequestState
      /\ Call("remove", "find").op = "remove" /\ Call("remove", "find").at = "find"
  BY CallFields DEF Steps
<1>2. /\ call \in RequestState /\ Named(call)
      /\ call.op = "remove" /\ call.at = "find"
  BY <1>1 DEF Named, RequestState
<1>3. Arrive(r, call)
  BY DEF RemoveMember, Gated
<1> HIDE DEF call
<1>. QED
  BY <1>2, <1>3, ArriveEffect

\* The arrival of assignRole.
LEMMA AssignRoleComes ==
  ASSUME OrgTypeOK,
         NEW r \in Requests,
         NEW u \in Users,
         NEW role \in AssignedRoles,
         AssignRole(r, u, role)
  PROVE  Comes(r, "assign", "find")
<1> DEFINE call == [Call("assign", "find") EXCEPT !.user = u, !.role = role]
<1>1. /\ Call("assign", "find") \in RequestState
      /\ Call("assign", "find").op = "assign" /\ Call("assign", "find").at = "find"
  BY CallFields DEF Steps
<1>2. /\ call \in RequestState /\ Named(call)
      /\ call.op = "assign" /\ call.at = "find"
  BY <1>1 DEF Named, RequestState
<1>3. Arrive(r, call)
  BY DEF AssignRole, Gated
<1> HIDE DEF call
<1>. QED
  BY <1>2, <1>3, ArriveEffect

\* The arrival of updateSettings.
LEMMA UpdateSettingsComes ==
  ASSUME OrgTypeOK,
         NEW r \in Requests,
         UpdateSettings(r)
  PROVE  Comes(r, "settings", "save")
<1> DEFINE call == Call("settings", "save")
<1>1. /\ Call("settings", "save") \in RequestState
      /\ Call("settings", "save").op = "settings" /\ Call("settings", "save").at = "save"
  BY CallFields DEF Steps
<1>2. /\ call \in RequestState /\ Named(call)
      /\ call.op = "settings" /\ call.at = "save"
  BY <1>1 DEF Named
<1>3. Arrive(r, call)
  BY DEF UpdateSettings, Gated
<1> HIDE DEF call
<1>. QED
  BY <1>2, <1>3, ArriveEffect

\* Where a request may go from one await to the next.
LEMMA Moves ==
  ASSUME OrgTypeOK,
         NEW r \in Requests
  PROVE  /\ Return(r) => Ends(r)
         /\ \A step \in Steps :
              Goto(r, step) => GoesOn(r, step) /\ request'[r].row = request[r].row
  BY ReturnEffect, GotoEffect

\* removeMember has found its target, or returned.
LEMMA RemovedFound ==
  ASSUME OrgTypeOK,
         NEW r \in Requests,
         FindRemoved(r)
  PROVE  /\ At(r, "remove", "find")
         /\ \/ /\ GoesOn(r, "count")
               /\ request[r].user \in Members
               /\ request'[r].row = membership[request[r].user]
            \/ Ends(r)
         /\ UNCHANGED <<store, rows, history>>
<1>1. CASE request[r].user \in Members
  <2>1. membership[request[r].user] \in Membership \union {NoRow} /\ "count" \in Steps
    BY <1>1 DEF Members, OrgTypeOK, Steps
  <2>2. request' = [request EXCEPT ![r].at = "count", ![r].row = membership[request[r].user]]
    BY <1>1 DEF FindRemoved
  <2>. QED
    BY <1>1, <2>1, <2>2, FindEffect DEF FindRemoved
<1>2. CASE request[r].user \notin Members
  BY <1>2, Moves DEF FindRemoved
<1>. QED
  BY <1>1, <1>2

\* assignRole has found its target and the role, or returned.
LEMMA AssignedFound ==
  ASSUME OrgTypeOK,
         NEW r \in Requests,
         FindAssigned(r)
  PROVE  /\ At(r, "assign", "find")
         /\ \/ /\ GoesOn(r, "set")
               /\ request[r].user \in Members /\ request[r].role \in roles
               /\ request'[r].row = membership[request[r].user]
            \/ Ends(r)
         /\ UNCHANGED <<store, rows, history>>
<1>1. CASE request[r].user \in Members /\ request[r].role \in roles
  <2>1. membership[request[r].user] \in Membership \union {NoRow} /\ "set" \in Steps
    BY <1>1 DEF Members, OrgTypeOK, Steps
  <2>2. request' = [request EXCEPT ![r].at = "set", ![r].row = membership[request[r].user]]
    BY <1>1 DEF FindAssigned
  <2>. QED
    BY <1>1, <2>1, <2>2, FindEffect DEF FindAssigned
<1>2. CASE ~(request[r].user \in Members /\ request[r].role \in roles)
  BY <1>2, Moves DEF FindAssigned
<1>. QED
  BY <1>1, <1>2

\* A role change writes a row with an id that was given out and a seeded role.
LEMMA MembershipRows ==
  ASSUME Base,
         NEW r \in Requests,
         \/ SetRole(r)
         \/ ReinsertMembership(r)
         \/ DeleteMembership(r)
  PROVE  membership' \in [Users -> Membership \union {NoRow}]
<1>1. /\ membership \in [Users -> Membership \union {NoRow}]
      /\ request[r].user \in Users
      /\ request[r].op = "assign" => request[r].row.id \in Nat \ {0} /\ request[r].role \in RoleNames
  BY DEF Base, OrgTypeOK, RequestsKnow, Named, SetRole, ReinsertMembership,
         DeleteMembership, At
<1>2. CASE SetRole(r)
  BY <1>1, <1>2 DEF SetRole, At, Membership, NoRow
<1>3. CASE ReinsertMembership(r)
  BY <1>1, <1>3 DEF ReinsertMembership, At, Membership
<1>4. CASE DeleteMembership(r)
  BY <1>1, <1>4 DEF DeleteMembership
<1>. QED
  BY <1>2, <1>3, <1>4

\* Types are preserved: the founder is the first to join, and others join while
\* the bound allows.
LEMMA TypeStep ==
  ASSUME Base,
         [OrgNext]_orgVars
  PROVE  OrgTypeOK'
<1>1. ASSUME NEW r \in Requests, NEW u \in Users, CreateOrg(r, u)
      PROVE  OrgTypeOK'
  BY <1>1, CreateOrgComes DEF CreateOrg, Comes, history, Base, OrgTypeOK
<1>2. ASSUME NEW r \in Requests, NEW u \in Users, RemoveMember(r, u)
      PROVE  OrgTypeOK'
  BY <1>2, RemoveMemberComes
     DEF RemoveMember, Gated, Comes, rows, history, Base, OrgTypeOK
<1>3. ASSUME NEW r \in Requests, NEW i \in Invitations, NEW u \in Users, Accept(r, i, u)
      PROVE  OrgTypeOK'
  BY <1>3, AcceptComes DEF Accept, Comes, rows, history, Base, OrgTypeOK
<1>4. ASSUME NEW r \in Requests, NEW u \in Users, NEW role \in AssignedRoles, AssignRole(r, u, role)
      PROVE  OrgTypeOK'
  BY <1>4, AssignRoleComes
     DEF AssignRole, Gated, Comes, rows, history, Base, OrgTypeOK
<1>5. ASSUME NEW r \in Requests, NEW i \in Invitations, Invite(r, i)
      PROVE  OrgTypeOK'
  BY <1>5, InviteComes DEF Invite, Comes, rows, history, Base, OrgTypeOK
<1>6. ASSUME NEW r \in Requests, UpdateSettings(r)
      PROVE  OrgTypeOK'
  BY <1>6, UpdateSettingsComes
     DEF UpdateSettings, Gated, Comes, rows, history, Base, OrgTypeOK
<1>7. ASSUME NEW r \in Requests, CreateAdminRole(r)
      PROVE  OrgTypeOK'
  BY <1>7, Moves
     DEF CreateAdminRole, Steps, GoesOn, history, Base, OrgTypeOK, RoleNames
<1>8. ASSUME NEW r \in Requests, CreateMemberRole(r)
      PROVE  OrgTypeOK'
  BY <1>8, Moves
     DEF CreateMemberRole, Steps, GoesOn, history, Base, OrgTypeOK, RoleNames
<1>9. ASSUME NEW r \in Requests, CreateFounder(r)
      PROVE  OrgTypeOK'
  BY <1>9, Moves, OrgAssumption
     DEF CreateFounder, At, Ends, InsertMembership, Base, OrgTypeOK, Founding,
         NotFounded, RequestsKnow, Named, Membership, Busy, RoleNames
<1>10. ASSUME NEW r \in Requests, SaveInvitation(r)
       PROVE  OrgTypeOK'
  BY <1>10, Moves DEF SaveInvitation, Ends, history, Base, OrgTypeOK
<1>11. ASSUME NEW r \in Requests, AcceptFindsMember(r)
       PROVE  OrgTypeOK'
  BY <1>11, Moves
     DEF AcceptFindsMember, At, Steps, GoesOn, Ends, rows, Base, OrgTypeOK,
         RequestsKnow, Named
<1>12. ASSUME NEW r \in Requests, AcceptJoins(r)
       PROVE  OrgTypeOK'
  BY <1>12, Moves, OrgAssumption
     DEF AcceptJoins, At, Steps, GoesOn, Ends, InsertMembership, history,
         Base, OrgTypeOK, RequestsKnow, Named, Membership, RoleNames
<1>13. ASSUME NEW r \in Requests, MarkAccepted(r)
       PROVE  OrgTypeOK'
  BY <1>13, Moves
     DEF MarkAccepted, Steps, GoesOn, Ends, history, Base, OrgTypeOK
<1>14. ASSUME NEW r \in Requests, RemarkAccepted(r)
       PROVE  OrgTypeOK'
  BY <1>14, Moves DEF RemarkAccepted, Ends, history, Base, OrgTypeOK
<1>15. ASSUME NEW r \in Requests, FindRemoved(r)
       PROVE  OrgTypeOK'
  BY <1>15, RemovedFound DEF GoesOn, Ends, rows, history, Base, OrgTypeOK
<1>16. ASSUME NEW r \in Requests, CountAdministrators(r)
       PROVE  OrgTypeOK'
  BY <1>16, Moves
     DEF CountAdministrators, Steps, GoesOn, Ends, rows, history, Base,
         OrgTypeOK
<1>17. ASSUME NEW r \in Requests, DeleteMembership(r)
       PROVE  OrgTypeOK'
  <2>1. membership' \in [Users -> Membership \union {NoRow}]
    BY <1>17, MembershipRows
  <2>. QED
    BY <1>17, <2>1, Moves
       DEF DeleteMembership, At, Ends, Base, OrgTypeOK, RequestsKnow, Named
<1>18. ASSUME NEW r \in Requests, FindAssigned(r)
       PROVE  OrgTypeOK'
  BY <1>18, AssignedFound DEF GoesOn, Ends, rows, history, Base, OrgTypeOK
<1>19. ASSUME NEW r \in Requests, SetRole(r)
       PROVE  OrgTypeOK'
  <2>1. membership' \in [Users -> Membership \union {NoRow}]
    BY <1>19, MembershipRows
  <2>. QED
    BY <1>19, <2>1, Moves
       DEF SetRole, GoesOn, Ends, Steps, history, Base, OrgTypeOK
<1>20. ASSUME NEW r \in Requests, ReinsertMembership(r)
       PROVE  OrgTypeOK'
  <2>1. membership' \in [Users -> Membership \union {NoRow}]
    BY <1>20, MembershipRows
  <2>. QED
    BY <1>20, <2>1, Moves
       DEF ReinsertMembership, Ends, history, Base, OrgTypeOK
<1>21. ASSUME NEW r \in Requests, SaveSettings(r)
       PROVE  OrgTypeOK'
  BY <1>21, Moves DEF SaveSettings, Steps, GoesOn, Ends, rows, Base, OrgTypeOK
<1>22. ASSUME NEW r \in Requests, RestoreOrganization(r)
       PROVE  OrgTypeOK'
  BY <1>22, Moves DEF RestoreOrganization, Ends, history, Base, OrgTypeOK
<1>23. ASSUME NEW r \in Requests, Interrupt(r)
       PROVE  OrgTypeOK'
  BY <1>23, Moves
     DEF Interrupt, At, Ends, rows, Base, OrgTypeOK, RequestsKnow, Named
<1>24. CASE UNCHANGED orgVars
  BY <1>24 DEF orgVars, Base, OrgTypeOK
<1>. QED
  BY StepCases, <1>1, <1>2, <1>3, <1>4, <1>5, <1>6, <1>7, <1>8, <1>9, <1>10,
     <1>11, <1>12, <1>13, <1>14, <1>15, <1>16, <1>17, <1>18, <1>19, <1>20,
     <1>21, <1>22, <1>23, <1>24

\* The organization is founded by one request that runs alone; the roles go
\* only with the members.
LEMMA FoundingStep ==
  ASSUME Base,
         OrgTypeOK',
         [OrgNext]_orgVars
  PROVE  Founding'
<1>1. ASSUME NEW r \in Requests, NEW u \in Users, CreateOrg(r, u)
      PROVE  Founding'
  BY <1>1, CreateOrgComes
     DEF CreateOrg, Comes, history, Base, Founding, NotFounded, Busy, Unmoved
<1>2. ASSUME NEW r \in Requests, NEW u \in Users, RemoveMember(r, u)
      PROVE  Founding'
  <2>1. ~NotFounded
    BY <1>2 DEF RemoveMember, Gated, Administrators, NoRow, Base, Founding
  <2>2. UNCHANGED <<store, rows, history>>
    BY <1>2 DEF RemoveMember, Gated
  <2>. QED
    BY <1>2, <2>1, <2>2, RemoveMemberComes
       DEF Comes, Unmoved, rows, history, Base, Founding, NotFounded, Busy
<1>3. ASSUME NEW r \in Requests, NEW i \in Invitations, NEW u \in Users, Accept(r, i, u)
      PROVE  Founding'
  <2>1. ~NotFounded
    BY <1>3 DEF Accept, Base, Founding
  <2>2. UNCHANGED <<store, rows, history>>
    BY <1>3 DEF Accept
  <2>. QED
    BY <1>3, <2>1, <2>2, AcceptComes
       DEF Comes, Unmoved, rows, history, Base, Founding, NotFounded, Busy
<1>4. ASSUME NEW r \in Requests, NEW u \in Users, NEW role \in AssignedRoles, AssignRole(r, u, role)
      PROVE  Founding'
  <2>1. ~NotFounded
    BY <1>4 DEF AssignRole, Gated, Administrators, NoRow, Base, Founding
  <2>2. UNCHANGED <<store, rows, history>>
    BY <1>4 DEF AssignRole, Gated
  <2>. QED
    BY <1>4, <2>1, <2>2, AssignRoleComes
       DEF Comes, Unmoved, rows, history, Base, Founding, NotFounded, Busy
<1>5. ASSUME NEW r \in Requests, NEW i \in Invitations, Invite(r, i)
      PROVE  Founding'
  <2>1. ~NotFounded
    BY <1>5 DEF Invite, Members, Base, Founding
  <2>2. UNCHANGED <<store, rows, history>>
    BY <1>5 DEF Invite
  <2>. QED
    BY <1>5, <2>1, <2>2, InviteComes
       DEF Comes, Unmoved, rows, history, Base, Founding, NotFounded, Busy
<1>6. ASSUME NEW r \in Requests, UpdateSettings(r)
      PROVE  Founding'
  <2>1. ~NotFounded
    BY <1>6 DEF UpdateSettings, Gated, Administrators, NoRow, Base, Founding
  <2>2. UNCHANGED <<store, rows, history>>
    BY <1>6 DEF UpdateSettings, Gated
  <2>. QED
    BY <1>6, <2>1, <2>2, UpdateSettingsComes
       DEF Comes, Unmoved, rows, history, Base, Founding, NotFounded, Busy
<1>7. ASSUME NEW r \in Requests, CreateAdminRole(r)
      PROVE  Founding'
  BY <1>7, Moves
     DEF CreateAdminRole, At, Steps, GoesOn, history, Base, Founding,
         NotFounded, Busy
<1>8. ASSUME NEW r \in Requests, CreateMemberRole(r)
      PROVE  Founding'
  <2>1. GoesOn(r, "founder")
    BY <1>8, Moves DEF CreateMemberRole, Steps, Base
  <2>2. "Administrator" \in roles /\ roles \subseteq RoleNames /\ roles' = roles \union {"Member"} /\ NotFounded
    BY <1>8 DEF CreateMemberRole, At, Busy, Base, OrgTypeOK, Founding
  <2>3. roles' = RoleNames
    BY <2>2 DEF RoleNames
  <2>. QED
    BY <1>8, <2>1, <2>2, <2>3
       DEF CreateMemberRole, At, GoesOn, history, Base, Founding, NotFounded,
           Busy
<1>9. ASSUME NEW r \in Requests, CreateFounder(r)
      PROVE  Founding'
  BY <1>9, Moves
     DEF CreateFounder, At, Ends, InsertMembership, Base, OrgTypeOK, Founding,
         NotFounded, Busy, RoleNames
<1>10. ASSUME NEW r \in Requests, SaveInvitation(r)
       PROVE  Founding'
  BY <1>10, Moves
     DEF SaveInvitation, At, Ends, history, Base, Founding, NotFounded, Busy
<1>11. ASSUME NEW r \in Requests, AcceptFindsMember(r)
       PROVE  Founding'
  BY <1>11, Moves
     DEF AcceptFindsMember, At, Steps, GoesOn, Ends, rows, Base, Founding,
         NotFounded, Busy
<1>12. ASSUME NEW r \in Requests, AcceptJoins(r)
       PROVE  Founding'
  BY <1>12, Moves
     DEF AcceptJoins, At, Steps, GoesOn, Ends, InsertMembership, CanInsert,
         history, Base, OrgTypeOK, Founding, NotFounded, Busy
<1>13. ASSUME NEW r \in Requests, MarkAccepted(r)
       PROVE  Founding'
  BY <1>13, Moves
     DEF MarkAccepted, At, Steps, GoesOn, Ends, history, Base, Founding,
         NotFounded, Busy
<1>14. ASSUME NEW r \in Requests, RemarkAccepted(r)
       PROVE  Founding'
  BY <1>14, Moves
     DEF RemarkAccepted, Ends, history, Base, Founding, NotFounded, Busy
<1>15. ASSUME NEW r \in Requests, FindRemoved(r)
       PROVE  Founding'
  BY <1>15, RemovedFound
     DEF GoesOn, Ends, At, rows, history, Base, Founding, NotFounded, Busy
<1>16. ASSUME NEW r \in Requests, CountAdministrators(r)
       PROVE  Founding'
  BY <1>16, Moves
     DEF CountAdministrators, At, Steps, GoesOn, Ends, rows, history, Base,
         Founding, NotFounded, Busy
<1>17. ASSUME NEW r \in Requests, DeleteMembership(r)
       PROVE  Founding'
  BY <1>17, Moves DEF DeleteMembership, Ends, Base, Founding, NotFounded, Busy
<1>18. ASSUME NEW r \in Requests, FindAssigned(r)
       PROVE  Founding'
  BY <1>18, AssignedFound
     DEF GoesOn, Ends, At, rows, history, Base, Founding, NotFounded, Busy
<1>19. ASSUME NEW r \in Requests, SetRole(r)
       PROVE  Founding'
  <2>1. ~NotFounded
    BY <1>19 DEF SetRole, At, Busy, Base, Founding
  <2>2. request[r].row.id # 0
    BY <1>19 DEF SetRole, At, Base, RequestsKnow
  <2>3. GoesOn(r, "reinsert") \/ Ends(r)
    BY <1>19, Moves DEF SetRole, Steps, Base
  <2>4. \A u \in Users : membership[u] = NoRow => membership'[u] = NoRow
    BY <1>19, <2>2 DEF SetRole, NoRow, OrgTypeOK
  <2>. QED
    BY <1>19, <2>1, <2>3, <2>4
       DEF SetRole, At, GoesOn, Ends, history, Base, Founding, NotFounded,
           Busy
<1>20. ASSUME NEW r \in Requests, ReinsertMembership(r)
       PROVE  Founding'
  BY <1>20, Moves
     DEF ReinsertMembership, At, Ends, CanInsert, history, Base, Founding,
         NotFounded, Busy
<1>21. ASSUME NEW r \in Requests, SaveSettings(r)
       PROVE  Founding'
  BY <1>21, Moves
     DEF SaveSettings, At, Steps, GoesOn, Ends, rows, Base, Founding,
         NotFounded, Busy
<1>22. ASSUME NEW r \in Requests, RestoreOrganization(r)
       PROVE  Founding'
  BY <1>22, Moves
     DEF RestoreOrganization, Ends, history, Base, Founding, NotFounded, Busy
<1>23. ASSUME NEW r \in Requests, Interrupt(r)
       PROVE  Founding'
  BY <1>23, Moves DEF Interrupt, Ends, rows, Base, Founding, NotFounded, Busy
<1>24. CASE UNCHANGED orgVars
  BY <1>24 DEF orgVars, Base, Founding, NotFounded, Busy
<1>. QED
  BY StepCases, <1>1, <1>2, <1>3, <1>4, <1>5, <1>6, <1>7, <1>8, <1>9, <1>10,
     <1>11, <1>12, <1>13, <1>14, <1>15, <1>16, <1>17, <1>18, <1>19, <1>20,
     <1>21, <1>22, <1>23, <1>24

\* What a request read or did stays true while it goes on.
LEMMA KnowStep ==
  ASSUME Base,
         [OrgNext]_orgVars
  PROVE  RequestsKnow'
<1>1. ASSUME NEW r \in Requests, NEW u \in Users, CreateOrg(r, u)
      PROVE  RequestsKnow'
  BY <1>1, CreateOrgComes
     DEF CreateOrg, Comes, history, Base, RequestsKnow, Named, Unmoved
<1>2. ASSUME NEW r \in Requests, NEW u \in Users, RemoveMember(r, u)
      PROVE  RequestsKnow'
  BY <1>2, RemoveMemberComes
     DEF RemoveMember, Gated, Comes, history, Base, RequestsKnow, Named,
         Unmoved
<1>3. ASSUME NEW r \in Requests, NEW i \in Invitations, NEW u \in Users, Accept(r, i, u)
      PROVE  RequestsKnow'
  <2>1. UNCHANGED <<store, rows, history>>
    BY <1>3 DEF Accept
  <2>. QED
    BY <1>3, <2>1, AcceptComes
       DEF Comes, Unmoved, Named, history, Base, RequestsKnow
<1>4. ASSUME NEW r \in Requests, NEW u \in Users, NEW role \in AssignedRoles, AssignRole(r, u, role)
      PROVE  RequestsKnow'
  <2>1. UNCHANGED <<store, rows, history>>
    BY <1>4 DEF AssignRole, Gated
  <2>. QED
    BY <1>4, <2>1, AssignRoleComes
       DEF Comes, Unmoved, Named, history, Base, RequestsKnow
<1>5. ASSUME NEW r \in Requests, NEW i \in Invitations, Invite(r, i)
      PROVE  RequestsKnow'
  BY <1>5, InviteComes
     DEF Invite, Comes, history, Base, RequestsKnow, Named, Unmoved
<1>6. ASSUME NEW r \in Requests, UpdateSettings(r)
      PROVE  RequestsKnow'
  BY <1>6, UpdateSettingsComes
     DEF UpdateSettings, Gated, Comes, history, Base, RequestsKnow, Named,
         Unmoved
<1>7. ASSUME NEW r \in Requests, CreateAdminRole(r)
      PROVE  RequestsKnow'
  BY <1>7, Moves
     DEF CreateAdminRole, Steps, GoesOn, history, Base, RequestsKnow, Named
<1>8. ASSUME NEW r \in Requests, CreateMemberRole(r)
      PROVE  RequestsKnow'
  BY <1>8, Moves
     DEF CreateMemberRole, Steps, GoesOn, history, Base, RequestsKnow, Named
<1>9. ASSUME NEW r \in Requests, CreateFounder(r)
      PROVE  RequestsKnow'
  BY <1>9, Moves DEF CreateFounder, Ends, Base, RequestsKnow, Named
<1>10. ASSUME NEW r \in Requests, SaveInvitation(r)
       PROVE  RequestsKnow'
  BY <1>10, Moves DEF SaveInvitation, Ends, history, Base, RequestsKnow, Named
<1>11. ASSUME NEW r \in Requests, AcceptFindsMember(r)
       PROVE  RequestsKnow'
  BY <1>11, Moves
     DEF AcceptFindsMember, Steps, GoesOn, Ends, Base, RequestsKnow, Named
<1>12. ASSUME NEW r \in Requests, AcceptJoins(r)
       PROVE  RequestsKnow'
  BY <1>12, Moves
     DEF AcceptJoins, At, Steps, GoesOn, Ends, history, Base, RequestsKnow,
         Named
<1>13. ASSUME NEW r \in Requests, MarkAccepted(r)
       PROVE  RequestsKnow'
  BY <1>13, Moves
     DEF MarkAccepted, At, Steps, GoesOn, Ends, history, Base, RequestsKnow,
         Named
<1>14. ASSUME NEW r \in Requests, RemarkAccepted(r)
       PROVE  RequestsKnow'
  BY <1>14, Moves DEF RemarkAccepted, Ends, history, Base, RequestsKnow, Named
<1>15. ASSUME NEW r \in Requests, FindRemoved(r)
       PROVE  RequestsKnow'
  BY <1>15, RemovedFound DEF GoesOn, Ends, history, Base, RequestsKnow, Named
<1>16. ASSUME NEW r \in Requests, CountAdministrators(r)
       PROVE  RequestsKnow'
  BY <1>16, Moves
     DEF CountAdministrators, Steps, GoesOn, Ends, history, Base,
         RequestsKnow, Named
<1>17. ASSUME NEW r \in Requests, DeleteMembership(r)
       PROVE  RequestsKnow'
  BY <1>17, Moves DEF DeleteMembership, Ends, Base, RequestsKnow, Named
<1>18. ASSUME NEW r \in Requests, FindAssigned(r)
       PROVE  RequestsKnow'
  BY <1>18, AssignedFound
     DEF GoesOn, Ends, history, Base, OrgTypeOK, RequestsKnow, Named, Members,
         Membership
<1>19. ASSUME NEW r \in Requests, SetRole(r)
       PROVE  RequestsKnow'
  <2>1. CASE store = "postgres"
    BY <1>19, <2>1, Moves
       DEF SetRole, Ends, history, Base, RequestsKnow, Named
  <2>2. CASE store = "repository"
    BY <1>19, <2>2, Moves
       DEF SetRole, At, Steps, GoesOn, history, Base, RequestsKnow, Named
  <2>. QED
    BY <2>1, <2>2, OrgAssumption DEF Base, OrgTypeOK
<1>20. ASSUME NEW r \in Requests, ReinsertMembership(r)
       PROVE  RequestsKnow'
  BY <1>20, Moves
     DEF ReinsertMembership, Ends, history, Base, RequestsKnow, Named
<1>21. ASSUME NEW r \in Requests, SaveSettings(r)
       PROVE  RequestsKnow'
  BY <1>21, Moves
     DEF SaveSettings, Steps, GoesOn, Ends, Base, RequestsKnow, Named
<1>22. ASSUME NEW r \in Requests, RestoreOrganization(r)
       PROVE  RequestsKnow'
  BY <1>22, Moves
     DEF RestoreOrganization, Ends, history, Base, RequestsKnow, Named
<1>23. ASSUME NEW r \in Requests, Interrupt(r)
       PROVE  RequestsKnow'
  BY <1>23, Moves DEF Interrupt, Ends, Base, RequestsKnow, Named
<1>24. CASE UNCHANGED orgVars
  BY <1>24 DEF orgVars, Base, RequestsKnow
<1>. QED
  BY StepCases, <1>1, <1>2, <1>3, <1>4, <1>5, <1>6, <1>7, <1>8, <1>9, <1>10,
     <1>11, <1>12, <1>13, <1>14, <1>15, <1>16, <1>17, <1>18, <1>19, <1>20,
     <1>21, <1>22, <1>23, <1>24

\* An invitation is marked only by a request whose user is inside.
LEMMA AcceptedStep ==
  ASSUME Base,
         AcceptedMeansJoined,
         [OrgNext]_orgVars
  PROVE  AcceptedMeansJoined'
<1>1. ASSUME NEW r \in Requests, NEW u \in Users, CreateOrg(r, u)
      PROVE  AcceptedMeansJoined'
  BY <1>1 DEF CreateOrg, history, AcceptedMeansJoined
<1>2. ASSUME NEW r \in Requests, NEW u \in Users, RemoveMember(r, u)
      PROVE  AcceptedMeansJoined'
  BY <1>2 DEF RemoveMember, Gated, rows, history, AcceptedMeansJoined
<1>3. ASSUME NEW r \in Requests, NEW i \in Invitations, NEW u \in Users, Accept(r, i, u)
      PROVE  AcceptedMeansJoined'
  BY <1>3 DEF Accept, rows, history, AcceptedMeansJoined
<1>4. ASSUME NEW r \in Requests, NEW u \in Users, NEW role \in AssignedRoles, AssignRole(r, u, role)
      PROVE  AcceptedMeansJoined'
  BY <1>4 DEF AssignRole, Gated, rows, history, AcceptedMeansJoined
<1>5. ASSUME NEW r \in Requests, NEW i \in Invitations, Invite(r, i)
      PROVE  AcceptedMeansJoined'
  BY <1>5 DEF Invite, rows, history, AcceptedMeansJoined
<1>6. ASSUME NEW r \in Requests, UpdateSettings(r)
      PROVE  AcceptedMeansJoined'
  BY <1>6 DEF UpdateSettings, Gated, rows, history, AcceptedMeansJoined
<1>7. ASSUME NEW r \in Requests, CreateAdminRole(r)
      PROVE  AcceptedMeansJoined'
  BY <1>7 DEF CreateAdminRole, history, AcceptedMeansJoined
<1>8. ASSUME NEW r \in Requests, CreateMemberRole(r)
      PROVE  AcceptedMeansJoined'
  BY <1>8 DEF CreateMemberRole, history, AcceptedMeansJoined
<1>9. ASSUME NEW r \in Requests, CreateFounder(r)
      PROVE  AcceptedMeansJoined'
  BY <1>9 DEF CreateFounder, AcceptedMeansJoined
<1>10. ASSUME NEW r \in Requests, SaveInvitation(r)
       PROVE  AcceptedMeansJoined'
  BY <1>10 DEF SaveInvitation, history, AcceptedMeansJoined
<1>11. ASSUME NEW r \in Requests, AcceptFindsMember(r)
       PROVE  AcceptedMeansJoined'
  BY <1>11 DEF AcceptFindsMember, rows, AcceptedMeansJoined
<1>12. ASSUME NEW r \in Requests, AcceptJoins(r)
       PROVE  AcceptedMeansJoined'
  BY <1>12 DEF AcceptJoins, history, AcceptedMeansJoined
<1>13. ASSUME NEW r \in Requests, MarkAccepted(r)
       PROVE  AcceptedMeansJoined'
  BY <1>13
     DEF MarkAccepted, At, history, Base, AcceptedMeansJoined, OrgTypeOK,
         RequestsKnow
<1>14. ASSUME NEW r \in Requests, RemarkAccepted(r)
       PROVE  AcceptedMeansJoined'
  BY <1>14
     DEF RemarkAccepted, At, history, Base, AcceptedMeansJoined, RequestsKnow
<1>15. ASSUME NEW r \in Requests, FindRemoved(r)
       PROVE  AcceptedMeansJoined'
  BY <1>15 DEF FindRemoved, rows, history, AcceptedMeansJoined
<1>16. ASSUME NEW r \in Requests, CountAdministrators(r)
       PROVE  AcceptedMeansJoined'
  BY <1>16 DEF CountAdministrators, rows, history, AcceptedMeansJoined
<1>17. ASSUME NEW r \in Requests, DeleteMembership(r)
       PROVE  AcceptedMeansJoined'
  BY <1>17 DEF DeleteMembership, AcceptedMeansJoined
<1>18. ASSUME NEW r \in Requests, FindAssigned(r)
       PROVE  AcceptedMeansJoined'
  BY <1>18 DEF FindAssigned, rows, history, AcceptedMeansJoined
<1>19. ASSUME NEW r \in Requests, SetRole(r)
       PROVE  AcceptedMeansJoined'
  BY <1>19 DEF SetRole, history, AcceptedMeansJoined
<1>20. ASSUME NEW r \in Requests, ReinsertMembership(r)
       PROVE  AcceptedMeansJoined'
  BY <1>20 DEF ReinsertMembership, history, AcceptedMeansJoined
<1>21. ASSUME NEW r \in Requests, SaveSettings(r)
       PROVE  AcceptedMeansJoined'
  BY <1>21 DEF SaveSettings, rows, AcceptedMeansJoined
<1>22. ASSUME NEW r \in Requests, RestoreOrganization(r)
       PROVE  AcceptedMeansJoined'
  BY <1>22 DEF RestoreOrganization, history, AcceptedMeansJoined
<1>23. ASSUME NEW r \in Requests, Interrupt(r)
       PROVE  AcceptedMeansJoined'
  BY <1>23 DEF Interrupt, rows, AcceptedMeansJoined
<1>24. CASE UNCHANGED orgVars
  BY <1>24 DEF orgVars, AcceptedMeansJoined
<1>. QED
  BY StepCases, <1>1, <1>2, <1>3, <1>4, <1>5, <1>6, <1>7, <1>8, <1>9, <1>10,
     <1>11, <1>12, <1>13, <1>14, <1>15, <1>16, <1>17, <1>18, <1>19, <1>20,
     <1>21, <1>22, <1>23, <1>24

\* Only a new membership brings a user back in, or a role change that held its
\* row when the row was removed.
LEMMA OutStep ==
  ASSUME Base,
         RemovedStaysOut,
         HoldersKnown,
         [OrgNext]_orgVars
  PROVE  RemovedStaysOut'
<1>1. ASSUME NEW r \in Requests, NEW u \in Users, CreateOrg(r, u)
      PROVE  RemovedStaysOut'
  BY <1>1 DEF CreateOrg, history, RemovedStaysOut, Members
<1>2. ASSUME NEW r \in Requests, NEW u \in Users, RemoveMember(r, u)
      PROVE  RemovedStaysOut'
  BY <1>2 DEF RemoveMember, Gated, rows, history, RemovedStaysOut, Members
<1>3. ASSUME NEW r \in Requests, NEW i \in Invitations, NEW u \in Users, Accept(r, i, u)
      PROVE  RemovedStaysOut'
  BY <1>3 DEF Accept, rows, history, RemovedStaysOut, Members
<1>4. ASSUME NEW r \in Requests, NEW u \in Users, NEW role \in AssignedRoles, AssignRole(r, u, role)
      PROVE  RemovedStaysOut'
  BY <1>4 DEF AssignRole, Gated, rows, history, RemovedStaysOut, Members
<1>5. ASSUME NEW r \in Requests, NEW i \in Invitations, Invite(r, i)
      PROVE  RemovedStaysOut'
  BY <1>5 DEF Invite, rows, history, RemovedStaysOut, Members
<1>6. ASSUME NEW r \in Requests, UpdateSettings(r)
      PROVE  RemovedStaysOut'
  BY <1>6 DEF UpdateSettings, Gated, rows, history, RemovedStaysOut, Members
<1>7. ASSUME NEW r \in Requests, CreateAdminRole(r)
      PROVE  RemovedStaysOut'
  BY <1>7 DEF CreateAdminRole, history, RemovedStaysOut, Members
<1>8. ASSUME NEW r \in Requests, CreateMemberRole(r)
      PROVE  RemovedStaysOut'
  BY <1>8 DEF CreateMemberRole, history, RemovedStaysOut, Members
<1>9. ASSUME NEW r \in Requests, CreateFounder(r)
      PROVE  RemovedStaysOut'
  BY <1>9 DEF CreateFounder, InsertMembership, RemovedStaysOut, Members
<1>10. ASSUME NEW r \in Requests, SaveInvitation(r)
       PROVE  RemovedStaysOut'
  BY <1>10 DEF SaveInvitation, history, RemovedStaysOut, Members
<1>11. ASSUME NEW r \in Requests, AcceptFindsMember(r)
       PROVE  RemovedStaysOut'
  BY <1>11 DEF AcceptFindsMember, rows, RemovedStaysOut, Members
<1>12. ASSUME NEW r \in Requests, AcceptJoins(r)
       PROVE  RemovedStaysOut'
  BY <1>12
     DEF AcceptJoins, history, InsertMembership, Base, RemovedStaysOut,
         Members, OrgTypeOK
<1>13. ASSUME NEW r \in Requests, MarkAccepted(r)
       PROVE  RemovedStaysOut'
  BY <1>13 DEF MarkAccepted, history, RemovedStaysOut, Members
<1>14. ASSUME NEW r \in Requests, RemarkAccepted(r)
       PROVE  RemovedStaysOut'
  BY <1>14 DEF RemarkAccepted, history, RemovedStaysOut, Members
<1>15. ASSUME NEW r \in Requests, FindRemoved(r)
       PROVE  RemovedStaysOut'
  BY <1>15 DEF FindRemoved, rows, history, RemovedStaysOut, Members
<1>16. ASSUME NEW r \in Requests, CountAdministrators(r)
       PROVE  RemovedStaysOut'
  BY <1>16 DEF CountAdministrators, rows, history, RemovedStaysOut, Members
<1>17. ASSUME NEW r \in Requests, DeleteMembership(r)
       PROVE  RemovedStaysOut'
  BY <1>17 DEF DeleteMembership, RemovedStaysOut, Members
<1>18. ASSUME NEW r \in Requests, FindAssigned(r)
       PROVE  RemovedStaysOut'
  BY <1>18 DEF FindAssigned, rows, history, RemovedStaysOut, Members
<1>19. ASSUME NEW r \in Requests, SetRole(r)
       PROVE  RemovedStaysOut'
  BY <1>19
     DEF SetRole, At, history, Base, RemovedStaysOut, Members, OrgTypeOK,
         RequestsKnow, NoRow
<1>20. ASSUME NEW r \in Requests, ReinsertMembership(r)
       PROVE  RemovedStaysOut'
  <2>1. HoldsRow(r, request[r].user) /\ store = "repository"
    BY <1>20 DEF ReinsertMembership, At, HoldsRow, Base, RequestsKnow
  <2>. QED
    BY <1>20, <2>1
       DEF ReinsertMembership, history, Base, OrgTypeOK, HoldersKnown,
           RemovedStaysOut, Members
<1>21. ASSUME NEW r \in Requests, SaveSettings(r)
       PROVE  RemovedStaysOut'
  BY <1>21 DEF SaveSettings, rows, RemovedStaysOut, Members
<1>22. ASSUME NEW r \in Requests, RestoreOrganization(r)
       PROVE  RemovedStaysOut'
  BY <1>22 DEF RestoreOrganization, history, RemovedStaysOut, Members
<1>23. ASSUME NEW r \in Requests, Interrupt(r)
       PROVE  RemovedStaysOut'
  BY <1>23 DEF Interrupt, rows, RemovedStaysOut, Members
<1>24. CASE UNCHANGED orgVars
  BY <1>24 DEF orgVars, RemovedStaysOut, Members
<1>. QED
  BY StepCases, <1>1, <1>2, <1>3, <1>4, <1>5, <1>6, <1>7, <1>8, <1>9, <1>10,
     <1>11, <1>12, <1>13, <1>14, <1>15, <1>16, <1>17, <1>18, <1>19, <1>20,
     <1>21, <1>22, <1>23, <1>24

\* A role change takes up the row of a member, who is not a removed one; a
\* removal counts whoever a role change holds then.
LEMMA HeldStep ==
  ASSUME Base,
         RemovedStaysOut,
         HoldersKnown,
         [OrgNext]_orgVars
  PROVE  HoldersKnown'
<1>1. ASSUME NEW r \in Requests, NEW u \in Users, CreateOrg(r, u)
      PROVE  HoldersKnown'
  BY <1>1, CreateOrgComes
     DEF CreateOrg, Comes, Unmoved, At, history, Base, HoldersKnown, HoldsRow
<1>2. ASSUME NEW r \in Requests, NEW u \in Users, RemoveMember(r, u)
      PROVE  HoldersKnown'
  BY <1>2, RemoveMemberComes
     DEF RemoveMember, Gated, Comes, Unmoved, At, history, Base, HoldersKnown, HoldsRow
<1>3. ASSUME NEW r \in Requests, NEW i \in Invitations, NEW u \in Users, Accept(r, i, u)
      PROVE  HoldersKnown'
  BY <1>3, AcceptComes
     DEF Accept, Comes, Unmoved, At, history, Base, HoldersKnown, HoldsRow
<1>4. ASSUME NEW r \in Requests, NEW u \in Users, NEW role \in AssignedRoles, AssignRole(r, u, role)
      PROVE  HoldersKnown'
  BY <1>4, AssignRoleComes
     DEF AssignRole, Gated, Comes, Unmoved, At, history, Base, HoldersKnown, HoldsRow
<1>5. ASSUME NEW r \in Requests, NEW i \in Invitations, Invite(r, i)
      PROVE  HoldersKnown'
  BY <1>5, InviteComes
     DEF Invite, Comes, Unmoved, At, history, Base, HoldersKnown, HoldsRow
<1>6. ASSUME NEW r \in Requests, UpdateSettings(r)
      PROVE  HoldersKnown'
  BY <1>6, UpdateSettingsComes
     DEF UpdateSettings, Gated, Comes, Unmoved, At, history, Base, HoldersKnown, HoldsRow
<1>7. ASSUME NEW r \in Requests, CreateAdminRole(r)
      PROVE  HoldersKnown'
  BY <1>7, Moves
     DEF CreateAdminRole, GoesOn, Steps, At, history, Base, HoldersKnown, HoldsRow
<1>8. ASSUME NEW r \in Requests, CreateMemberRole(r)
      PROVE  HoldersKnown'
  BY <1>8, Moves
     DEF CreateMemberRole, GoesOn, Steps, At, history, Base, HoldersKnown, HoldsRow
<1>9. ASSUME NEW r \in Requests, CreateFounder(r)
      PROVE  HoldersKnown'
  BY <1>9, Moves
     DEF CreateFounder, InsertMembership, Ends, At, history, Base, HoldersKnown, HoldsRow
<1>10. ASSUME NEW r \in Requests, SaveInvitation(r)
       PROVE  HoldersKnown'
  BY <1>10, Moves
     DEF SaveInvitation, Ends, At, history, Base, HoldersKnown, HoldsRow
<1>11. ASSUME NEW r \in Requests, AcceptFindsMember(r)
       PROVE  HoldersKnown'
  BY <1>11, Moves
     DEF AcceptFindsMember, GoesOn, Ends, Steps, At, history, Base, HoldersKnown, HoldsRow
<1>12. ASSUME NEW r \in Requests, AcceptJoins(r)
       PROVE  HoldersKnown'
  BY <1>12, Moves
     DEF AcceptJoins, InsertMembership, GoesOn, Ends, Steps, At, history, Base, HoldersKnown, HoldsRow
<1>13. ASSUME NEW r \in Requests, MarkAccepted(r)
       PROVE  HoldersKnown'
  BY <1>13, Moves
     DEF MarkAccepted, GoesOn, Ends, Steps, At, history, Base, HoldersKnown, HoldsRow
<1>14. ASSUME NEW r \in Requests, RemarkAccepted(r)
       PROVE  HoldersKnown'
  BY <1>14, Moves
     DEF RemarkAccepted, Ends, At, history, Base, HoldersKnown, HoldsRow
<1>15. ASSUME NEW r \in Requests, FindRemoved(r)
       PROVE  HoldersKnown'
  BY <1>15, RemovedFound
     DEF FindRemoved, GoesOn, Ends, Steps, At, history, Base, HoldersKnown, HoldsRow
<1>16. ASSUME NEW r \in Requests, CountAdministrators(r)
       PROVE  HoldersKnown'
  BY <1>16, Moves
     DEF CountAdministrators, GoesOn, Ends, Steps, At, history, Base, HoldersKnown, HoldsRow
<1>17. ASSUME NEW r \in Requests, DeleteMembership(r)
       PROVE  HoldersKnown'
  BY <1>17, Moves
     DEF DeleteMembership, Ends, At, history, Base, HoldersKnown, HoldsRow
<1>18. ASSUME NEW r \in Requests, FindAssigned(r)
       PROVE  HoldersKnown'
  <2>1. UNCHANGED <<removed, overtaken>>
    BY <1>18 DEF FindAssigned, history
  <2>2. ASSUME NEW q \in Requests, HoldsRow(q, request[q].user)'
        PROVE  request'[q].user \notin removed \ overtaken
    <3>1. CASE q = r
      <4>1. request'[r].user = request[r].user /\ request[r].user \in Members
        BY <1>18, <2>2, <3>1, AssignedFound DEF GoesOn, Ends, HoldsRow, Base
      <4>. QED
        BY <3>1, <4>1 DEF RemovedStaysOut
    <3>2. CASE q # r
      BY <1>18, <2>2, <3>2, AssignedFound
         DEF GoesOn, Ends, Base, HoldersKnown, HoldsRow
    <3>. QED
      BY <3>1, <3>2
  <2>. QED
    BY <2>1, <2>2 DEF HoldersKnown
<1>19. ASSUME NEW r \in Requests, SetRole(r)
       PROVE  HoldersKnown'
  BY <1>19, Moves
     DEF SetRole, GoesOn, Ends, Steps, At, history, Base, HoldersKnown, HoldsRow
<1>20. ASSUME NEW r \in Requests, ReinsertMembership(r)
       PROVE  HoldersKnown'
  BY <1>20, Moves
     DEF ReinsertMembership, Ends, At, history, Base, HoldersKnown, HoldsRow
<1>21. ASSUME NEW r \in Requests, SaveSettings(r)
       PROVE  HoldersKnown'
  BY <1>21, Moves
     DEF SaveSettings, GoesOn, Ends, Steps, At, history, Base, HoldersKnown, HoldsRow
<1>22. ASSUME NEW r \in Requests, RestoreOrganization(r)
       PROVE  HoldersKnown'
  BY <1>22, Moves
     DEF RestoreOrganization, Ends, At, history, Base, HoldersKnown, HoldsRow
<1>23. ASSUME NEW r \in Requests, Interrupt(r)
       PROVE  HoldersKnown'
  BY <1>23, Moves
     DEF Interrupt, Ends, At, history, Base, HoldersKnown, HoldsRow
<1>24. CASE UNCHANGED orgVars
  BY <1>24 DEF orgVars, HoldersKnown, HoldsRow
<1>. QED
  BY StepCases, <1>1, <1>2, <1>3, <1>4, <1>5, <1>6, <1>7, <1>8, <1>9, <1>10,
     <1>11, <1>12, <1>13, <1>14, <1>15, <1>16, <1>17, <1>18, <1>19, <1>20,
     <1>21, <1>22, <1>23, <1>24

\* Whoever joined leaves by a removal, an interrupted role change or with the
\* organization only.
LEMMA InsideStep ==
  ASSUME Base,
         MemberUntilRemoved,
         LostWithRoles,
         [OrgNext]_orgVars
  PROVE  (MemberUntilRemoved /\ LostWithRoles)'
<1>1. ASSUME NEW r \in Requests, NEW u \in Users, CreateOrg(r, u)
      PROVE  (MemberUntilRemoved /\ LostWithRoles)'
  <2>1. UNCHANGED <<roles, membership, history>>
    BY <1>1 DEF CreateOrg
  <2>2. ASSUME NEW q \in Requests, At(q, "assign", "reinsert")
        PROVE  At(q, "assign", "reinsert")' /\ request'[q].user = request[q].user
    BY <1>1, <2>2, CreateOrgComes DEF Comes, Unmoved, At, Busy, Base
  <2>. QED
    BY <2>1, <2>2 DEF MemberUntilRemoved, LostWithRoles, Members, history
<1>2. ASSUME NEW r \in Requests, NEW u \in Users, RemoveMember(r, u)
      PROVE  (MemberUntilRemoved /\ LostWithRoles)'
  <2>1. UNCHANGED <<rows, history>>
    BY <1>2 DEF RemoveMember, Gated
  <2>2. ASSUME NEW q \in Requests, At(q, "assign", "reinsert")
        PROVE  At(q, "assign", "reinsert")' /\ request'[q].user = request[q].user
    BY <1>2, <2>2, RemoveMemberComes DEF Comes, Unmoved, At, Busy, Base
  <2>. QED
    BY <2>1, <2>2
       DEF MemberUntilRemoved, LostWithRoles, Members, rows, history
<1>3. ASSUME NEW r \in Requests, NEW i \in Invitations, NEW u \in Users, Accept(r, i, u)
      PROVE  (MemberUntilRemoved /\ LostWithRoles)'
  <2>1. UNCHANGED <<rows, history>>
    BY <1>3 DEF Accept
  <2>2. ASSUME NEW q \in Requests, At(q, "assign", "reinsert")
        PROVE  At(q, "assign", "reinsert")' /\ request'[q].user = request[q].user
    BY <1>3, <2>2, AcceptComes DEF Comes, Unmoved, At, Busy, Base
  <2>. QED
    BY <2>1, <2>2
       DEF MemberUntilRemoved, LostWithRoles, Members, rows, history
<1>4. ASSUME NEW r \in Requests, NEW u \in Users, NEW role \in AssignedRoles, AssignRole(r, u, role)
      PROVE  (MemberUntilRemoved /\ LostWithRoles)'
  <2>1. UNCHANGED <<rows, history>>
    BY <1>4 DEF AssignRole, Gated
  <2>2. ASSUME NEW q \in Requests, At(q, "assign", "reinsert")
        PROVE  At(q, "assign", "reinsert")' /\ request'[q].user = request[q].user
    BY <1>4, <2>2, AssignRoleComes DEF Comes, Unmoved, At, Busy, Base
  <2>. QED
    BY <2>1, <2>2
       DEF MemberUntilRemoved, LostWithRoles, Members, rows, history
<1>5. ASSUME NEW r \in Requests, NEW i \in Invitations, Invite(r, i)
      PROVE  (MemberUntilRemoved /\ LostWithRoles)'
  <2>1. UNCHANGED <<rows, history>>
    BY <1>5 DEF Invite
  <2>2. ASSUME NEW q \in Requests, At(q, "assign", "reinsert")
        PROVE  At(q, "assign", "reinsert")' /\ request'[q].user = request[q].user
    BY <1>5, <2>2, InviteComes DEF Comes, Unmoved, At, Busy, Base
  <2>. QED
    BY <2>1, <2>2
       DEF MemberUntilRemoved, LostWithRoles, Members, rows, history
<1>6. ASSUME NEW r \in Requests, UpdateSettings(r)
      PROVE  (MemberUntilRemoved /\ LostWithRoles)'
  <2>1. UNCHANGED <<rows, history>>
    BY <1>6 DEF UpdateSettings, Gated
  <2>2. ASSUME NEW q \in Requests, At(q, "assign", "reinsert")
        PROVE  At(q, "assign", "reinsert")' /\ request'[q].user = request[q].user
    BY <1>6, <2>2, UpdateSettingsComes DEF Comes, Unmoved, At, Busy, Base
  <2>. QED
    BY <2>1, <2>2
       DEF MemberUntilRemoved, LostWithRoles, Members, rows, history
<1>7. ASSUME NEW r \in Requests, CreateAdminRole(r)
      PROVE  (MemberUntilRemoved /\ LostWithRoles)'
  BY <1>7
     DEF CreateAdminRole, At, history, Base, MemberUntilRemoved,
         LostWithRoles, Founding, NotFounded, Busy
<1>8. ASSUME NEW r \in Requests, CreateMemberRole(r)
      PROVE  (MemberUntilRemoved /\ LostWithRoles)'
  BY <1>8
     DEF CreateMemberRole, At, history, Base, MemberUntilRemoved,
         LostWithRoles, Founding, NotFounded, Busy
<1>9. ASSUME NEW r \in Requests, CreateFounder(r)
      PROVE  (MemberUntilRemoved /\ LostWithRoles)'
  BY <1>9
     DEF CreateFounder, At, InsertMembership, Base, OrgTypeOK,
         MemberUntilRemoved, LostWithRoles, Members, Founding, Busy, NoRow
<1>10. ASSUME NEW r \in Requests, SaveInvitation(r)
       PROVE  (MemberUntilRemoved /\ LostWithRoles)'
  BY <1>10, Moves
     DEF SaveInvitation, At, Ends, history, Base, MemberUntilRemoved,
         LostWithRoles, Members
<1>11. ASSUME NEW r \in Requests, AcceptFindsMember(r)
       PROVE  (MemberUntilRemoved /\ LostWithRoles)'
  BY <1>11, Moves
     DEF AcceptFindsMember, At, Steps, GoesOn, Ends, rows, Base,
         MemberUntilRemoved, LostWithRoles, Members
<1>12. ASSUME NEW r \in Requests, AcceptJoins(r)
       PROVE  (MemberUntilRemoved /\ LostWithRoles)'
  BY <1>12, Moves
     DEF AcceptJoins, At, Steps, GoesOn, Ends, InsertMembership, CanInsert,
         history, Base, OrgTypeOK, MemberUntilRemoved, LostWithRoles, Members,
         Founding, Busy, NoRow
<1>13. ASSUME NEW r \in Requests, MarkAccepted(r)
       PROVE  (MemberUntilRemoved /\ LostWithRoles)'
  BY <1>13, Moves
     DEF MarkAccepted, At, Steps, GoesOn, Ends, history, Base,
         MemberUntilRemoved, LostWithRoles, Members
<1>14. ASSUME NEW r \in Requests, RemarkAccepted(r)
       PROVE  (MemberUntilRemoved /\ LostWithRoles)'
  BY <1>14, Moves
     DEF RemarkAccepted, At, Ends, history, Base, MemberUntilRemoved,
         LostWithRoles, Members
<1>15. ASSUME NEW r \in Requests, FindRemoved(r)
       PROVE  (MemberUntilRemoved /\ LostWithRoles)'
  BY <1>15, RemovedFound
     DEF GoesOn, Ends, At, rows, history, Base, MemberUntilRemoved,
         LostWithRoles, Members
<1>16. ASSUME NEW r \in Requests, CountAdministrators(r)
       PROVE  (MemberUntilRemoved /\ LostWithRoles)'
  BY <1>16, Moves
     DEF CountAdministrators, At, Steps, GoesOn, Ends, rows, history, Base,
         MemberUntilRemoved, LostWithRoles, Members
<1>17. ASSUME NEW r \in Requests, DeleteMembership(r)
       PROVE  (MemberUntilRemoved /\ LostWithRoles)'
  BY <1>17, Moves
     DEF DeleteMembership, At, Ends, Base, MemberUntilRemoved, LostWithRoles,
         Members
<1>18. ASSUME NEW r \in Requests, FindAssigned(r)
       PROVE  (MemberUntilRemoved /\ LostWithRoles)'
  BY <1>18, AssignedFound
     DEF GoesOn, Ends, At, rows, history, Base, MemberUntilRemoved,
         LostWithRoles, Members
<1>19. ASSUME NEW r \in Requests, SetRole(r)
       PROVE  (MemberUntilRemoved /\ LostWithRoles)'
  <2>1. /\ request[r].row.id # 0 /\ request[r].user \in Users
        /\ UNCHANGED <<roles, history>>
    BY <1>19 DEF SetRole, At, Base, RequestsKnow, Named
  <2>2. ASSUME NEW q \in Requests, At(q, "assign", "reinsert")
        PROVE  At(q, "assign", "reinsert")' /\ request'[q].user = request[q].user
    BY <1>19, <2>2, Moves DEF SetRole, GoesOn, Ends, At, Steps, Base
  <2>3. ASSUME NEW u \in Members, u \notin Members'
        PROVE  u = request[r].user /\ At(r, "assign", "reinsert")'
               /\ request'[r].user = request[r].user
    <3>1. CASE store = "postgres"
      BY <1>19, <2>1, <2>3, <3>1 DEF SetRole, Members, NoRow, Base, OrgTypeOK
    <3>2. CASE store = "repository"
      BY <1>19, <2>1, <2>3, <3>2, Moves
         DEF SetRole, GoesOn, At, Steps, Members, Base, OrgTypeOK
    <3>. QED
      BY <3>1, <3>2, OrgAssumption DEF Base, OrgTypeOK
  <2>. QED
    BY <2>1, <2>2, <2>3 DEF MemberUntilRemoved, LostWithRoles, history
<1>20. ASSUME NEW r \in Requests, ReinsertMembership(r)
       PROVE  (MemberUntilRemoved /\ LostWithRoles)'
  <2>1. /\ request[r].role \in RoleNames /\ request[r].row.id # 0
        /\ UNCHANGED <<roles, history>> /\ Ends(r)
    BY <1>20, Moves DEF ReinsertMembership, At, Base, RequestsKnow
  <2>2. ASSUME NEW q \in Requests \ {r}, At(q, "assign", "reinsert")
        PROVE  At(q, "assign", "reinsert")' /\ request'[q].user = request[q].user
    BY <2>1, <2>2 DEF Ends, At
  <2>3. Members \subseteq Members'
    BY <1>20, <2>1 DEF ReinsertMembership, Members, NoRow
  <2>4. ASSUME request[r].user \in Users
        PROVE  request[r].user \in Members' \/ roles # RoleNames
    BY <1>20, <2>1, <2>4
       DEF ReinsertMembership, CanInsert, Members, NoRow, Base, OrgTypeOK
  <2>. QED
    BY <2>1, <2>2, <2>3, <2>4 DEF MemberUntilRemoved, LostWithRoles, history
<1>21. ASSUME NEW r \in Requests, SaveSettings(r)
       PROVE  (MemberUntilRemoved /\ LostWithRoles)'
  BY <1>21, Moves
     DEF SaveSettings, At, Ends, rows, Base, MemberUntilRemoved,
         LostWithRoles, Members
<1>22. ASSUME NEW r \in Requests, RestoreOrganization(r)
       PROVE  (MemberUntilRemoved /\ LostWithRoles)'
  BY <1>22, Moves
     DEF RestoreOrganization, At, Ends, history, Base, MemberUntilRemoved,
         LostWithRoles, Members
<1>23. ASSUME NEW r \in Requests, Interrupt(r)
       PROVE  (MemberUntilRemoved /\ LostWithRoles)'
  BY <1>23, Moves
     DEF Interrupt, At, Ends, rows, Base, MemberUntilRemoved, LostWithRoles,
         Members
<1>24. CASE UNCHANGED orgVars
  BY <1>24 DEF orgVars, At, MemberUntilRemoved, LostWithRoles, Members
<1>. QED
  BY StepCases, <1>1, <1>2, <1>3, <1>4, <1>5, <1>6, <1>7, <1>8, <1>9, <1>10,
     <1>11, <1>12, <1>13, <1>14, <1>15, <1>16, <1>17, <1>18, <1>19, <1>20,
     <1>21, <1>22, <1>23, <1>24

\* Of more than one administrator, one is not the member removed; a member who
\* is no administrator leaves them all.
LEMMA MayRemoveLeaves ==
  ASSUME Base,
         NEW r \in Requests,
         At(r, "remove", "count"),
         request[r].alone,
         AloneKnows,
         MayRemove(request[r].row)
  PROVE  \E a \in Administrators : a # request[r].user
<1> DEFINE u == request[r].user
<1>1. Administrators # {} /\ u \in Members /\ request[r].row = membership[u]
  BY DEF AloneKnows, At
<1>2. CASE membership[u].role = "Administrator"
  <2>1. roles = RoleNames
    BY <1>1 DEF Base, Founding, Members
  <2>2. Cardinality(Administrators) > 1
    BY <1>1, <1>2, <2>1 DEF MayRemove, RoleNames
  <2>3. ASSUME Administrators \subseteq {u}
        PROVE  FALSE
    <3>1. IsFiniteSet({u}) /\ Cardinality({u}) = 1
      BY FS_Singleton
    <3>2. IsFiniteSet(Administrators) /\ Cardinality(Administrators) <= 1
      BY <2>3, <3>1, FS_Subset
    <3>3. Cardinality(Administrators) \in Nat
      BY <3>2, FS_CardinalityType
    <3>. QED
      BY <2>2, <3>2, <3>3
  <2>. QED
    BY <2>3
<1>3. CASE membership[u].role # "Administrator"
  BY <1>1, <1>3 DEF Administrators
<1>. QED
  BY <1>2, <1>3

\* A removal that runs alone decides on rows nobody else changes.
LEMMA AloneStep ==
  ASSUME Base,
         AloneKnows,
         [OrgNext]_orgVars
  PROVE  AloneKnows'
<1>1. ASSUME NEW r \in Requests, NEW u \in Users, CreateOrg(r, u)
      PROVE  AloneKnows'
  <2>1. membership' = membership
    BY <1>1 DEF CreateOrg
  <2>. QED
    BY <1>1, <2>1, CreateOrgComes
       DEF Comes, Unmoved, At, Base, AloneKnows, Busy
<1>2. ASSUME NEW r \in Requests, NEW u \in Users, RemoveMember(r, u)
      PROVE  AloneKnows'
  <2>1. membership' = membership /\ Administrators # {}
    BY <1>2 DEF RemoveMember, Gated, rows
  <2>. QED
    BY <1>2, <2>1, RemoveMemberComes
       DEF Comes, Unmoved, At, Base, AloneKnows, Busy, Administrators
<1>3. ASSUME NEW r \in Requests, NEW i \in Invitations, NEW u \in Users, Accept(r, i, u)
      PROVE  AloneKnows'
  <2>1. membership' = membership
    BY <1>3 DEF Accept, rows
  <2>. QED
    BY <1>3, <2>1, AcceptComes DEF Comes, Unmoved, At, Base, AloneKnows, Busy
<1>4. ASSUME NEW r \in Requests, NEW u \in Users, NEW role \in AssignedRoles, AssignRole(r, u, role)
      PROVE  AloneKnows'
  <2>1. membership' = membership /\ Administrators # {}
    BY <1>4 DEF AssignRole, Gated, rows
  <2>. QED
    BY <1>4, <2>1, AssignRoleComes
       DEF Comes, Unmoved, At, Base, AloneKnows, Busy
<1>5. ASSUME NEW r \in Requests, NEW i \in Invitations, Invite(r, i)
      PROVE  AloneKnows'
  <2>1. membership' = membership
    BY <1>5 DEF Invite, rows
  <2>. QED
    BY <1>5, <2>1, InviteComes DEF Comes, Unmoved, At, Base, AloneKnows, Busy
<1>6. ASSUME NEW r \in Requests, UpdateSettings(r)
      PROVE  AloneKnows'
  <2>1. membership' = membership /\ Administrators # {}
    BY <1>6 DEF UpdateSettings, Gated, rows
  <2>. QED
    BY <1>6, <2>1, UpdateSettingsComes
       DEF Comes, Unmoved, At, Base, AloneKnows, Busy
<1>7. ASSUME NEW r \in Requests, CreateAdminRole(r)
      PROVE  AloneKnows'
  BY <1>7, Moves
     DEF CreateAdminRole, At, Steps, GoesOn, Base, AloneKnows, Busy
<1>8. ASSUME NEW r \in Requests, CreateMemberRole(r)
      PROVE  AloneKnows'
  BY <1>8, Moves
     DEF CreateMemberRole, At, Steps, GoesOn, Base, AloneKnows, Busy
<1>9. ASSUME NEW r \in Requests, CreateFounder(r)
      PROVE  AloneKnows'
  BY <1>9, Moves DEF CreateFounder, At, Ends, Base, AloneKnows, Busy
<1>10. ASSUME NEW r \in Requests, SaveInvitation(r)
       PROVE  AloneKnows'
  BY <1>10, Moves DEF SaveInvitation, At, Ends, Base, AloneKnows, Busy
<1>11. ASSUME NEW r \in Requests, AcceptFindsMember(r)
       PROVE  AloneKnows'
  BY <1>11, Moves
     DEF AcceptFindsMember, At, Steps, GoesOn, Ends, Base, AloneKnows, Busy
<1>12. ASSUME NEW r \in Requests, AcceptJoins(r)
       PROVE  AloneKnows'
  BY <1>12, Moves
     DEF AcceptJoins, At, Steps, GoesOn, Ends, Base, AloneKnows, Busy
<1>13. ASSUME NEW r \in Requests, MarkAccepted(r)
       PROVE  AloneKnows'
  BY <1>13, Moves
     DEF MarkAccepted, At, Steps, GoesOn, Ends, Base, AloneKnows, Busy
<1>14. ASSUME NEW r \in Requests, RemarkAccepted(r)
       PROVE  AloneKnows'
  BY <1>14, Moves DEF RemarkAccepted, At, Ends, Base, AloneKnows, Busy
<1>15. ASSUME NEW r \in Requests, FindRemoved(r)
       PROVE  AloneKnows'
  <2>1. CASE Ends(r)
    BY <1>15, <2>1, RemovedFound DEF Ends, At, AloneKnows, Busy, Base
  <2>2. CASE GoesOn(r, "count")
    <3>1. /\ request'[r].row = membership'[request'[r].user]
          /\ request'[r].user \in Members' /\ At(r, "remove", "find")
          /\ membership' = membership
      BY <1>15, <2>2, RemovedFound DEF GoesOn, Ends, Members, rows, Base
    <3>. QED
      BY <2>2, <3>1 DEF GoesOn, At, AloneKnows, Busy, Administrators
  <2>. QED
    BY <1>15, <2>1, <2>2, RemovedFound DEF Base
<1>16. ASSUME NEW r \in Requests, CountAdministrators(r)
       PROVE  AloneKnows'
  <2>1. membership' = membership /\ (GoesOn(r, "delete") \/ Ends(r))
    BY <1>16, Moves DEF CountAdministrators, rows, Steps, Base
  <2>2. ASSUME request[r].alone, GoesOn(r, "delete")
        PROVE  \E a \in Administrators : a # request[r].user
    <3>1. MayRemove(request[r].row) /\ At(r, "remove", "count")
      BY <1>16, <2>2, Moves DEF CountAdministrators, GoesOn, Ends, Base
    <3>. QED
      BY <2>2, <3>1, MayRemoveLeaves
  <2>. QED
    BY <1>16, <2>1, <2>2
       DEF CountAdministrators, GoesOn, Ends, At, AloneKnows, Busy,
           Administrators
<1>17. ASSUME NEW r \in Requests, DeleteMembership(r)
       PROVE  AloneKnows'
  BY <1>17, Moves DEF DeleteMembership, At, Ends, Base, AloneKnows, Busy
<1>18. ASSUME NEW r \in Requests, FindAssigned(r)
       PROVE  AloneKnows'
  BY <1>18, AssignedFound DEF GoesOn, Ends, At, Base, AloneKnows, Busy
<1>19. ASSUME NEW r \in Requests, SetRole(r)
       PROVE  AloneKnows'
  BY <1>19, Moves DEF SetRole, At, Steps, GoesOn, Ends, Base, AloneKnows, Busy
<1>20. ASSUME NEW r \in Requests, ReinsertMembership(r)
       PROVE  AloneKnows'
  BY <1>20, Moves DEF ReinsertMembership, At, Ends, Base, AloneKnows, Busy
<1>21. ASSUME NEW r \in Requests, SaveSettings(r)
       PROVE  AloneKnows'
  BY <1>21, Moves
     DEF SaveSettings, At, Steps, GoesOn, Ends, Base, AloneKnows, Busy
<1>22. ASSUME NEW r \in Requests, RestoreOrganization(r)
       PROVE  AloneKnows'
  BY <1>22, Moves DEF RestoreOrganization, At, Ends, Base, AloneKnows, Busy
<1>23. ASSUME NEW r \in Requests, Interrupt(r)
       PROVE  AloneKnows'
  BY <1>23, Moves DEF Interrupt, Ends, Base, AloneKnows
<1>24. CASE UNCHANGED orgVars
  BY <1>24 DEF orgVars, At, AloneKnows, Busy, Administrators, Members
<1>. QED
  BY StepCases, <1>1, <1>2, <1>3, <1>4, <1>5, <1>6, <1>7, <1>8, <1>9, <1>10,
     <1>11, <1>12, <1>13, <1>14, <1>15, <1>16, <1>17, <1>18, <1>19, <1>20,
     <1>21, <1>22, <1>23, <1>24

\* Whatever the step, a removal about to delete alone leaves an administrator.
LEMMA LoneStep ==
  ASSUME Base,
         AloneKnows,
         NEW q \in Requests,
         At(q, "remove", "delete"),
         request[q].alone,
         [OrgNext]_orgVars
  PROVE  Administrators' # {}
<1>1. ASSUME NEW r \in Requests, NEW u \in Users, CreateOrg(r, u)
      PROVE  Administrators' # {}
  BY <1>1 DEF CreateOrg, AloneKnows, Administrators
<1>2. ASSUME NEW r \in Requests, NEW u \in Users, RemoveMember(r, u)
      PROVE  Administrators' # {}
  BY <1>2 DEF RemoveMember, Gated, rows, Administrators
<1>3. ASSUME NEW r \in Requests, NEW i \in Invitations, NEW u \in Users, Accept(r, i, u)
      PROVE  Administrators' # {}
  BY <1>3 DEF Accept, rows, AloneKnows, Administrators
<1>4. ASSUME NEW r \in Requests, NEW u \in Users, NEW role \in AssignedRoles, AssignRole(r, u, role)
      PROVE  Administrators' # {}
  BY <1>4 DEF AssignRole, Gated, rows, Administrators
<1>5. ASSUME NEW r \in Requests, NEW i \in Invitations, Invite(r, i)
      PROVE  Administrators' # {}
  BY <1>5 DEF Invite, rows, AloneKnows, Administrators
<1>6. ASSUME NEW r \in Requests, UpdateSettings(r)
      PROVE  Administrators' # {}
  BY <1>6 DEF UpdateSettings, Gated, rows, Administrators
<1>7. ASSUME NEW r \in Requests, CreateAdminRole(r)
      PROVE  Administrators' # {}
  BY <1>7 DEF CreateAdminRole, AloneKnows, Administrators
<1>8. ASSUME NEW r \in Requests, CreateMemberRole(r)
      PROVE  Administrators' # {}
  BY <1>8 DEF CreateMemberRole, AloneKnows, Administrators
<1>9. ASSUME NEW r \in Requests, CreateFounder(r)
      PROVE  Administrators' # {}
  BY <1>9 DEF CreateFounder, InsertMembership, AloneKnows, Administrators
<1>10. ASSUME NEW r \in Requests, SaveInvitation(r)
       PROVE  Administrators' # {}
  BY <1>10 DEF SaveInvitation, AloneKnows, Administrators
<1>11. ASSUME NEW r \in Requests, AcceptFindsMember(r)
       PROVE  Administrators' # {}
  BY <1>11 DEF AcceptFindsMember, rows, AloneKnows, Administrators
<1>12. ASSUME NEW r \in Requests, AcceptJoins(r)
       PROVE  Administrators' # {}
  BY <1>12 DEF AcceptJoins, At, AloneKnows, Busy
<1>13. ASSUME NEW r \in Requests, MarkAccepted(r)
       PROVE  Administrators' # {}
  BY <1>13 DEF MarkAccepted, AloneKnows, Administrators
<1>14. ASSUME NEW r \in Requests, RemarkAccepted(r)
       PROVE  Administrators' # {}
  BY <1>14 DEF RemarkAccepted, AloneKnows, Administrators
<1>15. ASSUME NEW r \in Requests, FindRemoved(r)
       PROVE  Administrators' # {}
  BY <1>15 DEF FindRemoved, rows, AloneKnows, Administrators
<1>16. ASSUME NEW r \in Requests, CountAdministrators(r)
       PROVE  Administrators' # {}
  BY <1>16 DEF CountAdministrators, rows, AloneKnows, Administrators
<1>17. ASSUME NEW r \in Requests, DeleteMembership(r)
       PROVE  Administrators' # {}
  <2>1. r = q /\ \E a \in Administrators : a # request[r].user
    BY <1>17 DEF DeleteMembership, At, AloneKnows, Busy
  <2>2. \A a \in Users \ {request[r].user} : membership'[a] = membership[a]
    BY <1>17 DEF DeleteMembership
  <2>. QED
    BY <2>1, <2>2 DEF Administrators
<1>18. ASSUME NEW r \in Requests, FindAssigned(r)
       PROVE  Administrators' # {}
  BY <1>18 DEF FindAssigned, rows, AloneKnows, Administrators
<1>19. ASSUME NEW r \in Requests, SetRole(r)
       PROVE  Administrators' # {}
  BY <1>19 DEF SetRole, At, AloneKnows, Busy
<1>20. ASSUME NEW r \in Requests, ReinsertMembership(r)
       PROVE  Administrators' # {}
  BY <1>20 DEF ReinsertMembership, At, AloneKnows, Busy
<1>21. ASSUME NEW r \in Requests, SaveSettings(r)
       PROVE  Administrators' # {}
  BY <1>21 DEF SaveSettings, At, AloneKnows, Busy
<1>22. ASSUME NEW r \in Requests, RestoreOrganization(r)
       PROVE  Administrators' # {}
  BY <1>22 DEF RestoreOrganization, AloneKnows, Administrators
<1>23. ASSUME NEW r \in Requests, Interrupt(r)
       PROVE  Administrators' # {}
  BY <1>23 DEF Interrupt, rows, AloneKnows, Administrators
<1>24. CASE UNCHANGED orgVars
  BY <1>24 DEF orgVars, AloneKnows, Administrators
<1>. QED
  BY StepCases, <1>1, <1>2, <1>3, <1>4, <1>5, <1>6, <1>7, <1>8, <1>9, <1>10,
     <1>11, <1>12, <1>13, <1>14, <1>15, <1>16, <1>17, <1>18, <1>19, <1>20,
     <1>21, <1>22, <1>23, <1>24

\* The invariant holds before the organization exists.
LEMMA InvariantInit == OrgInit => IInv
<1> SUFFICES ASSUME OrgInit PROVE IInv
  OBVIOUS
<1>1. Idle \in RequestState /\ Idle.op = "none" /\ Idle.at = "idle" /\ ~Idle.alone
  BY DEF Idle, RequestState, Steps
<1>2. \A r \in Requests : request[r] = Idle
  BY DEF OrgInit
<1>3. OrgTypeOK
  BY <1>1, OrgAssumption DEF OrgInit, OrgTypeOK
<1>4. Founding
  BY <1>1, <1>2 DEF OrgInit, Founding, NotFounded, Busy
<1>5. RequestsKnow
  BY <1>1, <1>2 DEF RequestsKnow, Named
<1>6. Outcomes
  BY <1>2
     DEF OrgInit, Outcomes, AcceptedMeansJoined, RemovedStaysOut, HoldersKnown,
         MemberUntilRemoved, LostWithRoles
<1>7. AloneKnows
  BY <1>1, <1>2 DEF AloneKnows
<1>. QED
  BY <1>3, <1>4, <1>5, <1>6, <1>7 DEF IInv, Base

\* Every step keeps the invariant, one lemma to a part.
LEMMA InvariantStep == IInv /\ [OrgNext]_orgVars => IInv'
<1> SUFFICES ASSUME IInv, [OrgNext]_orgVars PROVE IInv'
  OBVIOUS
<1>1. Base /\ Outcomes /\ AloneKnows
  BY DEF IInv
<1>2. OrgTypeOK'
  BY <1>1, TypeStep
<1>3. Base'
  BY <1>1, <1>2, FoundingStep, KnowStep DEF Base
<1>4. Outcomes'
  BY <1>1, AcceptedStep, OutStep, HeldStep, InsideStep DEF Outcomes
<1>. QED
  BY <1>1, <1>3, <1>4, AloneStep DEF IInv

\* The whole is an invariant of every behaviour.
LEMMA OrgInvariant == OrgSpec => []IInv
  BY InvariantInit, InvariantStep, PTL DEF OrgSpec

\* No variable leaves its type; the founder and later members join within the
\* bound.
THEOREM OrgTypeCorrect == OrgSpec => []OrgTypeOK
<1>1. IInv => OrgTypeOK
  BY DEF IInv, Base
<1>. QED
  BY <1>1, OrgInvariant, PTL

\* An organization with members has both roles, wherever its creation or a
\* change of its settings was cut off.
THEOREM RolesForMembers == OrgSpec => []MembersHaveRoles
<1>1. IInv => MembersHaveRoles
  BY DEF IInv, Base, Founding, MembersHaveRoles, Members
<1>. QED
  BY <1>1, OrgInvariant, PTL

\* An invitation is marked accepted only when its user is, or was, inside.
THEOREM AcceptanceJoins == OrgSpec => []AcceptedMeansJoined
<1>1. IInv => AcceptedMeansJoined
  BY DEF IInv, Outcomes
<1>. QED
  BY <1>1, OrgInvariant, PTL

\* For any number of users and requests, a removed user is back only by an
\* acceptance or, over the repository stores, by a role change that had read
\* its row before the row was removed.
THEOREM RemovalRevokes == OrgSpec => []RemovedStaysOut
<1>1. IInv => RemovedStaysOut
  BY DEF IInv, Outcomes
<1>. QED
  BY <1>1, OrgInvariant, PTL

\* Nobody else drops out, except by a cut role change or a cascade.
THEOREM MembersRemain == OrgSpec => []MemberUntilRemoved
<1>1. IInv => MemberUntilRemoved
  BY DEF IInv, Outcomes
<1>. QED
  BY <1>1, OrgInvariant, PTL

\* The last-administrator rule, for a removal that overlaps no other request:
\* of any number of members, an administrator is left.
THEOREM LoneRemovalSafe == OrgSpec => LoneRemovalKeepsAdministrator
<1>1. IInv /\ [OrgNext]_orgVars =>
        [\A r \in Requests :
           At(r, "remove", "delete") /\ request[r].alone => Administrators' # {}]_orgVars
  BY LoneStep DEF IInv
<1>. QED
  BY <1>1, OrgInvariant, PTL DEF OrgSpec, LoneRemovalKeepsAdministrator

=============================================================================
