--------------------------- MODULE Organizations ---------------------------
(***************************************************************************)
(* One organisation, its members and the invitations to join it.           *)
(*                                                                         *)
(* The auth hook reads the caller's membership once, when the request      *)
(* arrives; the route checks its permission; the service then reads the    *)
(* organisation and writes it back.  Accepting an invitation writes two    *)
(* rows: the organisation first, then the invitation.  Admins suspend and  *)
(* reinstate an organisation and set the commission it pays, with the same *)
(* read and write.  A name, a slug and the settings are abstracted to the  *)
(* version they bump; an e-mail address is the user it will turn out to be.*)
(***************************************************************************)
EXTENDS Requests

CONSTANTS
  Users,         \* people, the founder among them
  Founder,       \* who creates the organisation
  Invitations,   \* ids of invitation rows
  FeesProposed,  \* commissions that approved proposals name, in per cent
  MaxOrgVersion  \* bound on the versions of a row

VARIABLES
  org,           \* the organisation row, None before it is created
  invitation,    \* the invitation rows
  lapsed,        \* invitations whose validity window has passed
  joined         \* history: <<user, invitation>> of saved acceptances

orgVars == <<org, invitation, lapsed, joined>>

OrgRoles == {"owner", "admin", "manager", "member"}

\* What a role may do, of the permissions the routes here ask for.
RolePermissions ==
  [owner   |-> {"organization.read", "organization.update", "staff.manage"},
   admin   |-> {"organization.read", "organization.update", "staff.manage"},
   manager |-> {"organization.read"},
   member  |-> {"organization.read"}]

RoleHasPermission(role, p) == role \in OrgRoles /\ p \in RolePermissions[role]

Organization == [status : {"active", "suspended"}, members : [Users -> OrgRoles \cup {None}],
                 fee : {15} \cup FeesProposed, version : 1..MaxOrgVersion]
Invitation   == [status : {"pending", "accepted", "revoked"}, role : OrgRoles \ {"owner"},
                 email : Users, acceptedBy : Users \cup {None}, version : 1..MaxOrgVersion]

ASSUME OrgAssumption ==
  /\ MaxOrgVersion \in Nat \ {0} /\ Founder \in Users
  /\ None \notin OrgRoles /\ None \notin Organization

OrgTypeOK ==
  /\ org \in Organization \cup {None}
  /\ invitation \in [Invitations -> Invitation \cup {None}]
  /\ lapsed \subseteq Invitations /\ joined \subseteq Users \X Invitations

RoleOf(u) == IF org = None THEN None ELSE org.members[u]

\* The permission hook: the membership as it is when the request arrives.
May(u, p) == RoleHasPermission(RoleOf(u), p)

---------------------------------------------------------------------------
(* The rules of the organisation model.                                    *)

\* A new organisation has one member, its owner.
NewOrganization(u) ==
  [status |-> "active", fee |-> 15, version |-> 1,
   members |-> [v \in Users |-> IF v = u THEN "owner" ELSE None]]

UpdateOrganization(o, expected) == When(o.version = expected, Bump(o))

AddMember(o, u, role) ==
  When(o.status = "active" /\ o.members[u] = None, Bump([o EXCEPT !.members[u] = role]))

\* Nobody stops being the owner, but anybody can be made one.
UpdateMemberRole(o, u, role) ==
  When(o.members[u] # None /\ (o.members[u] = "owner" => role = "owner"),
       Bump([o EXCEPT !.members[u] = role]))

RemoveMember(o, u) ==
  When(o.members[u] \notin {None, "owner"}, Bump([o EXCEPT !.members[u] = None]))

\* Suspending a suspended organisation hands back the row it was given.
Suspend(o) == {IF o.status = "suspended" THEN o ELSE Bump([o EXCEPT !.status = "suspended"])}

\* An admin's decision that changes nothing is answered without a write.
AdminSuspend(o) == When(o.status = "active", Bump([o EXCEPT !.status = "suspended"]))
Reinstate(o)    == When(o.status = "suspended", Bump([o EXCEPT !.status = "active"]))
AdjustPlatformFeePercent(o, fee) == When(o.fee # fee, Bump([o EXCEPT !.fee = fee]))

---------------------------------------------------------------------------
(* The rules of the invitation model.                                      *)

NewInvitation(u, role) ==
  [status |-> "pending", role |-> role, email |-> u, acceptedBy |-> None, version |-> 1]

Standing(i) == IF invitation[i].status = "pending" /\ i \in lapsed THEN "expired"
                                                                  ELSE invitation[i].status

\* An invitation already revoked is handed back as it was read.
Revoke(i) ==
  When(Standing(i) \in {"pending", "revoked"},
       IF Standing(i) = "revoked" THEN invitation[i]
                                  ELSE Bump([invitation[i] EXCEPT !.status = "revoked"]))

Accept(row, u) == Bump([row EXCEPT !.status = "accepted", !.acceptedBy = u])

PendingFor(u) ==
  {i \in Invitations : /\ invitation[i] # None /\ invitation[i].email = u
                       /\ Standing(i) = "pending"}

---------------------------------------------------------------------------
(* The routes: who may ask.                                                *)

PostOrganization(c) ==
  /\ org = None /\ \A d \in Calls : call[d].op # "createOrg"
  /\ Arrive(c, "createOrg", Founder, None, None)

\* If-Match carries a version the caller has seen.
PatchOrganization(c, u) ==
  /\ May(u, "organization.update")
  /\ \E v \in 1..org.version : Arrive(c, "updateOrg", u, None, v)

PostMember(c, u) ==
  /\ May(u, "staff.manage")
  /\ \E v \in Users, r \in {"admin", "member"} : Arrive(c, "addMember", u, v, r)

\* changeRole, removeMember and suspend are service operations without a route.
ChangeMembership(c, u) ==
  /\ May(u, "staff.manage")
  /\ \/ \E v \in Users, r \in {"owner", "member"} : Arrive(c, "changeRole", u, v, r)
     \/ \E v \in Users : Arrive(c, "removeMember", u, v, None)
     \/ Arrive(c, "suspendOrg", u, None, None)

\* The row's id is fresh: no other request in flight creates it.
PostInvitation(c, u) ==
  /\ May(u, "staff.manage")
  /\ \E i \in Invitations, v \in Users \ {Founder} :
       /\ invitation[i] = None /\ \A d \in Calls : call[d].on # i
       /\ Arrive(c, "invite", u, i, v)

DeleteInvitation(c, u) ==
  /\ May(u, "staff.manage")
  /\ \E i \in Invitations : invitation[i] # None /\ Arrive(c, "revoke", u, i, None)

\* Accepting needs a session only: whoever holds the invitation's id.
PostAcceptance(c, u) ==
  \E i \in Invitations : invitation[i] # None /\ Arrive(c, "accept", u, i, None)

\* An admin's direct commands.
PostSuspension(c) ==
  /\ org # None
  /\ \E op \in {"adminSuspend", "reinstate"} : Arrive(c, op, "admin", None, None)

\* The commission is the one an approved proposal names; executing it does not
\* consume the proposal, so that an old one can be executed again.
PostCommission(c) ==
  /\ org # None
  /\ \E fee \in FeesProposed : Arrive(c, "adjustFee", "admin", None, fee)

OrgArrives(c) ==
  /\ \/ PostOrganization(c) \/ PostSuspension(c) \/ PostCommission(c)
     \/ \E u \in Users : \/ PatchOrganization(c, u) \/ PostMember(c, u)
                         \/ ChangeMembership(c, u)  \/ PostInvitation(c, u)
                         \/ DeleteInvitation(c, u)  \/ PostAcceptance(c, u)
  /\ UNCHANGED orgVars

---------------------------------------------------------------------------
(* The service.                                                            *)

\* Operations that read the organisation and write it back.
OrgRule(q) ==
  CASE q.op = "updateOrg"  -> UpdateOrganization(org, q.arg)
    [] q.op = "addMember"  -> AddMember(org, q.on, q.arg)
    [] q.op = "changeRole" -> UpdateMemberRole(org, q.on, q.arg)
    [] q.op = "removeMember" -> RemoveMember(org, q.on)
    [] q.op = "suspendOrg" -> Suspend(org)

OrgOps == {"updateOrg", "addMember", "changeRole", "removeMember", "suspendOrg"}

ReadOrg(c) ==
  /\ call[c].op \in OrgOps /\ call[c].pc = "read" /\ HasRoom(org, MaxOrgVersion)
  /\ Decide(c, OrgRule(call[c]), "saveOrg")
  /\ UNCHANGED orgVars

\* An admin's direct command.
SuspendOrReinstate(c) ==
  /\ call[c].op \in {"adminSuspend", "reinstate"} /\ call[c].pc = "read"
  /\ HasRoom(org, MaxOrgVersion)
  /\ Decide(c, IF call[c].op = "reinstate" THEN Reinstate(org) ELSE AdminSuspend(org), "saveOrg")
  /\ UNCHANGED orgVars

\* What two admins agreed on.
AdjustCommissionFromProposal(c) ==
  /\ At(c, "adjustFee", "read") /\ HasRoom(org, MaxOrgVersion)
  /\ Decide(c, AdjustPlatformFeePercent(org, call[c].arg), "saveOrg")
  /\ UNCHANGED orgVars

CreateOrg(c) ==
  /\ At(c, "createOrg", "read")
  /\ org' = NewOrganization(call[c].who)
  /\ Leave(c)
  /\ UNCHANGED <<invitation, lapsed, joined>>

\* One pending invitation per address: looked up here, relied on when saved.
CreateInvitation(c) ==
  /\ At(c, "invite", "read")
  /\ Decide(c, When(PendingFor(call[c].arg) = {}, NewInvitation(call[c].arg, "member")),
            "saveInvitation")
  /\ UNCHANGED orgVars

RevokeInvitation(c) ==
  /\ At(c, "revoke", "read") /\ HasRoom(invitation[call[c].on], MaxOrgVersion)
  /\ Decide(c, Revoke(call[c].on), "saveInvitation")
  /\ UNCHANGED orgVars

\* Acceptance reads the invitation in one call and the organisation in the next;
\* the model checks both when it has both.
ReadInvitation(c) ==
  /\ At(c, "accept", "read") /\ HasRoom(invitation[call[c].on], MaxOrgVersion)
  /\ Goto(c, "readOrg", invitation[call[c].on])
  /\ UNCHANGED orgVars

AcceptInvitation(c) ==
  LET q == call[c] i == q.on IN
  /\ At(c, "accept", "readOrg") /\ HasRoom(org, MaxOrgVersion)
  /\ IF q.row.status = "pending" /\ i \notin lapsed
     THEN Decide(c, {[org |-> o, invitation |-> Accept(q.row, q.who)] :
                       o \in AddMember(org, q.who, q.row.role)}, "saveBoth")
     ELSE Leave(c)
  /\ UNCHANGED orgVars

---------------------------------------------------------------------------
(* The writes.                                                             *)

SaveOrg(c) ==
  /\ call[c].pc = "saveOrg"
  /\ org' = IF MayWrite(org, call[c].row) THEN call[c].row ELSE org
  /\ Leave(c)
  /\ UNCHANGED <<invitation, lapsed, joined>>

SaveInvitation(c) ==
  /\ call[c].pc = "saveInvitation"
  /\ invitation' = Written(invitation, call[c].on, call[c].row)
  /\ Leave(c)
  /\ UNCHANGED <<org, lapsed, joined>>

\* Mutation of SaveMember: the invitation is closed before the member is added.
SaveMemberLast(c) ==
  LET q == call[c] IN
  /\ At(c, "accept", "saveBoth")
  /\ IF MayWrite(invitation[q.on], q.row.invitation)
     THEN /\ invitation' = Written(invitation, q.on, q.row.invitation)
          /\ Goto(c, "saveOrg", q.row.org)
     ELSE Leave(c) /\ UNCHANGED invitation
  /\ UNCHANGED <<org, lapsed, joined>>

\* Acceptance, first write: the member; a conflict ends the request.
SaveMember(c) ==
  LET q == call[c] IN
  /\ At(c, "accept", "saveBoth")
  /\ IF MayWrite(org, q.row.org)
     THEN /\ org' = q.row.org
          /\ joined' = joined \cup {<<q.who, q.on>>}
          /\ Goto(c, "saveInvitation", q.row.invitation)
     ELSE Leave(c) /\ UNCHANGED <<org, joined>>
  /\ UNCHANGED <<invitation, lapsed>>

\* Validity windows pass.
Lapse ==
  /\ \E i \in Invitations : /\ invitation[i] # None /\ i \notin lapsed
                            /\ lapsed' = lapsed \cup {i}
  /\ UNCHANGED <<org, invitation, joined, call>>

\* Nobody is invited yet.
NobodyInvited == invitation = [i \in Invitations |-> None] /\ lapsed = {} /\ joined = {}

OrgInit == org = None /\ NobodyInvited

OrgStep(c) ==
  \/ OrgArrives(c) \/ CreateOrg(c) \/ ReadOrg(c)
  \/ SuspendOrReinstate(c) \/ AdjustCommissionFromProposal(c) \/ CreateInvitation(c) \/ RevokeInvitation(c)
  \/ ReadInvitation(c) \/ AcceptInvitation(c)
  \/ SaveOrg(c) \/ SaveInvitation(c) \/ SaveMember(c)

---------------------------------------------------------------------------

\* An invitation that reads accepted did make its acceptor a member: the member
\* is written first, so dying between the two writes leaves it pending.
AcceptedMeansJoined ==
  \A i \in Invitations : invitation[i] # None /\ invitation[i].status = "accepted" =>
    <<invitation[i].acceptedBy, i>> \in joined

\* A write touches the membership its own request was about and no other: a
\* request that read an older organisation cannot undo a later change, let
\* anybody into a suspended organisation, or unseat an owner.  Only an admin's
\* reinstatement reopens it, and only an approved proposal moves its commission.
OrgKept(o, p) ==
  LET WrittenBy(op) == \E c \in Calls : At(c, op, "saveOrg") /\ call[c].row = p IN
  /\ \A u, v \in Users : o.members[u] # p.members[u] /\ o.members[v] # p.members[v] => u = v
  /\ o.status = "suspended" => /\ p.status = "suspended" \/ WrittenBy("reinstate")
                               /\ \A u \in Users : p.members[u] # None => o.members[u] # None
  /\ \A u \in Users : o.members[u] = "owner" => p.members[u] = "owner"
  /\ o.fee # p.fee => WrittenBy("adjustFee") /\ p.members = o.members
MembershipIsKept == [][org # None => OrgKept(org, org')]_org
=============================================================================
