-------------------------- MODULE AdminAuthority --------------------------
(***************************************************************************)
(* Platform admins and the dual control over them: AdminAuthorityService.  *)
(* A TIER3 action is proposed by one super admin, approved by another, and *)
(* run from the approved proposal; revoking an admin needs no proposal.    *)
(*                                                                         *)
(* A call is one request of one admin.  It reads its own admin row, then   *)
(* the proposal, then the target's row, and saves one row by compare-and-  *)
(* set on its version; a row of version 1 is a plain set, in both drivers. *)
(* The roles below super are one role, and the audit record that follows   *)
(* every save is left out: no operation reads it.                          *)
(***************************************************************************)
EXTENDS Naturals, FiniteSets, TLC

CONSTANTS
  Users,      \* auth users
  Supers,     \* the super admins at the start
  Proposals,  \* proposal ids
  Initial,    \* the proposals at the start
  Calls,      \* requests
  Exclusive,  \* provisioning, role updates and revocations run one at a time
  None

Actions == {"provision", "role"}
Roles == {"super", "other"}
AdminRow == [role : Roles \cup {"none"}, isActive : BOOLEAN, version : Nat]
Admin == {a \in AdminRow : a.role = "none" <=> a.version = 0}
Statuses == {"none", "pending", "approved", "rejected", "cancelled"}
ProposalRow == [status : Statuses, action : Actions, target : Users, role : Roles,
                proposedBy : Users \cup {None}, resolvedBy : Users \cup {None}, version : Nat]
Proposal == {q \in ProposalRow : q.status = "none" <=> q.version = 0}

\* A resolved proposal was resolved by somebody else than its proposer.
Signed(q) == q.resolvedBy \in Users /\ q.resolvedBy # q.proposedBy

ASSUME AdminAssumption ==
  /\ Supers \subseteq Users /\ Supers # {}
  /\ IsFiniteSet(Users)
  /\ None \notin Users
  /\ Initial \in [Proposals -> Proposal]
  /\ \A p \in Proposals : Initial[p].status \in {"approved", "rejected"} => Signed(Initial[p])
  /\ Exclusive \in BOOLEAN

VARIABLES
  admin,      \* the platform admins by user id
  proposal,   \* the proposed actions by id
  runs,       \* how often each proposal has been run; a history, counted to 2
  call        \* each call in flight, with what it has read

vars == <<admin, proposal, runs, call>>

---------------------------------------------------------------------------
NoAdmin == [role |-> "none", isActive |-> FALSE, version |-> 0]
FirstAdmin(r) == [role |-> r, isActive |-> TRUE, version |-> 1]

Executions == {"provision", "role", "revoke"}
Resolutions == {"approve", "reject", "cancel"}

Call == [pc : {"idle", "raise", "proposal", "resolve", "target", "count", "save", "done"},
         op : Executions \cup Resolutions \cup {"propose"}, actor : Users,
         id : Proposals \cup {None}, read : Proposal,
         target : Users, role : Roles, readTarget : Admin]

\* Rows a request has not read yet.
Somebody == CHOOSE u \in Supers : TRUE
NoProposal == [status |-> "none", action |-> "provision", target |-> Somebody, role |-> "other",
               proposedBy |-> None, resolvedBy |-> None, version |-> 0]
Idle == [pc |-> "idle", op |-> "propose", actor |-> Somebody, id |-> None, read |-> NoProposal,
         target |-> Somebody, role |-> "other", readTarget |-> NoAdmin]

IsSuper(a) == a.role = "super" /\ a.isActive
ActiveSupers == {u \in Users : IsSuper(admin[u])}

Finished == [Idle EXCEPT !.pc = "done"]

Set(k, c) == call' = [call EXCEPT ![k] = c]
Done(k) == Set(k, Finished)

Executing(k) == call[k].op \in Executions /\ call[k].pc \notin {"idle", "done"}
MayBegin(op) == Exclusive /\ op \in Executions => \A k \in Calls : ~Executing(k)

\* proposeAction; the target and the role are its payload.
NewProposal(u, action, t, r) ==
  [status |-> "pending", action |-> action, target |-> t, role |-> r,
   proposedBy |-> u, resolvedBy |-> None, version |-> 1]

Init ==
  /\ admin = [u \in Users |-> IF u \in Supers THEN FirstAdmin("super") ELSE NoAdmin]
  /\ proposal = Initial
  /\ runs = [p \in Proposals |-> 0]
  /\ call = [k \in Calls |-> Idle]

---------------------------------------------------------------------------
(* Dual control.                                                           *)

Propose(k, u, action, t, r) ==
  /\ call[k].pc = "idle"
  /\ Set(k, IF IsSuper(admin[u])
            THEN [call[k] EXCEPT !.pc = "raise", !.op = "propose", !.actor = u,
                                 !.read = NewProposal(u, action, t, r)]
            ELSE Finished)
  /\ UNCHANGED <<admin, proposal, runs>>

\* The proposal is stored under a generated id.
Raise(k) ==
  /\ call[k].pc = "raise"
  /\ \E p \in Proposals :
       /\ proposal[p].status = "none"
       /\ proposal' = [proposal EXCEPT ![p] = call[k].read]
  /\ Done(k)
  /\ UNCHANGED <<admin, runs>>

\* requireAdmin, and authorize for what only a super admin may do.
Permitted(op, u) == IF op = "cancel" THEN admin[u].isActive ELSE IsSuper(admin[u])

OpenProposal(k, u, op, p) ==
  /\ call[k].pc = "idle" /\ MayBegin(op)
  /\ proposal[p].status # "none"
  /\ Set(k, IF Permitted(op, u)
            THEN [call[k] EXCEPT !.pc = "proposal", !.op = op, !.actor = u, !.id = p]
            ELSE Finished)
  /\ UNCHANGED <<admin, proposal, runs>>

\* Mutation of Accepted: a proposer may resolve what they have raised.
AcceptedOwn(op, u, q) ==
  IF op \in Actions THEN q.action = op /\ q.status = "approved" ELSE q.status = "pending"

\* Mutation of Accepted: a proposal runs before it is approved.
AcceptedPending(op, u, q) ==
  /\ op \in Actions => q.action = op /\ q.status # "rejected"
  /\ op \in Resolutions => q.status = "pending"
  /\ op \in {"approve", "reject"} => u # q.proposedBy
  /\ op = "cancel" => u = q.proposedBy

\* The refusals of resolve, cancelProposal and isExecutable.
Accepted(op, u, q) ==
  /\ op \in Actions => q.action = op /\ q.status = "approved"
  /\ op \in Resolutions => q.status = "pending"
  /\ op \in {"approve", "reject"} => u # q.proposedBy
  /\ op = "cancel" => u = q.proposedBy

ReadProposal(k) ==
  LET c == call[k]
      q == proposal[c.id] IN
  /\ c.pc = "proposal"
  /\ Set(k, IF Accepted(c.op, c.actor, q)
            THEN [c EXCEPT !.pc = IF c.op \in Actions THEN "target" ELSE "resolve",
                           !.read = q, !.target = q.target, !.role = q.role]
            ELSE Finished)
  /\ UNCHANGED <<admin, proposal, runs>>

Outcome(op) == CASE op = "approve" -> "approved"
                 [] op = "reject"  -> "rejected"
                 [] OTHER          -> "cancelled"

Resolved(op, u, q) ==
  [status |-> Outcome(op), action |-> q.action, target |-> q.target, role |-> q.role,
   proposedBy |-> q.proposedBy, resolvedBy |-> IF op = "cancel" THEN q.resolvedBy ELSE u,
   version |-> q.version + 1]

\* Mutation of CasHolds: the save is a plain set.
CasHoldsAlways(stored, next) == TRUE

\* A save of version N finds version N - 1; a first version is set.
CasHolds(stored, next) == next.version <= 1 \/ stored.version = next.version - 1

Resolve(k) ==
  LET c == call[k]
      next == Resolved(c.op, c.actor, c.read) IN
  /\ c.pc = "resolve"
  /\ IF CasHolds(proposal[c.id], next)
     THEN proposal' = [proposal EXCEPT ![c.id] = next]
     ELSE UNCHANGED proposal
  /\ Done(k)
  /\ UNCHANGED <<admin, runs>>

---------------------------------------------------------------------------
(* Executions.                                                             *)

MayRevoke(u, t) == IsSuper(admin[u]) /\ u # t

RevokeAdmin(k, u, t) ==
  /\ call[k].pc = "idle" /\ MayBegin("revoke")
  /\ Set(k, IF MayRevoke(u, t)
            THEN [call[k] EXCEPT !.pc = "target", !.op = "revoke", !.actor = u, !.target = t]
            ELSE Finished)
  /\ UNCHANGED <<admin, proposal, runs>>

\* Where the target's row sends the call; "done" refuses or finds nothing to do.
AfterTarget(c, a) ==
  CASE c.op = "provision" -> IF a.isActive THEN "done" ELSE "save"
    [] c.op = "revoke"    -> IF a.version = 0 THEN "done" ELSE "save"
    [] c.op = "role"      -> IF a.version = 0 \/ a.role = c.role THEN "done"
                             ELSE IF a.role = "super" THEN "count" ELSE "save"

ReadTarget(k) ==
  LET c == call[k]
      a == admin[c.target] IN
  /\ c.pc = "target"
  /\ Set(k, IF AfterTarget(c, a) = "done"
            THEN Finished
            ELSE [c EXCEPT !.pc = AfterTarget(c, a), !.readTarget = a])
  /\ UNCHANGED <<admin, proposal, runs>>

LastSuper == Cardinality(ActiveSupers) <= 1

\* A demotion from super lists the admins and refuses to take the last one.
CountSupers(k) ==
  /\ call[k].pc = "count"
  /\ Set(k, IF LastSuper THEN Finished ELSE [call[k] EXCEPT !.pc = "save"])
  /\ UNCHANGED <<admin, proposal, runs>>

\* createPlatformAdmin, updatePlatformAdminRole and deactivatePlatformAdmin;
\* deactivating an inactive admin leaves the row, version included.
Changed(c) ==
  LET a == c.readTarget IN
  CASE c.op = "provision" -> [role |-> c.role, isActive |-> TRUE, version |-> a.version + 1]
    [] c.op = "role"      -> [role |-> c.role, isActive |-> a.isActive, version |-> a.version + 1]
    [] c.op = "revoke"    -> IF a.isActive
                             THEN [role |-> a.role, isActive |-> FALSE, version |-> a.version + 1]
                             ELSE a

SaveAdmin(k) ==
  LET c == call[k] IN
  /\ c.pc = "save"
  /\ IF CasHolds(admin[c.target], Changed(c))
     THEN /\ admin' = [admin EXCEPT ![c.target] = Changed(c)]
          /\ runs' = IF c.op \in Actions /\ runs[c.id] < 2
                     THEN [runs EXCEPT ![c.id] = @ + 1] ELSE runs
     ELSE UNCHANGED <<admin, runs>>
  /\ Done(k)
  /\ UNCHANGED proposal

Begin(k) ==
  \E u \in Users :
    \/ \E action \in Actions, t \in Users, r \in Roles : Propose(k, u, action, t, r)
    \/ \E op \in Actions \cup Resolutions, p \in Proposals : OpenProposal(k, u, op, p)
    \/ \E t \in Users : RevokeAdmin(k, u, t)

Step(k) ==
  \/ Raise(k) \/ ReadProposal(k) \/ Resolve(k)
  \/ ReadTarget(k) \/ CountSupers(k) \/ SaveAdmin(k)

Next == \E k \in Calls : Begin(k) \/ Step(k)

Spec == Init /\ [][Next]_vars

---------------------------------------------------------------------------
\* Types of the rows and of the calls.
TypeOK ==
  /\ admin \in [Users -> Admin]
  /\ proposal \in [Proposals -> Proposal]
  /\ runs \in [Proposals -> 0..2]
  /\ call \in [Calls -> Call]

\* The console never locks itself out: some active super admin remains.
SuperRemains == ActiveSupers # {}

\* A proposal is resolved by a second admin, however resolutions race.
DualControl ==
  \A p \in Proposals : proposal[p].status \in {"approved", "rejected"} => Signed(proposal[p])

\* A resolution is final, whatever calls still hold the proposal as pending.
ResolutionIsFinal ==
  [][\A p \in Proposals :
       proposal[p].status \notin {"none", "pending"} => proposal'[p] = proposal[p]]_vars

\* Nobody becomes an active admin, or an active super, without a proposal for just
\* that which a second admin has approved.
Gains(a, b) == b.isActive /\ (~a.isActive \/ (b.role = "super" /\ a.role # "super"))
GrantsAreSigned ==
  [][\A u \in Users : Gains(admin[u], admin'[u]) =>
       \E p \in Proposals :
         /\ proposal[p].status = "approved" /\ Signed(proposal[p])
         /\ proposal[p].target = u /\ proposal[p].role = admin'[u].role]_vars

\* Each approval is run once: no admin repeats it alone.
OneRunPerApproval == \A p \in Proposals : runs[p] <= 1

\* No admin row is lost under another: each change raises the version by one.
AdminsAreKept ==
  [][\A u \in Users : admin'[u] # admin[u] => admin'[u].version = admin[u].version + 1]_vars

---------------------------------------------------------------------------
(* Small instances for TLC.                                                 *)

\* Requests are interchangeable.
Symmetry == Permutations(Calls)

\* Nothing proposed yet.
Nothing == [p \in Proposals |-> NoProposal]

Approved(action, t, r, u, v) ==
  [status |-> "approved", action |-> action, target |-> t, role |-> r,
   proposedBy |-> u, resolvedBy |-> v, version |-> 2]

\* One approved provisioning and one approved demotion, each signed by two super admins.
GrantAndDemotion ==
  LET granted == CHOOSE p \in Proposals : TRUE
      ana == CHOOSE u \in Supers : TRUE
      bo == CHOOSE u \in Supers : u # ana
      cy == CHOOSE u \in Users : u \notin Supers
  IN  [p \in Proposals |-> IF p = granted THEN Approved("provision", cy, "super", ana, bo)
                                          ELSE Approved("role", bo, "other", bo, ana)]
=============================================================================
