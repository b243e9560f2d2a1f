------------------------ MODULE AdminAuthorityProofs ------------------------
(***************************************************************************)
(* Theorems about dual control, for any users, proposals and requests,     *)
(* whatever is proposed at the start and whether executions overlap.       *)
(***************************************************************************)
EXTENDS AdminAuthority, FiniteSetTheorems, TLAPS

LEMMA SomebodyTyped == Somebody \in Users
BY AdminAssumption DEF Somebody

LEMMA NoAdminTyped == NoAdmin \in Admin
BY DEF NoAdmin, Admin, AdminRow

LEMMA NoProposalTyped == NoProposal \in Proposal
BY SomebodyTyped DEF NoProposal, Proposal, ProposalRow, Actions, Roles, Statuses

LEMMA IdleTyped == Idle \in Call /\ Finished \in Call /\ Finished.pc = "done" /\ Idle.pc = "idle"
BY SomebodyTyped, NoAdminTyped, NoProposalTyped DEF Idle, Finished, Call, Roles

\* Replacing a call by a typed one keeps the calls' type, and the others.
LEMMA SetEffect ==
  ASSUME call \in [Calls -> Call], NEW k \in Calls, NEW c \in Call, Set(k, c)
  PROVE  /\ call' \in [Calls -> Call]
         /\ call'[k] = c
         /\ \A j \in Calls : j # k => call'[j] = call[j]
BY DEF Set

---------------------------------------------------------------------------
(* What a call in flight knows of the proposals `pr`.                      *)

\* A stored proposal is resolved once: this is all that can happen to a row.
Grows(a, b) ==
  \/ a = b
  \/ a.status = "none" /\ b.status # "none"
  \/ a.status = "pending" /\ b.status # "none" /\ b.version = a.version + 1

\* What is about to be stored is pending.
Raises(c) == c.pc = "raise" => c.read.status = "pending"

\* A proposal that was found does not vanish.
Found(c, pr) ==
  c.pc \in {"proposal", "resolve"} =>
    c.op \in Actions \cup Resolutions /\ c.id \in Proposals /\ pr[c.id].status # "none"

\* A resolution was let through on a pending proposal, the stored one or an older
\* version of it.
Resolves(c, pr) ==
  c.pc = "resolve" =>
    /\ c.op \in Resolutions /\ c.read.status = "pending"
    /\ c.op \in {"approve", "reject"} => c.actor # c.read.proposedBy
    /\ c.read.version <= pr[c.id].version
    /\ c.read.version = pr[c.id].version => c.read = pr[c.id]

\* An execution carries out a proposal that is approved, now and later.
Executes(c, pr) ==
  c.pc \in {"target", "count", "save"} =>
    /\ c.op \in Executions
    /\ c.op \in Actions => /\ c.id \in Proposals /\ pr[c.id].status = "approved"
                           /\ pr[c.id].target = c.target /\ pr[c.id].role = c.role

\* Only a provisioning may find no row.
FoundTarget(c) ==
  c.pc \in {"count", "save"} /\ c.op # "provision" => c.readTarget.version # 0

Knows(c, pr) ==
  Raises(c) /\ Found(c, pr) /\ Resolves(c, pr) /\ Executes(c, pr) /\ FoundTarget(c)

CallInv == \A k \in Calls : Knows(call[k], proposal)

IInv == TypeOK /\ DualControl /\ CallInv

\* A call that has ended or not begun knows nothing.
LEMMA KnowsNothing ==
  ASSUME NEW c, NEW pr, c.pc \in {"idle", "done"} PROVE Knows(c, pr)
BY DEF Knows, Raises, Found, Resolves, Executes, FoundTarget

\* What a call knows stays true when proposals grow.
LEMMA KnowsKept ==
  ASSUME NEW c \in Call, NEW pr \in [Proposals -> Proposal], NEW pq \in [Proposals -> Proposal],
         \A p \in Proposals : Grows(pr[p], pq[p]), Knows(c, pr)
  PROVE  Knows(c, pq)
<1>1. Found(c, pq)
  BY DEF Knows, Found, Grows
<1>2. Resolves(c, pq)
  <2> SUFFICES ASSUME c.pc = "resolve" PROVE Resolves(c, pq)
    BY DEF Resolves
  <2>1. c.id \in Proposals /\ pr[c.id].status # "none" /\ Grows(pr[c.id], pq[c.id])
    BY DEF Knows, Found
  <2>2. c.read.version \in Nat /\ pr[c.id].version \in Nat /\ pq[c.id].version \in Nat
    BY <2>1 DEF Call, Proposal, ProposalRow
  <2>3. CASE pr[c.id] = pq[c.id]
    BY <2>3 DEF Knows, Resolves
  <2>4. CASE pq[c.id].version = pr[c.id].version + 1
    BY <2>2, <2>4 DEF Knows, Resolves
  <2>5. QED
    BY <2>1, <2>3, <2>4 DEF Grows
<1>3. Executes(c, pq)
  BY DEF Knows, Executes, Grows
<1>4. QED
  BY <1>1, <1>2, <1>3 DEF Knows

---------------------------------------------------------------------------
LEMMA InitInv == Init => IInv
<1> SUFFICES ASSUME Init PROVE IInv
  OBVIOUS
<1>1. \A u \in Users : admin[u] = FirstAdmin("super") \/ admin[u] = NoAdmin
  BY DEF Init
<1>2. FirstAdmin("super") \in Admin
  BY DEF FirstAdmin, Admin, AdminRow, Roles
<1>3. admin \in [Users -> Admin]
  BY <1>1, <1>2, NoAdminTyped DEF Init
<1>4. proposal \in [Proposals -> Proposal] /\ runs \in [Proposals -> 0..2]
  BY AdminAssumption DEF Init
<1>5. call \in [Calls -> Call] /\ \A k \in Calls : call[k].pc = "idle"
  BY IdleTyped DEF Init
<1>6. CallInv
  BY <1>5, KnowsNothing DEF CallInv
<1>7. DualControl
  BY AdminAssumption DEF Init, DualControl
<1>8. QED
  BY <1>3, <1>4, <1>5, <1>6, <1>7 DEF IInv, TypeOK

\* A step of one call that leaves the proposals, and ends or goes on with a call
\* that knows what it should.
LEMMA Quiet ==
  ASSUME IInv, NEW k \in Calls, NEW c \in Call, Set(k, c), Knows(c, proposal),
         UNCHANGED proposal, admin' \in [Users -> Admin], runs' \in [Proposals -> 0..2]
  PROVE  IInv' /\ \A p \in Proposals : Grows(proposal[p], proposal'[p])
<1>1. /\ call' \in [Calls -> Call]
      /\ call'[k] = c
      /\ \A j \in Calls : j # k => call'[j] = call[j]
  BY SetEffect DEF IInv, TypeOK
<1>2. \A j \in Calls : Knows(call'[j], proposal)
  BY <1>1 DEF IInv, CallInv
<1>3. CallInv'
  BY <1>2 DEF CallInv
<1>4. TypeOK'
  BY <1>1 DEF IInv, TypeOK
<1>5. DualControl'
  BY DEF IInv, DualControl
<1>6. QED
  BY <1>3, <1>4, <1>5 DEF IInv, Grows

\* A step of one call that ends it and lets one proposal grow.
LEMMA Grown ==
  ASSUME IInv, NEW k \in Calls, Set(k, Finished), NEW p \in Proposals, NEW q \in Proposal,
         proposal' = [proposal EXCEPT ![p] = q], Grows(proposal[p], q),
         q.status \in {"approved", "rejected"} => Signed(q),
         UNCHANGED <<admin, runs>>
  PROVE  IInv' /\ \A r \in Proposals : Grows(proposal[r], proposal'[r])
<1>1. /\ call' \in [Calls -> Call]
      /\ call'[k] = Finished
      /\ \A j \in Calls : j # k => call'[j] = call[j]
  BY SetEffect, IdleTyped DEF IInv, TypeOK
<1>2. /\ proposal' \in [Proposals -> Proposal]
      /\ proposal'[p] = q
      /\ \A r \in Proposals : r # p => proposal'[r] = proposal[r]
  BY DEF IInv, TypeOK
<1>3. \A r \in Proposals : Grows(proposal[r], proposal'[r])
  BY <1>2 DEF Grows
<1>4. ASSUME NEW j \in Calls PROVE Knows(call'[j], proposal')
  <2>1. CASE j = k
    BY <1>1, <2>1, IdleTyped, KnowsNothing
  <2>2. CASE j # k
    <3>1. call[j] \in Call /\ Knows(call[j], proposal) /\ call'[j] = call[j]
      BY <1>1, <2>2 DEF IInv, TypeOK, CallInv
    <3>2. proposal \in [Proposals -> Proposal]
      BY DEF IInv, TypeOK
    <3>3. QED
      BY <1>2, <1>3, <3>1, <3>2, KnowsKept
  <2>3. QED
    BY <2>1, <2>2
<1>5. DualControl'
  BY <1>2 DEF IInv, DualControl
<1>6. TypeOK'
  BY <1>1, <1>2 DEF IInv, TypeOK
<1>7. QED
  BY <1>3, <1>4, <1>5, <1>6 DEF IInv, CallInv

---------------------------------------------------------------------------
(* The steps.                                                              *)

\* A call that ends at once.
LEMMA Ends ==
  ASSUME IInv, NEW k \in Calls, Set(k, Finished), UNCHANGED <<admin, proposal, runs>>
  PROVE  IInv' /\ \A p \in Proposals : Grows(proposal[p], proposal'[p])
BY IdleTyped, KnowsNothing, Quiet DEF IInv, TypeOK

\* A call that goes on reading.
LEMMA GoesOn ==
  ASSUME IInv, NEW k \in Calls, NEW c \in Call, Set(k, c), Knows(c, proposal),
         UNCHANGED <<admin, proposal, runs>>
  PROVE  IInv' /\ \A p \in Proposals : Grows(proposal[p], proposal'[p])
BY Quiet DEF IInv, TypeOK

LEMMA NewProposalTyped ==
  ASSUME NEW u \in Users, NEW action \in Actions, NEW t \in Users, NEW r \in Roles
  PROVE  NewProposal(u, action, t, r) \in Proposal /\ NewProposal(u, action, t, r).status = "pending"
BY DEF NewProposal, Proposal, ProposalRow, Statuses

LEMMA ProposeStep ==
  ASSUME IInv, NEW k \in Calls, NEW u \in Users, NEW action \in Actions, NEW t \in Users,
         NEW r \in Roles, Propose(k, u, action, t, r)
  PROVE  IInv' /\ \A p \in Proposals : Grows(proposal[p], proposal'[p])
<1> PICK n \in Proposal : n = NewProposal(u, action, t, r)
  BY NewProposalTyped
<1> DEFINE c == [call[k] EXCEPT !.pc = "raise", !.op = "propose", !.actor = u, !.read = n]
<1>1. CASE Set(k, Finished)
  BY <1>1, Ends DEF Propose
<1>2. CASE Set(k, c)
  <2>1. call[k] \in Call
    BY DEF IInv, TypeOK
  <2>2. c \in Call /\ c.pc = "raise" /\ c.read = n
    BY <2>1 DEF Call
  <2>3. n.status = "pending"
    BY DEF NewProposal
  <2>4. Knows(c, proposal)
    BY <2>2, <2>3 DEF Knows, Raises, Found, Resolves, Executes, FoundTarget
  <2>5. QED
    BY <1>2, <2>2, <2>4, GoesOn DEF Propose
<1>3. QED
  BY <1>1, <1>2 DEF Propose

LEMMA RaiseStep ==
  ASSUME IInv, NEW k \in Calls, Raise(k)
  PROVE  IInv' /\ \A p \in Proposals : Grows(proposal[p], proposal'[p])
<1>1. PICK p \in Proposals : proposal[p].status = "none"
                            /\ proposal' = [proposal EXCEPT ![p] = call[k].read]
  BY DEF Raise
<1>2. call[k].read \in Proposal /\ call[k].read.status = "pending"
  BY DEF IInv, TypeOK, Call, CallInv, Knows, Raises, Raise
<1>3. Grows(proposal[p], call[k].read)
  BY <1>1, <1>2 DEF Grows
<1>4. Set(k, Finished) /\ UNCHANGED <<admin, runs>>
  BY DEF Raise, Done
<1>5. QED
  BY <1>1, <1>2, <1>3, <1>4, Grown

LEMMA OpenStep ==
  ASSUME IInv, NEW k \in Calls, NEW u \in Users, NEW op \in Actions \cup Resolutions,
         NEW p \in Proposals, OpenProposal(k, u, op, p)
  PROVE  IInv' /\ \A q \in Proposals : Grows(proposal[q], proposal'[q])
<1> DEFINE c == [call[k] EXCEPT !.pc = "proposal", !.op = op, !.actor = u, !.id = p]
<1>1. CASE Set(k, Finished)
  BY <1>1, Ends DEF OpenProposal
<1>2. CASE Set(k, c)
  <2>1. call[k] \in Call
    BY DEF IInv, TypeOK
  <2>2. c \in Call /\ c.pc = "proposal" /\ c.id = p /\ c.op = op
    BY <2>1 DEF Call, Actions, Executions
  <2>3. proposal[p].status # "none"
    BY DEF OpenProposal
  <2>4. Knows(c, proposal)
    BY <2>2, <2>3 DEF Knows, Raises, Found, Resolves, Executes, FoundTarget
  <2>5. QED
    BY <1>2, <2>2, <2>4, GoesOn DEF OpenProposal
<1>3. QED
  BY <1>1, <1>2 DEF OpenProposal

LEMMA ReadProposalStep ==
  ASSUME IInv, NEW k \in Calls, ReadProposal(k)
  PROVE  IInv' /\ \A p \in Proposals : Grows(proposal[p], proposal'[p])
<1>1. call[k] \in Call /\ Found(call[k], proposal) /\ call[k].pc = "proposal"
  BY DEF IInv, TypeOK, CallInv, Knows, ReadProposal
<1>2. call[k].id \in Proposals
  BY <1>1 DEF Found
<1>3. PICK q \in Proposal : q = proposal[call[k].id]
  BY <1>2 DEF IInv, TypeOK
<1>4. q.target \in Users /\ q.role \in Roles /\ q.version \in Nat /\ q.status # "none"
  BY <1>1, <1>2, <1>3 DEF Found, Proposal, ProposalRow
<1>5. CASE Accepted(call[k].op, call[k].actor, q) /\ call[k].op \in Actions
  <2> DEFINE c == [call[k] EXCEPT !.pc = "target", !.read = q, !.target = q.target, !.role = q.role]
  <2>1. /\ c \in Call /\ c.pc = "target" /\ c.op = call[k].op /\ c.id = call[k].id
        /\ c.target = q.target /\ c.role = q.role
    BY <1>1, <1>4 DEF Call
  <2>2. q.status = "approved" /\ c.op \in Executions
    BY <1>5, <2>1 DEF Accepted, Actions, Executions
  <2>3. Knows(c, proposal)
    BY <1>2, <1>3, <2>1, <2>2 DEF Knows, Raises, Found, Resolves, Executes, FoundTarget
  <2>4. Set(k, c)
    BY <1>3, <1>5 DEF ReadProposal
  <2>5. QED
    BY <2>1, <2>3, <2>4, GoesOn DEF ReadProposal
<1>6. CASE Accepted(call[k].op, call[k].actor, q) /\ call[k].op \notin Actions
  <2> DEFINE c == [call[k] EXCEPT !.pc = "resolve", !.read = q, !.target = q.target, !.role = q.role]
  <2>1. /\ c \in Call /\ c.pc = "resolve" /\ c.op = call[k].op /\ c.id = call[k].id
        /\ c.read = q /\ c.actor = call[k].actor
    BY <1>1, <1>4 DEF Call
  <2>2. call[k].op \in Resolutions
    BY <1>1, <1>6 DEF Found
  <2>3. Knows(c, proposal)
    BY <1>2, <1>3, <1>4, <1>6, <2>1, <2>2 DEF Accepted, Knows, Raises, Found, Resolves, Executes, FoundTarget
  <2>4. Set(k, c)
    BY <1>3, <1>6 DEF ReadProposal
  <2>5. QED
    BY <2>1, <2>3, <2>4, GoesOn DEF ReadProposal
<1>7. CASE ~Accepted(call[k].op, call[k].actor, q)
  BY <1>3, <1>7, Ends DEF ReadProposal
<1>8. QED
  BY <1>5, <1>6, <1>7

LEMMA ResolvedTyped ==
  ASSUME NEW op \in Resolutions, NEW u \in Users, NEW q \in Proposal
  PROVE  /\ Resolved(op, u, q) \in Proposal
         /\ Resolved(op, u, q).status \in {"approved", "rejected", "cancelled"}
         /\ Resolved(op, u, q).version = q.version + 1
         /\ op \in {"approve", "reject"} /\ u # q.proposedBy => Signed(Resolved(op, u, q))
         /\ op = "cancel" => Resolved(op, u, q).status = "cancelled"
<1>1. Outcome(op) \in {"approved", "rejected", "cancelled"} /\ (op = "cancel" => Outcome(op) = "cancelled")
  BY DEF Outcome, Resolutions
<1>2. q.version \in Nat /\ q.version + 1 # 0
  BY DEF Proposal, ProposalRow
<1>3. Resolved(op, u, q) \in Proposal
  BY <1>1, <1>2 DEF Resolved, Proposal, ProposalRow, Statuses
<1>4. QED
  BY <1>1, <1>3 DEF Resolved, Signed

\* The compare-and-set succeeds on the very proposal the call has read, still pending.
LEMMA ResolveStep ==
  ASSUME IInv, NEW k \in Calls, Resolve(k)
  PROVE  IInv' /\ \A p \in Proposals : Grows(proposal[p], proposal'[p])
<1>1. /\ call[k].read \in Proposal /\ call[k].actor \in Users
      /\ call[k].id \in Proposals /\ proposal[call[k].id].version \in Nat
      /\ call[k].op \in Resolutions /\ call[k].read.status = "pending"
      /\ call[k].op \in {"approve", "reject"} => call[k].actor # call[k].read.proposedBy
      /\ call[k].read.version = proposal[call[k].id].version => call[k].read = proposal[call[k].id]
  <2>1. call[k] \in Call /\ Found(call[k], proposal) /\ Resolves(call[k], proposal)
        /\ call[k].pc = "resolve"
    BY DEF IInv, TypeOK, CallInv, Knows, Resolve
  <2>2. call[k].id \in Proposals
    BY <2>1 DEF Found
  <2>3. proposal[call[k].id].version \in Nat
    BY <2>2 DEF IInv, TypeOK, Proposal, ProposalRow
  <2>4. QED
    BY <2>1, <2>2, <2>3 DEF Resolves, Call
<1>2. PICK q \in Proposal : q = Resolved(call[k].op, call[k].actor, call[k].read)
  BY <1>1, ResolvedTyped
<1>3. /\ q.status \in {"approved", "rejected", "cancelled"}
      /\ q.version = call[k].read.version + 1
      /\ q.status \in {"approved", "rejected"} => Signed(q)
  BY <1>1, <1>2, ResolvedTyped DEF Resolutions
<1>4. Set(k, Finished) /\ UNCHANGED <<admin, runs>>
  BY DEF Resolve, Done
<1>5. CASE CasHolds(proposal[call[k].id], q)
  <2>1. call[k].read.version \in Nat \ {0}
    BY <1>1 DEF Proposal, ProposalRow
  <2>2. proposal[call[k].id] = call[k].read
    BY <1>1, <1>3, <1>5, <2>1 DEF CasHolds
  <2>3. Grows(proposal[call[k].id], q)
    BY <1>1, <1>3, <2>2 DEF Grows
  <2>4. proposal' = [proposal EXCEPT ![call[k].id] = q]
    BY <1>2, <1>5 DEF Resolve
  <2>5. QED
    BY <1>1, <1>3, <1>4, <2>3, <2>4, Grown
<1>6. CASE ~CasHolds(proposal[call[k].id], q)
  BY <1>2, <1>4, <1>6, Ends DEF Resolve
<1>7. QED
  BY <1>5, <1>6

LEMMA RevokeStep ==
  ASSUME IInv, NEW k \in Calls, NEW u \in Users, NEW t \in Users, RevokeAdmin(k, u, t)
  PROVE  IInv' /\ \A p \in Proposals : Grows(proposal[p], proposal'[p])
<1> DEFINE c == [call[k] EXCEPT !.pc = "target", !.op = "revoke", !.actor = u, !.target = t]
<1>1. CASE Set(k, Finished)
  BY <1>1, Ends DEF RevokeAdmin
<1>2. CASE Set(k, c)
  <2>1. call[k] \in Call
    BY DEF IInv, TypeOK
  <2>2. c \in Call /\ c.pc = "target" /\ c.op = "revoke"
    BY <2>1 DEF Call, Executions
  <2>3. Knows(c, proposal)
    BY <2>2 DEF Knows, Raises, Found, Resolves, Executes, FoundTarget, Executions, Actions
  <2>4. QED
    BY <1>2, <2>2, <2>3, GoesOn DEF RevokeAdmin
<1>3. QED
  BY <1>1, <1>2 DEF RevokeAdmin

\* An execution goes on to the count or the save, with the target's row if it needs one.
LEMMA AfterTargetGoesOn ==
  ASSUME NEW c, NEW a, c.op \in Executions
  PROVE  /\ AfterTarget(c, a) \in {"done", "count", "save"}
         /\ AfterTarget(c, a) # "done" /\ c.op # "provision" => a.version # 0
<1>1. CASE c.op = "provision"
  BY <1>1 DEF AfterTarget
<1>2. CASE c.op = "revoke"
  BY <1>2 DEF AfterTarget
<1>3. CASE c.op = "role"
  BY <1>3 DEF AfterTarget
<1>4. QED
  BY <1>1, <1>2, <1>3 DEF Executions

LEMMA ReadTargetStep ==
  ASSUME IInv, NEW k \in Calls, ReadTarget(k)
  PROVE  IInv' /\ \A p \in Proposals : Grows(proposal[p], proposal'[p])
<1>1. call[k] \in Call /\ Executes(call[k], proposal) /\ call[k].pc = "target"
  BY DEF IInv, TypeOK, CallInv, Knows, ReadTarget
<1>2. call[k].target \in Users /\ call[k].op \in Executions
  BY <1>1 DEF Call, Executes
<1>3. PICK a \in Admin : a = admin[call[k].target]
  BY <1>2 DEF IInv, TypeOK
<1>4. PICK next \in {"done", "count", "save"} : next = AfterTarget(call[k], a)
  BY <1>2, AfterTargetGoesOn
<1>5. CASE next = "done"
  BY <1>3, <1>4, <1>5, Ends DEF ReadTarget
<1>6. CASE next # "done"
  <2> DEFINE c == [call[k] EXCEPT !.pc = next, !.readTarget = a]
  <2>1. /\ c \in Call /\ c.pc \in {"count", "save"} /\ c.op = call[k].op /\ c.id = call[k].id
        /\ c.target = call[k].target /\ c.role = call[k].role /\ c.readTarget = a
    BY <1>1, <1>6 DEF Call
  <2>2. c.op # "provision" => a.version # 0
    BY <1>2, <1>4, <1>6, <2>1, AfterTargetGoesOn
  <2>3. Knows(c, proposal)
    BY <1>1, <2>1, <2>2 DEF Knows, Raises, Found, Resolves, Executes, FoundTarget
  <2>4. Set(k, c)
    BY <1>3, <1>4, <1>6 DEF ReadTarget
  <2>5. QED
    BY <2>1, <2>3, <2>4, GoesOn DEF ReadTarget
<1>7. QED
  BY <1>5, <1>6

LEMMA CountStep ==
  ASSUME IInv, NEW k \in Calls, CountSupers(k)
  PROVE  IInv' /\ \A p \in Proposals : Grows(proposal[p], proposal'[p])
<1> DEFINE c == [call[k] EXCEPT !.pc = "save"]
<1>1. CASE Set(k, Finished)
  BY <1>1, Ends DEF CountSupers
<1>2. CASE Set(k, c)
  <2>1. /\ call[k] \in Call /\ call[k].pc = "count"
        /\ Executes(call[k], proposal) /\ FoundTarget(call[k])
    BY DEF IInv, TypeOK, CallInv, Knows, CountSupers
  <2>2. /\ c \in Call /\ c.pc = "save" /\ c.op = call[k].op /\ c.id = call[k].id
        /\ c.target = call[k].target /\ c.role = call[k].role /\ c.readTarget = call[k].readTarget
    BY <2>1 DEF Call
  <2>3. Knows(c, proposal)
    BY <2>1, <2>2 DEF Knows, Raises, Found, Resolves, Executes, FoundTarget
  <2>4. QED
    BY <1>2, <2>2, <2>3, GoesOn DEF CountSupers
<1>3. QED
  BY <1>1, <1>2 DEF CountSupers

\* What an execution saves: an active admin of the approved role, or no more than was there.
LEMMA ChangedTyped ==
  ASSUME NEW c \in Call, c.op \in Executions, c.op # "provision" => c.readTarget.version # 0
  PROVE  /\ Changed(c) \in Admin
         /\ c.op \in Actions => Changed(c).role = c.role
         /\ c.op = "revoke" => ~Changed(c).isActive
<1>1. PICK a \in Admin : a = c.readTarget
  BY DEF Call
<1>2. /\ a.version \in Nat /\ a.isActive \in BOOLEAN /\ a.role \in Roles \cup {"none"}
      /\ a.version # 0 => a.role \in Roles
  BY DEF Admin, AdminRow
<1>3. c.role \in Roles /\ \A r \in Roles : r # "none"
  BY DEF Call, Roles
<1>4. \A r \in Roles, b \in BOOLEAN : [role |-> r, isActive |-> b, version |-> a.version + 1] \in Admin
  BY <1>2, <1>3 DEF Admin, AdminRow
<1>5. CASE c.op = "provision"
  BY <1>1, <1>3, <1>4, <1>5 DEF Changed
<1>6. CASE c.op = "role"
  BY <1>1, <1>2, <1>3, <1>4, <1>6 DEF Changed
<1>7. CASE c.op = "revoke"
  <2>1. CASE a.isActive
    BY <1>1, <1>2, <1>4, <1>7, <2>1 DEF Changed, Actions
  <2>2. CASE ~a.isActive
    BY <1>1, <1>7, <2>2 DEF Changed, Actions
  <2>3. QED
    BY <2>1, <2>2
<1>8. QED
  BY <1>5, <1>6, <1>7 DEF Executions

LEMMA SaveAdminStep ==
  ASSUME IInv, NEW k \in Calls, SaveAdmin(k)
  PROVE  IInv' /\ \A p \in Proposals : Grows(proposal[p], proposal'[p])
<1>1. /\ call[k] \in Call /\ call[k].pc = "save"
      /\ Executes(call[k], proposal) /\ FoundTarget(call[k])
  BY DEF IInv, TypeOK, CallInv, Knows, SaveAdmin
<1>2. PICK a \in Admin : a = Changed(call[k])
  BY <1>1, ChangedTyped DEF Executes, FoundTarget
<1>3. admin' \in [Users -> Admin]
  BY <1>2 DEF SaveAdmin, IInv, TypeOK
<1>4. runs' \in [Proposals -> 0..2]
  <2>1. runs \in [Proposals -> 0..2] /\ (call[k].op \in Actions => call[k].id \in Proposals)
    BY <1>1 DEF IInv, TypeOK, Executes
  <2>2. CASE runs' = runs
    BY <2>1, <2>2
  <2>3. CASE call[k].op \in Actions /\ runs[call[k].id] < 2
             /\ runs' = [runs EXCEPT ![call[k].id] = @ + 1]
    BY <2>1, <2>3
  <2>4. QED
    BY <2>2, <2>3 DEF SaveAdmin
<1>5. Set(k, Finished) /\ UNCHANGED proposal
  BY DEF SaveAdmin, Done
<1>6. QED
  BY <1>3, <1>4, <1>5, IdleTyped, KnowsNothing, Quiet

LEMMA NextInv ==
  IInv /\ [Next]_vars => IInv' /\ \A p \in Proposals : Grows(proposal[p], proposal'[p])
<1> SUFFICES ASSUME IInv, [Next]_vars
             PROVE  IInv' /\ \A p \in Proposals : Grows(proposal[p], proposal'[p])
  OBVIOUS
<1>1. CASE UNCHANGED vars
  BY <1>1 DEF vars, IInv, TypeOK, DualControl, CallInv, Grows
<1>2. ASSUME NEW k \in Calls, Begin(k)
      PROVE  IInv' /\ \A p \in Proposals : Grows(proposal[p], proposal'[p])
  <2>1. PICK u \in Users :
          \/ \E action \in Actions, t \in Users, r \in Roles : Propose(k, u, action, t, r)
          \/ \E op \in Actions \cup Resolutions, p \in Proposals : OpenProposal(k, u, op, p)
          \/ \E t \in Users : RevokeAdmin(k, u, t)
    BY <1>2 DEF Begin
  <2>2. CASE \E action \in Actions, t \in Users, r \in Roles : Propose(k, u, action, t, r)
    BY <2>2, ProposeStep
  <2>3. CASE \E op \in Actions \cup Resolutions, p \in Proposals : OpenProposal(k, u, op, p)
    BY <2>3, OpenStep
  <2>4. CASE \E t \in Users : RevokeAdmin(k, u, t)
    BY <2>4, RevokeStep
  <2>5. QED
    BY <2>1, <2>2, <2>3, <2>4
<1>3. ASSUME NEW k \in Calls, Step(k)
      PROVE  IInv' /\ \A p \in Proposals : Grows(proposal[p], proposal'[p])
  BY <1>3, RaiseStep, ReadProposalStep, ResolveStep, ReadTargetStep, CountStep, SaveAdminStep
     DEF Step
<1>4. QED
  BY <1>1, <1>2, <1>3 DEF Next

---------------------------------------------------------------------------
\* The rows and the calls keep their types in every reachable state: the admin and
\* proposal documents of AdminAuthorityService and what its requests hold of them.
THEOREM TypeCorrect == Spec => []TypeOK
<1>1. Init => IInv
  BY InitInv
<1>2. IInv /\ [Next]_vars => IInv'
  BY NextInv
<1>3. IInv => TypeOK
  BY DEF IInv
<1>4. QED
  BY <1>1, <1>2, <1>3, PTL DEF Spec

\* A proposal that is approved or rejected was resolved by a second admin, however
\* the resolutions of AdminAuthorityService race.
THEOREM DualControlCorrect == Spec => []DualControl
<1>1. Init => IInv
  BY InitInv
<1>2. IInv /\ [Next]_vars => IInv'
  BY NextInv
<1>3. IInv => DualControl
  BY DEF IInv
<1>4. QED
  BY <1>1, <1>2, <1>3, PTL DEF Spec

\* A resolved proposal is never changed again, whatever requests still hold it as
\* pending: the compare-and-set of the save refuses them.
THEOREM ResolutionCorrect == Spec => ResolutionIsFinal
<1>1. Init => IInv
  BY InitInv
<1>2. IInv /\ [Next]_vars => IInv'
  BY NextInv
<1>3. IInv /\ [Next]_vars =>
        [\A p \in Proposals :
           proposal[p].status \notin {"none", "pending"} => proposal'[p] = proposal[p]]_vars
  BY NextInv DEF Grows
<1>4. QED
  BY <1>1, <1>2, <1>3, PTL DEF Spec, ResolutionIsFinal

\* Only a save changes an admin; it acts on an approved proposal, or revokes.
LEMMA SaveIsSigned ==
  ASSUME IInv, NEW k \in Calls, SaveAdmin(k), NEW u \in Users, Gains(admin[u], admin'[u])
  PROVE  \E p \in Proposals :
           /\ proposal[p].status = "approved" /\ Signed(proposal[p])
           /\ proposal[p].target = u /\ proposal[p].role = admin'[u].role
<1>1. /\ call[k] \in Call /\ call[k].pc = "save"
      /\ Executes(call[k], proposal) /\ FoundTarget(call[k])
  BY DEF IInv, TypeOK, CallInv, Knows, SaveAdmin
<1>2. /\ call[k].op \in Executions
      /\ call[k].op # "provision" => call[k].readTarget.version # 0
  BY <1>1 DEF Executes, FoundTarget
<1>3. PICK a \in Admin : a = Changed(call[k])
  BY <1>1, <1>2, ChangedTyped
<1>4. admin \in [Users -> Admin]
  BY DEF IInv, TypeOK
<1>5. admin'[u] # admin[u]
  BY DEF Gains
<1>6. u = call[k].target /\ admin'[u] = a
  BY <1>3, <1>4, <1>5 DEF SaveAdmin
<1>7. call[k].op \in Actions
  <2>1. call[k].op # "revoke"
    BY <1>1, <1>2, <1>3, <1>6, ChangedTyped DEF Gains
  <2>2. QED
    BY <1>2, <2>1 DEF Executions, Actions
<1>8. /\ call[k].id \in Proposals /\ proposal[call[k].id].status = "approved"
      /\ proposal[call[k].id].target = u /\ proposal[call[k].id].role = call[k].role
  BY <1>1, <1>6, <1>7 DEF Executes
<1>9. admin'[u].role = call[k].role
  BY <1>1, <1>2, <1>3, <1>6, <1>7, ChangedTyped
<1>10. Signed(proposal[call[k].id])
  BY <1>8 DEF IInv, DualControl
<1>11. QED
  BY <1>8, <1>9, <1>10

\* Nobody becomes an active admin, or an active super admin, unless a proposal for
\* just that was approved by a second admin: requests that read an admin or a
\* proposal long ago included.
THEOREM GrantsCorrect == Spec => GrantsAreSigned
<1> DEFINE SignedGrants ==
      \A u \in Users : Gains(admin[u], admin'[u]) =>
        \E p \in Proposals :
          /\ proposal[p].status = "approved" /\ Signed(proposal[p])
          /\ proposal[p].target = u /\ proposal[p].role = admin'[u].role
<1>1. Init => IInv
  BY InitInv
<1>2. IInv /\ [Next]_vars => IInv'
  BY NextInv
<1>3. IInv /\ [Next]_vars => [SignedGrants]_vars
  <2> SUFFICES ASSUME IInv, Next PROVE SignedGrants
    OBVIOUS
  <2>1. CASE UNCHANGED admin
    BY <2>1 DEF Gains
  <2>2. CASE \E k \in Calls : SaveAdmin(k)
    BY <2>2, SaveIsSigned
  <2>3. QED
    BY <2>1, <2>2 DEF Next, Begin, Step, Propose, OpenProposal, RevokeAdmin,
                      Raise, ReadProposal, Resolve, ReadTarget, CountSupers
<1>4. QED
  BY <1>1, <1>2, <1>3, PTL DEF Spec, GrantsAreSigned

---------------------------------------------------------------------------
(* One execution at a time.                                                *)

Busy(c) == c.op \in Executions /\ c.pc \notin {"idle", "done"}

OneAtATime == \A j, k \in Calls : Busy(call[j]) /\ Busy(call[k]) => j = k

\* The target's row is still the one that was read, among the rows `ad`.
Fresh(c, ad) == c.pc \in {"count", "save"} => c.readTarget = ad[c.target]

\* What an execution was let through on still holds.
Fits(c, ad) ==
  /\ c.pc \in {"target", "count", "save"} /\ c.op = "revoke" =>
       IsSuper(ad[c.actor]) /\ c.actor # c.target
  /\ c.pc \in {"count", "save"} /\ c.op = "provision" => ~c.readTarget.isActive
  /\ c.pc = "save" /\ c.op = "role" /\ c.readTarget.role = "super" =>
       \E u \in Users \ {c.target} : IsSuper(ad[u])

SerialInv ==
  SuperRemains /\ OneAtATime /\ \A k \in Calls : Fresh(call[k], admin) /\ Fits(call[k], admin)

LEMMA NotBusy ==
  ASSUME NEW c, NEW pr, NEW ad, Executes(c, pr), ~Busy(c)
  PROVE  Fresh(c, ad) /\ Fits(c, ad)
BY DEF Executes, Busy, Fresh, Fits

LEMMA FinishedNotBusy == ~Busy(Finished) /\ \A ad : Fresh(Finished, ad) /\ Fits(Finished, ad)
BY IdleTyped DEF Busy, Fresh, Fits

\* A call that does not begin an execution, or begins it while there is no other,
\* leaves one at a time.
LEMMA StaysAlone ==
  ASSUME IInv, OneAtATime, NEW k \in Calls, NEW c \in Call, Set(k, c),
         Busy(c) => Busy(call[k]) \/ \A j \in Calls : ~Busy(call[j])
  PROVE  OneAtATime'
BY SetEffect DEF IInv, TypeOK, OneAtATime

\* A step of one call that leaves the admins.
LEMMA SerialQuiet ==
  ASSUME IInv, SerialInv, NEW k \in Calls, NEW c \in Call, Set(k, c), UNCHANGED admin,
         Busy(c) => Busy(call[k]) \/ \A j \in Calls : ~Busy(call[j]),
         Fresh(c, admin), Fits(c, admin)
  PROVE  SerialInv'
<1>1. /\ call'[k] = c
      /\ \A j \in Calls : j # k => call'[j] = call[j]
  BY SetEffect DEF IInv, TypeOK
<1>2. OneAtATime'
  BY StaysAlone DEF SerialInv
<1>3. SuperRemains'
  BY DEF SerialInv, SuperRemains, ActiveSupers
<1>4. \A j \in Calls : Fresh(call'[j], admin') /\ Fits(call'[j], admin')
  BY <1>1 DEF SerialInv
<1>5. QED
  BY <1>2, <1>3, <1>4 DEF SerialInv

\* A call that ends and leaves the admins.
LEMMA SerialEnds ==
  ASSUME IInv, SerialInv, NEW k \in Calls, Set(k, Finished), UNCHANGED admin
  PROVE  SerialInv'
BY SerialQuiet, FinishedNotBusy, IdleTyped

LEMMA SerialInit == Init => SerialInv
<1> SUFFICES ASSUME Init PROVE SerialInv
  OBVIOUS
<1>1. \A k \in Calls : call[k].pc = "idle"
  BY IdleTyped DEF Init
<1>2. PICK u \in Supers : u \in Users
  BY AdminAssumption
<1>3. IsSuper(admin[u])
  BY <1>2 DEF Init, IsSuper, FirstAdmin
<1>4. SuperRemains
  BY <1>2, <1>3 DEF SuperRemains, ActiveSupers
<1>5. QED
  BY <1>1, <1>4 DEF SerialInv, OneAtATime, Busy, Fresh, Fits

LEMMA SerialPropose ==
  ASSUME IInv, SerialInv, NEW k \in Calls, NEW u \in Users, NEW action \in Actions,
         NEW t \in Users, NEW r \in Roles, Propose(k, u, action, t, r)
  PROVE  SerialInv'
<1> PICK n \in Proposal : n = NewProposal(u, action, t, r)
  BY NewProposalTyped
<1> DEFINE c == [call[k] EXCEPT !.pc = "raise", !.op = "propose", !.actor = u, !.read = n]
<1>1. c \in Call /\ c.pc = "raise" /\ c.op = "propose"
  BY DEF IInv, TypeOK, Call
<1>2. ~Busy(c) /\ Fresh(c, admin) /\ Fits(c, admin)
  BY <1>1 DEF Busy, Executions, Fresh, Fits
<1>3. UNCHANGED admin /\ (Set(k, c) \/ Set(k, Finished))
  BY DEF Propose
<1>4. QED
  BY <1>1, <1>2, <1>3, SerialQuiet, SerialEnds

LEMMA SerialOpen ==
  ASSUME IInv, SerialInv, Exclusive, NEW k \in Calls, NEW u \in Users,
         NEW op \in Actions \cup Resolutions, NEW p \in Proposals, OpenProposal(k, u, op, p)
  PROVE  SerialInv'
<1> DEFINE c == [call[k] EXCEPT !.pc = "proposal", !.op = op, !.actor = u, !.id = p]
<1>1. c \in Call /\ c.pc = "proposal" /\ c.op = op
  BY DEF IInv, TypeOK, Call, Actions, Executions
<1>2. Fresh(c, admin) /\ Fits(c, admin)
  BY <1>1 DEF Fresh, Fits
<1>3. Busy(c) => \A j \in Calls : ~Busy(call[j])
  BY <1>1 DEF OpenProposal, MayBegin, Executing, Busy
<1>4. UNCHANGED admin /\ (Set(k, c) \/ Set(k, Finished))
  BY DEF OpenProposal
<1>5. QED
  BY <1>1, <1>2, <1>3, <1>4, SerialQuiet, SerialEnds

LEMMA SerialReadProposal ==
  ASSUME IInv, SerialInv, NEW k \in Calls, ReadProposal(k)
  PROVE  SerialInv'
<1>1. call[k] \in Call /\ Found(call[k], proposal) /\ call[k].pc = "proposal"
  BY DEF IInv, TypeOK, CallInv, Knows, ReadProposal
<1>2. call[k].id \in Proposals
  BY <1>1 DEF Found
<1>3. PICK q \in Proposal : q = proposal[call[k].id]
  BY <1>2 DEF IInv, TypeOK
<1>4. PICK next \in {"target", "resolve"} :
        next = IF call[k].op \in Actions THEN "target" ELSE "resolve"
  OBVIOUS
<1> PICK t \in Users, r \in Roles : t = q.target /\ r = q.role
  BY DEF Proposal, ProposalRow
<1> DEFINE c == [call[k] EXCEPT !.pc = next, !.read = q, !.target = t, !.role = r]
<1>5. c \in Call /\ c.pc = next /\ c.op = call[k].op
  BY <1>1 DEF Call
<1>6. Fresh(c, admin) /\ Fits(c, admin)
  BY <1>4, <1>5 DEF Fresh, Fits, Actions
<1>7. Busy(c) => Busy(call[k])
  BY <1>1, <1>5 DEF Busy
<1>8. UNCHANGED admin /\ (Set(k, c) \/ Set(k, Finished))
  BY <1>3, <1>4 DEF ReadProposal
<1>9. QED
  BY <1>5, <1>6, <1>7, <1>8, SerialQuiet, SerialEnds

LEMMA SerialRevoke ==
  ASSUME IInv, SerialInv, Exclusive, NEW k \in Calls, NEW u \in Users, NEW t \in Users,
         RevokeAdmin(k, u, t)
  PROVE  SerialInv'
<1> DEFINE c == [call[k] EXCEPT !.pc = "target", !.op = "revoke", !.actor = u, !.target = t]
<1>1. c \in Call /\ c.pc = "target" /\ c.op = "revoke" /\ c.actor = u /\ c.target = t
  BY DEF IInv, TypeOK, Call, Executions
<1>2. \A j \in Calls : ~Busy(call[j])
  BY DEF RevokeAdmin, MayBegin, Executing, Busy, Executions
<1>3. UNCHANGED admin
  BY DEF RevokeAdmin
<1>4. CASE MayRevoke(u, t)
  <2>1. Fresh(c, admin) /\ Fits(c, admin)
    BY <1>1, <1>4 DEF Fresh, Fits, MayRevoke
  <2>2. Set(k, c)
    BY <1>4 DEF RevokeAdmin
  <2>3. QED
    BY <1>1, <1>2, <1>3, <2>1, <2>2, SerialQuiet
<1>5. CASE ~MayRevoke(u, t)
  BY <1>3, <1>5, SerialEnds DEF RevokeAdmin
<1>6. QED
  BY <1>4, <1>5

\* The target's row decides: a provisioning finds it inactive, and only the count
\* follows for a demotion from super.
LEMMA AfterTargetFits ==
  ASSUME NEW c, NEW a, c.op \in Executions, AfterTarget(c, a) # "done"
  PROVE  /\ c.op = "provision" => ~a.isActive
         /\ c.op = "role" /\ AfterTarget(c, a) = "save" => a.role # "super"
<1>1. CASE c.op = "provision"
  BY <1>1 DEF AfterTarget
<1>2. CASE c.op = "revoke"
  BY <1>2
<1>3. CASE c.op = "role"
  BY <1>3 DEF AfterTarget
<1>4. QED
  BY <1>1, <1>2, <1>3 DEF Executions

LEMMA SerialReadTarget ==
  ASSUME IInv, SerialInv, NEW k \in Calls, ReadTarget(k)
  PROVE  SerialInv'
<1>1. /\ call[k] \in Call /\ Executes(call[k], proposal) /\ Fits(call[k], admin)
      /\ call[k].pc = "target"
  BY DEF IInv, TypeOK, CallInv, Knows, SerialInv, ReadTarget
<1>2. call[k].target \in Users /\ call[k].op \in Executions
  BY <1>1 DEF Call, Executes
<1>3. PICK a \in Admin : a = admin[call[k].target]
  BY <1>2 DEF IInv, TypeOK
<1>4. PICK next \in {"done", "count", "save"} : next = AfterTarget(call[k], a)
  BY <1>2, AfterTargetGoesOn
<1>5. UNCHANGED admin
  BY DEF ReadTarget
<1>6. CASE next = "done"
  BY <1>3, <1>4, <1>5, <1>6, SerialEnds DEF ReadTarget
<1>7. CASE next # "done"
  <2> DEFINE c == [call[k] EXCEPT !.pc = next, !.readTarget = a]
  <2>1. /\ c \in Call /\ c.pc = next /\ c.op = call[k].op
        /\ c.target = call[k].target /\ c.actor = call[k].actor /\ c.readTarget = a
    BY <1>1, <1>7 DEF Call
  <2>2. Fresh(c, admin) /\ (Busy(c) => Busy(call[k]))
    BY <1>1, <1>3, <2>1 DEF Fresh, Busy
  <2>3. /\ c.op = "provision" => ~a.isActive
        /\ c.op = "role" /\ next = "save" => a.role # "super"
    BY <1>2, <1>4, <1>7, <2>1, AfterTargetFits
  <2>4. Fits(c, admin)
    BY <1>1, <2>1, <2>3 DEF Fits
  <2>5. Set(k, c)
    BY <1>3, <1>4, <1>7 DEF ReadTarget
  <2>6. QED
    BY <1>5, <2>1, <2>2, <2>4, <2>5, SerialQuiet
<1>8. QED
  BY <1>6, <1>7

\* Among more than one active super admin there is another than any given user.
LEMMA AnotherSuper ==
  ASSUME NEW t \in Users, ~LastSuper
  PROVE  \E u \in Users \ {t} : IsSuper(admin[u])
<1> SUFFICES ASSUME \A u \in Users \ {t} : ~IsSuper(admin[u]) PROVE FALSE
  OBVIOUS
<1>1. ActiveSupers \subseteq {t}
  BY DEF ActiveSupers
<1>2. IsFiniteSet({t}) /\ Cardinality({t}) = 1
  BY FS_Singleton
<1>3. Cardinality(ActiveSupers) <= Cardinality({t})
  BY <1>1, <1>2, FS_Subset
<1>4. QED
  BY <1>2, <1>3 DEF LastSuper

LEMMA SerialCount ==
  ASSUME IInv, SerialInv, NEW k \in Calls, CountSupers(k)
  PROVE  SerialInv'
<1> DEFINE c == [call[k] EXCEPT !.pc = "save"]
<1>1. /\ call[k] \in Call /\ Fresh(call[k], admin) /\ Fits(call[k], admin)
      /\ call[k].pc = "count"
  BY DEF IInv, TypeOK, SerialInv, CountSupers
<1>2. /\ c \in Call /\ c.pc = "save" /\ c.op = call[k].op /\ c.actor = call[k].actor
      /\ c.target = call[k].target /\ c.readTarget = call[k].readTarget /\ c.target \in Users
  BY <1>1 DEF Call
<1>3. UNCHANGED admin
  BY DEF CountSupers
<1>4. CASE LastSuper
  BY <1>3, <1>4, SerialEnds DEF CountSupers
<1>5. CASE ~LastSuper
  <2>1. \E u \in Users \ {c.target} : IsSuper(admin[u])
    BY <1>2, <1>5, AnotherSuper
  <2>2. Fresh(c, admin) /\ Fits(c, admin) /\ (Busy(c) => Busy(call[k]))
    BY <1>1, <1>2, <2>1 DEF Fresh, Fits, Busy
  <2>3. Set(k, c)
    BY <1>5 DEF CountSupers
  <2>4. QED
    BY <1>2, <1>3, <2>2, <2>3, SerialQuiet
<1>6. QED
  BY <1>4, <1>5

\* The save leaves an active super admin: another than its target, or its target.
LEMMA SaveKeepsASuper ==
  ASSUME NEW c \in Call, c.op \in Executions, c.pc = "save", Fresh(c, admin), Fits(c, admin),
         admin \in [Users -> Admin], SuperRemains
  PROVE  \E u \in Users \ {c.target} : IsSuper(admin[u])
<1>1. c.actor \in Users
  BY DEF Call
<1>2. PICK u \in Users : IsSuper(admin[u])
  BY DEF SuperRemains, ActiveSupers
<1>3. CASE c.op = "provision"
  BY <1>2, <1>3 DEF Fresh, Fits, IsSuper
<1>4. CASE c.op = "revoke"
  BY <1>1, <1>4 DEF Fits
<1>5. CASE c.op = "role"
  BY <1>2, <1>5 DEF Fresh, Fits, IsSuper
<1>6. QED
  BY <1>3, <1>4, <1>5 DEF Executions

LEMMA SerialSave ==
  ASSUME IInv, SerialInv, NEW k \in Calls, SaveAdmin(k)
  PROVE  SerialInv'
<1>1. /\ call[k] \in Call /\ call[k].pc = "save"
      /\ Executes(call[k], proposal) /\ FoundTarget(call[k])
      /\ Fresh(call[k], admin) /\ Fits(call[k], admin)
      /\ admin \in [Users -> Admin]
  BY DEF IInv, TypeOK, CallInv, Knows, SerialInv, SaveAdmin
<1>2. call[k].op \in Executions /\ call[k].target \in Users
  BY <1>1 DEF Executes, Call
<1>3. PICK a \in Admin : a = Changed(call[k])
  BY <1>1, <1>2, ChangedTyped DEF FoundTarget
<1>4. Set(k, Finished)
  BY DEF SaveAdmin, Done
<1>5. /\ call' \in [Calls -> Call] /\ call'[k] = Finished
      /\ \A j \in Calls : j # k => call'[j] = call[j]
  BY <1>4, SetEffect, IdleTyped DEF IInv, TypeOK
<1>6. OneAtATime'
  BY <1>4, StaysAlone, FinishedNotBusy, IdleTyped DEF SerialInv
<1>7. SuperRemains'
  <2>1. PICK u \in Users \ {call[k].target} : IsSuper(admin[u])
    BY <1>1, <1>2, SaveKeepsASuper DEF SerialInv
  <2>2. admin'[u] = admin[u]
    BY <1>1, <1>3, <2>1 DEF SaveAdmin
  <2>3. QED
    BY <2>1, <2>2 DEF SuperRemains, ActiveSupers, IsSuper
<1>8. \A j \in Calls : Fresh(call'[j], admin') /\ Fits(call'[j], admin')
  <2> SUFFICES ASSUME NEW j \in Calls PROVE Fresh(call'[j], admin') /\ Fits(call'[j], admin')
    OBVIOUS
  <2>1. CASE j = k
    BY <1>5, <2>1, FinishedNotBusy
  <2>2. CASE j # k
    <3>1. Busy(call[k]) /\ Executes(call[j], proposal)
      BY <1>1, <1>2 DEF Busy, IInv, CallInv, Knows
    <3>2. ~Busy(call[j])
      BY <2>2, <3>1 DEF SerialInv, OneAtATime
    <3>3. call'[j] = call[j]
      BY <1>5, <2>2
    <3>4. QED
      BY <3>1, <3>2, <3>3, NotBusy
  <2>3. QED
    BY <2>1, <2>2
<1>9. QED
  BY <1>6, <1>7, <1>8 DEF SerialInv

LEMMA SerialNext == IInv /\ SerialInv /\ Exclusive /\ [Next]_vars => SerialInv'
<1> SUFFICES ASSUME IInv, SerialInv, Exclusive, [Next]_vars PROVE SerialInv'
  OBVIOUS
<1>1. CASE UNCHANGED vars
  BY <1>1 DEF vars, SerialInv, SuperRemains, ActiveSupers, OneAtATime
<1>2. ASSUME NEW k \in Calls, Begin(k) PROVE SerialInv'
  <2>1. PICK u \in Users :
          \/ \E action \in Actions, t \in Users, r \in Roles : Propose(k, u, action, t, r)
          \/ \E op \in Actions \cup Resolutions, p \in Proposals : OpenProposal(k, u, op, p)
          \/ \E t \in Users : RevokeAdmin(k, u, t)
    BY <1>2 DEF Begin
  <2>2. CASE \E action \in Actions, t \in Users, r \in Roles : Propose(k, u, action, t, r)
    BY <2>2, SerialPropose
  <2>3. CASE \E op \in Actions \cup Resolutions, p \in Proposals : OpenProposal(k, u, op, p)
    BY <2>3, SerialOpen
  <2>4. CASE \E t \in Users : RevokeAdmin(k, u, t)
    BY <2>4, SerialRevoke
  <2>5. QED
    BY <2>1, <2>2, <2>3, <2>4
<1>3. ASSUME NEW k \in Calls, Step(k) PROVE SerialInv'
  <2>1. CASE Raise(k) \/ Resolve(k)
    BY <2>1, SerialEnds DEF Raise, Resolve, Done
  <2>2. CASE ~(Raise(k) \/ Resolve(k))
    BY <1>3, <2>2, SerialReadProposal, SerialReadTarget, SerialCount, SerialSave DEF Step
  <2>3. QED
    BY <2>1, <2>2
<1>4. QED
  BY <1>1, <1>2, <1>3 DEF Next

\* Where provisioning, role updates and revocations never overlap, the console does
\* not lock itself out: MayRevoke and the count of the supers are enough then, and
\* only the gap between check and save breaks them.
THEOREM SuperRemainsSerially ==
  ASSUME Exclusive
  PROVE  Spec => []SuperRemains
<1>1. Init => IInv /\ SerialInv
  BY InitInv, SerialInit
<1>2. IInv /\ SerialInv /\ [Next]_vars => (IInv /\ SerialInv)'
  BY NextInv, SerialNext
<1>3. SerialInv => SuperRemains
  BY DEF SerialInv
<1>4. QED
  BY <1>1, <1>2, <1>3, PTL DEF Spec

\* A save changes its target alone, to the next version of the row that was read.
LEMMA SaveRaisesVersion ==
  ASSUME IInv, SerialInv, NEW k \in Calls, SaveAdmin(k), NEW u \in Users, admin'[u] # admin[u]
  PROVE  admin'[u].version = admin[u].version + 1
<1>1. /\ call[k] \in Call /\ call[k].pc = "save"
      /\ Executes(call[k], proposal) /\ FoundTarget(call[k]) /\ Fresh(call[k], admin)
      /\ admin \in [Users -> Admin]
  BY DEF IInv, TypeOK, CallInv, Knows, SerialInv, SaveAdmin
<1>2. call[k].op \in Executions
  BY <1>1 DEF Executes
<1>3. PICK a \in Admin : a = Changed(call[k])
  BY <1>1, <1>2, ChangedTyped DEF FoundTarget
<1>4. u = call[k].target /\ admin'[u] = a
  BY <1>1, <1>3 DEF SaveAdmin
<1>5. call[k].readTarget = admin[u]
  BY <1>1, <1>4 DEF Fresh
<1>6. a = call[k].readTarget \/ a.version = call[k].readTarget.version + 1
  BY <1>2, <1>3 DEF Changed, Executions
<1>7. QED
  BY <1>4, <1>5, <1>6

\* Where executions never overlap, no admin row is lost under another: what a call
\* saves is made from the row it replaces.
THEOREM AdminsAreKeptSerially ==
  ASSUME Exclusive
  PROVE  Spec => AdminsAreKept
<1> DEFINE Kept == \A u \in Users : admin'[u] # admin[u] => admin'[u].version = admin[u].version + 1
<1>1. Init => IInv /\ SerialInv
  BY InitInv, SerialInit
<1>2. IInv /\ SerialInv /\ [Next]_vars => (IInv /\ SerialInv)'
  BY NextInv, SerialNext
<1>3. IInv /\ SerialInv /\ [Next]_vars => [Kept]_vars
  <2> SUFFICES ASSUME IInv, SerialInv, Next PROVE Kept
    OBVIOUS
  <2>1. CASE UNCHANGED admin
    BY <2>1
  <2>2. CASE \E k \in Calls : SaveAdmin(k)
    BY <2>2, SaveRaisesVersion
  <2>3. QED
    BY <2>1, <2>2 DEF Next, Begin, Step, Propose, OpenProposal, RevokeAdmin,
                      Raise, ReadProposal, Resolve, ReadTarget, CountSupers
<1>4. QED
  BY <1>1, <1>2, <1>3, PTL DEF Spec, AdminsAreKept
=============================================================================
