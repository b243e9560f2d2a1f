----------------------------- MODULE Relations -----------------------------
(***************************************************************************)
(* The two graphs between tenants: a host and a venue (partnership), a     *)
(* promoter and a host or venue (connection).  One pair of each kind: the  *)
(* sides are "first" (host, promoter) and "second" (venue, target), and    *)
(* the rows are the requests made for the pair.  Only the side that did    *)
(* not ask may answer; either may block; a closed request stays closed.    *)
(***************************************************************************)
EXTENDS Requests

CONSTANTS
  Partnerships, Connections,   \* ids of their rows
  Shares,                      \* venue shares that can be negotiated
  MaxRelVersion  \* bound on the versions of a row

ASSUME RelAssumption ==
  /\ MaxRelVersion \in Nat \ {0}
  /\ IsFiniteSet(Partnerships) /\ IsFiniteSet(Connections)

VARIABLES relation   \* the rows of both collections

relVars == <<relation>>

Sides == {"first", "second"}
Relation == [status : {"pending", "active", "rejected", "blocked", "ended", "revoked"},
             by : Sides, share : Shares \cup {None}, age : Nat, version : 1..MaxRelVersion]
RelTypeOK == relation \in [Partnerships \cup Connections -> Relation \cup {None}]

KindOf(id) == IF id \in Partnerships THEN Partnerships ELSE Connections

PartnershipTransitions ==
  [pending |-> {"active", "rejected", "blocked", "ended"}, active |-> {"ended", "blocked"}]
ConnectionTransitions ==
  [pending |-> {"active", "rejected", "blocked", "revoked"}, active |-> {"revoked", "blocked"}]

\* The side that did not open the request.
CounterpartyOf(p) == IF p.by = "first" THEN "second" ELSE "first"
RecipientOf(x) == IF x.by = "first" THEN "second" ELSE "first"

IsLive(r) == r.status \in {"pending", "active"}

\* A transition to the status it has hands the row back as it was read.
MovePartnership(p, to) ==
  When(p.status = to \/ (IsLive(p) /\ to \in PartnershipTransitions[p.status]),
       IF p.status = to THEN p ELSE Bump([p EXCEPT !.status = to]))
MoveConnection(x, to) ==
  When(x.status = to \/ (IsLive(x) /\ to \in ConnectionTransitions[x.status]),
       IF x.status = to THEN x ELSE Bump([x EXCEPT !.status = to]))

ApprovePartnership(p, side) ==
  IF side = CounterpartyOf(p) THEN MovePartnership(p, "active") ELSE {}
RejectPartnership(p, side) ==
  IF side = CounterpartyOf(p) THEN MovePartnership(p, "rejected") ELSE {}

\* Ending a request nobody answered is the asker's withdrawal.
EndPartnership(p, side) ==
  IF p.status = "pending" /\ side = CounterpartyOf(p) THEN {} ELSE MovePartnership(p, "ended")

BlockPartnership(p) == MovePartnership(p, "blocked")

SetVenueShare(p, share) ==
  When(p.status = "active", IF p.share = share THEN p ELSE Bump([p EXCEPT !.share = share]))

ApproveConnection(x, side) ==
  IF side = RecipientOf(x) THEN MoveConnection(x, "active") ELSE {}
RejectConnection(x, side) ==
  IF side = RecipientOf(x) THEN MoveConnection(x, "rejected") ELSE {}
BlockConnection(x) == MoveConnection(x, "blocked")
RevokeConnection(x, side) == IF side = "first" THEN MoveConnection(x, "revoked") ELSE {}

PartnershipRule(q, p) ==
  CASE q.op = "approve" -> ApprovePartnership(p, q.who)
    [] q.op = "reject"  -> RejectPartnership(p, q.who)
    [] q.op = "block"   -> BlockPartnership(p)
    [] q.op = "end"     -> EndPartnership(p, q.who)
    [] q.op = "share"   -> SetVenueShare(p, q.arg)

ConnectionRule(q, x) ==
  CASE q.op = "approve" -> ApproveConnection(x, q.who)
    [] q.op = "reject"  -> RejectConnection(x, q.who)
    [] q.op = "block"   -> BlockConnection(x)
    [] q.op = "end"     -> RevokeConnection(x, q.who)

---------------------------------------------------------------------------
(* The repositories.                                                       *)

RowsFor(ids) == {id \in ids : relation[id] # None}

\* The live row of the pair if there is one, or its latest.
FindByPair(ids) ==
  {id \in RowsFor(ids) :
     \/ IsLive(relation[id])
     \/ /\ \A other \in RowsFor(ids) : ~IsLive(relation[other])
        /\ \A other \in RowsFor(ids) : relation[other].age <= relation[id].age}

---------------------------------------------------------------------------
(* The routes and the services.                                            *)

\* A row's id is fresh.
PostPartnership(c, side, id) ==
  /\ id \in Partnerships /\ relation[id] = None /\ \A d \in Calls : call[d].on # id
  /\ \E share \in Shares \cup {None} : Arrive(c, "ask", side, id, share)

\* Or the side browses for partners first, and asks from the card it is shown.
GetDiscovery(c, side, id) ==
  /\ relation[id] = None /\ \A d \in Calls : call[d].on # id
  /\ Arrive(c, "discover", side, id, None)

PostConnection(c, side, id) ==
  /\ id \in Connections /\ relation[id] = None /\ \A d \in Calls : call[d].on # id
  /\ Arrive(c, "ask", side, id, None)

PostPartnershipAnswer(c, side, id) ==
  /\ id \in Partnerships /\ relation[id] # None
  /\ \/ \E op \in {"approve", "reject", "block", "end"} : Arrive(c, op, side, id, None)
     \/ \E share \in Shares \cup {None} : Arrive(c, "share", side, id, share)

PostConnectionAnswer(c, side, id) ==
  /\ id \in Connections /\ relation[id] # None
  /\ \E op \in {"approve", "reject", "block", "end"} : Arrive(c, op, side, id, None)

RelArrives(c, ids) ==
  /\ \E side \in Sides, id \in ids :
       \/ PostPartnership(c, side, id) \/ PostConnection(c, side, id)
       \/ GetDiscovery(c, side, id)
       \/ PostPartnershipAnswer(c, side, id) \/ PostConnectionAnswer(c, side, id)
  /\ UNCHANGED relVars

\* A counterpart is offered unless a live relation stands between the two, a blocked
\* one too; the request its card sends looks for itself.
Discover(c) ==
  /\ At(c, "discover", "read")
  /\ IF \A id \in RowsFor(KindOf(call[c].on)) : ~IsLive(relation[id])
     THEN call' = [call EXCEPT ![c].op = "ask"]
     ELSE Leave(c)
  /\ UNCHANGED relVars

NewRelation(q) ==
  [status |-> "pending", by |-> q.who, share |-> q.arg,
   age |-> Cardinality(RowsFor(KindOf(q.on))), version |-> 1]

\* One live relation for a pair, and none once it is blocked: looked up here,
\* relied on when the row is saved.
AskPartnership(c) ==
  /\ At(c, "ask", "read") /\ call[c].on \in Partnerships
  /\ Decide(c, When(\A id \in FindByPair(Partnerships) :
                       ~IsLive(relation[id]) /\ relation[id].status # "blocked",
                    NewRelation(call[c])), "saveRelation")
  /\ UNCHANGED relVars

AskConnection(c) ==
  /\ At(c, "ask", "read") /\ call[c].on \in Connections
  /\ Decide(c, When(\A id \in FindByPair(Connections) :
                       ~IsLive(relation[id]) /\ relation[id].status # "blocked",
                    NewRelation(call[c])), "saveRelation")
  /\ UNCHANGED relVars

AnswerPartnership(c) ==
  LET q == call[c] IN
  /\ q.op \in {"approve", "reject", "block", "end", "share"} /\ q.pc = "read"
  /\ q.on \in Partnerships /\ HasRoom(relation[q.on], MaxRelVersion)
  /\ Decide(c, PartnershipRule(q, relation[q.on]), "saveRelation")
  /\ UNCHANGED relVars

AnswerConnection(c) ==
  LET q == call[c] IN
  /\ q.op \in {"approve", "reject", "block", "end"} /\ q.pc = "read"
  /\ q.on \in Connections /\ HasRoom(relation[q.on], MaxRelVersion)
  /\ Decide(c, ConnectionRule(q, relation[q.on]), "saveRelation")
  /\ UNCHANGED relVars

SaveRelation(c) ==
  /\ call[c].pc = "saveRelation"
  /\ relation' = Written(relation, call[c].on, call[c].row)
  /\ Leave(c)

RelInit == relation = [id \in Partnerships \cup Connections |-> None]

RelStep(c, ids) ==
  \/ RelArrives(c, ids) \/ Discover(c) \/ AskPartnership(c) \/ AskConnection(c)
  \/ AnswerPartnership(c) \/ AnswerConnection(c) \/ SaveRelation(c)

---------------------------------------------------------------------------

\* A closed relation is closed for good, its negotiated share with it: an answer
\* or a share that was read before the close cannot reopen or change it.
ClosedIsFinal ==
  [][\A id \in DOMAIN relation :
       relation[id] # None /\ ~IsLive(relation[id]) => relation'[id] = relation[id]]_relation
=============================================================================
