--------------------------- MODULE PartnersProofs ---------------------------
(***************************************************************************)
(* Proofs about the partners: relations, referral links, onboarding and    *)
(* organisations, for any number of requests, members, codes and rows.     *)
(*                                                                         *)
(* A behaviour exercises one component.  Each has an inductive invariant   *)
(* of its rows and of what every request in flight knows of the row it     *)
(* read: a row that would still be written over the stored version follows *)
(* it by a rule of the domain.                                             *)
(***************************************************************************)
EXTENDS MCPartners, FiniteSetTheorems, TLAPS

Shaped(q) == q = [op |-> q.op, pc |-> q.pc, who |-> q.who, on |-> q.on,
                  arg |-> q.arg, row |-> q.row]

CallsShaped ==
  /\ call = [c \in Calls |-> call[c]]
  /\ \A c \in Calls : Shaped(call[c]) /\ (Free(c) => call[c] = Idle)

\* c's call becomes q, the others stay.
Becomes(c, q) ==
  /\ CallsShaped' /\ call'[c] = q
  /\ \A d \in Calls : d # c => call'[d] = call[d]

LEMMA IdleShaped == Shaped(Idle) /\ Idle.pc = "idle"
BY DEF Shaped, Idle

LEMMA Arriving ==
  ASSUME CallsShaped, NEW c \in Calls, NEW op, NEW who, NEW on, NEW arg,
         Arrive(c, op, who, on, arg)
  PROVE  /\ call[c] = Idle
         /\ Becomes(c, [op |-> op, pc |-> "read", who |-> who, on |-> on, arg |-> arg, row |-> None])
BY DEF CallsShaped, Arrive, Becomes, Shaped, Free

LEMMA Going ==
  ASSUME CallsShaped, NEW c \in Calls, NEW pc, NEW row, pc # "idle", Goto(c, pc, row)
  PROVE  LET q == call[c] IN
         Becomes(c, [op |-> q.op, pc |-> pc, who |-> q.who, on |-> q.on, arg |-> q.arg, row |-> row])
<1> DEFINE Typed == [Calls -> [op : {call[d].op : d \in Calls}, pc : {call[d].pc : d \in Calls},
                               who : {call[d].who : d \in Calls}, on : {call[d].on : d \in Calls},
                               arg : {call[d].arg : d \in Calls}, row : {call[d].row : d \in Calls}]]
<1>1. call \in Typed
  BY DEF CallsShaped, Shaped
<1>2. /\ call' = [d \in Calls |-> call'[d]]
      /\ \A d \in Calls : d # c => call'[d] = call[d]
      /\ call'[c] = [op |-> call[c].op, pc |-> pc, who |-> call[c].who, on |-> call[c].on,
                     arg |-> call[c].arg, row |-> row]
  BY <1>1 DEF Goto
<1> QED
  BY <1>2 DEF CallsShaped, Becomes, Free, Shaped

LEMMA Turning ==
  ASSUME CallsShaped, NEW c \in Calls, NEW op, call' = [call EXCEPT ![c].op = op], ~Free(c)
  PROVE  LET q == call[c] IN
         Becomes(c, [op |-> op, pc |-> q.pc, who |-> q.who, on |-> q.on, arg |-> q.arg, row |-> q.row])
<1> DEFINE Typed == [Calls -> [op : {call[d].op : d \in Calls}, pc : {call[d].pc : d \in Calls},
                               who : {call[d].who : d \in Calls}, on : {call[d].on : d \in Calls},
                               arg : {call[d].arg : d \in Calls}, row : {call[d].row : d \in Calls}]]
<1>1. call \in Typed
  BY DEF CallsShaped, Shaped
<1>2. /\ call' = [d \in Calls |-> call'[d]]
      /\ \A d \in Calls : d # c => call'[d] = call[d]
      /\ call'[c] = [op |-> op, pc |-> call[c].pc, who |-> call[c].who, on |-> call[c].on,
                     arg |-> call[c].arg, row |-> call[c].row]
  BY <1>1
<1> QED
  BY <1>2 DEF CallsShaped, Becomes, Free, Shaped

LEMMA Leaving ==
  ASSUME CallsShaped, NEW c \in Calls, Leave(c)
  PROVE  Becomes(c, Idle)
BY IdleShaped DEF CallsShaped, Leave, Becomes, Free

---------------------------------------------------------------------------
(* Partnerships and connections.                                           *)

RelIds == Partnerships \cup Connections
Asking == {"ask", "discover"}

\* A row that answers p: p as it was read, or the next version of a live p.
Answers(p, r) ==
  /\ r \in Relation /\ r.status # "pending"
  /\ r = p \/ (IsLive(p) /\ r.version = p.version + 1)

LEMMA RelBumped ==
  ASSUME NEW p \in Relation, p.version < MaxRelVersion
  PROVE  /\ \A to \in {"active", "rejected", "blocked", "ended", "revoked"} :
              LET r == Bump([p EXCEPT !.status = to]) IN
              r \in Relation /\ r.status = to /\ r.version = p.version + 1
         /\ \A share \in Shares \cup {None} :
              LET r == Bump([p EXCEPT !.share = share]) IN
              r \in Relation /\ r.status = p.status /\ r.version = p.version + 1
<1>1. ASSUME NEW s \in Relation, s.version = p.version
      PROVE  LET r == Bump(s) IN
             r \in Relation /\ r.status = s.status /\ r.version = p.version + 1
  BY <1>1, RelAssumption DEF Relation, Bump
<1>2. ASSUME NEW to \in {"active", "rejected", "blocked", "ended", "revoked"}
      PROVE  LET s == [p EXCEPT !.status = to] IN
             s \in Relation /\ s.version = p.version /\ s.status = to
  BY DEF Relation
<1>3. ASSUME NEW share \in Shares \cup {None}
      PROVE  LET s == [p EXCEPT !.share = share] IN
             s \in Relation /\ s.version = p.version /\ s.status = p.status
  BY DEF Relation
<1> QED
  BY <1>1, <1>2, <1>3

LEMMA MovesAnswer ==
  ASSUME NEW p \in Relation, p.version < MaxRelVersion,
         NEW to \in {"active", "rejected", "blocked", "ended", "revoked"},
         NEW r \in MovePartnership(p, to) \cup MoveConnection(p, to)
  PROVE  Answers(p, r)
<1>1. \/ r = p /\ p.status = to
      \/ IsLive(p) /\ r = Bump([p EXCEPT !.status = to])
  BY DEF MovePartnership, MoveConnection, When
<1>2. Bump([p EXCEPT !.status = to]) \in Relation /\ Bump([p EXCEPT !.status = to]).status = to
      /\ Bump([p EXCEPT !.status = to]).version = p.version + 1
  BY RelBumped
<1> QED
  BY <1>1, <1>2 DEF Answers

LEMMA RulesAnswer ==
  ASSUME NEW p \in Relation, p.version < MaxRelVersion, NEW q
  PROVE  /\ q.op \in {"approve", "reject", "block", "end", "share"} /\ q.arg \in Shares \cup {None}
              => \A r \in PartnershipRule(q, p) : Answers(p, r)
         /\ q.op \in {"approve", "reject", "block", "end"}
              => \A r \in ConnectionRule(q, p) : Answers(p, r)
<1>1. ASSUME q.op \in {"approve", "reject", "block", "end"}, NEW r \in PartnershipRule(q, p)
      PROVE  Answers(p, r)
  BY <1>1, MovesAnswer DEF PartnershipRule, ApprovePartnership, RejectPartnership, EndPartnership,
       BlockPartnership
<1>2. ASSUME q.op = "share", q.arg \in Shares \cup {None}, NEW r \in PartnershipRule(q, p)
      PROVE  Answers(p, r)
  <2>1. r \in SetVenueShare(p, q.arg)
    BY <1>2 DEF PartnershipRule
  <2> QED
    <3>1. p.status = "active" /\ (r = p \/ r = Bump([p EXCEPT !.share = q.arg]))
      BY <2>1 DEF SetVenueShare, When
    <3>2. /\ Bump([p EXCEPT !.share = q.arg]) \in Relation
          /\ Bump([p EXCEPT !.share = q.arg]).status = p.status
          /\ Bump([p EXCEPT !.share = q.arg]).version = p.version + 1
      BY <1>2, RelBumped
    <3> QED
      BY <3>1, <3>2 DEF Answers, IsLive
<1>3. ASSUME q.op \in {"approve", "reject", "block", "end"}, NEW r \in ConnectionRule(q, p)
      PROVE  Answers(p, r)
  BY <1>3, MovesAnswer DEF ConnectionRule, ApproveConnection, RejectConnection, BlockConnection,
       RevokeConnection
<1> QED
  BY <1>1, <1>2, <1>3

\* What a request about a relation knows.  The id of a new row is its own until the
\* row is there; an answer to the row as it stands was read while the row was live.
RelCall(c) ==
  LET q == call[c] IN
  q.pc # "idle" =>
    /\ q.pc \in {"read", "saveRelation"} /\ q.on \in RelIds /\ q.who \in Sides
    /\ q.op \in Asking \cup {"approve", "reject", "block", "end", "share"}
    /\ q.arg \in Shares \cup {None}
    /\ q.op \in Asking =>
         /\ q.on # None /\ relation[q.on] = None
         /\ \A d \in Calls : d # c => call[d].on # q.on
    /\ q.pc = "saveRelation" => q.row \in Relation
    /\ q.pc = "saveRelation" /\ q.op \in Asking => q.row.status = "pending" /\ q.row.version = 1
    /\ q.pc = "saveRelation" /\ q.op \notin Asking =>
         /\ q.row.status # "pending" /\ q.row.version > 1
         /\ relation[q.on] # None =>
              /\ q.row.version <= relation[q.on].version + 1
              /\ q.row.version = relation[q.on].version + 1 => IsLive(relation[q.on])

\* A row's first version is the request itself, which nobody has answered.
FirstIsPending ==
  \A id \in RelIds : relation[id] # None /\ relation[id].version = 1 => relation[id].status = "pending"

RelCalls == part \in {"partnership", "connection"} => CallsShaped /\ \A c \in Calls : RelCall(c)

RelInv == RelTypeOK /\ FirstIsPending /\ RelCalls

\* Nothing of a step outside the part that works on relations matters to it.
LEMMA RelElsewhere ==
  ASSUME RelInv, part' = part, UNCHANGED relVars,
         part \notin {"partnership", "connection"}
  PROVE  RelInv'
BY DEF RelInv, RelTypeOK, FirstIsPending, RelCalls, relVars

LEMMA RelInit0 == Init => RelInv
<1> SUFFICES ASSUME Init PROVE RelInv
  OBVIOUS
<1>1. RelTypeOK /\ FirstIsPending
  BY DEF Init, RelInit, RelTypeOK, FirstIsPending, RelIds
<1>2. CallsShaped /\ \A c \in Calls : RelCall(c)
  BY DEF Init, CallsShaped, Shaped, Idle, RelCall
<1> QED
  BY <1>1, <1>2 DEF RelInv, RelCalls

\* A call that leaves the rows alone keeps the invariant when what it knows now is true,
\* and the row it names is no other request's new one.
LEMMA RelQuiet ==
  ASSUME RelInv, NEW c \in Calls, NEW q, Becomes(c, q), RelCall(c)', UNCHANGED relation,
         UNCHANGED part, part \in {"partnership", "connection"},
         \/ q.on \in {call[c].on, None}
         \/ \A d \in Calls : call[d].pc # "idle" /\ call[d].op \in Asking => call[d].on # q.on
  PROVE  RelInv'
<1>1. ASSUME NEW d \in Calls, d # c PROVE RelCall(d)'
  BY <1>1 DEF RelInv, RelCalls, RelCall, Becomes
<1> QED
  BY <1>1 DEF RelInv, RelCalls, RelTypeOK, FirstIsPending, Becomes

\* A row may be written: as the first of its id, or over its predecessor.
LEMMA RelSaves ==
  ASSUME RelInv, NEW c \in Calls, part \in {"partnership", "connection"}, UNCHANGED part,
         SaveRelation(c)
  PROVE  RelInv'
<1> DEFINE q == call[c]
<1>0. RelCall(c) /\ CallsShaped /\ q.pc = "saveRelation" /\ Becomes(c, Idle)
  BY Leaving DEF RelInv, RelCalls, SaveRelation
<1>1. q.on \in RelIds /\ q.row \in Relation /\ q.row.version \in Nat
  BY <1>0, RelAssumption DEF RelCall, Relation
<1>2. RelCall(c)'
  BY <1>0 DEF RelCall, Becomes, Idle
<1>3. CASE UNCHANGED relation
  BY <1>0, <1>2, <1>3, RelQuiet DEF Idle
<1>4. CASE relation' # relation
  <2>1. relation' = [relation EXCEPT ![q.on] = q.row] /\ MayWrite(relation[q.on], q.row)
    BY <1>4 DEF SaveRelation, Written
  <2>2. RelTypeOK'
    BY <1>1, <2>1 DEF RelInv, RelTypeOK, RelIds
  <2>3. \A id \in RelIds : relation[id] # None => relation[id] \in Relation
    BY DEF RelInv, RelTypeOK, RelIds
  <2>4. relation[q.on] # None => relation[q.on].version \in Nat
    BY <1>1, <2>3, RelAssumption DEF Relation
  <2>5. FirstIsPending'
    BY <1>0, <1>1, <2>1 DEF RelInv, RelTypeOK, RelIds, FirstIsPending, RelCall
  <2>6. ASSUME NEW d \in Calls, d # c PROVE RelCall(d)'
    <3>1. RelCall(d) /\ call'[d] = call[d]
      BY <1>0, <2>6 DEF RelInv, RelCalls, Becomes
    <3>2. CASE call[d].pc = "idle"
      BY <3>1, <3>2 DEF RelCall
    <3>3. CASE call[d].pc # "idle" /\ call[d].on # q.on
      <4>1. call[d].on \in RelIds /\ relation'[call[d].on] = relation[call[d].on]
        BY <2>1, <3>1, <3>3 DEF RelCall, RelInv, RelTypeOK, RelIds
      <4> QED
        BY <1>0, <2>6, <3>1, <3>3, <4>1 DEF RelCall, Becomes, Idle
    <3>4. CASE call[d].pc # "idle" /\ call[d].on = q.on
      <4>1. q.op \notin Asking /\ call[d].op \notin Asking
        BY <1>0, <2>6, <3>1, <3>4 DEF RelCall
      <4>2. relation[q.on] # None /\ q.row.version = relation[q.on].version + 1
        BY <1>0, <1>1, <2>1, <2>4, <4>1 DEF RelCall, MayWrite
      <4>3. relation'[q.on] = q.row
        BY <1>1, <2>1 DEF RelInv, RelTypeOK, RelIds
      <4>4. call[d].pc = "saveRelation" => call[d].row.version \in Nat
        BY <3>1, <3>4, RelAssumption DEF RelCall, Relation
      <4> QED
        BY <1>1, <2>4, <3>1, <3>4, <4>1, <4>2, <4>3, <4>4 DEF RelCall
    <3> QED
      BY <3>2, <3>3, <3>4
  <2> QED
    BY <1>0, <1>2, <2>2, <2>5, <2>6 DEF RelInv, RelCalls, Becomes
<1> QED
  BY <1>3, <1>4

LEMMA RelArrival ==
  ASSUME RelInv, NEW c \in Calls, part \in {"partnership", "connection"}, UNCHANGED part,
         NEW ids \in {Partnerships, Connections}, RelArrives(c, ids)
  PROVE  RelInv'
<1>0. CallsShaped /\ UNCHANGED relation
  BY DEF RelInv, RelCalls, RelArrives, relVars
<1>1. PICK side \in Sides, id \in RelIds :
        \/ PostPartnership(c, side, id) \/ PostConnection(c, side, id) \/ GetDiscovery(c, side, id)
        \/ PostPartnershipAnswer(c, side, id) \/ PostConnectionAnswer(c, side, id)
  BY DEF RelArrives, RelIds
<1>2. CASE \/ PostPartnership(c, side, id) \/ PostConnection(c, side, id)
           \/ GetDiscovery(c, side, id)
  <2>1. PICK op \in Asking, arg \in Shares \cup {None} : Arrive(c, op, side, id, arg)
    BY <1>2 DEF PostPartnership, PostConnection, GetDiscovery, Asking
  <2>2. relation[id] = None /\ \A d \in Calls : call[d].on # id
    BY <1>2 DEF PostPartnership, PostConnection, GetDiscovery
  <2>3. /\ call[c] = Idle
        /\ Becomes(c, [op |-> op, pc |-> "read", who |-> side, on |-> id, arg |-> arg, row |-> None])
    BY <1>0, <2>1, Arriving
  <2>4. RelCall(c)'
    BY <1>0, <2>2, <2>3 DEF RelCall, Becomes, Asking, Idle
  <2> QED
    BY <1>0, <2>2, <2>3, <2>4, RelQuiet
<1>3. CASE PostPartnershipAnswer(c, side, id) \/ PostConnectionAnswer(c, side, id)
  <2>1. PICK op \in {"approve", "reject", "block", "end", "share"}, arg \in Shares \cup {None} :
          Arrive(c, op, side, id, arg)
    BY <1>3 DEF PostPartnershipAnswer, PostConnectionAnswer
  <2>2. relation[id] # None
    BY <1>3 DEF PostPartnershipAnswer, PostConnectionAnswer
  <2>3. Becomes(c, [op |-> op, pc |-> "read", who |-> side, on |-> id, arg |-> arg, row |-> None])
    BY <1>0, <2>1, Arriving
  <2>4. RelCall(c)'
    BY <1>0, <2>3 DEF RelCall, Becomes, Asking
  <2>5. \A d \in Calls : call[d].pc # "idle" /\ call[d].op \in Asking => call[d].on # id
    BY <2>2 DEF RelInv, RelCalls, RelCall
  <2> QED
    BY <1>0, <2>3, <2>4, <2>5, RelQuiet
<1> QED
  BY <1>1, <1>2, <1>3

\* Deciding to write, or to leave.
LEMMA RelDecides ==
  ASSUME RelInv, NEW c \in Calls, part \in {"partnership", "connection"}, UNCHANGED part,
         NEW rows, call[c].pc = "read", Decide(c, rows, "saveRelation"), UNCHANGED relation,
         \A r \in rows :
           /\ r \in Relation
           /\ call[c].op \in Asking => r.status = "pending" /\ r.version = 1
           /\ call[c].op \notin Asking =>
                /\ relation[call[c].on] # None /\ relation[call[c].on] \in Relation
                /\ Answers(relation[call[c].on], r)
  PROVE  RelInv'
<1>0. RelCall(c) /\ CallsShaped
  BY DEF RelInv, RelCalls
<1>1. CASE Leave(c)
  <2>1. Becomes(c, Idle)
    BY <1>0, <1>1, Leaving
  <2>2. RelCall(c)'
    BY <2>1 DEF RelCall, Becomes, Idle
  <2> QED
    BY <2>1, <2>2, RelQuiet DEF Idle
<1>2. CASE \E r \in rows : Goto(c, "saveRelation", r)
  <2>1. PICK r \in rows : Goto(c, "saveRelation", r)
    BY <1>2
  <2> DEFINE q == call[c]
             new == [op |-> q.op, pc |-> "saveRelation", who |-> q.who, on |-> q.on, arg |-> q.arg,
                     row |-> r]
  <2>2. Becomes(c, new)
    BY <1>0, <2>1, Going
  <2>3. q.op \notin Asking => r.version > 1 /\ r.status # "pending"
    <3>1. SUFFICES ASSUME q.op \notin Asking PROVE r.version > 1 /\ r.status # "pending"
      OBVIOUS
    <3>2. relation[q.on] \in Relation /\ relation[q.on].version \in Nat \ {0}
      BY <3>1, RelAssumption DEF Relation
    <3>3. relation[q.on].version = 1 => relation[q.on].status = "pending"
      BY <1>0, <3>1 DEF RelInv, FirstIsPending, RelCall, Answers
    <3> QED
      BY <3>1, <3>2, <3>3 DEF Answers
  <2>4. q.op \notin Asking => relation[q.on].version \in Nat
    BY RelAssumption DEF Relation
  <2>5. RelCall(c)'
    BY <1>0, <2>2, <2>3, <2>4 DEF RelCall, Becomes, Answers
  <2> QED
    BY <2>2, <2>5, RelQuiet
<1> QED
  BY <1>1, <1>2 DEF Decide

LEMMA RelWorks ==
  ASSUME RelInv, NEW c \in Calls, part \in {"partnership", "connection"}, UNCHANGED part,
         NEW ids \in {Partnerships, Connections}, RelStep(c, ids)
  PROVE  RelInv'
<1> DEFINE q == call[c]
<1>0. RelCall(c) /\ CallsShaped
  BY DEF RelInv, RelCalls
<1>1. CASE RelArrives(c, ids)
  BY <1>1, RelArrival
<1>2. CASE Discover(c)
  <2>1. UNCHANGED relation /\ q.pc = "read" /\ q.op = "discover"
    BY <1>2 DEF Discover, At, relVars
  <2>2. CASE call' = [call EXCEPT ![c].op = "ask"]
    <3> DEFINE new == [op |-> "ask", pc |-> q.pc, who |-> q.who, on |-> q.on, arg |-> q.arg,
                       row |-> q.row]
    <3>1. Becomes(c, new)
      BY <1>0, <2>1, <2>2, Turning DEF Free
    <3>2. RelCall(c)'
      BY <1>0, <2>1, <3>1 DEF RelCall, Becomes, Asking
    <3> QED
      BY <2>1, <3>1, <3>2, RelQuiet
  <2>3. CASE Leave(c)
    <3>1. Becomes(c, Idle)
      BY <1>0, <2>3, Leaving
    <3>2. RelCall(c)'
      BY <3>1 DEF RelCall, Becomes, Idle
    <3> QED
      BY <2>1, <3>1, <3>2, RelQuiet DEF Idle
  <2> QED
    BY <1>2, <2>2, <2>3 DEF Discover
<1>3. ASSUME NEW rows \in SUBSET {NewRelation(q)}, q.pc = "read", q.op = "ask",
             Decide(c, rows, "saveRelation"), UNCHANGED relVars
      PROVE  RelInv'
  <2>1. NewRelation(q).status = "pending" /\ NewRelation(q).version = 1
    BY DEF NewRelation
  <2>2. NewRelation(q) \in Relation
    <3>1. IsFiniteSet(RowsFor(KindOf(q.on)))
      BY RelAssumption, FS_Subset DEF RowsFor, KindOf
    <3>2. Cardinality(RowsFor(KindOf(q.on))) \in Nat
      BY <3>1, FS_CardinalityType
    <3> QED
      BY <1>0, <1>3, <3>2, RelAssumption DEF RelCall, NewRelation, Relation
  <2> QED
    BY <1>3, <2>1, <2>2, RelDecides DEF Asking, relVars
<1>4. CASE AskPartnership(c) \/ AskConnection(c)
  BY <1>3, <1>4 DEF AskPartnership, AskConnection, At, When
<1>5. ASSUME q.op \in {"approve", "reject", "block", "end", "share"}, q.pc = "read",
             HasRoom(relation[q.on], MaxRelVersion), UNCHANGED relVars,
             \/ Decide(c, PartnershipRule(q, relation[q.on]), "saveRelation")
             \/ q.op # "share" /\ Decide(c, ConnectionRule(q, relation[q.on]), "saveRelation")
      PROVE  RelInv'
  <2>1. /\ relation[q.on] # None /\ relation[q.on] \in Relation
        /\ relation[q.on].version < MaxRelVersion
    BY <1>0, <1>5 DEF HasRoom, RelCall, RelInv, RelTypeOK, RelIds
  <2>2. /\ \A r \in PartnershipRule(q, relation[q.on]) : Answers(relation[q.on], r)
        /\ q.op # "share" => \A r \in ConnectionRule(q, relation[q.on]) : Answers(relation[q.on], r)
    BY <1>0, <1>5, <2>1, RulesAnswer DEF RelCall
  <2> QED
    BY <1>5, <2>1, <2>2, RelDecides DEF Answers, Asking, relVars
<1>6. CASE AnswerPartnership(c) \/ AnswerConnection(c)
  BY <1>5, <1>6 DEF AnswerPartnership, AnswerConnection
<1>7. CASE SaveRelation(c)
  BY <1>7, RelSaves
<1> QED
  BY <1>1, <1>2, <1>4, <1>6, <1>7 DEF RelStep

LEMMA RelNext == RelInv /\ [Next]_partnersVars => RelInv'
<1> SUFFICES ASSUME RelInv, [Next]_partnersVars PROVE RelInv'
  OBVIOUS
<1>1. CASE UNCHANGED partnersVars
  BY <1>1 DEF partnersVars, relVars, RelInv, RelTypeOK, FirstIsPending, RelCalls, CallsShaped, RelCall,
       Free
<1>2. CASE part' = part /\ UNCHANGED relVars /\ part \notin {"partnership", "connection"}
  BY <1>2, RelElsewhere
<1>3. ASSUME part \in {"partnership", "connection"}, part' = part, NEW c \in Calls, Dies(c)
      PROVE  RelInv'
  <2>1. CallsShaped /\ Leave(c) /\ UNCHANGED relation
    BY <1>3 DEF Dies, RelInv, RelCalls, relVars
  <2>2. Becomes(c, Idle)
    BY <2>1, Leaving
  <2>3. RelCall(c)'
    BY <2>2 DEF RelCall, Becomes, Idle
  <2> QED
    BY <1>3, <2>1, <2>2, <2>3, RelQuiet DEF Idle
<1>4. CASE RelationPart /\ part' = part
  BY <1>4, RelWorks DEF RelationPart
<1> QED
  BY <1>1, <1>2, <1>3, <1>4 DEF Next, OrganizationPart, ReferralPart, OnboardingPart, AccessPart, Dies,
       RelationPart

LEMMA RelAlways == Spec => []RelInv
BY RelInit0, RelNext, PTL DEF Spec

\* A closed relation is closed for good.
LEMMA ClosedStep ==
  RelInv /\ [Next]_partnersVars =>
    [\A id \in DOMAIN relation :
       relation[id] # None /\ ~IsLive(relation[id]) => relation'[id] = relation[id]]_relation
<1> SUFFICES ASSUME RelInv, [Next]_partnersVars, relation' # relation,
                    NEW id \in DOMAIN relation, relation[id] # None, ~IsLive(relation[id])
             PROVE  relation'[id] = relation[id]
  OBVIOUS
<1>1. PICK c \in Calls : SaveRelation(c) /\ part \in {"partnership", "connection"}
  BY DEF Next, OrganizationPart, ReferralPart, OnboardingPart, AccessPart, Dies, RelationPart,
       RelStep, RelArrives, Discover, AskPartnership, AskConnection, AnswerPartnership,
       AnswerConnection, relVars, partnersVars
<1> DEFINE q == call[c]
<1>2. /\ relation' = [relation EXCEPT ![q.on] = q.row] /\ MayWrite(relation[q.on], q.row)
      /\ q.pc = "saveRelation" /\ RelCall(c)
  BY <1>1 DEF SaveRelation, Written, RelInv, RelCalls
<1>3. CASE id = q.on
  <2>1. q.op \notin Asking /\ q.row.version > 1
    BY <1>2, <1>3 DEF RelCall
  <2>2. q.row.version \in Nat /\ relation[id].version \in Nat
    BY <1>2, <1>3, RelAssumption DEF RelCall, RelInv, RelTypeOK, RelIds, Relation
  <2> QED
    BY <1>2, <1>3, <2>1, <2>2 DEF RelCall, MayWrite
<1> QED
  BY <1>2, <1>3 DEF RelInv, RelTypeOK

\* A closed relation is closed for good, whatever the requests that were reading it.
THEOREM RelationsStayClosed == Spec => ClosedIsFinal
BY RelAlways, ClosedStep, PTL DEF Spec, ClosedIsFinal

---------------------------------------------------------------------------
(* Promoter codes and links.                                               *)

Owned(p, code) == code \in Codes /\ codeOf[p] = code /\ ownerOf[code] = p

\* A link that may stand as p's, now and later.
OwnLink(p, l) ==
  /\ l \in Link /\ Owned(p, l.code) /\ aliasOf[l.code] = p
  /\ l.sold <= Cardinality(sales[p])

\* A request for a link goes on from its code to its alias, and holds what it reserved.
LinkCall(c) ==
  LET q == call[c] IN
  q.pc # "idle" =>
    /\ q.pc \in {"read", "code", "clash", "alias", "saveLink"} /\ q.on \in Promoters
    /\ q.arg \in Codes \cup {None}
    /\ q.pc \in {"clash", "alias"} => Owned(q.on, q.row)
    /\ q.pc = "saveLink" => OwnLink(q.on, q.row)

LinkCalls == part = "referral" => CallsShaped /\ \A c \in Calls : LinkCall(c)

LinksOwned == \A p \in Promoters : link[p] # None => OwnLink(p, link[p])

LinkInv == LinkTypeOK /\ LinksOwned /\ LinkCalls

LEMMA LinkInit0 == Init => LinkInv
<1> SUFFICES ASSUME Init PROVE LinkInv
  OBVIOUS
<1>1. LinkTypeOK /\ LinksOwned
  BY DEF Init, LinkInit, LinkTypeOK, LinksOwned
<1>2. CallsShaped /\ \A c \in Calls : LinkCall(c)
  BY DEF Init, CallsShaped, Shaped, Idle, LinkCall
<1> QED
  BY <1>1, <1>2 DEF LinkInv, LinkCalls

\* Codes, aliases and sales are only ever added.
Grown ==
  /\ \A p \in Promoters : codeOf[p] # None => codeOf'[p] = codeOf[p]
  /\ \A x \in Codes : ownerOf[x] # None => ownerOf'[x] = ownerOf[x]
  /\ \A x \in Codes : aliasOf[x] # None => aliasOf'[x] = aliasOf[x]
  /\ \A p \in Promoters : Cardinality(sales[p]) <= Cardinality(sales'[p])

LEMMA SalesCounted ==
  ASSUME LinkTypeOK, NEW p \in Promoters
  PROVE  IsFiniteSet(sales[p]) /\ Cardinality(sales[p]) \in Nat
         /\ Cardinality(sales[p]) <= Cardinality(Orders) /\ Cardinality(Orders) \in Nat
BY LinkAssumption, FS_Subset, FS_CardinalityType DEF LinkTypeOK

LEMMA SalesCountedNext ==
  ASSUME LinkTypeOK', NEW p \in Promoters
  PROVE  IsFiniteSet(sales'[p]) /\ Cardinality(sales'[p]) \in Nat
BY LinkAssumption, FS_Subset, FS_CardinalityType DEF LinkTypeOK

\* What belongs to a promoter goes on belonging to it.
LEMMA OwnStays ==
  ASSUME LinkTypeOK, LinkTypeOK', Grown, NEW p \in Promoters
  PROVE  /\ \A x : Owned(p, x) => Owned(p, x)'
         /\ \A l : OwnLink(p, l) => OwnLink(p, l)'
<1>1. ASSUME NEW x, Owned(p, x) PROVE Owned(p, x)'
  BY <1>1, LinkAssumption DEF Owned, Grown
<1>2. ASSUME NEW l, OwnLink(p, l) PROVE OwnLink(p, l)'
  <2>1. l.code \in Codes /\ l.sold \in Nat /\ Owned(p, l.code)'
    BY <1>1, <1>2, SalesCounted DEF OwnLink, Link, Owned
  <2>2. Cardinality(sales[p]) \in Nat /\ Cardinality(sales'[p]) \in Nat
    BY SalesCounted, SalesCountedNext
  <2> QED
    BY <1>2, <2>1, <2>2, LinkAssumption DEF OwnLink, Grown
<1> QED
  BY <1>1, <1>2

LEMMA LinkStays ==
  ASSUME LinkInv, part = "referral", UNCHANGED part, LinkTypeOK', Grown, CallsShaped',
         \A d \in Calls : call'[d] = call[d] \/ LinkCall(d)',
         \A p \in Promoters : link'[p] = link[p] \/ OwnLink(p, link[p])'
  PROVE  LinkInv'
<1>1. ASSUME NEW d \in Calls PROVE LinkCall(d)'
  BY <1>1, OwnStays DEF LinkInv, LinkCalls, LinkCall
<1>2. ASSUME NEW p \in Promoters, link'[p] # None PROVE OwnLink(p, link[p])'
  <2>1. CASE link'[p] = link[p]
    <3>1. OwnLink(p, link[p])
      BY <1>2, <2>1 DEF LinkInv, LinksOwned
    <3>2. \A l : OwnLink(p, l) => OwnLink(p, l)'
      BY OwnStays DEF LinkInv
    <3> QED
      BY <2>1, <3>1, <3>2 DEF OwnLink
  <2> QED
    BY <2>1
<1> QED
  BY <1>1, <1>2 DEF LinkInv, LinkCalls, LinksOwned

\* A step of one request that leaves the links alone.
LEMMA LinkMoves ==
  ASSUME LinkInv, part = "referral", UNCHANGED <<part, link, sales>>, NEW c \in Calls, NEW q,
         Becomes(c, q), LinkTypeOK', LinkCall(c)',
         \A p \in Promoters : codeOf[p] # None => codeOf'[p] = codeOf[p],
         \A x \in Codes : ownerOf[x] # None => ownerOf'[x] = ownerOf[x],
         \A x \in Codes : aliasOf[x] # None => aliasOf'[x] = aliasOf[x]
  PROVE  LinkInv'
<1>1. Grown
  BY SalesCounted DEF LinkInv, Grown
<1> QED
  BY <1>1, LinkStays DEF Becomes

LEMMA LinkLeaves ==
  ASSUME LinkInv, part = "referral", UNCHANGED part, UNCHANGED linkVars, NEW c \in Calls, Leave(c)
  PROVE  LinkInv'
<1>1. CallsShaped /\ LinkTypeOK
  BY DEF LinkInv, LinkCalls
<1>2. Becomes(c, Idle)
  BY <1>1, Leaving
<1>3. LinkCall(c)'
  BY <1>2 DEF LinkCall, Becomes, Idle
<1> QED
  BY <1>1, <1>2, <1>3, LinkMoves DEF linkVars, LinkTypeOK

LEMMA LinkArrives ==
  ASSUME LinkInv, part = "referral", UNCHANGED part, NEW c \in Calls,
         PostReferralLink(c) \/ PostEventLink(c) \/ PostDeactivation(c)
  PROVE  LinkInv'
<1>1. PICK op \in {"newLink", "deactivate"}, who \in Promoters \cup {None}, on \in Promoters,
           arg \in Codes \cup {None} : Arrive(c, op, who, on, arg)
  BY DEF PostReferralLink, PostEventLink, PostDeactivation
<1>2. UNCHANGED linkVars /\ CallsShaped /\ LinkTypeOK
  BY DEF LinkInv, LinkCalls, PostReferralLink, PostEventLink, PostDeactivation
<1>3. Becomes(c, [op |-> op, pc |-> "read", who |-> who, on |-> on, arg |-> arg, row |-> None])
  BY <1>1, <1>2, Arriving
<1>4. LinkCall(c)'
  BY <1>3 DEF LinkCall, Becomes
<1> QED
  BY <1>2, <1>3, <1>4, LinkMoves DEF linkVars, LinkTypeOK

LEMMA LinkAssigns ==
  ASSUME LinkInv, part = "referral", UNCHANGED part, NEW c \in Calls, FindAssignment(c)
  PROVE  LinkInv'
<1> DEFINE q == call[c]
<1>0. CallsShaped /\ LinkTypeOK /\ LinkCall(c) /\ q.pc = "read"
  BY DEF LinkInv, LinkCalls, FindAssignment, At
<1>1. UNCHANGED <<codeOf, ownerOf, aliasOf, link, sales>> /\ LinkTypeOK'
  BY <1>0 DEF FindAssignment, LinkTypeOK, LinkCall
<1>2. CASE Leave(c)
  <2>1. Becomes(c, Idle)
    BY <1>0, <1>2, Leaving
  <2>2. LinkCall(c)'
    BY <2>1 DEF LinkCall, Becomes, Idle
  <2> QED
    BY <1>1, <2>1, <2>2, LinkMoves
<1>3. CASE Goto(c, "code", None)
  <2>1. Becomes(c, [op |-> q.op, pc |-> "code", who |-> q.who, on |-> q.on, arg |-> q.arg,
                    row |-> None])
    BY <1>0, <1>3, Going
  <2>2. LinkCall(c)'
    BY <1>0, <2>1 DEF LinkCall, Becomes
  <2> QED
    BY <1>1, <2>1, <2>2, LinkMoves
<1> QED
  BY <1>2, <1>3 DEF FindAssignment

\* The transaction gives a promoter a code that is nobody else's, and the one it has.
LEMMA LinkReserves ==
  ASSUME LinkInv, part = "referral", UNCHANGED part, NEW c \in Calls, GetOrCreatePromoterCode(c)
  PROVE  LinkInv'
<1> DEFINE q == call[c]
<1>0. CallsShaped /\ LinkTypeOK /\ LinkCall(c) /\ q.pc = "code" /\ q.on \in Promoters
  BY DEF LinkInv, LinkCalls, GetOrCreatePromoterCode, At, LinkCall
<1>1. PICK proposed \in Proposals(q) :
        IF Reserve(q.on, proposed) = {} THEN Leave(c) /\ UNCHANGED linkVars
        ELSE \E code \in Reserve(q.on, proposed) :
               /\ codeOf' = [codeOf EXCEPT ![q.on] = code]
               /\ ownerOf' = [ownerOf EXCEPT ![code] = q.on]
               /\ IF q.arg \in {None, code} THEN Goto(c, "clash", code) ELSE Leave(c)
               /\ UNCHANGED <<assigned, aliasOf, link, sales>>
  BY DEF GetOrCreatePromoterCode
<1>2. CASE Leave(c) /\ UNCHANGED linkVars
  BY <1>2, LinkLeaves
<1>3. ASSUME NEW code \in Reserve(q.on, proposed),
             codeOf' = [codeOf EXCEPT ![q.on] = code], ownerOf' = [ownerOf EXCEPT ![code] = q.on],
             IF q.arg \in {None, code} THEN Goto(c, "clash", code) ELSE Leave(c),
             UNCHANGED <<assigned, aliasOf, link, sales>>
      PROVE  LinkInv'
  <2>1. proposed \in Codes
    BY <1>0 DEF Proposals, LinkCall, LinkInv, LinksOwned, OwnLink, Owned
  <2>2. /\ code \in Codes /\ ownerOf[code] \in {None, q.on}
        /\ codeOf[q.on] # None => code = codeOf[q.on]
    BY <1>0, <1>3, <2>1 DEF Reserve, When, LinkTypeOK
  <2>3. /\ LinkTypeOK'
        /\ \A p \in Promoters : codeOf[p] # None => codeOf'[p] = codeOf[p]
        /\ \A x \in Codes : ownerOf[x] # None => ownerOf'[x] = ownerOf[x]
    BY <1>0, <1>3, <2>2 DEF LinkTypeOK
  <2>4. CASE Leave(c)
    <3>1. Becomes(c, Idle)
      BY <1>0, <2>4, Leaving
    <3>2. LinkCall(c)'
      BY <3>1 DEF LinkCall, Becomes, Idle
    <3> QED
      BY <1>3, <2>3, <3>1, <3>2, LinkMoves
  <2>5. CASE Goto(c, "clash", code)
    <3>1. Becomes(c, [op |-> q.op, pc |-> "clash", who |-> q.who, on |-> q.on, arg |-> q.arg,
                      row |-> code])
      BY <1>0, <2>5, Going
    <3>2. codeOf'[q.on] = code /\ ownerOf'[code] = q.on
      BY <1>0, <1>3, <2>2 DEF LinkTypeOK
    <3>3. LinkCall(c)'
      BY <1>0, <2>2, <3>1, <3>2 DEF LinkCall, Becomes, Owned
    <3> QED
      BY <1>3, <2>3, <3>1, <3>3, LinkMoves
  <2> QED
    BY <1>3, <2>4, <2>5
<1> QED
  BY <1>1, <1>2, <1>3

LEMMA LinkLooks ==
  ASSUME LinkInv, part = "referral", UNCHANGED part, NEW c \in Calls, FindByCode(c)
  PROVE  LinkInv'
<1> DEFINE q == call[c]
<1>0. CallsShaped /\ LinkTypeOK /\ LinkCall(c) /\ q.pc = "clash" /\ UNCHANGED linkVars
  BY DEF LinkInv, LinkCalls, FindByCode, At
<1>1. CASE Leave(c)
  BY <1>0, <1>1, LinkLeaves
<1>2. CASE Goto(c, "alias", q.row)
  <2>1. Becomes(c, [op |-> q.op, pc |-> "alias", who |-> q.who, on |-> q.on, arg |-> q.arg,
                    row |-> q.row])
    BY <1>0, <1>2, Going
  <2>2. LinkCall(c)'
    BY <1>0, <2>1 DEF LinkCall, Becomes, Owned, linkVars
  <2> QED
    BY <1>0, <2>1, <2>2, LinkMoves DEF linkVars, LinkTypeOK
<1> QED
  BY <1>1, <1>2 DEF FindByCode

\* The vanity address is claimed, and with it all a new link needs.
LEMMA LinkClaims ==
  ASSUME LinkInv, part = "referral", UNCHANGED part, NEW c \in Calls, ClaimVanityAlias(c)
  PROVE  LinkInv'
<1> DEFINE q == call[c]
<1>0. /\ CallsShaped /\ LinkTypeOK /\ LinkCall(c) /\ q.pc = "alias" /\ q.on \in Promoters
      /\ q.row \in Codes /\ Owned(q.on, q.row) /\ UNCHANGED <<assigned, codeOf, ownerOf, link, sales>>
  BY DEF LinkInv, LinkCalls, ClaimVanityAlias, At, LinkCall, Owned
<1>1. CASE aliasOf[q.row] \notin {None, q.on}
  BY <1>0, <1>1, LinkLeaves DEF ClaimVanityAlias, linkVars
<1>2. CASE aliasOf[q.row] \in {None, q.on}
  <2>1. aliasOf' = [aliasOf EXCEPT ![q.row] = q.on] /\ Goto(c, "saveLink", NewLink(q.row))
    BY <1>2 DEF ClaimVanityAlias
  <2>2. /\ LinkTypeOK' /\ aliasOf'[q.row] = q.on
        /\ \A x \in Codes : aliasOf[x] # None => aliasOf'[x] = aliasOf[x]
    BY <1>0, <1>2, <2>1 DEF LinkTypeOK
  <2>3. Becomes(c, [op |-> q.op, pc |-> "saveLink", who |-> q.who, on |-> q.on, arg |-> q.arg,
                    row |-> NewLink(q.row)])
    BY <1>0, <2>1, Going
  <2>4. NewLink(q.row) \in Link /\ NewLink(q.row).code = q.row /\ NewLink(q.row).sold = 0
    BY <1>0, SalesCounted, LinkAssumption DEF NewLink, Link
  <2>5. Cardinality(sales[q.on]) \in Nat
    BY <1>0, SalesCounted
  <2>6. LinkCall(c)'
    BY <1>0, <2>2, <2>3, <2>4, <2>5 DEF LinkCall, Becomes, OwnLink, Owned
  <2> QED
    BY <1>0, <2>2, <2>3, <2>6, LinkMoves
<1> QED
  BY <1>1, <1>2

\* Closing a link keeps whose it is.
LEMMA LinkCloses ==
  ASSUME LinkInv, part = "referral", UNCHANGED part, NEW c \in Calls, DeactivateReferralLink(c)
  PROVE  LinkInv'
<1> DEFINE q == call[c]
           l == link[q.on]
<1>0. /\ CallsShaped /\ LinkTypeOK /\ LinkCall(c) /\ q.pc = "read" /\ q.on \in Promoters
      /\ UNCHANGED linkVars /\ l # None /\ l.version < MaxLinkVersion /\ OwnLink(q.on, l)
      /\ Goto(c, "saveLink", Deactivated(l))
  BY DEF LinkInv, LinkCalls, DeactivateReferralLink, At, LinkCall, HasRoom, LinksOwned
<1>1. l \in Link
  BY <1>0 DEF OwnLink
<1>2. /\ Deactivated(l) \in Link /\ Deactivated(l).code = l.code
      /\ Deactivated(l).sold = l.sold
  <2>1. [l EXCEPT !.active = FALSE] \in Link /\ [l EXCEPT !.active = FALSE].code = l.code
        /\ [l EXCEPT !.active = FALSE].sold = l.sold /\ [l EXCEPT !.active = FALSE].version = l.version
    BY <1>1 DEF Link
  <2>2. \A s \in Link : s.version < MaxLinkVersion =>
          Bump(s) \in Link /\ Bump(s).code = s.code /\ Bump(s).sold = s.sold
    BY LinkAssumption DEF Link, Bump
  <2> QED
    BY <1>0, <1>1, <2>1, <2>2 DEF Deactivated
<1>3. Becomes(c, [op |-> q.op, pc |-> "saveLink", who |-> q.who, on |-> q.on, arg |-> q.arg,
                  row |-> Deactivated(l)])
  BY <1>0, Going
<1>4. LinkCall(c)'
  BY <1>0, <1>2, <1>3 DEF LinkCall, Becomes, OwnLink, Owned, linkVars
<1> QED
  BY <1>0, <1>3, <1>4, LinkMoves DEF linkVars, LinkTypeOK

\* A link is written over whatever stands under its id: it is the promoter's either way.
LEMMA LinkSaves ==
  ASSUME LinkInv, part = "referral", UNCHANGED part, NEW c \in Calls, SaveLink(c)
  PROVE  LinkInv'
<1> DEFINE q == call[c]
<1>0. /\ CallsShaped /\ LinkTypeOK /\ LinkCall(c) /\ q.on \in Promoters /\ OwnLink(q.on, q.row)
      /\ UNCHANGED <<assigned, codeOf, ownerOf, aliasOf, sales>>
      /\ link' = link \/ link' = [link EXCEPT ![q.on] = q.row]
  BY DEF LinkInv, LinkCalls, SaveLink, LinkCall, Written
<1>1. Becomes(c, Idle)
  BY <1>0, Leaving DEF SaveLink
<1>2. LinkCall(c)'
  BY <1>1 DEF LinkCall, Becomes, Idle
<1>3. LinkTypeOK' /\ Grown
  BY <1>0, SalesCounted DEF LinkTypeOK, OwnLink, Grown
<1>4. PICK owner \in Promoters, row \in Link : owner = q.on /\ row = q.row
  BY <1>0 DEF OwnLink
<1>5. OwnLink(owner, row)'
  BY <1>0, <1>3, <1>4, OwnStays
<1>6. \A p \in Promoters : link'[p] = link[p] \/ OwnLink(p, link[p])'
  BY <1>0, <1>4, <1>5 DEF LinkTypeOK, OwnLink, Owned
<1> QED
  BY <1>1, <1>2, <1>3, <1>6, LinkStays DEF Becomes

LEMMA LinkSells ==
  ASSUME LinkInv, part = "referral", UNCHANGED part, NEW p \in Promoters, NEW o \in Orders,
         RecordSale(p, o)
  PROVE  LinkInv'
<1>0. /\ CallsShaped /\ LinkTypeOK /\ OwnLink(p, link[p]) /\ o \notin sales[p]
      /\ sales' = [sales EXCEPT ![p] = @ \cup {o}] /\ link' = [link EXCEPT ![p].sold = @ + 1]
      /\ UNCHANGED <<assigned, codeOf, ownerOf, aliasOf, call>>
  BY DEF LinkInv, LinkCalls, RecordSale, LinksOwned
<1>1. sales' \in [Promoters -> SUBSET Orders] /\ sales'[p] = sales[p] \cup {o}
  BY <1>0 DEF LinkTypeOK
<1>2. Cardinality(sales'[p]) = Cardinality(sales[p]) + 1
  BY <1>0, <1>1, SalesCounted, FS_AddElement
<1>3. /\ Cardinality(sales[p]) \in Nat /\ Cardinality(Orders) \in Nat
      /\ Cardinality(sales'[p]) <= Cardinality(Orders)
  BY <1>0, <1>1, SalesCounted, LinkAssumption, FS_Subset
<1>4. \A r \in Promoters : Cardinality(sales[r]) <= Cardinality(sales'[r])
  <2>1. ASSUME NEW r \in Promoters PROVE Cardinality(sales[r]) <= Cardinality(sales'[r])
    <3>1. CASE r = p
      BY <1>2, <1>3, <3>1
    <3>2. CASE r # p
      BY <1>0, <3>2, SalesCounted DEF LinkTypeOK
    <3> QED
      BY <3>1, <3>2
  <2> QED
    BY <2>1
<1>5. PICK l \in Link : l = link[p]
  BY <1>0 DEF OwnLink
<1>6. /\ [l EXCEPT !.sold = @ + 1] \in Link /\ [l EXCEPT !.sold = @ + 1].code = l.code
      /\ [l EXCEPT !.sold = @ + 1].sold = l.sold + 1
  BY <1>0, <1>2, <1>3, <1>5 DEF OwnLink, Link
<1>7. link' = [link EXCEPT ![p] = [l EXCEPT !.sold = @ + 1]]
  BY <1>0, <1>5
<1>8. LinkTypeOK' /\ Grown
  <2>1. link' \in [Promoters -> Link \cup {None}]
    BY <1>0, <1>6, <1>7 DEF LinkTypeOK
  <2> QED
    BY <1>0, <1>1, <1>4, <2>1 DEF LinkTypeOK, Grown
<1>9. OwnLink(p, link[p])'
  BY <1>0, <1>2, <1>3, <1>5, <1>6, <1>7 DEF LinkTypeOK, OwnLink, Owned, Link
<1> QED
  BY <1>0, <1>7, <1>8, <1>9, LinkStays DEF LinkTypeOK, CallsShaped, Free

LEMMA LinkClicked ==
  ASSUME LinkInv, part = "referral", UNCHANGED part, NEW p \in Promoters, TrackClick(p)
  PROVE  LinkInv'
<1>0. /\ CallsShaped /\ LinkTypeOK /\ OwnLink(p, link[p]) /\ link[p].clicks < MaxClicks
      /\ link' = [link EXCEPT ![p].clicks = @ + 1]
      /\ UNCHANGED <<assigned, codeOf, ownerOf, aliasOf, sales, call>>
  BY DEF LinkInv, LinkCalls, TrackClick, LinksOwned
<1>1. PICK l \in Link : l = link[p]
  BY <1>0 DEF OwnLink
<1>2. /\ [l EXCEPT !.clicks = @ + 1] \in Link /\ [l EXCEPT !.clicks = @ + 1].code = l.code
      /\ [l EXCEPT !.clicks = @ + 1].sold = l.sold
  BY <1>0, <1>1, LinkAssumption DEF Link
<1>3. link' = [link EXCEPT ![p] = [l EXCEPT !.clicks = @ + 1]]
  BY <1>0, <1>1
<1>4. LinkTypeOK' /\ Grown
  <2>1. LinkTypeOK'
    BY <1>0, <1>2, <1>3 DEF LinkTypeOK
  <2>2. Grown
    BY <1>0, SalesCounted DEF Grown
  <2> QED
    BY <2>1, <2>2
<1>5. OwnLink(p, link[p])'
  BY <1>0, <1>1, <1>2, <1>3 DEF LinkTypeOK, OwnLink, Owned
<1> QED
  BY <1>0, <1>3, <1>4, <1>5, LinkStays DEF LinkTypeOK, CallsShaped, Free

LEMMA LinkAssigned ==
  ASSUME LinkInv, part = "referral", UNCHANGED part, NEW p \in Promoters, AssignmentMoves(p)
  PROVE  LinkInv'
<1>1. LinkTypeOK /\ LinkTypeOK' /\ UNCHANGED <<codeOf, ownerOf, aliasOf, link, sales, call>>
  BY DEF LinkInv, LinkTypeOK, AssignmentMoves
<1>2. Grown
  BY <1>1, SalesCounted DEF Grown
<1> QED
  BY <1>1, <1>2, LinkStays DEF LinkInv, LinkCalls, CallsShaped, Free

LEMMA LinkNext == LinkInv /\ [Next]_partnersVars => LinkInv'
<1> SUFFICES ASSUME LinkInv, [Next]_partnersVars PROVE LinkInv'
  OBVIOUS
<1>1. CASE part' = part /\ UNCHANGED linkVars /\ (part # "referral" \/ UNCHANGED call)
  <2>1. LinkTypeOK' /\ LinksOwned'
    BY <1>1 DEF LinkInv, linkVars, LinkTypeOK, LinksOwned, OwnLink, Owned
  <2>2. LinkCalls'
    BY <1>1 DEF LinkInv, linkVars, LinkCalls, CallsShaped, Free, LinkCall, OwnLink, Owned
  <2> QED
    BY <2>1, <2>2 DEF LinkInv
<1>2. ASSUME part = "referral", part' = part, NEW c \in Calls, Dies(c) PROVE LinkInv'
  BY <1>2, LinkLeaves DEF Dies
<1>3. ASSUME part = "referral", part' = part, NEW c \in Calls, LinkStep(c) PROVE LinkInv'
  BY <1>3, LinkArrives, LinkAssigns, LinkReserves, LinkLooks, LinkClaims, LinkCloses, LinkSaves
     DEF LinkStep
<1>4. ASSUME part = "referral", part' = part, LinkWorld PROVE LinkInv'
  BY <1>4, LinkSells, LinkClicked, LinkAssigned DEF LinkWorld
<1>5. CASE UNCHANGED partnersVars
  BY <1>1, <1>5 DEF partnersVars
<1>6. CASE Next
  BY <1>1, <1>2, <1>3, <1>4, <1>6 DEF Next, OrganizationPart, RelationPart, ReferralPart,
     OnboardingPart, AccessPart, Dies
<1> QED
  BY <1>5, <1>6

\* A code names one promoter, a promoter has one code in all its links, and no link
\* counts more sales than were recorded: for any promoters, codes and requests.
THEOREM CodesStayOwned == Spec => []CodesAreOwned
<1>1. LinkInv => CodesAreOwned
  BY DEF LinkInv, LinksOwned, OwnLink, Owned, CodesAreOwned
<1> QED
  BY <1>1, LinkInit0, LinkNext, PTL DEF Spec

---------------------------------------------------------------------------
(* Partner onboarding.                                                     *)

Closed == {"approved", "rejected"}

\* The next version of an application, as an operation makes it: only an approval, over
\* documents that are all verified, approves; a closed one stays as it was decided.
Follows(op, old, new) ==
  /\ new \in Application /\ new.version = old.version + 1
  /\ new.status = "approved" /\ old.status # "approved" =>
       op = "approve" /\ AllRequiredVerified(old) /\ AllRequiredVerified(new)
  /\ old.status \in Closed => new.status = old.status /\ new.organization = old.organization

LEMMA AppBumped ==
  ASSUME NEW s \in Application, s.version < MaxAppVersion
  PROVE  /\ Bump(s) \in Application /\ Bump(s).version = s.version + 1
         /\ Bump(s).status = s.status /\ Bump(s).organization = s.organization
         /\ Bump(s).docs = s.docs /\ Bump(s).entity = s.entity
BY OnbAssumption DEF Application, Bump

\* A verdict on a document, or an upload, in place.
Judged(r, a, l, v) == r = Bump([a EXCEPT !.docs[l] = v])

LEMMA AppDocument ==
  ASSUME NEW a \in Application, a.version < MaxAppVersion, NEW l \in Labels,
         NEW v \in {"pending", "verified", "rejected"}, NEW r, Judged(r, a, l, v)
  PROVE  /\ r \in Application /\ r.version = a.version + 1
         /\ r.status = a.status /\ r.organization = a.organization
<1> DEFINE s == [a EXCEPT !.docs[l] = v]
<1>1. s \in Application /\ s.version = a.version /\ s.status = a.status
      /\ s.organization = a.organization
  BY DEF Application
<1> HIDE DEF s
<1>2. r = Bump(s)
  BY DEF s, Judged
<1> QED
  BY <1>1, <1>2, AppBumped

LEMMA AppMoved ==
  ASSUME NEW a \in Application, a.version < MaxAppVersion,
         NEW to \in {"submitted", "approved", "rejected", "changes_requested"},
         NEW r \in Moves(a, to)
  PROVE  /\ r \in Application /\ r.version = a.version + 1 /\ r.status = to
         /\ a.status \in Closed => to = a.status
         /\ r.organization = a.organization /\ r.docs = a.docs /\ r.entity = a.entity
<1>1. /\ r = Bump([a EXCEPT !.status = to])
      /\ to = a.status \/ to \in OnboardingTransitions[a.status]
  BY DEF Moves, When
<1>2. a.status \in Closed => to = a.status
  BY <1>1 DEF OnboardingTransitions, Closed
<1>3. [a EXCEPT !.status = to] \in Application /\ [a EXCEPT !.status = to].version = a.version
      /\ [a EXCEPT !.status = to].status = to /\ [a EXCEPT !.status = to].organization = a.organization
      /\ [a EXCEPT !.status = to].docs = a.docs /\ [a EXCEPT !.status = to].entity = a.entity
  BY DEF Application
<1> QED
  BY <1>1, <1>2, <1>3, AppBumped

LEMMA AppFollows ==
  ASSUME NEW a \in Application, a.version < MaxAppVersion, NEW q, q.op \in SingleWrites,
         q.op = "saveProgress" => q.arg \in Entities,
         q.op \in {"addDocument", "verifyDoc", "rejectDoc"} => q.arg \in Labels,
         NEW r \in OnboardingRule(q, a)
  PROVE  Follows(q.op, a, r)
<1>1. CASE q.op = "saveProgress"
  <2>1. r = Bump([a EXCEPT !.entity = q.arg]) /\ a.status \notin Closed /\ a.status # "approved"
    BY <1>1 DEF OnboardingRule, ApplicantRule, UpdateProfile, When, Closed
  <2>2. [a EXCEPT !.entity = q.arg] \in Application
        /\ [a EXCEPT !.entity = q.arg].version = a.version
        /\ [a EXCEPT !.entity = q.arg].status = a.status
    BY <1>1 DEF Application
  <2> QED
    BY <2>1, <2>2, AppBumped DEF Follows
<1>2. CASE q.op = "addDocument"
  <2>1. Judged(r, a, q.arg, "pending") /\ a.status \notin Closed
    BY <1>2 DEF OnboardingRule, ApplicantRule, AddDocument, When, Closed, Judged
  <2> QED
    BY <1>2, <2>1, AppDocument DEF Follows
<1>3. CASE q.op = "submit"
  <2>1. r \in Moves(a, "submitted")
    BY <1>3 DEF OnboardingRule, ApplicantRule, Submit
  <2> QED
    BY <2>1, AppMoved DEF Follows, Closed
<1>4. CASE q.op \in {"verifyDoc", "rejectDoc"}
  <2>0. PICK l \in Labels : l = q.arg
    BY <1>4
  <2>1. PICK v \in {"pending", "verified", "rejected"} :
          v # "pending" /\ Judged(r, a, l, v)
    BY <1>4, <2>0 DEF OnboardingRule, DeskRule, ReviewDocument, When, Judged
  <2>2. /\ r \in Application /\ r.version = a.version + 1
        /\ r.status = a.status /\ r.organization = a.organization
    BY <2>1, AppDocument
  <2>3. r.status = "approved" => a.status = "approved"
    BY <2>2
  <2> QED
    BY <2>2, <2>3 DEF Follows
<1>5. CASE q.op \in {"reject", "changes"}
  <2>1. PICK to \in {"rejected", "changes_requested"} : r \in Moves(a, to)
    BY <1>5 DEF OnboardingRule, ReviewRule
  <2> QED
    BY <2>1, AppMoved DEF Follows
<1> QED
  BY <1>1, <1>2, <1>3, <1>4, <1>5 DEF SingleWrites

LEMMA ApprovalFollows ==
  ASSUME NEW a \in Application, a.version < MaxAppVersion, NEW o \in Applications \X Calls,
         NEW r \in Approve(a, o)
  PROVE  Follows("approve", a, r) /\ r.organization = o
<1> DEFINE s == [a EXCEPT !.organization = o]
<1>1. /\ s \in Application /\ s.version = a.version /\ s.status = a.status
      /\ s.docs = a.docs /\ s.entity = a.entity /\ s.organization = o
  BY DEF Application
<1>2. a.status = "submitted" /\ AllRequiredVerified(a) /\ r \in Moves(s, "approved")
  BY DEF Approve
<1> HIDE DEF s
<1>3. /\ r \in Application /\ r.version = a.version + 1 /\ r.organization = o
      /\ a.status \notin Closed /\ r.docs = a.docs /\ r.entity = a.entity
  BY <1>1, <1>2, AppMoved DEF Closed
<1> QED
  BY <1>2, <1>3 DEF Follows, AllRequiredVerified

\* What a request about applications knows: a new application's id is its own until it is
\* saved, and a row that would be written over the stored one follows it.
OnbCall(c) ==
  LET q == call[c] IN
  q.pc # "idle" =>
    /\ q.pc \in {"read", "saveApplication", "provision", "verify"}
    /\ q.op \in SingleWrites \cup {"start", "approve", "check"}
    /\ q.op # "check" => q.on \in Applications
    /\ q.op \in {"start", "saveProgress"} => q.arg \in Entities
    /\ q.op \in {"addDocument", "verifyDoc", "rejectDoc"} => q.arg \in Labels
    /\ q.op = "start" => /\ q.on # None /\ application[q.on] = None
                         /\ \A d \in Calls : d # c => call[d].on # q.on
    /\ q.pc \in {"provision", "saveApplication"} => q.op # "check" /\ q.row \in Application
    /\ q.pc = "provision" => q.op = "approve" /\ q.row.organization \in Applications \X Calls
    /\ q.pc = "saveApplication" /\ q.op = "approve" => q.row.organization \in provisioned
    /\ q.pc \in {"provision", "saveApplication"} /\ q.op # "start" =>
         /\ q.row.version > 1
         /\ application[q.on] # None =>
              /\ q.row.version <= application[q.on].version + 1
              /\ q.row.version = application[q.on].version + 1 =>
                   Follows(q.op, application[q.on], q.row)

OnbCalls == part = "onboarding" => CallsShaped /\ \A c \in Calls : OnbCall(c)

OnbInv == OnbTypeOK /\ OnbCalls

LEMMA OnbInit0 == Init => OnbInv
<1> SUFFICES ASSUME Init PROVE OnbInv
  OBVIOUS
<1>1. OnbTypeOK
  BY DEF Init, OnbInit, OnbTypeOK
<1>2. CallsShaped /\ \A c \in Calls : OnbCall(c)
  BY DEF Init, CallsShaped, Shaped, Idle, OnbCall
<1> QED
  BY <1>1, <1>2 DEF OnbInv, OnbCalls

\* A step of one request that leaves the rows alone.
LEMMA OnbQuiet ==
  ASSUME OnbInv, NEW c \in Calls, NEW q, Becomes(c, q), OnbCall(c)', UNCHANGED application,
         provisioned \subseteq provisioned', OnbTypeOK', UNCHANGED part, part = "onboarding",
         \/ q.on \in {call[c].on, None}
         \/ \A d \in Calls : call[d].pc # "idle" /\ call[d].op = "start" => call[d].on # q.on
  PROVE  OnbInv'
<1>1. ASSUME NEW d \in Calls, d # c PROVE OnbCall(d)'
  <2>1. OnbCall(d) /\ call'[d] = call[d] /\ call'[c] = q
    BY <1>1 DEF OnbInv, OnbCalls, Becomes
  <2>2. call[d].pc # "idle" /\ call[d].op = "start" => \A e \in Calls : e # d => call'[e].on # call[d].on
    BY <1>1, <2>1 DEF OnbInv, OnbCalls, OnbCall, Becomes
  <2> QED
    BY <2>1, <2>2 DEF OnbCall
<1> QED
  BY <1>1 DEF OnbInv, OnbCalls, Becomes

LEMMA OnbLeaves ==
  ASSUME OnbInv, part = "onboarding", UNCHANGED part, NEW c \in Calls, Leave(c),
         UNCHANGED application, provisioned \subseteq provisioned', OnbTypeOK'
  PROVE  OnbInv'
<1>1. Becomes(c, Idle)
  BY Leaving DEF OnbInv, OnbCalls
<1>2. OnbCall(c)'
  BY <1>1 DEF OnbCall, Becomes, Idle
<1> QED
  BY <1>1, <1>2, OnbQuiet DEF Idle

LEMMA OnbSaves ==
  ASSUME OnbInv, part = "onboarding", UNCHANGED part, NEW c \in Calls, SaveApplication(c)
  PROVE  OnbInv'
<1> DEFINE q == call[c]
<1>0. OnbCall(c) /\ CallsShaped /\ q.pc = "saveApplication" /\ Becomes(c, Idle)
      /\ UNCHANGED <<provisioned, attempts>> /\ OnbTypeOK
  BY Leaving DEF OnbInv, OnbCalls, SaveApplication
<1>1. q.on \in Applications /\ q.row \in Application /\ q.row.version \in Nat
  BY <1>0, OnbAssumption DEF OnbCall, Application
<1>2. OnbTypeOK'
  BY <1>0, <1>1 DEF SaveApplication, Written, OnbTypeOK
<1>3. CASE UNCHANGED application
  BY <1>0, <1>2, <1>3, OnbLeaves DEF SaveApplication
<1>4. CASE application' # application
  <2>1. application' = [application EXCEPT ![q.on] = q.row] /\ MayWrite(application[q.on], q.row)
    BY <1>4 DEF SaveApplication, Written
  <2>2. application'[q.on] = q.row
    BY <1>0, <1>1, <2>1 DEF OnbTypeOK
  <2>3. application[q.on] # None => application[q.on].version \in Nat
    BY <1>0, <1>1, OnbAssumption DEF OnbTypeOK, Application
  <2>4. OnbCall(c)'
    BY <1>0 DEF OnbCall, Becomes, Idle
  <2>5. ASSUME NEW d \in Calls, d # c PROVE OnbCall(d)'
    <3>1. OnbCall(d) /\ call'[d] = call[d] /\ call'[c] = Idle
      BY <1>0, <2>5 DEF OnbInv, OnbCalls, Becomes
    <3>2. CASE call[d].pc = "idle"
      BY <3>1, <3>2 DEF OnbCall
    <3>3. CASE call[d].pc # "idle" /\ call[d].on # q.on
      <4>1. call[d].op # "check" => application'[call[d].on] = application[call[d].on]
        BY <1>0, <2>1, <3>1, <3>3 DEF OnbCall, OnbTypeOK
      <4>2. call[d].op = "start" => \A e \in Calls : e # d => call'[e].on # call[d].on
        BY <1>0, <2>5, <3>1, <3>3 DEF OnbInv, OnbCalls, OnbCall, Becomes, Idle
      <4> QED
        BY <1>0, <3>1, <3>3, <4>1, <4>2 DEF OnbCall
    <3>4. CASE call[d].pc # "idle" /\ call[d].on = q.on
      <4>1. q.op # "start" /\ call[d].op # "start"
        BY <1>0, <2>5, <3>1, <3>4 DEF OnbCall
      <4>2. application[q.on] # None /\ q.row.version = application[q.on].version + 1
        BY <1>0, <1>1, <2>1, <2>3, <4>1 DEF OnbCall, MayWrite
      <4>3. call[d].pc \in {"provision", "saveApplication"} => call[d].row.version \in Nat
        BY <3>1, <3>4, OnbAssumption DEF OnbCall, Application
      <4> QED
        BY <1>0, <1>1, <2>2, <2>3, <3>1, <3>4, <4>1, <4>2, <4>3 DEF OnbCall
    <3> QED
      BY <3>2, <3>3, <3>4
  <2> QED
    BY <1>0, <1>2, <2>4, <2>5 DEF OnbInv, OnbCalls, Becomes
<1> QED
  BY <1>3, <1>4

LEMMA OnbArrival ==
  ASSUME OnbInv, part = "onboarding", UNCHANGED part, NEW c \in Calls, OnbArrives(c)
  PROVE  OnbInv'
<1>0. CallsShaped /\ OnbTypeOK /\ OnbTypeOK' /\ UNCHANGED onbVars
  BY DEF OnbInv, OnbCalls, OnbArrives, onbVars, OnbTypeOK
<1>1. CASE PostApplication(c)
  <2>1. PICK id \in Applications, e \in Entities :
          /\ application[id] = None /\ \A d \in Calls : call[d].on # id
          /\ Arrive(c, "start", "applicant", id, e)
    BY <1>1 DEF PostApplication
  <2>2. /\ call[c] = Idle
        /\ Becomes(c, [op |-> "start", pc |-> "read", who |-> "applicant", on |-> id, arg |-> e,
                       row |-> None])
    BY <1>0, <2>1, Arriving
  <2>3. OnbCall(c)'
    BY <1>0, <2>1, <2>2 DEF OnbCall, Becomes, Idle, onbVars
  <2> QED
    BY <1>0, <2>1, <2>2, <2>3, OnbQuiet DEF onbVars
<1>2. CASE PostVerification(c)
  <2>1. Becomes(c, [op |-> "check", pc |-> "read", who |-> "applicant", on |-> None, arg |-> None,
                    row |-> None])
    BY <1>0, <1>2, Arriving DEF PostVerification
  <2>2. OnbCall(c)'
    BY <2>1 DEF OnbCall, Becomes, SingleWrites
  <2> QED
    BY <1>0, <2>1, <2>2, OnbQuiet DEF onbVars
<1>3. ASSUME NEW id \in Applications, application[id] # None,
             \/ PatchApplication(c, id) \/ PostDocument(c, id) \/ PostSubmission(c, id)
             \/ PostDocumentVerified(c, id) \/ PostDocumentRejected(c, id)
             \/ PostApproval(c, id) \/ PostReview(c, id)
      PROVE  OnbInv'
  <2>1. PICK op \in SingleWrites \cup {"approve"}, who \in {"applicant", "admin"},
             arg \in Entities \cup Labels \cup {None} :
          /\ Arrive(c, op, who, id, arg)
          /\ op = "saveProgress" => arg \in Entities
          /\ op \in {"addDocument", "verifyDoc", "rejectDoc"} => arg \in Labels
    <3>1. CASE PatchApplication(c, id)
      BY <3>1 DEF PatchApplication, SingleWrites
    <3>2. CASE PostDocument(c, id)
      BY <3>2 DEF PostDocument, SingleWrites
    <3>3. CASE PostSubmission(c, id)
      BY <3>3 DEF PostSubmission, SingleWrites
    <3>4. CASE PostDocumentVerified(c, id) \/ PostDocumentRejected(c, id)
      BY <3>4 DEF PostDocumentVerified, PostDocumentRejected, SingleWrites
    <3>5. CASE PostApproval(c, id)
      BY <3>5 DEF PostApproval
    <3>6. CASE PostReview(c, id)
      BY <3>6 DEF PostReview, SingleWrites
    <3> QED
      BY <1>3, <3>1, <3>2, <3>3, <3>4, <3>5, <3>6
  <2>2. Becomes(c, [op |-> op, pc |-> "read", who |-> who, on |-> id, arg |-> arg, row |-> None])
    BY <1>0, <2>1, Arriving
  <2>3. OnbCall(c)'
    BY <1>0, <2>1, <2>2 DEF OnbCall, Becomes, SingleWrites
  <2>4. \A d \in Calls : call[d].pc # "idle" /\ call[d].op = "start" => call[d].on # id
    BY <1>3 DEF OnbInv, OnbCalls, OnbCall
  <2> QED
    BY <1>0, <2>2, <2>3, <2>4, OnbQuiet DEF onbVars
<1> QED
  BY <1>1, <1>2, <1>3 DEF OnbArrives

\* Deciding on the next version of a row, or to leave.
LEMMA OnbDecides ==
  ASSUME OnbInv, part = "onboarding", UNCHANGED part, NEW c \in Calls, UNCHANGED onbVars,
         call[c].pc = "read", call[c].op # "check", NEW rows,
         NEW pc \in {"saveApplication", "provision"}, Decide(c, rows, pc),
         call[c].op = "approve" <=> pc = "provision",
         \A r \in rows :
           /\ r \in Application
           /\ call[c].op # "start" => /\ application[call[c].on] \in Application
                                      /\ Follows(call[c].op, application[call[c].on], r)
           /\ call[c].op = "approve" => r.organization \in Applications \X Calls
  PROVE  OnbInv'
<1> DEFINE q == call[c]
<1>0. CallsShaped /\ OnbCall(c) /\ OnbTypeOK /\ OnbTypeOK' /\ UNCHANGED <<application, provisioned>>
  BY DEF OnbInv, OnbCalls, onbVars, OnbTypeOK
<1>1. CASE Leave(c)
  BY <1>0, <1>1, OnbLeaves
<1>2. CASE \E r \in rows : Goto(c, pc, r)
  <2>1. PICK r \in rows : Goto(c, pc, r)
    BY <1>2
  <2>2. Becomes(c, [op |-> q.op, pc |-> pc, who |-> q.who, on |-> q.on, arg |-> q.arg, row |-> r])
    BY <1>0, <2>1, Going
  <2>3. q.op # "start" => /\ application[q.on].version \in Nat \ {0}
                          /\ r.version = application[q.on].version + 1
    BY OnbAssumption DEF Application, Follows
  <2>4. OnbCall(c)'
    BY <1>0, <2>2, <2>3 DEF OnbCall, Becomes
  <2> QED
    BY <1>0, <2>2, <2>4, OnbQuiet
<1> QED
  BY <1>1, <1>2 DEF Decide

LEMMA OnbWorks ==
  ASSUME OnbInv, part = "onboarding", UNCHANGED part, NEW c \in Calls, OnbStep(c)
  PROVE  OnbInv'
<1> DEFINE q == call[c]
<1>0. CallsShaped /\ OnbCall(c) /\ OnbTypeOK
  BY DEF OnbInv, OnbCalls
<1>1. CASE Start(c)
  <2>1. q.op = "start" /\ q.pc = "read" /\ q.arg \in Entities
    BY <1>0, <1>1 DEF Start, At, OnbCall
  <2>2. NewApplication(q.arg) \in Application
    BY <2>1, OnbAssumption DEF NewApplication, Application
  <2> QED
    BY <1>1, <2>1, <2>2, OnbDecides DEF Start, When
<1>2. CASE ReadApplication(c)
  <2>1. /\ q.op \in SingleWrites /\ q.pc = "read" /\ UNCHANGED onbVars
        /\ q.op \notin {"check", "approve", "start"} /\ q.on \in Applications
        /\ Decide(c, OnboardingRule(q, application[q.on]), "saveApplication")
    BY <1>0, <1>2 DEF ReadApplication, SingleWrites, OnbCall
  <2>2. application[q.on] \in Application /\ application[q.on].version < MaxAppVersion
    BY <1>0, <1>2, <2>1 DEF ReadApplication, HasRoom, OnbTypeOK
  <2>3. \A r \in OnboardingRule(q, application[q.on]) : Follows(q.op, application[q.on], r)
    BY <1>0, <2>1, <2>2, AppFollows DEF OnbCall
  <2> QED
    BY <2>1, <2>2, <2>3, OnbDecides DEF Follows
<1>3. CASE ReadForApproval(c)
  <2>1. /\ q.op = "approve" /\ q.pc = "read" /\ UNCHANGED onbVars /\ q.on \in Applications
        /\ Decide(c, Approve(application[q.on], <<q.on, c>>), "provision")
    BY <1>0, <1>3 DEF ReadForApproval, At, OnbCall
  <2>2. application[q.on] \in Application /\ application[q.on].version < MaxAppVersion
    BY <1>0, <1>3, <2>1 DEF ReadForApproval, HasRoom, OnbTypeOK
  <2>3. <<q.on, c>> \in Applications \X Calls
    BY <2>1
  <2>4. \A r \in Approve(application[q.on], <<q.on, c>>) :
          Follows("approve", application[q.on], r) /\ r.organization = <<q.on, c>>
    BY <2>2, <2>3, ApprovalFollows
  <2> QED
    BY <2>1, <2>2, <2>3, <2>4, OnbDecides DEF Follows
<1>4. CASE Provision(c)
  <2>1. /\ q.pc = "provision" /\ provisioned' = provisioned \cup {q.row.organization}
        /\ UNCHANGED <<application, attempts>>
        /\ q.op = "approve" /\ q.row.organization \in Applications \X Calls
    BY <1>0, <1>4 DEF Provision, OnbCall
  <2>2. Becomes(c, [op |-> q.op, pc |-> "saveApplication", who |-> q.who, on |-> q.on,
                    arg |-> q.arg, row |-> q.row])
    BY <1>0, <1>4, Going DEF Provision
  <2>3. OnbCall(c)'
    BY <1>0, <2>1, <2>2 DEF OnbCall, Becomes
  <2>4. OnbTypeOK'
    BY <1>0, <2>1 DEF OnbTypeOK
  <2> QED
    BY <2>1, <2>2, <2>3, <2>4, OnbQuiet
<1>5. CASE CountAttempts(c)
  <2>1. q.op = "check" /\ q.pc = "read" /\ UNCHANGED onbVars /\ OnbTypeOK'
    BY <1>0, <1>5 DEF CountAttempts, At, onbVars, OnbTypeOK
  <2>2. CASE Goto(c, "verify", None)
    <3>1. Becomes(c, [op |-> q.op, pc |-> "verify", who |-> q.who, on |-> q.on, arg |-> q.arg,
                      row |-> None])
      BY <1>0, <2>2, Going
    <3>2. OnbCall(c)'
      BY <1>0, <2>1, <3>1 DEF OnbCall, Becomes
    <3> QED
      BY <2>1, <3>1, <3>2, OnbQuiet DEF onbVars
  <2> QED
    BY <1>5, <2>1, <2>2, OnbLeaves DEF CountAttempts, onbVars
<1>6. CASE RecordAttempt(c)
  <2>1. UNCHANGED <<application, provisioned>> /\ OnbTypeOK'
    BY <1>0, <1>6 DEF RecordAttempt, OnbTypeOK
  <2> QED
    BY <1>6, <2>1, OnbLeaves DEF RecordAttempt
<1> QED
  BY <1>1, <1>2, <1>3, <1>4, <1>5, <1>6, OnbArrival, OnbSaves DEF OnbStep

LEMMA OnbNext == OnbInv /\ [Next]_partnersVars => OnbInv'
<1> SUFFICES ASSUME OnbInv, [Next]_partnersVars PROVE OnbInv'
  OBVIOUS
<1>1. CASE part' = part /\ UNCHANGED onbVars /\ (part # "onboarding" \/ UNCHANGED call)
  BY <1>1 DEF OnbInv, onbVars, OnbTypeOK, OnbCalls, CallsShaped, Free, OnbCall
<1>2. ASSUME part = "onboarding", part' = part, NEW c \in Calls, Dies(c) PROVE OnbInv'
  BY <1>2, OnbLeaves DEF Dies, onbVars, OnbInv, OnbTypeOK
<1>3. ASSUME part = "onboarding", part' = part, NEW c \in Calls, OnbStep(c) PROVE OnbInv'
  BY <1>3, OnbWorks
<1>4. CASE UNCHANGED partnersVars
  BY <1>1, <1>4 DEF partnersVars
<1>5. CASE Next
  BY <1>1, <1>2, <1>3, <1>5 DEF Next, OrganizationPart, RelationPart, ReferralPart,
     OnboardingPart, AccessPart, Dies
<1> QED
  BY <1>4, <1>5

LEMMA ApprovalStep ==
  OnbInv /\ [Next]_partnersVars =>
    [\A id \in Applications : application[id] # None =>
       LET old == application[id] new == application'[id] IN
       /\ new.status = "approved" /\ old.status # "approved" =>
            /\ AllRequiredVerified(old) /\ AllRequiredVerified(new)
            /\ new.organization \in provisioned
       /\ old.status \in {"approved", "rejected"} =>
            new.status = old.status /\ new.organization = old.organization]_application
<1> SUFFICES ASSUME OnbInv, [Next]_partnersVars, application' # application,
                    NEW id \in Applications, application[id] # None
             PROVE  LET old == application[id] new == application'[id] IN
                    /\ new.status = "approved" /\ old.status # "approved" =>
                         /\ AllRequiredVerified(old) /\ AllRequiredVerified(new)
                         /\ new.organization \in provisioned
                    /\ old.status \in {"approved", "rejected"} =>
                         new.status = old.status /\ new.organization = old.organization
  OBVIOUS
<1>1. PICK c \in Calls : SaveApplication(c) /\ part = "onboarding"
  BY DEF Next, OrganizationPart, RelationPart, ReferralPart, AccessPart, OnboardingPart, Dies,
       OnbStep, OnbArrives, Start, ReadApplication, ReadForApproval, Provision, CountAttempts,
       RecordAttempt, onbVars, partnersVars
<1> DEFINE q == call[c]
<1>2. /\ application' = [application EXCEPT ![q.on] = q.row] /\ MayWrite(application[q.on], q.row)
      /\ q.pc = "saveApplication" /\ OnbCall(c) /\ OnbTypeOK
  BY <1>1 DEF SaveApplication, Written, OnbInv, OnbCalls
<1>3. CASE id = q.on
  <2>1. q.op # "start" /\ q.op # "check" /\ q.row \in Application /\ application[id] \in Application
    BY <1>2, <1>3 DEF OnbCall, OnbTypeOK
  <2>2. q.row.version \in Nat /\ application[id].version \in Nat
    BY <2>1, OnbAssumption DEF Application
  <2>3. Follows(q.op, application[id], q.row)
    BY <1>2, <1>3, <2>1, <2>2 DEF OnbCall, MayWrite
  <2>4. application'[id] = q.row
    BY <1>2, <1>3 DEF OnbTypeOK
  <2> QED
    BY <1>2, <2>3, <2>4 DEF Follows, OnbCall, Closed
<1>4. CASE id # q.on
  BY <1>2, <1>4 DEF OnbTypeOK
<1> QED
  BY <1>3, <1>4

\* An application is approved over documents that are all verified, into an organisation
\* that exists, and stays as it was decided.
THEOREM ApprovalsAreSound == Spec => ApprovalIsSound
BY OnbInit0, OnbNext, ApprovalStep, PTL DEF Spec, ApprovalIsSound

---------------------------------------------------------------------------
(* Organisations, members and invitations.                                 *)

\* What the next version of an organisation may be: at most one membership differs, a
\* suspended one is reopened by a reinstatement only and lets nobody in, an owner stays,
\* and the commission moves by itself, by an approved proposal.
OrgMove(op, o, p) ==
  /\ p \in Organization /\ p.version = o.version + 1
  /\ \E u \in Users : \A v \in Users : v # u => p.members[v] = o.members[v]
  /\ o.status = "suspended" => /\ p.status = "suspended" \/ op = "reinstate"
                               /\ \A u \in Users : p.members[u] # None => o.members[u] # None
  /\ \A u \in Users : o.members[u] = "owner" => p.members[u] = "owner"
  /\ o.fee # p.fee => op = "adjustFee" /\ p.members = o.members

LEMMA OrgBumped ==
  ASSUME NEW s \in Organization, s.version < MaxOrgVersion, NEW r, r = Bump(s)
  PROVE  /\ r \in Organization /\ r.version = s.version + 1
         /\ r.status = s.status /\ r.members = s.members /\ r.fee = s.fee
BY OrgAssumption DEF Organization, Bump

LEMMA MemberSet ==
  ASSUME NEW o \in Organization, o.version < MaxOrgVersion, NEW u \in Users,
         NEW role \in OrgRoles \cup {None}, NEW r, r = Bump([o EXCEPT !.members[u] = role])
  PROVE  /\ r \in Organization /\ r.version = o.version + 1
         /\ r.status = o.status /\ r.fee = o.fee
         /\ r.members[u] = role /\ \A v \in Users : v # u => r.members[v] = o.members[v]
<1> DEFINE s == [o EXCEPT !.members[u] = role]
<1>1. s \in Organization /\ s.version = o.version /\ s.status = o.status /\ s.fee = o.fee
      /\ s.members[u] = role /\ \A v \in Users : v # u => s.members[v] = o.members[v]
  BY DEF Organization
<1> HIDE DEF s
<1>2. r = Bump(s)
  BY DEF s
<1>3. s.version < MaxOrgVersion
  BY <1>1
<1>4. /\ r \in Organization /\ r.version = s.version + 1
      /\ r.status = s.status /\ r.members = s.members /\ r.fee = s.fee
  BY <1>1, <1>2, <1>3, OrgBumped
<1> QED
  BY <1>1, <1>4

LEMMA StatusSet ==
  ASSUME NEW o \in Organization, o.version < MaxOrgVersion, NEW st \in {"active", "suspended"},
         NEW r, r = Bump([o EXCEPT !.status = st])
  PROVE  /\ r \in Organization /\ r.version = o.version + 1
         /\ r.status = st /\ r.fee = o.fee /\ r.members = o.members
<1> DEFINE s == [o EXCEPT !.status = st]
<1>1. s \in Organization /\ s.version = o.version /\ s.status = st /\ s.fee = o.fee
      /\ s.members = o.members
  BY DEF Organization
<1> HIDE DEF s
<1>2. r = Bump(s)
  BY DEF s
<1> QED
  BY <1>1, <1>2, OrgBumped

LEMMA FeeSet ==
  ASSUME NEW o \in Organization, o.version < MaxOrgVersion, NEW fee \in FeesProposed,
         NEW r, r = Bump([o EXCEPT !.fee = fee])
  PROVE  /\ r \in Organization /\ r.version = o.version + 1
         /\ r.status = o.status /\ r.members = o.members
<1> DEFINE s == [o EXCEPT !.fee = fee]
<1>1. s \in Organization /\ s.version = o.version /\ s.status = o.status
      /\ s.members = o.members
  BY DEF Organization
<1> HIDE DEF s
<1>2. r = Bump(s)
  BY DEF s
<1> QED
  BY <1>1, <1>2, OrgBumped

LEMMA MembershipMove ==
  ASSUME NEW o \in Organization, o.version < MaxOrgVersion, NEW u \in Users, NEW op,
         NEW role \in OrgRoles,
         NEW r \in AddMember(o, u, role) \cup UpdateMemberRole(o, u, role) \cup RemoveMember(o, u)
  PROVE  OrgMove(op, o, r) /\ r.status = o.status
<1>1. CASE r \in AddMember(o, u, role)
  <2>1. o.status = "active" /\ o.members[u] = None /\ r = Bump([o EXCEPT !.members[u] = role])
    BY <1>1 DEF AddMember, When
  <2>2. /\ r \in Organization /\ r.version = o.version + 1
        /\ r.status = o.status /\ r.fee = o.fee
        /\ r.members[u] = role /\ \A v \in Users : v # u => r.members[v] = o.members[v]
    BY <2>1, MemberSet
  <2>3. \A v \in Users : o.members[v] = "owner" => r.members[v] = "owner"
    BY <2>1, <2>2, OrgAssumption DEF OrgRoles
  <2>4. o.status # "suspended"
    BY <2>1
  <2> QED
    BY <2>2, <2>3, <2>4 DEF OrgMove
<1>2. CASE r \in UpdateMemberRole(o, u, role)
  <2>1. /\ o.members[u] # None /\ (o.members[u] = "owner" => role = "owner")
        /\ r = Bump([o EXCEPT !.members[u] = role])
    BY <1>2 DEF UpdateMemberRole, When
  <2>2. /\ r \in Organization /\ r.version = o.version + 1
        /\ r.status = o.status /\ r.fee = o.fee
        /\ r.members[u] = role /\ \A v \in Users : v # u => r.members[v] = o.members[v]
    BY <2>1, MemberSet
  <2>3. \A v \in Users : r.members[v] # None => o.members[v] # None
    BY <2>1, <2>2
  <2>4. \A v \in Users : o.members[v] = "owner" => r.members[v] = "owner"
    BY <2>1, <2>2
  <2> QED
    BY <2>2, <2>3, <2>4 DEF OrgMove
<1>3. CASE r \in RemoveMember(o, u)
  <2>1. o.members[u] \notin {None, "owner"} /\ r = Bump([o EXCEPT !.members[u] = None])
    BY <1>3 DEF RemoveMember, When
  <2> QED
    BY <2>1, MemberSet DEF OrgMove
<1> QED
  BY <1>1, <1>2, <1>3

OrgWrites == OrgOps \cup {"adminSuspend", "reinstate", "adjustFee", "accept"}

LEMMA OrgRuleMoves ==
  ASSUME NEW o \in Organization, o.version < MaxOrgVersion, o.version = 1 => o.status = "active",
         NEW q, q.op \in OrgOps, o = org,
         q.op \in {"addMember", "changeRole", "removeMember"} => q.on \in Users,
         q.op \in {"addMember", "changeRole"} => q.arg \in OrgRoles,
         NEW r \in OrgRule(q)
  PROVE  OrgMove(q.op, o, r) \/ (r = o /\ r.version > 1)
<1>1. CASE q.op = "updateOrg"
  <2>1. r = Bump(o)
    BY <1>1 DEF OrgRule, UpdateOrganization, When
  <2>2. /\ r \in Organization /\ r.version = o.version + 1
        /\ r.status = o.status /\ r.members = o.members /\ r.fee = o.fee
    BY <2>1, OrgBumped
  <2> QED
    BY <2>2, OrgAssumption DEF OrgMove
<1>2. CASE q.op \in {"addMember", "changeRole", "removeMember"}
  <2>1. PICK role \in OrgRoles :
          r \in AddMember(o, q.on, role) \cup UpdateMemberRole(o, q.on, role) \cup RemoveMember(o, q.on)
    BY <1>2 DEF OrgRule, OrgRoles
  <2> QED
    BY <1>2, <2>1, MembershipMove
<1>3. CASE q.op = "suspendOrg"
  <2>1. CASE o.status = "suspended"
    <3>1. o.version # 1 /\ o.version \in Nat \ {0}
      BY <2>1, OrgAssumption DEF Organization
    <3> QED
      BY <1>3, <2>1, <3>1 DEF OrgRule, Suspend
  <2>2. CASE o.status # "suspended"
    <3>1. r = Bump([o EXCEPT !.status = "suspended"])
      BY <1>3, <2>2 DEF OrgRule, Suspend
    <3>2. /\ r \in Organization /\ r.version = o.version + 1
          /\ r.status = "suspended" /\ r.fee = o.fee /\ r.members = o.members
      BY <3>1, StatusSet
    <3> QED
      BY <3>2, OrgAssumption DEF OrgMove
  <2> QED
    BY <2>1, <2>2
<1> QED
  BY <1>1, <1>2, <1>3 DEF OrgOps

LEMMA AdminMoves ==
  ASSUME NEW o \in Organization, o.version < MaxOrgVersion
  PROVE  /\ \A r \in AdminSuspend(o) : OrgMove("adminSuspend", o, r)
         /\ \A r \in Reinstate(o) : OrgMove("reinstate", o, r)
         /\ \A fee \in FeesProposed :
              \A r \in AdjustPlatformFeePercent(o, fee) : OrgMove("adjustFee", o, r)
<1>1. ASSUME NEW r \in AdminSuspend(o) PROVE OrgMove("adminSuspend", o, r)
  <2>1. r = Bump([o EXCEPT !.status = "suspended"])
    BY <1>1 DEF AdminSuspend, When
  <2>2. /\ r \in Organization /\ r.version = o.version + 1
        /\ r.status = "suspended" /\ r.fee = o.fee /\ r.members = o.members
    BY <2>1, StatusSet
  <2> QED
    BY <2>2, OrgAssumption DEF OrgMove
<1>2. ASSUME NEW r \in Reinstate(o) PROVE OrgMove("reinstate", o, r)
  <2>1. r = Bump([o EXCEPT !.status = "active"])
    BY <1>2 DEF Reinstate, When
  <2>2. /\ r \in Organization /\ r.version = o.version + 1
        /\ r.fee = o.fee /\ r.members = o.members
    BY <2>1, StatusSet
  <2> QED
    BY <2>2, OrgAssumption DEF OrgMove
<1>3. ASSUME NEW fee \in FeesProposed, NEW r \in AdjustPlatformFeePercent(o, fee)
      PROVE  OrgMove("adjustFee", o, r)
  <2>1. r = Bump([o EXCEPT !.fee = fee])
    BY <1>3 DEF AdjustPlatformFeePercent, When
  <2>2. /\ r \in Organization /\ r.version = o.version + 1
        /\ r.status = o.status /\ r.members = o.members
    BY <2>1, FeeSet
  <2> QED
    BY <2>2, OrgAssumption DEF OrgMove
<1> QED
  BY <1>1, <1>2, <1>3

\* An organisation row on its way: read from the one that stands, or from an older one.
OrgRow(op, p) ==
  /\ org # None /\ op \in OrgWrites /\ p \in Organization /\ p.version > 1
  /\ p.version <= org.version + 1
  /\ p.version = org.version + 1 => OrgMove(op, org, p)

\* An invitation row on its way: if it reads accepted, the member is in.
InvitationRow(i, row) ==
  row \in Invitation /\ (row.status = "accepted" => <<row.acceptedBy, i>> \in joined)

OrgAsked(q) ==
  /\ q.op \in OrgWrites \cup {"createOrg", "invite", "revoke"}
  /\ q.op \in {"createOrg", "accept"} => q.who \in Users
  /\ q.op \in {"addMember", "changeRole", "removeMember"} => q.on \in Users
  /\ q.op \in {"addMember", "changeRole"} => q.arg \in OrgRoles
  /\ q.op = "adjustFee" => q.arg \in FeesProposed
  /\ q.op \in {"invite", "revoke", "accept"} => q.on \in Invitations
  /\ q.op = "invite" => q.arg \in Users

OrgCall(c) ==
  LET q == call[c] IN
  q.pc # "idle" =>
    /\ q.pc \in {"read", "readOrg", "saveOrg", "saveInvitation", "saveBoth"} /\ OrgAsked(q)
    /\ q.op = "createOrg" => /\ org = None
                             /\ \A d \in Calls : d # c => call[d].op # "createOrg"
    /\ q.pc = "readOrg" => q.op = "accept" /\ q.row \in Invitation /\ q.row.version < MaxOrgVersion
    /\ q.pc = "saveOrg" => OrgRow(q.op, q.row) /\ q.op # "accept"
    /\ q.pc = "saveInvitation" => q.on \in Invitations /\ InvitationRow(q.on, q.row)
    /\ q.pc = "saveBoth" =>
         /\ q.op = "accept" /\ OrgRow("accept", q.row.org)
         /\ q.row.invitation \in Invitation /\ q.row.invitation.acceptedBy = q.who

OrgCalls == part = "organization" => CallsShaped /\ \A c \in Calls : OrgCall(c)

FirstIsActive == org # None /\ org.version = 1 => org.status = "active"

OrgInv == OrgTypeOK /\ FirstIsActive /\ AcceptedMeansJoined /\ OrgCalls

LEMMA OrgInit0 == Init => OrgInv
<1> SUFFICES ASSUME Init PROVE OrgInv
  OBVIOUS
<1>1. invitation = [i \in Invitations |-> None] /\ lapsed = {} /\ joined = {}
  BY DEF Init, OrgInit, NobodyInvited
<1>2. ASSUME org = None PROVE OrgTypeOK /\ FirstIsActive
  BY <1>1, <1>2 DEF OrgTypeOK, FirstIsActive
<1>3. ASSUME org \in Staffed PROVE OrgTypeOK /\ FirstIsActive
  <2>1. PICK u \in Users, r \in {"admin", "member"} : org \in AddMember(NewOrganization(Founder), u, r)
    BY <1>3 DEF Staffed
  <2> DEFINE o == NewOrganization(Founder)
  <2>2. o \in Organization /\ o.version = 1 /\ o.version < MaxOrgVersion
    <3>1. [v \in Users |-> IF v = Founder THEN "owner" ELSE None] \in [Users -> OrgRoles \cup {None}]
      BY DEF OrgRoles
    <3>2. 1 \in 1..MaxOrgVersion /\ 1 < MaxOrgVersion
      BY OrgAssumption, AccessAssumption
    <3> QED
      BY <3>1, <3>2 DEF NewOrganization, Organization
  <2>3. r \in OrgRoles
    BY DEF OrgRoles
  <2>4. OrgMove("addMember", o, org)
    BY <2>1, <2>2, <2>3, MembershipMove
  <2> QED
    BY <1>1, <2>2, <2>4 DEF OrgTypeOK, FirstIsActive, OrgMove
<1>4. OrgTypeOK /\ FirstIsActive
  BY <1>2, <1>3 DEF Init, OrgInit
<1>5. CallsShaped /\ \A c \in Calls : OrgCall(c)
  BY DEF Init, CallsShaped, Shaped, Idle, OrgCall
<1> QED
  BY <1>1, <1>4, <1>5 DEF OrgInv, OrgCalls, AcceptedMeansJoined

\* A step of one request that leaves the organisation alone.
LEMMA OrgQuiet ==
  ASSUME OrgInv, NEW c \in Calls, NEW q, Becomes(c, q), OrgCall(c)', UNCHANGED <<org, joined>>,
         OrgTypeOK', AcceptedMeansJoined', UNCHANGED part, part = "organization",
         q.op = "createOrg" => \A d \in Calls : call[d].op # "createOrg"
  PROVE  OrgInv'
<1>1. ASSUME NEW d \in Calls, d # c PROVE OrgCall(d)'
  <2>1. OrgCall(d) /\ call'[d] = call[d] /\ call'[c] = q
    BY <1>1 DEF OrgInv, OrgCalls, Becomes
  <2> QED
    BY <1>1, <2>1 DEF OrgCall, OrgRow, InvitationRow, OrgAsked, OrgInv, OrgCalls, Becomes
<1> QED
  BY <1>1 DEF OrgInv, OrgCalls, Becomes, FirstIsActive

LEMMA OrgLeaves ==
  ASSUME OrgInv, part = "organization", UNCHANGED part, NEW c \in Calls, Leave(c),
         UNCHANGED <<org, joined>>, OrgTypeOK', AcceptedMeansJoined'
  PROVE  OrgInv'
<1>1. Becomes(c, Idle)
  BY Leaving DEF OrgInv, OrgCalls
<1>2. OrgCall(c)'
  BY <1>1 DEF OrgCall, Becomes, Idle
<1> QED
  BY <1>1, <1>2, OrgQuiet DEF Idle

LEMMA OrgArrival ==
  ASSUME OrgInv, part = "organization", UNCHANGED part, NEW c \in Calls, OrgArrives(c)
  PROVE  OrgInv'
<1>0. CallsShaped /\ OrgTypeOK' /\ AcceptedMeansJoined' /\ UNCHANGED orgVars
  BY DEF OrgInv, OrgCalls, OrgArrives, orgVars, OrgTypeOK, AcceptedMeansJoined
<1>1. ASSUME NEW op, NEW who, NEW on, NEW arg, Arrive(c, op, who, on, arg),
             LET q == [op |-> op, pc |-> "read", who |-> who, on |-> on, arg |-> arg, row |-> None]
             IN  OrgAsked(q),
             op = "createOrg" => org = None /\ \A d \in Calls : call[d].op # "createOrg"
      PROVE  OrgInv'
  <2> DEFINE q == [op |-> op, pc |-> "read", who |-> who, on |-> on, arg |-> arg, row |-> None]
  <2>1. Becomes(c, q)
    BY <1>0, <1>1, Arriving
  <2>2. OrgAsked(call[c])' /\ call'[c].op = op /\ call'[c].pc = "read"
    BY <1>1, <2>1 DEF Becomes, OrgAsked
  <2>3. op = "createOrg" => org' = None /\ \A d \in Calls : d # c => call'[d].op # "createOrg"
    BY <1>0, <1>1, <2>1 DEF Becomes, orgVars
  <2>4. OrgCall(c)'
    BY <2>2, <2>3 DEF OrgCall
  <2> QED
    BY <1>0, <1>1, <2>1, <2>4, OrgQuiet DEF orgVars
<1>2. CASE PostOrganization(c)
  BY <1>1, <1>2, OrgAssumption DEF PostOrganization, OrgAsked, OrgWrites, OrgOps
<1>3. CASE PostSuspension(c)
  BY <1>1, <1>3 DEF PostSuspension, OrgAsked, OrgWrites, OrgOps
<1>4. CASE PostCommission(c)
  BY <1>1, <1>4 DEF PostCommission, OrgAsked, OrgWrites, OrgOps
<1>5. ASSUME NEW u \in Users, PatchOrganization(c, u) PROVE OrgInv'
  BY <1>1, <1>5 DEF PatchOrganization, OrgAsked, OrgWrites, OrgOps
<1>6. ASSUME NEW u \in Users, PostMember(c, u) PROVE OrgInv'
  BY <1>1, <1>6 DEF PostMember, OrgAsked, OrgWrites, OrgOps, OrgRoles
<1>7. ASSUME NEW u \in Users, ChangeMembership(c, u) PROVE OrgInv'
  BY <1>1, <1>7 DEF ChangeMembership, OrgAsked, OrgWrites, OrgOps, OrgRoles
<1>8. ASSUME NEW u \in Users, PostInvitation(c, u) PROVE OrgInv'
  BY <1>1, <1>8 DEF PostInvitation, OrgAsked, OrgWrites, OrgOps
<1>9. ASSUME NEW u \in Users, DeleteInvitation(c, u) PROVE OrgInv'
  BY <1>1, <1>9 DEF DeleteInvitation, OrgAsked, OrgWrites, OrgOps
<1>10. ASSUME NEW u \in Users, PostAcceptance(c, u) PROVE OrgInv'
  BY <1>1, <1>10 DEF PostAcceptance, OrgAsked, OrgWrites, OrgOps
<1> QED
  BY <1>2, <1>3, <1>4, <1>5, <1>6, <1>7, <1>8, <1>9, <1>10 DEF OrgArrives

\* Deciding on the next version of a row, or to leave.
LEMMA OrgDecides ==
  ASSUME OrgInv, part = "organization", UNCHANGED part, NEW c \in Calls, UNCHANGED orgVars,
         call[c].pc \in {"read", "readOrg"}, call[c].op # "createOrg", NEW rows,
         NEW pc \in {"saveOrg", "saveInvitation", "saveBoth"}, Decide(c, rows, pc),
         \A r \in rows :
           /\ pc = "saveOrg" => OrgRow(call[c].op, r) /\ call[c].op # "accept"
           /\ pc = "saveInvitation" => call[c].on \in Invitations /\ InvitationRow(call[c].on, r)
           /\ pc = "saveBoth" =>
                /\ call[c].op = "accept" /\ OrgRow("accept", r.org)
                /\ r.invitation \in Invitation /\ r.invitation.acceptedBy = call[c].who
  PROVE  OrgInv'
<1> DEFINE q == call[c]
<1>0. /\ CallsShaped /\ OrgCall(c) /\ OrgTypeOK' /\ AcceptedMeansJoined'
      /\ UNCHANGED <<org, joined>>
  BY DEF OrgInv, OrgCalls, orgVars, OrgTypeOK, AcceptedMeansJoined
<1>1. CASE Leave(c)
  BY <1>0, <1>1, OrgLeaves
<1>2. CASE \E r \in rows : Goto(c, pc, r)
  <2>1. PICK r \in rows : Goto(c, pc, r)
    BY <1>2
  <2>2. Becomes(c, [op |-> q.op, pc |-> pc, who |-> q.who, on |-> q.on, arg |-> q.arg, row |-> r])
    BY <1>0, <2>1, Going
  <2>3. OrgAsked(call[c])'
    BY <1>0, <2>2 DEF OrgCall, OrgAsked, Becomes
  <2>4. OrgCall(c)'
    BY <1>0, <2>2, <2>3 DEF OrgCall, Becomes, OrgRow, InvitationRow
  <2> QED
    BY <1>0, <2>2, <2>4, OrgQuiet
<1> QED
  BY <1>1, <1>2 DEF Decide

\* A new version of the organisation: every other request's row is now too old to be
\* written, or was of another request's making.
LEMMA OrgAdvances ==
  ASSUME OrgInv, part = "organization", UNCHANGED part, NEW c \in Calls, NEW q,
         Becomes(c, q), OrgCall(c)', q.op # "createOrg",
         org # None, org' \in Organization, org'.version = org.version + 1,
         joined \subseteq joined', OrgTypeOK', AcceptedMeansJoined'
  PROVE  OrgInv'
<1>0. /\ org \in Organization /\ org.version \in Nat \ {0} /\ org'.version \in Nat
      /\ org' # None
  BY OrgAssumption DEF OrgInv, OrgTypeOK, Organization
<1>1. ASSUME NEW d \in Calls, d # c PROVE OrgCall(d)'
  <2>1. OrgCall(d) /\ call'[d] = call[d] /\ call'[c] = q
    BY <1>1 DEF OrgInv, OrgCalls, Becomes
  <2>2. CASE call[d].pc = "idle"
    BY <2>1, <2>2 DEF OrgCall
  <2>3. CASE call[d].pc # "idle"
    <3>1. OrgAsked(call[d])' /\ call[d].op # "createOrg"
      BY <1>0, <2>1, <2>3 DEF OrgCall, OrgAsked
    <3>2. ASSUME NEW op, NEW p, OrgRow(op, p) PROVE OrgRow(op, p)'
      BY <1>0, <3>2 DEF OrgRow, Organization
    <3>3. ASSUME NEW i, NEW row, InvitationRow(i, row) PROVE InvitationRow(i, row)'
      BY <3>3 DEF InvitationRow
    <3>4. call[d].pc = "saveOrg" => OrgRow(call[d].op, call[d].row)' /\ call[d].op # "accept"
      BY <2>1, <2>3, <3>2 DEF OrgCall
    <3>5. call[d].pc = "saveInvitation" => call[d].on \in Invitations /\ InvitationRow(call[d].on, call[d].row)'
      BY <2>1, <2>3, <3>3 DEF OrgCall
    <3>6. call[d].pc = "saveBoth" => OrgRow("accept", call[d].row.org)'
      BY <2>1, <2>3, <3>2 DEF OrgCall
    <3> QED
      BY <2>1, <2>3, <3>1, <3>4, <3>5, <3>6 DEF OrgCall
  <2> QED
    BY <2>2, <2>3
<1>2. FirstIsActive'
  BY <1>0 DEF FirstIsActive
<1> QED
  BY <1>1, <1>2 DEF OrgInv, OrgCalls, Becomes

LEMMA OrgSaves ==
  ASSUME OrgInv, part = "organization", UNCHANGED part, NEW c \in Calls, SaveOrg(c)
  PROVE  OrgInv'
<1> DEFINE q == call[c]
<1>0. /\ OrgCall(c) /\ Becomes(c, Idle) /\ OrgTypeOK /\ OrgRow(q.op, q.row)
      /\ UNCHANGED <<invitation, lapsed, joined>> /\ AcceptedMeansJoined'
  BY Leaving DEF OrgInv, OrgCalls, SaveOrg, OrgCall, AcceptedMeansJoined
<1>1. /\ org \in Organization /\ org.version \in Nat \ {0}
      /\ q.row \in Organization /\ q.row.version \in Nat \ {0, 1}
  BY <1>0, OrgAssumption DEF OrgRow, OrgTypeOK, Organization
<1>2. CASE MayWrite(org, q.row)
  <2>1. org' = q.row /\ org'.version = org.version + 1
    BY <1>1, <1>2 DEF SaveOrg, MayWrite
  <2>2. OrgTypeOK'
    BY <1>0, <1>1, <2>1 DEF OrgTypeOK
  <2>3. OrgCall(c)'
    BY <1>0 DEF OrgCall, Becomes, Idle
  <2>4. org # None
    BY <1>0 DEF OrgRow
  <2> QED
    BY <1>0, <1>1, <2>1, <2>2, <2>3, <2>4, OrgAdvances DEF Idle
<1>3. CASE ~MayWrite(org, q.row)
  BY <1>0, <1>3, OrgLeaves DEF SaveOrg, OrgTypeOK
<1> QED
  BY <1>2, <1>3

LEMMA InvitationSaves ==
  ASSUME OrgInv, part = "organization", UNCHANGED part, NEW c \in Calls, SaveInvitation(c)
  PROVE  OrgInv'
<1> DEFINE q == call[c]
<1>0. /\ OrgCall(c) /\ OrgTypeOK /\ AcceptedMeansJoined /\ q.pc = "saveInvitation"
      /\ q.on \in Invitations /\ InvitationRow(q.on, q.row)
      /\ UNCHANGED <<org, lapsed, joined>>
  BY DEF OrgInv, OrgCalls, SaveInvitation, OrgCall
<1>1. OrgTypeOK'
  BY <1>0 DEF SaveInvitation, Written, OrgTypeOK, InvitationRow
<1>2. AcceptedMeansJoined'
  <2> SUFFICES ASSUME NEW i \in Invitations, invitation'[i] # None, invitation'[i].status = "accepted"
               PROVE  <<invitation'[i].acceptedBy, i>> \in joined
    BY <1>0 DEF AcceptedMeansJoined
  <2>1. CASE invitation'[i] = invitation[i]
    BY <1>0, <2>1 DEF AcceptedMeansJoined
  <2>2. CASE invitation'[i] # invitation[i]
    <3>1. i = q.on /\ invitation'[i] = q.row
      BY <1>0, <2>2 DEF SaveInvitation, Written, OrgTypeOK
    <3> QED
      BY <1>0, <3>1 DEF InvitationRow
  <2> QED
    BY <2>1, <2>2
<1> QED
  BY <1>0, <1>1, <1>2, OrgLeaves DEF SaveInvitation

LEMMA MemberSaves ==
  ASSUME OrgInv, part = "organization", UNCHANGED part, NEW c \in Calls, SaveMember(c)
  PROVE  OrgInv'
<1> DEFINE q == call[c] r == q.row
<1>0. /\ CallsShaped /\ OrgCall(c) /\ OrgTypeOK /\ AcceptedMeansJoined
      /\ q.op = "accept" /\ q.pc = "saveBoth" /\ q.who \in Users /\ q.on \in Invitations
      /\ OrgRow("accept", r.org) /\ r.invitation \in Invitation
      /\ r.invitation.acceptedBy = q.who /\ UNCHANGED <<invitation, lapsed>>
  BY DEF OrgInv, OrgCalls, SaveMember, At, OrgCall, OrgAsked
<1>1. /\ org \in Organization /\ org.version \in Nat \ {0} /\ org # None
      /\ r.org \in Organization /\ r.org.version \in Nat \ {0, 1}
  BY <1>0, OrgAssumption DEF OrgRow, OrgTypeOK, Organization
<1>2. CASE MayWrite(org, r.org)
  <2>1. /\ org' = r.org /\ org'.version = org.version + 1
        /\ joined' = joined \cup {<<q.who, q.on>>} /\ Goto(c, "saveInvitation", r.invitation)
    BY <1>1, <1>2 DEF SaveMember, MayWrite
  <2> DEFINE next == [op |-> q.op, pc |-> "saveInvitation", who |-> q.who, on |-> q.on,
                      arg |-> q.arg, row |-> r.invitation]
  <2>2. Becomes(c, next)
    BY <1>0, <2>1, Going
  <2>3. OrgTypeOK' /\ AcceptedMeansJoined'
    BY <1>0, <1>1, <2>1 DEF OrgTypeOK, AcceptedMeansJoined
  <2>4. /\ call'[c] = next /\ call'[c].pc = "saveInvitation" /\ call'[c].op = "accept"
        /\ call'[c].on = q.on /\ call'[c].row = r.invitation
        /\ <<r.invitation.acceptedBy, q.on>> \in joined'
    BY <1>0, <2>1, <2>2 DEF Becomes
  <2>6. OrgAsked(call[c])'
    BY <1>0, <2>2 DEF OrgAsked, Becomes, OrgWrites
  <2>5. OrgCall(c)'
    BY <1>0, <2>4, <2>6 DEF OrgCall, InvitationRow
  <2> QED
    BY <1>0, <1>1, <2>1, <2>2, <2>3, <2>5, OrgAdvances
<1>3. CASE ~MayWrite(org, r.org)
  BY <1>0, <1>3, OrgLeaves DEF SaveMember, OrgTypeOK, AcceptedMeansJoined
<1> QED
  BY <1>2, <1>3

LEMMA OrgCreated ==
  ASSUME OrgInv, part = "organization", UNCHANGED part, NEW c \in Calls, CreateOrg(c)
  PROVE  OrgInv'
<1> DEFINE q == call[c]
<1>0. /\ OrgCall(c) /\ Becomes(c, Idle) /\ OrgTypeOK /\ q.op = "createOrg" /\ q.pc = "read"
      /\ org = None /\ q.who \in Users /\ \A d \in Calls : d # c => call[d].op # "createOrg"
      /\ org' = NewOrganization(q.who) /\ UNCHANGED <<invitation, lapsed, joined>>
      /\ AcceptedMeansJoined'
  BY Leaving DEF OrgInv, OrgCalls, CreateOrg, At, OrgCall, OrgAsked, AcceptedMeansJoined
<1>1. org' \in Organization /\ org'.version = 1 /\ org'.status = "active"
  <2>1. [v \in Users |-> IF v = q.who THEN "owner" ELSE None] \in [Users -> OrgRoles \cup {None}]
    BY DEF OrgRoles
  <2>2. 1 \in 1..MaxOrgVersion
    BY OrgAssumption
  <2> QED
    BY <1>0, <2>1, <2>2 DEF NewOrganization, Organization
<1>2. OrgTypeOK' /\ FirstIsActive'
  BY <1>0, <1>1 DEF OrgTypeOK, FirstIsActive
<1>3. ASSUME NEW d \in Calls PROVE OrgCall(d)'
  <2>1. CASE d = c
    BY <1>0, <2>1 DEF OrgCall, Becomes, Idle
  <2>2. CASE d # c
    <3>1. OrgCall(d) /\ call'[d] = call[d] /\ call[d].op # "createOrg"
      BY <1>0, <2>2 DEF OrgInv, OrgCalls, Becomes
    <3>2. CASE call[d].pc = "idle"
      BY <3>1, <3>2 DEF OrgCall
    <3>3. CASE call[d].pc # "idle"
      <4>1. OrgAsked(call[d])' /\ call[d].pc \notin {"saveOrg", "saveBoth"}
        BY <1>0, <3>1, <3>3 DEF OrgCall, OrgAsked, OrgRow
      <4>2. call[d].pc = "saveInvitation" =>
              call[d].on \in Invitations /\ InvitationRow(call[d].on, call[d].row)'
        BY <1>0, <3>1, <3>3 DEF OrgCall, InvitationRow
      <4> QED
        BY <3>1, <3>3, <4>1, <4>2 DEF OrgCall
    <3> QED
      BY <3>2, <3>3
  <2> QED
    BY <2>1, <2>2
<1> QED
  BY <1>0, <1>2, <1>3 DEF OrgInv, OrgCalls, Becomes

LEMMA OrgWorks ==
  ASSUME OrgInv, part = "organization", UNCHANGED part, NEW c \in Calls, OrgStep(c)
  PROVE  OrgInv'
<1> DEFINE q == call[c]
<1>0. CallsShaped /\ OrgCall(c) /\ OrgTypeOK /\ FirstIsActive
  BY DEF OrgInv, OrgCalls
<1>1. ASSUME HasRoom(org, MaxOrgVersion)
      PROVE  /\ org \in Organization /\ org.version \in Nat \ {0} /\ org # None
             /\ org.version < MaxOrgVersion
  BY <1>0, <1>1, OrgAssumption DEF HasRoom, OrgTypeOK, Organization
<1>2. ASSUME NEW op, NEW r, HasRoom(org, MaxOrgVersion), op \in OrgWrites,
             OrgMove(op, org, r) \/ (r = org /\ r.version > 1)
      PROVE  OrgRow(op, r)
  <2>1. org \in Organization /\ org.version \in Nat \ {0} /\ org # None
    BY <1>1, <1>2
  <2>2. CASE OrgMove(op, org, r)
    BY <1>2, <2>1, <2>2 DEF OrgMove, OrgRow
  <2>3. CASE r = org /\ r.version > 1
    BY <1>2, <2>1, <2>3 DEF OrgRow
  <2> QED
    BY <1>2, <2>2, <2>3
<1>3. CASE ReadOrg(c)
  <2>1. /\ q.op \in OrgOps /\ q.pc = "read" /\ HasRoom(org, MaxOrgVersion) /\ UNCHANGED orgVars
        /\ Decide(c, OrgRule(q), "saveOrg") /\ OrgAsked(q) /\ q.op \in OrgWrites
    BY <1>0, <1>3 DEF ReadOrg, OrgCall, OrgWrites
  <2>2. q.op \notin {"accept", "createOrg"}
    BY <2>1 DEF OrgOps
  <2>3. org.version = 1 => org.status = "active"
    BY <1>0, <1>1, <2>1 DEF FirstIsActive
  <2>4. \A r \in OrgRule(q) : OrgMove(q.op, org, r) \/ (r = org /\ r.version > 1)
    BY <1>1, <2>1, <2>3, OrgRuleMoves DEF OrgAsked
  <2>5. \A r \in OrgRule(q) : OrgRow(q.op, r)
    BY <1>2, <2>1, <2>4
  <2> QED
    BY <2>1, <2>2, <2>5, OrgDecides
<1>4. CASE SuspendOrReinstate(c)
  <2>1. /\ q.op \in {"adminSuspend", "reinstate"} /\ q.pc = "read"
        /\ HasRoom(org, MaxOrgVersion) /\ UNCHANGED orgVars
        /\ Decide(c, IF q.op = "reinstate" THEN Reinstate(org) ELSE AdminSuspend(org), "saveOrg")
        /\ q.op \in OrgWrites
    BY <1>4 DEF SuspendOrReinstate, OrgWrites
  <2>2. \A r \in (IF q.op = "reinstate" THEN Reinstate(org) ELSE AdminSuspend(org)) :
          OrgMove(q.op, org, r)
    BY <1>1, <2>1, AdminMoves
  <2>3. \A r \in (IF q.op = "reinstate" THEN Reinstate(org) ELSE AdminSuspend(org)) :
          OrgRow(q.op, r)
    BY <1>2, <2>1, <2>2
  <2> QED
    BY <2>1, <2>3, OrgDecides
<1>5. CASE AdjustCommissionFromProposal(c)
  <2>1. /\ q.op = "adjustFee" /\ q.pc = "read" /\ HasRoom(org, MaxOrgVersion) /\ UNCHANGED orgVars
        /\ Decide(c, AdjustPlatformFeePercent(org, q.arg), "saveOrg")
        /\ q.op \in OrgWrites /\ q.arg \in FeesProposed
    BY <1>0, <1>5 DEF AdjustCommissionFromProposal, At, OrgCall, OrgAsked
  <2>2. \A r \in AdjustPlatformFeePercent(org, q.arg) : OrgMove("adjustFee", org, r)
    BY <1>1, <2>1, AdminMoves
  <2>3. \A r \in AdjustPlatformFeePercent(org, q.arg) : OrgRow("adjustFee", r)
    BY <1>2, <2>1, <2>2
  <2> QED
    BY <2>1, <2>3, OrgDecides
<1>6. CASE CreateInvitation(c)
  <2>1. /\ q.op = "invite" /\ q.pc = "read" /\ UNCHANGED orgVars
        /\ q.on \in Invitations /\ q.arg \in Users
        /\ Decide(c, When(PendingFor(q.arg) = {}, NewInvitation(q.arg, "member")), "saveInvitation")
    BY <1>0, <1>6 DEF CreateInvitation, At, OrgCall, OrgAsked
  <2>2. NewInvitation(q.arg, "member") \in Invitation
        /\ NewInvitation(q.arg, "member").status = "pending"
    BY <2>1, OrgAssumption DEF NewInvitation, Invitation, OrgRoles
  <2>3. \A r \in When(PendingFor(q.arg) = {}, NewInvitation(q.arg, "member")) :
          InvitationRow(q.on, r)
    BY <2>2 DEF When, InvitationRow
  <2> QED
    BY <2>1, <2>3, OrgDecides
<1>7. CASE RevokeInvitation(c)
  <2>1. /\ q.op = "revoke" /\ q.pc = "read" /\ UNCHANGED orgVars
        /\ q.on \in Invitations /\ Decide(c, Revoke(q.on), "saveInvitation")
        /\ invitation[q.on] \in Invitation /\ invitation[q.on].version < MaxOrgVersion
    BY <1>0, <1>7 DEF RevokeInvitation, At, OrgCall, OrgAsked, HasRoom, OrgTypeOK
  <2>2. LET s == [invitation[q.on] EXCEPT !.status = "revoked"] IN
        s \in Invitation /\ s.status = "revoked" /\ s.version < MaxOrgVersion
    BY <2>1 DEF Invitation
  <2>3. LET s == [invitation[q.on] EXCEPT !.status = "revoked"] IN
        Bump(s) \in Invitation /\ Bump(s).status = "revoked"
    <3> DEFINE s == [invitation[q.on] EXCEPT !.status = "revoked"]
    <3>1. s \in Invitation /\ s.status = "revoked" /\ s.version < MaxOrgVersion
      BY <2>2
    <3> HIDE DEF s
    <3>2. Bump(s) \in Invitation /\ Bump(s).status = "revoked"
      BY <3>1, OrgAssumption DEF Invitation, Bump
    <3> QED
      BY <3>2 DEF s
  <2>4. \A r \in Revoke(q.on) : InvitationRow(q.on, r)
    <3>1. ASSUME NEW r \in Revoke(q.on) PROVE r \in Invitation /\ r.status = "revoked"
      <4>1. \/ r = invitation[q.on] /\ Standing(q.on) = "revoked"
            \/ r = Bump([invitation[q.on] EXCEPT !.status = "revoked"])
        BY <3>1 DEF Revoke, When
      <4> QED
        BY <2>1, <2>3, <4>1 DEF Standing
    <3> QED
      BY <3>1 DEF InvitationRow
  <2> QED
    BY <2>1, <2>4, OrgDecides
<1>8. CASE ReadInvitation(c)
  <2>1. /\ q.op = "accept" /\ q.pc = "read" /\ UNCHANGED <<org, joined>>
        /\ invitation[q.on] \in Invitation /\ invitation[q.on].version < MaxOrgVersion
        /\ OrgTypeOK' /\ AcceptedMeansJoined' /\ OrgAsked(q)
    BY <1>0, <1>8 DEF ReadInvitation, At, OrgCall, OrgAsked, HasRoom, OrgTypeOK, orgVars, OrgInv,
      AcceptedMeansJoined
  <2>2. Becomes(c, [op |-> q.op, pc |-> "readOrg", who |-> q.who, on |-> q.on, arg |-> q.arg,
                    row |-> invitation[q.on]])
    BY <1>0, <1>8, Going DEF ReadInvitation
  <2>3. OrgAsked(call[c])'
    BY <2>1, <2>2 DEF OrgAsked, Becomes
  <2>4. OrgCall(c)'
    BY <2>1, <2>2, <2>3 DEF OrgCall, Becomes
  <2> QED
    BY <2>1, <2>2, <2>4, OrgQuiet
<1>9. CASE AcceptInvitation(c)
  <2> DEFINE Both(o) == [org |-> o, invitation |-> Accept(q.row, q.who)]
  <2>1. /\ q.op = "accept" /\ q.pc = "readOrg" /\ HasRoom(org, MaxOrgVersion)
        /\ UNCHANGED orgVars /\ q.who \in Users /\ q.on \in Invitations
        /\ q.row \in Invitation /\ q.row.version < MaxOrgVersion /\ "accept" \in OrgWrites
    BY <1>0, <1>9 DEF AcceptInvitation, At, OrgCall, OrgAsked, OrgWrites
  <2>2. /\ Accept(q.row, q.who) \in Invitation /\ Accept(q.row, q.who).acceptedBy = q.who
    <3> DEFINE s == [q.row EXCEPT !.status = "accepted", !.acceptedBy = q.who]
    <3>1. s \in Invitation /\ s.acceptedBy = q.who /\ s.version < MaxOrgVersion
      BY <2>1 DEF Invitation
    <3> HIDE DEF s
    <3>2. Bump(s) \in Invitation /\ Bump(s).acceptedBy = q.who
      BY <3>1, OrgAssumption DEF Invitation, Bump
    <3> QED
      BY <3>2 DEF s, Accept
  <2>3. q.row.role \in OrgRoles
    BY <2>1 DEF Invitation
  <2>4. ASSUME NEW o \in AddMember(org, q.who, q.row.role) PROVE OrgRow("accept", o)
    <3>1. OrgMove("accept", org, o)
      BY <1>1, <2>1, <2>3, <2>4, MembershipMove
    <3> QED
      BY <1>2, <2>1, <3>1
  <2>5. CASE q.row.status = "pending" /\ q.on \notin lapsed
    <3>1. Decide(c, {Both(o) : o \in AddMember(org, q.who, q.row.role)}, "saveBoth")
      BY <1>9, <2>5 DEF AcceptInvitation
    <3>2. \A r \in {Both(o) : o \in AddMember(org, q.who, q.row.role)} :
            /\ OrgRow("accept", r.org) /\ r.invitation \in Invitation
            /\ r.invitation.acceptedBy = q.who
      BY <2>2, <2>4
    <3> QED
      BY <2>1, <3>1, <3>2, OrgDecides
  <2>6. CASE ~(q.row.status = "pending" /\ q.on \notin lapsed)
    BY <1>0, <1>9, <2>1, <2>6, OrgLeaves DEF AcceptInvitation, orgVars, OrgTypeOK, OrgInv,
      AcceptedMeansJoined
  <2> QED
    BY <2>5, <2>6
<1> QED
  BY <1>3, <1>4, <1>5, <1>6, <1>7, <1>8, <1>9, OrgArrival, OrgCreated, OrgSaves, InvitationSaves,
     MemberSaves DEF OrgStep

\* Of the rows here, a request for a dashboard meets the organisation's members only.
LEMMA OrgMembersMove ==
  ASSUME OrgInv, part = "access", UNCHANGED part, MembershipMoves
  PROVE  OrgInv' /\ \E op : OrgMove(op, org, org') /\ org'.fee = org.fee /\ org'.status = org.status
<1>1. org \in Organization /\ org.version < MaxOrgVersion /\ org.version \in Nat \ {0}
  BY OrgAssumption, AccessAssumption DEF MembershipMoves, HasRoom, OrgInv, OrgTypeOK, Organization
<1>2. PICK u \in Users, r \in {"admin", "member"} :
        org' \in AddMember(org, u, r) \cup UpdateMemberRole(org, u, r) \cup RemoveMember(org, u)
  BY DEF MembershipMoves
<1>3. r \in OrgRoles
  BY DEF OrgRoles
<1>4. OrgMove("addMember", org, org') /\ org'.status = org.status
  BY <1>1, <1>2, <1>3, MembershipMove
<1>5. org'.fee = org.fee
  BY <1>4 DEF OrgMove
<1>6. /\ UNCHANGED <<invitation, lapsed, joined>>
  BY DEF MembershipMoves
<1>7. OrgTypeOK' /\ FirstIsActive' /\ AcceptedMeansJoined'
  BY <1>1, <1>4, <1>6 DEF OrgMove, OrgInv, OrgTypeOK, FirstIsActive, AcceptedMeansJoined
<1> QED
  BY <1>4, <1>5, <1>7 DEF OrgInv, OrgCalls

LEMMA OrgNext == OrgInv /\ [Next]_partnersVars => OrgInv'
<1> SUFFICES ASSUME OrgInv, [Next]_partnersVars PROVE OrgInv'
  OBVIOUS
<1>1. CASE part' = part /\ UNCHANGED orgVars /\ (part # "organization" \/ UNCHANGED call)
  <2>1. OrgTypeOK' /\ FirstIsActive' /\ AcceptedMeansJoined'
    BY <1>1 DEF OrgInv, orgVars, OrgTypeOK, FirstIsActive, AcceptedMeansJoined
  <2>2. OrgCalls'
    BY <1>1 DEF OrgInv, orgVars, OrgCalls, CallsShaped, Free, OrgCall, OrgRow, InvitationRow
  <2> QED
    BY <2>1, <2>2 DEF OrgInv
<1>2. ASSUME part = "organization", part' = part, NEW c \in Calls, Dies(c) PROVE OrgInv'
  <2>1. OrgTypeOK' /\ AcceptedMeansJoined' /\ UNCHANGED <<org, joined>>
    BY <1>2 DEF Dies, orgVars, OrgInv, OrgTypeOK, AcceptedMeansJoined
  <2> QED
    BY <1>2, <2>1, OrgLeaves DEF Dies
<1>3. ASSUME part = "organization", part' = part, NEW c \in Calls, OrgStep(c) PROVE OrgInv'
  BY <1>3, OrgWorks
<1>4. ASSUME part = "organization", part' = part, Lapse PROVE OrgInv'
  <2>1. OrgTypeOK' /\ FirstIsActive' /\ AcceptedMeansJoined'
    BY <1>4 DEF Lapse, OrgInv, OrgTypeOK, FirstIsActive, AcceptedMeansJoined
  <2>2. OrgCalls'
    BY <1>4 DEF Lapse, OrgInv, OrgCalls, CallsShaped, Free, OrgCall, OrgRow, InvitationRow
  <2> QED
    BY <2>1, <2>2 DEF OrgInv
<1>5. ASSUME part = "access", part' = part, MembershipMoves PROVE OrgInv'
  BY <1>5, OrgMembersMove
<1>6. CASE UNCHANGED partnersVars
  BY <1>1, <1>6 DEF partnersVars
<1>7. CASE Next
  BY <1>1, <1>2, <1>3, <1>4, <1>5, <1>7 DEF Next, OrganizationPart, RelationPart, ReferralPart,
     OnboardingPart, AccessPart, Dies
<1> QED
  BY <1>6, <1>7

\* An invitation that reads accepted made its acceptor a member, whatever the number of
\* requests that accept, revoke and die around it.
THEOREM AcceptanceJoins == Spec => []AcceptedMeansJoined
<1>1. OrgInv => AcceptedMeansJoined
  BY DEF OrgInv
<1> QED
  BY <1>1, OrgInit0, OrgNext, PTL DEF Spec

LEMMA MoveKeeps ==
  ASSUME NEW op, NEW o, NEW p, OrgMove(op, o, p),
         o.fee # p.fee \/ (o.status = "suspended" /\ p.status # "suspended") =>
           \E c \in Calls : At(c, op, "saveOrg") /\ call[c].row = p
  PROVE  OrgKept(o, p)
<1>1. PICK u \in Users : \A v \in Users : v # u => p.members[v] = o.members[v]
  BY DEF OrgMove
<1>2. \A w, v \in Users : o.members[w] # p.members[w] /\ o.members[v] # p.members[v] => w = v
  BY <1>1
<1> QED
  BY <1>2 DEF OrgMove, OrgKept

LEMMA MembershipStep == OrgInv /\ [Next]_partnersVars => [org # None => OrgKept(org, org')]_org
<1> SUFFICES ASSUME OrgInv, [Next]_partnersVars, org' # org, org # None PROVE OrgKept(org, org')
  OBVIOUS
<1>1. \/ part = "access" /\ part' = part /\ MembershipMoves
      \/ part = "organization" /\ \E c \in Calls : SaveOrg(c) \/ SaveMember(c) \/ CreateOrg(c)
  BY DEF Next, OrganizationPart, RelationPart, ReferralPart, AccessPart, OnboardingPart, Dies,
       OrgStep, OrgArrives, ReadOrg, SuspendOrReinstate, AdjustCommissionFromProposal,
       CreateInvitation, RevokeInvitation, ReadInvitation, AcceptInvitation, SaveInvitation, Lapse,
       orgVars, partnersVars
<1>2. CASE part = "access" /\ part' = part /\ MembershipMoves
  <2>1. PICK op : OrgMove(op, org, org') /\ org'.fee = org.fee /\ org'.status = org.status
    BY <1>2, OrgMembersMove
  <2> QED
    BY <2>1, MoveKeeps
<1>3. ASSUME part = "organization", NEW c \in Calls, SaveOrg(c) \/ SaveMember(c) \/ CreateOrg(c)
      PROVE  OrgKept(org, org')
  <2> DEFINE q == call[c]
  <2>1. OrgCall(c) /\ OrgTypeOK
    BY <1>3 DEF OrgInv, OrgCalls
  <2>2. ~CreateOrg(c)
    BY <2>1 DEF CreateOrg, At, OrgCall
  <2>3. CASE SaveOrg(c)
    <3>1. org' = q.row /\ MayWrite(org, q.row) /\ OrgRow(q.op, q.row) /\ q.pc = "saveOrg"
      BY <2>1, <2>3 DEF SaveOrg, OrgCall
    <3>2. q.row.version = org.version + 1
      BY <2>1, <3>1, OrgAssumption DEF MayWrite, OrgRow, OrgTypeOK, Organization
    <3>3. OrgMove(q.op, org, org') /\ At(c, q.op, "saveOrg") /\ call[c].row = org'
      BY <3>1, <3>2 DEF OrgRow, At
    <3> QED
      BY <3>3, MoveKeeps
  <2>4. CASE SaveMember(c)
    <3>1. /\ org' = q.row.org /\ MayWrite(org, q.row.org) /\ OrgRow("accept", q.row.org)
      BY <2>1, <2>4 DEF SaveMember, At, OrgCall
    <3>2. q.row.org.version = org.version + 1
      BY <2>1, <3>1, OrgAssumption DEF MayWrite, OrgRow, OrgTypeOK, Organization
    <3>3. OrgMove("accept", org, org')
      BY <3>1, <3>2 DEF OrgRow
    <3>4. org.fee = org'.fee /\ (org.status = "suspended" => org'.status = "suspended")
      BY <3>3 DEF OrgMove
    <3> QED
      BY <3>3, <3>4, MoveKeeps
  <2> QED
    BY <1>3, <2>2, <2>3, <2>4
<1> QED
  BY <1>1, <1>2, <1>3

\* A write of the organisation touches the one membership it was about, keeps owners and
\* suspensions, and moves the commission only by an approved proposal.
THEOREM MembersAreKept == Spec => MembershipIsKept
BY OrgInit0, OrgNext, MembershipStep, PTL DEF Spec, MembershipIsKept
=============================================================================
