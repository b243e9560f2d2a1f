--------------------------- MODULE RefundsProofs ---------------------------
(***************************************************************************)
(* Theorems about the admin refunds of an order, for any calls, admins and *)
(* crashes.                                                                *)
(***************************************************************************)
EXTENDS Refunds, FiniteSetTheorems, TLAPS

LEMMA NoRefundTyped == NoRefund \in Refund
BY DEF NoRefund, Refund, Tiers

LEMMA InitTyped == Init => TypeOK
<1> SUFFICES ASSUME Init PROVE TypeOK
  OBVIOUS
<1>1. order \in Order
  BY DEF Init, Order
<1>2. [pc |-> "idle", admin |-> None, target |-> None, tier |-> 0,
       readOrder |-> order, readRefund |-> NoRefund] \in Call
  BY <1>1, NoRefundTyped DEF Call, PCs, Tiers
<1>3. QED
  BY <1>1, <1>2, NoRefundTyped DEF Init, TypeOK

\* What TypeOK says of the calls.
CallsTyped ==
  /\ call \in [Calls -> Call]
  /\ \A k \in Calls : call[k].pc # "idle" => call[k].admin \in Admins /\ call[k].target \in Calls

\* Moving a call in flight keeps its type.
LEMMA GotoTyped ==
  ASSUME TypeOK, NEW k \in Calls, NEW l \in PCs, call[k].pc # "idle", Goto(k, l)
  PROVE  CallsTyped'
BY DEF TypeOK, CallsTyped, Goto, Call

\* So does moving it on with the rows it has read.
LEMMA AtTyped ==
  ASSUME TypeOK, NEW k \in Calls, NEW l \in PCs, NEW a \in Admins, NEW r \in Calls,
         NEW tier \in Tiers, NEW o \in Order, NEW q \in Refund, At(k, l, a, r, tier, o, q)
  PROVE  CallsTyped'
<1>1. [pc |-> l, admin |-> a, target |-> r, tier |-> tier,
       readOrder |-> o, readRefund |-> q] \in Call
  BY DEF Call
<1>2. QED
  BY <1>1 DEF TypeOK, CallsTyped, At

\* The rows a call has read are rows.
LEMMA ReadTyped ==
  ASSUME TypeOK, NEW k \in Calls
  PROVE  /\ call[k] \in Call
         /\ call[k].readOrder \in Order
         /\ call[k].readRefund \in Refund
         /\ call[k].tier \in Tiers
         /\ refund[k] \in Refund
BY DEF TypeOK, Call

LEMMA NextVersion == \A r \in Order \cup Refund : r.version + 1 \in Nat
BY DEF Order, Refund

LEMMA ApprovedTyped == \A a \in Admins, r \in Refund : Approved(a, r) \in Refund
<1> SUFFICES ASSUME NEW a \in Admins, NEW r \in Refund PROVE Approved(a, r) \in Refund
  OBVIOUS
<1>1. r.approvals \cup {a} \in SUBSET Admins /\ r.version + 1 \in Nat
  BY NextVersion DEF Refund
<1>2. QED
  BY <1>1 DEF Approved, Refund

LEMMA RejectedTyped == \A r \in Refund : Rejected(r) \in Refund
BY NextVersion DEF Rejected, Refund

LEMMA TypeStep == TypeOK /\ [Next]_vars => TypeOK'
<1> SUFFICES ASSUME TypeOK, [Next]_vars PROVE TypeOK'
  OBVIOUS
<1> USE ReadTyped
<1>0. {"tickets", "lock", "store", "approve", "reject", "restoreRead", "restore", "done"}
        \subseteq PCs \ {"idle"}
  BY DEF PCs
<1>1. ASSUME NEW k \in Calls, NEW a \in Admins, NEW tier \in Tiers, RequestRefund(k, a, tier)
      PROVE TypeOK'
  <2>1. order \in Order
    BY DEF TypeOK
  <2>2. CallsTyped'
    BY <1>0, <1>1, <2>1, NoRefundTyped, AtTyped DEF RequestRefund
  <2>3. QED
    BY <1>1, <2>2 DEF RequestRefund, TypeOK, CallsTyped
<1>2. ASSUME NEW k \in Calls, ReadTickets(k) PROVE TypeOK'
  <2>1. ApproversRequired(call[k].tier, redeemed) \in Tiers
    BY DEF ApproversRequired, Tiers
  <2>2. call[k].admin \in Admins /\ call[k].target \in Calls
    BY <1>2 DEF ReadTickets, TypeOK
  <2>3. CallsTyped'
    BY <1>0, <1>2, <2>1, <2>2, AtTyped, NoRefundTyped DEF ReadTickets
  <2>4. QED
    BY <1>2, <2>3 DEF ReadTickets, TypeOK, CallsTyped
<1>3. ASSUME NEW k \in Calls, LockOrder(k) PROVE TypeOK'
  <2>1. CallsTyped'
    BY <1>0, <1>3, GotoTyped DEF LockOrder
  <2>2. order' \in Order
    BY <1>3, NextVersion DEF LockOrder, TypeOK, Order
  <2>3. QED
    BY <1>3, <2>1, <2>2 DEF LockOrder, TypeOK, CallsTyped
<1>4. ASSUME NEW k \in Calls, SaveRequest(k) PROVE TypeOK'
  <2>1. CallsTyped'
    BY <1>0, <1>4, GotoTyped DEF SaveRequest
  <2>2. refund' \in [Calls -> Refund]
    BY <1>4 DEF SaveRequest, TypeOK, Refund, Call
  <2>3. QED
    BY <1>4, <2>1, <2>2 DEF SaveRequest, TypeOK, CallsTyped
<1>5. ASSUME NEW k \in Calls, NEW a \in Admins, NEW r \in Calls, ApproveRefund(k, a, r)
      PROVE TypeOK'
  <2>1. 0 \in Tiers
    BY DEF Tiers
  <2>2. CallsTyped'
    BY <1>0, <1>5, <2>1, AtTyped DEF ApproveRefund
  <2>3. QED
    BY <1>5, <2>2 DEF ApproveRefund, TypeOK, CallsTyped
<1>6. ASSUME NEW k \in Calls, SaveApproval(k) PROVE TypeOK'
  <2>1. CallsTyped'
    BY <1>0, <1>6, GotoTyped DEF SaveApproval
  <2>2. call[k].admin \in Admins /\ call[k].target \in Calls
    BY <1>6 DEF SaveApproval, TypeOK
  <2>3. refund' \in [Calls -> Refund]
    BY <1>6, <2>2, ApprovedTyped DEF SaveApproval, TypeOK
  <2>4. QED
    BY <1>6, <2>1, <2>3 DEF SaveApproval, TypeOK, CallsTyped
<1>7. ASSUME NEW k \in Calls, NEW a \in Admins, NEW r \in Calls, RejectRefund(k, a, r)
      PROVE TypeOK'
  <2>1. 0 \in Tiers
    BY DEF Tiers
  <2>2. CallsTyped'
    BY <1>0, <1>7, <2>1, AtTyped DEF RejectRefund
  <2>3. QED
    BY <1>7, <2>2 DEF RejectRefund, TypeOK, CallsTyped
<1>8. ASSUME NEW k \in Calls, SaveRejection(k) PROVE TypeOK'
  <2>1. CallsTyped'
    BY <1>0, <1>8, GotoTyped DEF SaveRejection
  <2>2. refund' \in [Calls -> Refund]
    BY <1>8, RejectedTyped DEF SaveRejection, TypeOK
  <2>3. QED
    BY <1>8, <2>1, <2>2 DEF SaveRejection, TypeOK, CallsTyped
<1>9. ASSUME NEW k \in Calls, RestoreRead(k) PROVE TypeOK'
  <2>1. call[k].admin \in Admins /\ call[k].target \in Calls /\ order \in Order
    BY <1>9 DEF RestoreRead, TypeOK
  <2>2. CallsTyped'
    BY <1>0, <1>9, <2>1, AtTyped DEF RestoreRead
  <2>3. QED
    BY <1>9, <2>2 DEF RestoreRead, TypeOK, CallsTyped
<1>10. ASSUME NEW k \in Calls, RestoreOrder(k) PROVE TypeOK'
  <2>1. CallsTyped'
    BY <1>0, <1>10, GotoTyped DEF RestoreOrder
  <2>2. order' \in Order
    BY <1>10, NextVersion DEF RestoreOrder, TypeOK, Order
  <2>3. QED
    BY <1>10, <2>1, <2>2 DEF RestoreOrder, TypeOK, CallsTyped
<1>11. ASSUME NEW k \in Calls, Crash(k) PROVE TypeOK'
  <2>1. CallsTyped'
    BY <1>0, <1>11, GotoTyped DEF Crash
  <2>2. QED
    BY <1>11, <2>1 DEF Crash, TypeOK, CallsTyped
<1>12. CASE Scan
  BY <1>12 DEF Scan, TypeOK
<1>13. CASE UNCHANGED vars
  BY <1>13 DEF vars, TypeOK
<1>14. QED
  BY <1>1, <1>2, <1>3, <1>4, <1>5, <1>6, <1>7, <1>8, <1>9, <1>10, <1>11, <1>12, <1>13
  DEF Next, Begin, Step

\* Rows and calls are well-typed, whatever calls race and crash.
THEOREM TypeCorrect == Spec => []TypeOK
BY InitTyped, TypeStep, PTL DEF Spec

---------------------------------------------------------------------------
\* What moving a call leaves alone.
LEMMA GotoEffect ==
  ASSUME TypeOK, NEW k \in Calls, NEW l, Goto(k, l)
  PROVE  \A j \in Calls :
           /\ call'[j].pc = IF j = k THEN l ELSE call[j].pc
           /\ call'[j].admin = call[j].admin
           /\ call'[j].target = call[j].target
           /\ call'[j].tier = call[j].tier
           /\ call'[j].readOrder = call[j].readOrder
           /\ call'[j].readRefund = call[j].readRefund
BY DEF TypeOK, Goto, Call

LEMMA AtEffect ==
  ASSUME TypeOK, NEW k \in Calls, NEW l, NEW a, NEW r, NEW tier, NEW o, NEW q,
         At(k, l, a, r, tier, o, q)
  PROVE  /\ \A j \in Calls : j # k => call'[j] = call[j]
         /\ call'[k].pc = l
         /\ call'[k].admin = a
         /\ call'[k].target = r
         /\ call'[k].readOrder = o
         /\ call'[k].readRefund = q
BY DEF TypeOK, At

\* What an operation does to the calls, the requests and the order, in the
\* terms of LockInv.
LEMMA Versions ==
  ASSUME TypeOK
  PROVE  /\ order.version \in Nat
         /\ \A k \in Calls : /\ refund[k].version \in Nat
                              /\ call[k].readOrder.version \in Nat
                              /\ call[k].readRefund.version \in Nat
BY DEF TypeOK, Order, Refund, Call

\* A compare-and-set that succeeds writes over what was read.
LEMMA CasReads ==
  ASSUME TypeOK, LockInv, NEW k \in Calls
  PROVE  /\ CasHolds(order, call[k].readOrder) => order = call[k].readOrder
         /\ call[k].pc \in {"approve", "reject"} /\ CasHolds(refund[call[k].target], call[k].readRefund)
              => refund[call[k].target] = call[k].readRefund
BY DEF LockInv, ReadsAreOld, ReadOf, CasHolds

LEMMA ApprovedIs ==
  ASSUME NEW a \in Admins, NEW r \in Refund
  PROVE  /\ Approved(a, r).version = r.version + 1
         /\ Approved(a, r).status \in {"approved", "pending"}
         /\ Approved(a, r).approvals = r.approvals \cup {a}
         /\ Approved(a, r).requestedBy = r.requestedBy
         /\ Approved(a, r).approversRequired = r.approversRequired
         /\ Approved(a, r).status = "approved"
              => Cardinality(r.approvals \cup {a}) >= r.approversRequired
BY DEF Approved, Refund

LEMMA RejectedIs ==
  ASSUME NEW r \in Refund
  PROVE  Rejected(r).version = r.version + 1 /\ Rejected(r).status = "rejected"
BY DEF Rejected, Refund

\* The stored requests after SaveApproval and SaveRejection: unchanged, or one
\* that was pending has moved on by one version.
LEMMA DecisionEffect ==
  ASSUME TypeOK, LockInv, NEW k \in Calls, SaveApproval(k) \/ SaveRejection(k)
  PROVE  LET t == call[k].target IN
         /\ t \in Calls
         /\ \/ refund' = refund /\ Goto(k, "done")
            \/ /\ refund[t].status = "pending"
               /\ \A r \in Calls : r # t => refund'[r] = refund[r]
               /\ refund'[t].version = refund[t].version + 1
               /\ \/ /\ refund'[t].status \in {"approved", "pending"}
                     /\ Goto(k, "done")
                     /\ SaveApproval(k)
                  \/ /\ refund'[t].status = "rejected"
                     /\ Goto(k, "restoreRead")
                     /\ SaveRejection(k)
<1>1. CASE SaveApproval(k)
  <2>1. call[k].target \in Calls /\ call[k].admin \in Admins
    BY <1>1 DEF SaveApproval, TypeOK
  <2>2. CASE CasHolds(refund[call[k].target], call[k].readRefund)
    <3>1. refund[call[k].target] = call[k].readRefund
      BY <1>1, <2>2, CasReads DEF SaveApproval
    <3>2. call[k].readRefund.status = "pending"
      BY <1>1 DEF SaveApproval, LockInv, Phases, MayApprove
    <3>3. /\ refund' = [refund EXCEPT ![call[k].target] = Approved(call[k].admin, call[k].readRefund)]
          /\ Goto(k, "done")
      BY <1>1, <2>2 DEF SaveApproval
    <3>4. QED
      BY <1>1, <2>1, <3>1, <3>2, <3>3, ReadTyped, ApprovedIs DEF TypeOK
  <2>3. CASE ~CasHolds(refund[call[k].target], call[k].readRefund)
    BY <1>1, <2>1, <2>3 DEF SaveApproval
  <2>4. QED
    BY <2>2, <2>3
<1>2. CASE SaveRejection(k)
  <2>1. call[k].target \in Calls
    BY <1>2 DEF SaveRejection, TypeOK
  <2>2. CASE CasHolds(refund[call[k].target], call[k].readRefund)
    <3>1. refund[call[k].target] = call[k].readRefund
      BY <1>2, <2>2, CasReads DEF SaveRejection
    <3>2. call[k].readRefund.status = "pending"
      BY <1>2 DEF SaveRejection, LockInv, Phases
    <3>3. /\ refund' = [refund EXCEPT ![call[k].target] = Rejected(call[k].readRefund)]
          /\ Goto(k, "restoreRead")
      BY <1>2, <2>2 DEF SaveRejection
    <3>4. QED
      BY <1>2, <2>1, <3>1, <3>2, <3>3, ReadTyped, RejectedIs DEF TypeOK
  <2>3. CASE ~CasHolds(refund[call[k].target], call[k].readRefund)
    BY <1>2, <2>1, <2>3 DEF SaveRejection
  <2>4. QED
    BY <2>2, <2>3
<1>3. QED
  BY <1>1, <1>2

\* What a lock owner knows: the order is locked, and a restorer's target owns.
LEMMA OwnerLocks ==
  ASSUME LockInv, NEW r \in Calls, r \in LockOwners
  PROVE  order.status = "refund_requested" /\ LockOwners = {r}
BY DEF LockInv, LockHasOneOwner, LockOwners

LEMMA RestorerOwns ==
  ASSUME TypeOK, NEW k \in Calls, call[k].pc \in {"restoreRead", "restore"}
  PROVE  call[k].target \in LockOwners /\ Restoring(k, call[k].target)
BY DEF TypeOK, LockOwners, Restoring

\* Locking and restoring the order.
LEMMA LockEffect ==
  ASSUME TypeOK, LockInv, NEW k \in Calls, LockOrder(k)
  PROVE  \/ order' = order /\ Goto(k, "done")
         \/ /\ order.status = "paid"
            /\ order' = [status |-> "refund_requested", version |-> order.version + 1]
            /\ Goto(k, "store")
BY CasReads DEF LockOrder, LockInv, Phases

LEMMA RestoreEffect ==
  ASSUME TypeOK, LockInv, NEW k \in Calls, RestoreOrder(k)
  PROVE  /\ order' = [status |-> "paid", version |-> order.version + 1]
         /\ Goto(k, "done")
         /\ LockOwners = {call[k].target}
<1>1. order = call[k].readOrder
  BY DEF RestoreOrder, LockInv, Phases
<1>2. CasHolds(order, call[k].readOrder)
  BY <1>1 DEF CasHolds
<1>3. call[k].target \in LockOwners
  BY RestorerOwns DEF RestoreOrder
<1>4. call[k].target \in Calls
  BY <1>3 DEF LockOwners
<1>5. LockOwners = {call[k].target}
  BY <1>3, <1>4, OwnerLocks
<1>6. QED
  BY <1>1, <1>2, <1>5 DEF RestoreOrder

---------------------------------------------------------------------------
\* A read stays a read when the row does not change or grows by a version.
LEMMA ReadsStep == TypeOK /\ LockInv /\ [Next]_vars => ReadsAreOld'
<1> SUFFICES ASSUME TypeOK, LockInv, [Next]_vars PROVE ReadsAreOld'
  OBVIOUS
<1> USE Versions DEF LockInv, ReadsAreOld, ReadOf
<1>1. ASSUME NEW k \in Calls, NEW a \in Admins, NEW tier \in Tiers, RequestRefund(k, a, tier)
      PROVE ReadsAreOld'
  BY <1>1, AtEffect DEF RequestRefund
<1>2. ASSUME NEW k \in Calls, ReadTickets(k) PROVE ReadsAreOld'
  BY <1>2, AtEffect DEF ReadTickets
<1>3. ASSUME NEW k \in Calls, LockOrder(k) PROVE ReadsAreOld'
  <2>1. UNCHANGED refund
    BY <1>3 DEF LockOrder
  <2>2. CASE order' = order /\ Goto(k, "done")
    BY <2>1, <2>2, GotoEffect
  <2>3. CASE order'.version = order.version + 1 /\ Goto(k, "store")
    BY <2>1, <2>3, GotoEffect
  <2>4. QED
    BY <1>3, <2>2, <2>3, LockEffect
<1>4. ASSUME NEW k \in Calls, SaveRequest(k) PROVE ReadsAreOld'
  <2>1. \A j \in Calls : call[j].pc \in {"approve", "reject"} => call[j].target # k
    BY <1>4 DEF SaveRequest, Phases, Stored
  <2>2. \A r \in Calls : r # k => refund'[r] = refund[r]
    BY <1>4 DEF SaveRequest, TypeOK
  <2>3. \A j \in Calls : call[j].pc # "idle" => call[j].target \in Calls
    BY DEF TypeOK
  <2>4. UNCHANGED order /\ Goto(k, "done")
    BY <1>4 DEF SaveRequest
  <2>5. QED
    BY <2>1, <2>2, <2>3, <2>4, GotoEffect
<1>5. ASSUME NEW k \in Calls, NEW a \in Admins, NEW r \in Calls, ApproveRefund(k, a, r)
      PROVE ReadsAreOld'
  BY <1>5, AtEffect DEF ApproveRefund
<1>6. ASSUME NEW k \in Calls, SaveApproval(k) \/ SaveRejection(k) PROVE ReadsAreOld'
  <2> DEFINE t == call[k].target
  <2>1. UNCHANGED order
    BY <1>6 DEF SaveApproval, SaveRejection
  <2>2. \A j \in Calls : call[j].pc # "idle" => call[j].target \in Calls
    BY DEF TypeOK
  <2>3. PICK l \in {"done", "restoreRead"} : Goto(k, l)
    BY <1>6, DecisionEffect
  <2>4. CASE refund' = refund
    BY <2>1, <2>3, <2>4, GotoEffect
  <2>5. CASE /\ \A r \in Calls : r # t => refund'[r] = refund[r]
             /\ refund'[t].version = refund[t].version + 1
    BY <2>1, <2>2, <2>3, <2>5, GotoEffect
  <2>6. QED
    BY <1>6, <2>4, <2>5, DecisionEffect
<1>7. ASSUME NEW k \in Calls, NEW a \in Admins, NEW r \in Calls, RejectRefund(k, a, r)
      PROVE ReadsAreOld'
  BY <1>7, AtEffect DEF RejectRefund
<1>8. ASSUME NEW k \in Calls, RestoreRead(k) PROVE ReadsAreOld'
  BY <1>8, AtEffect DEF RestoreRead
<1>9. ASSUME NEW k \in Calls, RestoreOrder(k) PROVE ReadsAreOld'
  <2>1. UNCHANGED refund /\ order'.version = order.version + 1 /\ Goto(k, "done")
    BY <1>9, RestoreEffect DEF RestoreOrder
  <2>2. QED
    BY <2>1, GotoEffect
<1>10. ASSUME NEW k \in Calls, Crash(k) PROVE ReadsAreOld'
  BY <1>10, GotoEffect DEF Crash
<1>11. CASE Scan
  BY <1>11 DEF Scan
<1>12. CASE UNCHANGED vars
  BY <1>12 DEF vars
<1>13. QED
  BY <1>1, <1>2, <1>3, <1>4, <1>5, <1>6, <1>7, <1>8, <1>9, <1>10, <1>11, <1>12
  DEF Next, Begin, Step

LEMMA PhasesStep == TypeOK /\ LockInv /\ [Next]_vars => Phases'
<1> SUFFICES ASSUME TypeOK, LockInv, [Next]_vars PROVE Phases'
  OBVIOUS
<1>0. /\ Phases
      /\ \A j \in Calls : call[j].pc # "idle" => call[j].target \in Calls
  BY DEF LockInv, TypeOK
<1>1. ASSUME NEW k \in Calls, NEW a \in Admins, NEW tier \in Tiers, RequestRefund(k, a, tier)
      PROVE Phases'
  BY <1>0, <1>1, AtEffect DEF RequestRefund, Phases, Stored, MayApprove
<1>2. ASSUME NEW k \in Calls, ReadTickets(k) PROVE Phases'
  BY <1>0, <1>2, AtEffect DEF ReadTickets, Phases, Stored, MayApprove
<1>3. ASSUME NEW k \in Calls, LockOrder(k) PROVE Phases'
  <2>1. UNCHANGED refund /\ call[k].pc = "lock"
    BY <1>3 DEF LockOrder
  <2>2. CASE order' = order /\ Goto(k, "done")
    BY <1>0, <2>1, <2>2, GotoEffect DEF Phases, Stored, MayApprove
  <2>3. CASE order.status = "paid" /\ Goto(k, "store")
    <3>1. \A j \in Calls : call[j].pc # "restore"
      BY <2>3, RestorerOwns, OwnerLocks DEF LockOwners
    <3>2. QED
      BY <1>0, <2>1, <2>3, <3>1, GotoEffect DEF Phases, Stored, MayApprove
  <2>4. QED
    BY <1>3, <2>2, <2>3, LockEffect
<1>4. ASSUME NEW k \in Calls, SaveRequest(k) PROVE Phases'
  <2>1. /\ \A r \in Calls : r # k => refund'[r] = refund[r]
        /\ refund'[k].status \in {"approved", "pending"}
    BY <1>4 DEF SaveRequest, TypeOK
  <2>2. UNCHANGED order /\ Goto(k, "done") /\ call[k].pc = "store"
    BY <1>4 DEF SaveRequest
  <2>3. refund[k].status = "none"
    BY <1>0, <2>2 DEF Phases
  <2>4. QED
    BY <1>0, <2>1, <2>2, <2>3, GotoEffect DEF Phases, Stored, MayApprove
<1>5. ASSUME NEW k \in Calls, NEW a \in Admins, NEW r \in Calls, ApproveRefund(k, a, r)
      PROVE Phases'
  BY <1>0, <1>5, AtEffect DEF ApproveRefund, Phases, Stored, MayApprove
<1>6. ASSUME NEW k \in Calls, SaveApproval(k) \/ SaveRejection(k) PROVE Phases'
  <2> DEFINE t == call[k].target
  <2>1. UNCHANGED order /\ call[k].pc \in {"approve", "reject"}
    BY <1>6 DEF SaveApproval, SaveRejection
  <2>2. CASE refund' = refund /\ Goto(k, "done")
    BY <1>0, <2>1, <2>2, GotoEffect DEF Phases, Stored, MayApprove
  <2>3. CASE /\ refund[t].status = "pending"
             /\ \A r \in Calls : r # t => refund'[r] = refund[r]
             /\ refund'[t].status \in {"approved", "pending"}
             /\ Goto(k, "done")
    BY <1>0, <2>1, <2>3, GotoEffect DEF Phases, Stored, MayApprove
  <2>4. CASE /\ refund[t].status = "pending"
             /\ \A r \in Calls : r # t => refund'[r] = refund[r]
             /\ refund'[t].status = "rejected"
             /\ Goto(k, "restoreRead")
    BY <1>0, <2>1, <2>4, GotoEffect DEF Phases, Stored, MayApprove
  <2>5. QED
    BY <1>6, <2>2, <2>3, <2>4, DecisionEffect
<1>7. ASSUME NEW k \in Calls, NEW a \in Admins, NEW r \in Calls, RejectRefund(k, a, r)
      PROVE Phases'
  BY <1>0, <1>7, AtEffect DEF RejectRefund, Phases, Stored, MayApprove
<1>8. ASSUME NEW k \in Calls, RestoreRead(k) PROVE Phases'
  BY <1>0, <1>8, AtEffect DEF RestoreRead, Phases, Stored, MayApprove
<1>9. ASSUME NEW k \in Calls, RestoreOrder(k) PROVE Phases'
  <2>1. UNCHANGED refund /\ call[k].pc = "restore" /\ Goto(k, "done")
    BY <1>9, RestoreEffect DEF RestoreOrder
  <2>2. \A j \in Calls : call[j].pc = "restore" => j = k
    <3>1. SUFFICES ASSUME NEW j \in Calls, call[j].pc = "restore" PROVE j = k
      OBVIOUS
    <3>2. call[j].target = call[k].target
      BY <2>1, <3>1, RestorerOwns, OwnerLocks DEF LockOwners
    <3>3. QED
      BY <1>0, <2>1, <3>1, <3>2 DEF LockInv, OneRestorer, Restoring
  <2>3. QED
    BY <1>0, <2>1, <2>2, GotoEffect DEF Phases, Stored, MayApprove
<1>10. ASSUME NEW k \in Calls, Crash(k) PROVE Phases'
  BY <1>0, <1>10, GotoEffect DEF Crash, Phases, Stored, MayApprove
<1>11. CASE Scan
  BY <1>0, <1>11 DEF Scan, Phases, Stored, MayApprove
<1>12. CASE UNCHANGED vars
  BY <1>0, <1>12 DEF vars, Phases, Stored, MayApprove
<1>13. QED
  BY <1>1, <1>2, <1>3, <1>4, <1>5, <1>6, <1>7, <1>8, <1>9, <1>10, <1>11, <1>12
  DEF Next, Begin, Step

---------------------------------------------------------------------------
\* A step that opens, stores and undoes nothing new keeps the lock's owner.
Lock == OneRestorer /\ LockHasOneOwner
LEMMA SameOwners ==
  ASSUME LockInv, UNCHANGED order,
         \A r \in Calls : Open(r)' => Open(r),
         \A r \in Calls : Storing(r)' => Storing(r),
         \A j, r \in Calls : Restoring(j, r)' => Restoring(j, r)
  PROVE  Lock'
<1>1. LockOwners' \subseteq LockOwners
  BY DEF LockOwners
<1>2. QED
  BY <1>1 DEF Lock, LockInv, OneRestorer, LockHasOneOwner

LEMMA LockStep == TypeOK /\ LockInv /\ [Next]_vars => Lock'
<1> SUFFICES ASSUME TypeOK, LockInv, [Next]_vars PROVE Lock'
  OBVIOUS
<1> USE DEF Open, Storing, Restoring
<1>1. ASSUME NEW k \in Calls, NEW a \in Admins, NEW tier \in Tiers, RequestRefund(k, a, tier)
      PROVE Lock'
  BY <1>1, AtEffect, SameOwners DEF RequestRefund
<1>2. ASSUME NEW k \in Calls, ReadTickets(k) PROVE Lock'
  BY <1>2, AtEffect, SameOwners DEF ReadTickets
<1>3. ASSUME NEW k \in Calls, LockOrder(k) PROVE Lock'
  <2>1. UNCHANGED refund
    BY <1>3 DEF LockOrder
  <2>2. CASE order' = order /\ Goto(k, "done")
    BY <2>1, <2>2, GotoEffect, SameOwners
  <2>3. CASE order.status = "paid" /\ order'.status = "refund_requested" /\ Goto(k, "store")
    <3>1. LockOwners = {}
      BY <2>3, OwnerLocks DEF LockOwners
    <3>2. LockOwners' = {k}
      BY <2>1, <2>3, <3>1, GotoEffect DEF LockOwners
    <3>3. \A j, r \in Calls : ~Restoring(j, r)'
      BY <2>1, <2>3, <3>1, GotoEffect DEF LockOwners
    <3>4. QED
      BY <2>3, <3>2, <3>3 DEF Lock, OneRestorer, LockHasOneOwner
  <2>4. QED
    BY <1>3, <2>2, <2>3, LockEffect
<1>4. ASSUME NEW k \in Calls, SaveRequest(k) PROVE Lock'
  <2>1. /\ \A r \in Calls : r # k => refund'[r] = refund[r]
        /\ UNCHANGED order /\ Goto(k, "done") /\ call[k].pc = "store"
    BY <1>4 DEF SaveRequest, TypeOK
  <2>2. k \in LockOwners
    BY <2>1 DEF LockOwners
  <2>3. LockOwners = {k} /\ order.status = "refund_requested"
    BY <2>2, OwnerLocks
  <2>4. LockOwners' \subseteq {k}
    BY <2>1, <2>3, GotoEffect DEF LockOwners
  <2>5. \A j, r \in Calls : Restoring(j, r)' => Restoring(j, r)
    BY <2>1, GotoEffect
  <2>6. QED
    BY <2>1, <2>3, <2>4, <2>5 DEF Lock, LockInv, OneRestorer, LockHasOneOwner
<1>5. ASSUME NEW k \in Calls, NEW a \in Admins, NEW r \in Calls, ApproveRefund(k, a, r)
      PROVE Lock'
  BY <1>5, AtEffect, SameOwners DEF ApproveRefund
<1>6. ASSUME NEW k \in Calls, SaveApproval(k) \/ SaveRejection(k) PROVE Lock'
  <2> DEFINE t == call[k].target
  <2>1. UNCHANGED order /\ call[k].pc \in {"approve", "reject"} /\ t \in Calls
    BY <1>6 DEF SaveApproval, SaveRejection, TypeOK
  <2>2. CASE refund' = refund /\ Goto(k, "done")
    BY <2>1, <2>2, GotoEffect, SameOwners
  <2>3. CASE /\ refund[t].status = "pending"
             /\ \A r \in Calls : r # t => refund'[r] = refund[r]
             /\ Goto(k, "done")
    BY <2>1, <2>3, GotoEffect, SameOwners
  <2>4. CASE /\ refund[t].status = "pending"
             /\ \A r \in Calls : r # t => refund'[r] = refund[r]
             /\ refund'[t].status = "rejected"
             /\ Goto(k, "restoreRead")
    <3>1. t \in LockOwners
      BY <2>1, <2>4 DEF LockOwners
    <3>2. LockOwners = {t} /\ order.status = "refund_requested"
      BY <2>1, <3>1, OwnerLocks
    <3>3. \A j \in Calls : ~Restoring(j, t)
      BY <2>4 DEF LockInv, Phases
    <3>4. \A j, r \in Calls : Restoring(j, r)' => Restoring(j, r) \/ (j = k /\ r = t)
      BY <2>4, GotoEffect
    <3>5. LockOwners' \subseteq {t}
      <4>1. SUFFICES ASSUME NEW r \in Calls, r # t, r \in LockOwners' PROVE FALSE
        BY DEF LockOwners
      <4>2. r \in LockOwners
        BY <2>4, <3>4, <4>1, GotoEffect DEF LockOwners
      <4>3. QED
        BY <3>2, <4>1, <4>2
    <3>6. OneRestorer'
      BY <3>3, <3>4 DEF LockInv, OneRestorer
    <3>7. QED
      BY <2>1, <3>2, <3>5, <3>6 DEF Lock, LockHasOneOwner
  <2>5. QED
    BY <1>6, <2>2, <2>3, <2>4, DecisionEffect
<1>7. ASSUME NEW k \in Calls, NEW a \in Admins, NEW r \in Calls, RejectRefund(k, a, r)
      PROVE Lock'
  BY <1>7, AtEffect, SameOwners DEF RejectRefund
<1>8. ASSUME NEW k \in Calls, RestoreRead(k) PROVE Lock'
  BY <1>8, AtEffect, SameOwners DEF RestoreRead
<1>9. ASSUME NEW k \in Calls, RestoreOrder(k) PROVE Lock'
  <2> DEFINE t == call[k].target
  <2>1. /\ UNCHANGED refund /\ call[k].pc = "restore" /\ Goto(k, "done")
        /\ LockOwners = {t} /\ t \in Calls
    BY <1>9, RestoreEffect DEF RestoreOrder, TypeOK
  <2>2. \A j, r \in Calls : ~Restoring(j, r)'
    <3>1. SUFFICES ASSUME NEW j \in Calls, NEW r \in Calls, Restoring(j, r)' PROVE FALSE
      OBVIOUS
    <3>2. Restoring(j, r) /\ j # k
      BY <2>1, <3>1, GotoEffect
    <3>3. r = t
      BY <2>1, <3>2 DEF LockOwners
    <3>4. QED
      BY <2>1, <3>2, <3>3 DEF LockInv, OneRestorer
  <2>3. ~Open(t) /\ ~Storing(t)
    BY <2>1 DEF LockInv, Phases
  <2>4. LockOwners' = {}
    BY <2>1, <2>2, <2>3, GotoEffect DEF LockOwners
  <2>5. QED
    BY <2>2, <2>4 DEF Lock, OneRestorer, LockHasOneOwner
<1>10. ASSUME NEW k \in Calls, Crash(k) PROVE Lock'
  BY <1>10, GotoEffect, SameOwners DEF Crash
<1>11. CASE Scan
  BY <1>11, SameOwners DEF Scan
<1>12. CASE UNCHANGED vars
  BY <1>12, SameOwners DEF vars
<1>13. QED
  BY <1>1, <1>2, <1>3, <1>4, <1>5, <1>6, <1>7, <1>8, <1>9, <1>10, <1>11, <1>12
  DEF Next, Begin, Step

\* The invariant behind the refund lock is inductive, with crashes.
THEOREM LockCorrect == Spec => []LockInv
<1>1. ASSUME Init PROVE LockInv
  <2>1. \A k \in Calls : /\ call[k].pc = "idle" /\ call[k].readOrder = order
                         /\ refund[k].status = "none"
    BY <1>1 DEF Init, NoRefund
  <2>2. order.version = 1
    BY <1>1 DEF Init
  <2>3. LockOwners = {} /\ \A j, r \in Calls : ~Restoring(j, r)
    BY <2>1 DEF LockOwners, Open, Storing, Restoring
  <2>4. ReadsAreOld
    BY <2>1, <2>2 DEF ReadsAreOld, ReadOf
  <2>5. Phases
    BY <2>1 DEF Phases
  <2>6. QED
    BY <2>3, <2>4, <2>5 DEF LockInv, OneRestorer, LockHasOneOwner
<1>2. TypeOK /\ LockInv /\ [Next]_vars => LockInv'
  BY ReadsStep, PhasesStep, LockStep DEF LockInv, Lock
<1>3. QED
  BY <1>1, <1>2, TypeCorrect, PTL DEF Spec

\* The refund lock of an order has one owner at a time, and is not lifted under it.
THEOREM LockHasOneOwnerCorrect == Spec => []LockHasOneOwner
<1>1. LockInv => LockHasOneOwner
  BY DEF LockInv
<1>2. QED
  BY <1>1, LockCorrect, PTL

---------------------------------------------------------------------------
\* Sign-offs are counted and distinct as FourEyes asks.
LEMMA FourEyesStep == TypeOK /\ LockInv /\ FourEyes /\ [Next]_vars => FourEyes'
<1> SUFFICES ASSUME TypeOK, LockInv, FourEyes, [Next]_vars PROVE FourEyes'
  OBVIOUS
<1>1. CASE UNCHANGED refund
  BY <1>1 DEF FourEyes
<1>2. ASSUME NEW k \in Calls, SaveRequest(k) PROVE FourEyes'
  <2>1. \A r \in Calls : r # k => refund'[r] = refund[r]
    BY <1>2 DEF SaveRequest, TypeOK
  <2>2. /\ refund'[k].approvals = {}
        /\ refund'[k].status = "approved" => refund'[k].approversRequired = 0
    BY <1>2 DEF SaveRequest, TypeOK
  <2>3. Cardinality(refund'[k].approvals) = 0
    BY <2>2, FS_EmptySet
  <2>4. refund'[k].requestedBy \notin refund'[k].approvals
    BY <2>2
  <2>5. refund'[k].status = "approved"
          => Cardinality(refund'[k].approvals) >= refund'[k].approversRequired
    BY <2>2, <2>3
  <2>6. QED
    BY <2>1, <2>4, <2>5 DEF FourEyes
<1>3. ASSUME NEW k \in Calls, SaveApproval(k) PROVE FourEyes'
  <2> DEFINE t == call[k].target
             q == call[k].readRefund
  <2>1. t \in Calls /\ call[k].admin \in Admins /\ q \in Refund
    BY <1>3, ReadTyped DEF SaveApproval, TypeOK
  <2>2. CASE ~CasHolds(refund[t], q)
    BY <1>1, <1>3, <2>2 DEF SaveApproval
  <2>3. CASE CasHolds(refund[t], q)
    <3>1. refund[t] = q
      BY <1>3, <2>3, CasReads DEF SaveApproval
    <3>2. call[k].admin # q.requestedBy
      BY <1>3 DEF SaveApproval, LockInv, Phases, MayApprove
    <3>3. refund' = [refund EXCEPT ![t] = Approved(call[k].admin, q)]
      BY <1>3, <2>3 DEF SaveApproval
    <3>4. /\ refund'[t] = Approved(call[k].admin, q)
          /\ \A r \in Calls : r # t => refund'[r] = refund[r]
      BY <2>1, <3>3 DEF TypeOK
    <3>5. refund'[t].requestedBy \notin refund'[t].approvals
      <4>1. q.requestedBy \notin q.approvals
        BY <2>1, <3>1 DEF FourEyes
      <4>2. PICK v : v = Approved(call[k].admin, q)
        OBVIOUS
      <4>3. v.requestedBy = q.requestedBy /\ v.approvals = q.approvals \cup {call[k].admin}
        BY <2>1, <4>2, ApprovedIs
      <4>4. refund'[t] = v
        BY <3>4, <4>2
      <4>5. v.requestedBy \notin v.approvals
        BY <3>2, <4>1, <4>3
      <4>6. QED
        BY <4>4, <4>5
    <3>6. refund'[t].status = "approved"
            => Cardinality(refund'[t].approvals) >= refund'[t].approversRequired
      <4>1. PICK v : v = Approved(call[k].admin, q)
        OBVIOUS
      <4>2. v.status = "approved" => Cardinality(v.approvals) >= v.approversRequired
        BY <2>1, <4>1, ApprovedIs
      <4>3. refund'[t] = v
        BY <3>4, <4>1
      <4>4. QED
        BY <4>2, <4>3
    <3>7. QED
      BY <3>4, <3>5, <3>6 DEF FourEyes
  <2>4. QED
    BY <2>2, <2>3
<1>4. ASSUME NEW k \in Calls, SaveRejection(k) PROVE FourEyes'
  <2> DEFINE t == call[k].target
             q == call[k].readRefund
  <2>1. t \in Calls /\ q \in Refund
    BY <1>4, ReadTyped DEF SaveRejection, TypeOK
  <2>2. CASE ~CasHolds(refund[t], q)
    BY <1>1, <1>4, <2>2 DEF SaveRejection
  <2>3. CASE CasHolds(refund[t], q)
    <3>1. refund[t] = q
      BY <1>4, <2>3, CasReads DEF SaveRejection
    <3>2. /\ refund'[t] = Rejected(q)
          /\ \A r \in Calls : r # t => refund'[r] = refund[r]
      BY <1>4, <2>1, <2>3 DEF SaveRejection, TypeOK
    <3>3. /\ refund'[t].status = "rejected"
          /\ refund'[t].approvals = q.approvals
          /\ refund'[t].requestedBy = q.requestedBy
      BY <2>1, <3>2 DEF Rejected, Refund
    <3>4. QED
      BY <2>1, <3>1, <3>2, <3>3 DEF FourEyes
  <2>4. QED
    BY <2>2, <2>3
<1>5. QED
  BY <1>1, <1>2, <1>3, <1>4
  DEF Next, Begin, Step, RequestRefund, ReadTickets, LockOrder, ApproveRefund, RejectRefund,
      RestoreRead, RestoreOrder, Crash, Scan, vars

\* An approved refund has its sign-offs, none of them the requester's.
THEOREM FourEyesCorrect == Spec => []FourEyes
<1>1. ASSUME Init PROVE FourEyes
  BY <1>1 DEF Init, FourEyes, NoRefund
<1>2. QED
  BY <1>1, FourEyesStep, TypeCorrect, LockCorrect, PTL DEF Spec

\* A decision is final, however approvals and rejections race.
THEOREM DecisionCorrect == Spec => DecisionIsFinal
<1> DEFINE Kept == \A r \in Calls : refund[r].status \in {"approved", "rejected"} =>
                                    refund'[r] = refund[r]
<1>1. TypeOK /\ LockInv /\ [Next]_vars => Kept
  <2> SUFFICES ASSUME TypeOK, LockInv, [Next]_vars PROVE Kept
    OBVIOUS
  <2>1. CASE UNCHANGED refund
    BY <2>1
  <2>2. ASSUME NEW k \in Calls, SaveRequest(k) PROVE Kept
    BY <2>2 DEF SaveRequest, TypeOK, LockInv, Phases
  <2>3. ASSUME NEW k \in Calls, SaveApproval(k) \/ SaveRejection(k) PROVE Kept
    BY <2>3, DecisionEffect
  <2>4. QED
    BY <2>1, <2>2, <2>3
    DEF Next, Begin, Step, RequestRefund, ReadTickets, LockOrder, ApproveRefund, RejectRefund,
        RestoreRead, RestoreOrder, Crash, Scan, vars
<1>2. QED
  BY <1>1, TypeCorrect, LockCorrect, PTL DEF Spec, DecisionIsFinal

\* Without crashes an order is locked only for a refund somebody works on.
THEOREM LockIsOwnedCorrect == ASSUME ~Crashes PROVE Spec => []LockIsOwned
<1>1. Init => LockIsOwned
  BY DEF Init, LockIsOwned
<1>2. ASSUME TypeOK, LockInv, LockIsOwned, [Next]_vars PROVE LockIsOwned'
  <2> USE DEF Open, Storing, Restoring
  <2> DEFINE Kept == \A r \in LockOwners : r \in LockOwners'
  <2>0. ASSUME UNCHANGED order, Kept PROVE LockIsOwned'
    BY <1>2, <2>0 DEF LockIsOwned
  <2>1. ASSUME NEW k \in Calls, NEW a \in Admins, NEW tier \in Tiers, RequestRefund(k, a, tier)
        PROVE LockIsOwned'
    <3>1. Kept
      BY <1>2, <2>1, AtEffect DEF RequestRefund, LockOwners
    <3>2. QED
      BY <2>0, <2>1, <3>1 DEF RequestRefund
  <2>2. ASSUME NEW k \in Calls, ReadTickets(k) PROVE LockIsOwned'
    <3>1. Kept
      BY <1>2, <2>2, AtEffect DEF ReadTickets, LockOwners
    <3>2. QED
      BY <2>0, <2>2, <3>1 DEF ReadTickets
  <2>3. ASSUME NEW k \in Calls, LockOrder(k) PROVE LockIsOwned'
    <3>1. CASE order' = order /\ Goto(k, "done")
      <4>1. Kept
        BY <1>2, <2>3, <3>1, GotoEffect DEF LockOrder, LockOwners
      <4>2. QED
        BY <2>0, <3>1, <4>1
    <3>2. CASE Goto(k, "store")
      BY <1>2, <3>2, GotoEffect DEF LockIsOwned, LockOwners
    <3>3. QED
      BY <1>2, <2>3, <3>1, <3>2, LockEffect
  <2>4. ASSUME NEW k \in Calls, SaveRequest(k) PROVE LockIsOwned'
    <3>1. refund'[k].status \in {"approved", "pending"}
      BY <1>2, <2>4 DEF SaveRequest, TypeOK
    <3>2. QED
      BY <3>1 DEF LockIsOwned, LockOwners
  <2>5. ASSUME NEW k \in Calls, NEW a \in Admins, NEW r \in Calls, ApproveRefund(k, a, r)
        PROVE LockIsOwned'
    <3>1. Kept
      BY <1>2, <2>5, AtEffect DEF ApproveRefund, LockOwners
    <3>2. QED
      BY <2>0, <2>5, <3>1 DEF ApproveRefund
  <2>6. ASSUME NEW k \in Calls, SaveApproval(k) \/ SaveRejection(k) PROVE LockIsOwned'
    <3>0. PICK t \in Calls : t = call[k].target
      BY <1>2, <2>6 DEF SaveApproval, SaveRejection, TypeOK
    <3>1. UNCHANGED order /\ call[k].pc \in {"approve", "reject"}
      BY <2>6 DEF SaveApproval, SaveRejection
    <3>2. CASE refund' = refund /\ Goto(k, "done")
      <4>1. Kept
        BY <1>2, <3>0, <3>1, <3>2, GotoEffect DEF LockOwners
      <4>2. QED
        BY <2>0, <3>1, <4>1
    <3>3. CASE /\ \A r \in Calls : r # t => refund'[r] = refund[r]
               /\ refund'[t].status \in {"approved", "pending"}
               /\ Goto(k, "done")
      <4>1. Kept
        BY <1>2, <3>0, <3>1, <3>3, GotoEffect DEF LockOwners
      <4>2. QED
        BY <2>0, <3>1, <4>1
    <3>4. CASE Goto(k, "restoreRead")
      <4>1. Restoring(k, t)'
        BY <1>2, <3>0, <3>4, GotoEffect
      <4>2. QED
        BY <4>1 DEF LockIsOwned, LockOwners
    <3>5. QED
      BY <1>2, <2>6, <3>0, <3>2, <3>3, <3>4, DecisionEffect
  <2>7. ASSUME NEW k \in Calls, NEW a \in Admins, NEW r \in Calls, RejectRefund(k, a, r)
        PROVE LockIsOwned'
    <3>1. Kept
      BY <1>2, <2>7, AtEffect DEF RejectRefund, LockOwners
    <3>2. QED
      BY <2>0, <2>7, <3>1 DEF RejectRefund
  <2>8. ASSUME NEW k \in Calls, RestoreRead(k) PROVE LockIsOwned'
    <3>1. PICK t \in LockOwners : t = call[k].target
      BY <1>2, <2>8, RestorerOwns DEF RestoreRead
    <3>2. t \in Calls /\ order.status = "refund_requested"
      BY <1>2, OwnerLocks DEF LockOwners
    <3>3. Restoring(k, t)'
      BY <1>2, <2>8, <3>1, <3>2, AtEffect DEF RestoreRead
    <3>4. QED
      BY <3>2, <3>3 DEF LockIsOwned, LockOwners
  <2>9. ASSUME NEW k \in Calls, RestoreOrder(k) PROVE LockIsOwned'
    BY <1>2, <2>9, RestoreEffect DEF LockIsOwned
  <2>10. ASSUME NEW k \in Calls, Crash(k) PROVE FALSE
    BY <2>10 DEF Crash
  <2>11. CASE Scan
    BY <1>2, <2>11 DEF Scan, LockIsOwned, LockOwners
  <2>12. CASE UNCHANGED vars
    BY <1>2, <2>12 DEF vars, LockIsOwned, LockOwners
  <2>13. QED
    BY <1>2, <2>1, <2>2, <2>3, <2>4, <2>5, <2>6, <2>7, <2>8, <2>9, <2>10, <2>11, <2>12
    DEF Next, Begin, Step
<1>3. QED
  BY <1>1, <1>2, TypeCorrect, LockCorrect, PTL DEF Spec
=============================================================================
