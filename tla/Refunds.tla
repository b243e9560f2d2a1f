------------------------------ MODULE Refunds ------------------------------
(***************************************************************************)
(* Admin refunds of one paid order: RefundService.requestRefund,           *)
(* approveRefund and rejectRefund, and the door scanning the order's       *)
(* ticket meanwhile.  A call is one admin's HTTP request; a refund request *)
(* has the id of the call that creates it.                                 *)
(*                                                                         *)
(* Rows are saved by compare-and-set on their version, under both drivers. *)
(* The amount is abstracted to the number of sign-offs its tier needs, and *)
(* amounts above the refundable balance, which are refused, are left out.  *)
(***************************************************************************)
EXTENDS Naturals, FiniteSets, TLC

CONSTANTS
  Calls,      \* HTTP requests
  Admins,     \* admins with FINANCIAL_REFUND
  Crashes,    \* the process may stop between two repository calls
  None

ASSUME RefundsAssumption ==
  /\ Crashes \in BOOLEAN
  /\ None \notin Admins /\ None \notin Calls

VARIABLES
  order,      \* the order: status and version
  refund,     \* the refund requests by id
  redeemed,   \* a ticket of the order has been scanned at the door
  call        \* each call in flight, with the rows it has read

vars == <<order, refund, redeemed, call>>

---------------------------------------------------------------------------
Order == [status : {"paid", "refund_requested"}, version : Nat]

\* approversRequired: 0, 1 or 2, from the amount's tier.
Tiers == 0..2
Refund == [status : {"none", "pending", "approved", "rejected"}, version : Nat,
           requestedBy : Admins \cup {None}, approversRequired : Tiers,
           approvals : SUBSET Admins]
NoRefund == [status |-> "none", version |-> 0, requestedBy |-> None,
             approversRequired |-> 0, approvals |-> {}]

PCs == {"idle", "tickets", "lock", "store", "approve", "reject",
        "restoreRead", "restore", "done"}
\* `target`, `tier`, `readOrder` and `readRefund` are what the call has read.
Call == [pc : PCs, admin : Admins \cup {None}, target : Calls \cup {None}, tier : Tiers,
         readOrder : Order, readRefund : Refund]

Goto(k, l) == call' = [call EXCEPT ![k].pc = l]
At(k, l, a, r, tier, o, q) ==
  call' = [call EXCEPT ![k] = [pc |-> l, admin |-> a, target |-> r, tier |-> tier,
                               readOrder |-> o, readRefund |-> q]]
Stored(r) == refund[r].status # "none"
Open(r) == refund[r].status \in {"pending", "approved"}

\* Mutation of CasHolds: the save is a plain set.
CasHoldsAlways(stored, read) == TRUE

\* A save of version N finds version N - 1.
CasHolds(stored, read) == stored.version = read.version

\* Mutation of ApproversRequired: a checked-in ticket adds a sign-off.
ApproversRequiredOneMore(tier, scanned) == IF scanned THEN tier + 1 ELSE tier

ApproversRequired(tier, scanned) == IF tier = 0 /\ scanned THEN 1 ELSE tier

---------------------------------------------------------------------------
Init ==
  /\ order = [status |-> "paid", version |-> 1]
  /\ refund = [r \in Calls |-> NoRefund]
  /\ redeemed = FALSE
  /\ call = [k \in Calls |->
               [pc |-> "idle", admin |-> None, target |-> None, tier |-> 0,
                readOrder |-> order, readRefund |-> NoRefund]]

\* requestRefund reads the order and refuses one that is not paid.
RequestRefund(k, a, tier) ==
  /\ call[k].pc = "idle"
  /\ At(k, IF order.status = "paid" THEN "tickets" ELSE "done", a, k, tier, order, NoRefund)
  /\ UNCHANGED <<order, refund, redeemed>>

\* It reads whether a ticket has been scanned, which fixes the sign-offs.
ReadTickets(k) ==
  LET c == call[k] IN
  /\ c.pc = "tickets"
  /\ At(k, "lock", c.admin, c.target, ApproversRequired(c.tier, redeemed), c.readOrder, NoRefund)
  /\ UNCHANGED <<order, refund, redeemed>>

\* It locks the order ...
LockOrder(k) ==
  /\ call[k].pc = "lock"
  /\ IF CasHolds(order, call[k].readOrder)
     THEN /\ order' = [status |-> "refund_requested", version |-> call[k].readOrder.version + 1]
          /\ Goto(k, "store")
     ELSE Goto(k, "done") /\ UNCHANGED order
  /\ UNCHANGED <<refund, redeemed>>

\* ... and then stores the request: approved at once when no sign-off is due.
SaveRequest(k) ==
  /\ call[k].pc = "store"
  /\ refund' = [refund EXCEPT ![k] =
       [status |-> IF call[k].tier = 0 THEN "approved" ELSE "pending", version |-> 1,
        requestedBy |-> call[k].admin, approversRequired |-> call[k].tier, approvals |-> {}]]
  /\ Goto(k, "done")
  /\ UNCHANGED <<order, redeemed>>

\* approveRefundRequest's refusals.
MayApprove(a, r) ==
  /\ r.status = "pending"
  /\ a # r.requestedBy
  /\ a \notin r.approvals

ApproveRefund(k, a, r) ==
  /\ call[k].pc = "idle" /\ Stored(r)
  /\ At(k, IF MayApprove(a, refund[r]) THEN "approve" ELSE "done",
           a, r, 0, call[k].readOrder, refund[r])
  /\ UNCHANGED <<order, refund, redeemed>>

\* Mutation of Approved: one sign-off short.
ApprovedEarly(a, r) ==
  [r EXCEPT !.version = @ + 1, !.approvals = @ \cup {a},
            !.status = IF Cardinality(r.approvals) + 2 >= r.approversRequired
                       THEN "approved" ELSE "pending"]

Approved(a, r) ==
  [r EXCEPT !.version = @ + 1, !.approvals = @ \cup {a},
            !.status = IF Cardinality(r.approvals \cup {a}) >= r.approversRequired
                       THEN "approved" ELSE "pending"]

SaveApproval(k) ==
  LET c == call[k] IN
  /\ c.pc = "approve"
  /\ IF CasHolds(refund[c.target], c.readRefund)
     THEN refund' = [refund EXCEPT ![c.target] = Approved(c.admin, c.readRefund)]
     ELSE UNCHANGED refund
  /\ Goto(k, "done")
  /\ UNCHANGED <<order, redeemed>>

RejectRefund(k, a, r) ==
  /\ call[k].pc = "idle" /\ Stored(r)
  /\ At(k, IF refund[r].status = "pending" THEN "reject" ELSE "done",
           a, r, 0, call[k].readOrder, refund[r])
  /\ UNCHANGED <<order, refund, redeemed>>

Rejected(r) == [r EXCEPT !.status = "rejected", !.version = @ + 1]

\* rejectRefund stores the rejection first ...
SaveRejection(k) ==
  LET c == call[k] IN
  /\ c.pc = "reject"
  /\ IF CasHolds(refund[c.target], c.readRefund)
     THEN /\ refund' = [refund EXCEPT ![c.target] = Rejected(c.readRefund)]
          /\ Goto(k, "restoreRead")
     ELSE Goto(k, "done") /\ UNCHANGED refund
  /\ UNCHANGED <<order, redeemed>>

\* ... then reads the order, which must be locked ...
RestoreRead(k) ==
  LET c == call[k] IN
  /\ c.pc = "restoreRead"
  /\ At(k, IF order.status = "refund_requested" THEN "restore" ELSE "done",
           c.admin, c.target, c.tier, order, c.readRefund)
  /\ UNCHANGED <<order, refund, redeemed>>

\* ... and puts it back to paid.
RestoreOrder(k) ==
  /\ call[k].pc = "restore"
  /\ IF CasHolds(order, call[k].readOrder)
     THEN order' = [status |-> "paid", version |-> call[k].readOrder.version + 1]
     ELSE UNCHANGED order
  /\ Goto(k, "done")
  /\ UNCHANGED <<refund, redeemed>>

\* The door admits on the ticket's own row; it never reads the order.
Scan ==
  /\ ~redeemed
  /\ redeemed' = TRUE
  /\ UNCHANGED <<order, refund, call>>

Crash(k) ==
  /\ Crashes /\ call[k].pc \notin {"idle", "done"}
  /\ Goto(k, "done")
  /\ UNCHANGED <<order, refund, redeemed>>

Begin(k) ==
  \E a \in Admins :
    \/ \E tier \in Tiers : RequestRefund(k, a, tier)
    \/ \E r \in Calls : ApproveRefund(k, a, r) \/ RejectRefund(k, a, r)

Step(k) ==
  \/ ReadTickets(k) \/ LockOrder(k) \/ SaveRequest(k)
  \/ SaveApproval(k) \/ SaveRejection(k) \/ RestoreRead(k) \/ RestoreOrder(k)

Next ==
  \/ \E k \in Calls : Begin(k) \/ Step(k) \/ Crash(k)
  \/ Scan

Spec == Init /\ [][Next]_vars

\* A handler that has begun runs on.
FairSpec == Spec /\ \A k \in Calls : WF_vars(Step(k))

---------------------------------------------------------------------------
\* Types of the rows and of the calls.
TypeOK ==
  /\ order \in Order
  /\ refund \in [Calls -> Refund]
  /\ redeemed \in BOOLEAN
  /\ call \in [Calls -> Call]
  /\ \A k \in Calls : call[k].pc # "idle" => call[k].admin \in Admins /\ call[k].target \in Calls

\* A call between locking the order and storing its request, or between
\* storing a rejection and restoring the order.
Storing(r) == call[r].pc = "store"
Restoring(k, r) == call[k].target = r /\ call[k].pc \in {"restoreRead", "restore"}

\* The requests on whose behalf the order is locked.
LockOwners == {r \in Calls : Open(r) \/ Storing(r) \/ \E k \in Calls : Restoring(k, r)}

\* The refund lock has one owner at a time: two refunds of one order are never
\* open, stored or undone at once, and the lock is not lifted under any of them.
LockHasOneOwner ==
  /\ \A r, s \in LockOwners : r = s
  /\ LockOwners # {} => order.status = "refund_requested"

\* An order is locked only for a refund that somebody still works on.
LockIsOwned == order.status = "refund_requested" => LockOwners # {}

\* Sign-offs come from as many different admins as the tier asks, never from
\* the admin who requested the refund, however approvals race.
FourEyes ==
  \A r \in Calls :
    /\ refund[r].status = "approved" => Cardinality(refund[r].approvals) >= refund[r].approversRequired
    /\ refund[r].requestedBy \notin refund[r].approvals

\* What a call has read is the stored row or an older version of it.
ReadOf(read, stored) ==
  read.version <= stored.version /\ (read.version = stored.version => read = stored)
ReadsAreOld ==
  \A k \in Calls :
    /\ ReadOf(call[k].readOrder, order)
    /\ call[k].pc \in {"approve", "reject"} => ReadOf(call[k].readRefund, refund[call[k].target])

\* Where a call is tells what it has read and what is stored.
Phases ==
  \A k \in Calls : LET c == call[k] IN
    /\ c.pc \in {"idle", "tickets", "lock", "store"} => refund[k].status = "none"
    /\ c.pc \in {"tickets", "lock", "store"} => c.target = k
    /\ c.pc \in {"tickets", "lock"} => c.readOrder.status = "paid"
    /\ c.pc = "approve" => MayApprove(c.admin, c.readRefund)
    /\ c.pc = "reject" => c.readRefund.status = "pending"
    /\ c.pc \in {"approve", "reject"} => Stored(c.target)
    /\ c.pc \in {"restoreRead", "restore"} => refund[c.target].status = "rejected"
    /\ c.pc = "restore" => c.readOrder = order

\* One call undoes a request.
OneRestorer ==
  \A r, j, k \in Calls : Restoring(j, r) /\ Restoring(k, r) => j = k

\* The invariant behind the lock.
LockInv == ReadsAreOld /\ Phases /\ OneRestorer /\ LockHasOneOwner

\* A decision is final: an approval and a rejection that race do not both count.
DecisionIsFinal ==
  [][\A r \in Calls : refund[r].status \in {"approved", "rejected"} =>
                        refund'[r] = refund[r]]_vars

\* A request that is rejected while it locks the order gives the order back.
RejectionReopens ==
  \A r \in Calls : refund[r].status = "rejected" /\ r \in LockOwners
                     ~> order.status = "paid"

\* The lock keeps the door from racing the refund.
LockStopsTheDoor == [][order.status = "refund_requested" => redeemed' = redeemed]_vars

\* No request of a checked-in ticket goes through without a sign-off.
CheckedInIsReviewed ==
  [][\A r \in Calls : refund[r].status = "none" /\ refund'[r].status = "approved"
                        => ~redeemed]_vars

---------------------------------------------------------------------------
(* Small instances for TLC.                                                 *)

\* Admins and calls are interchangeable.
Symmetry == Permutations(Calls) \cup Permutations(Admins)
=============================================================================
