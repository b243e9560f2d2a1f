--------------------------- MODULE CheckoutProofs ---------------------------
(***************************************************************************)
(* Proofs about Checkout, for every set of holds, payments and requests.   *)
(***************************************************************************)
EXTENDS Checkout, FiniteSetTheorems, TLAPS

---------------------------------------------------------------------------
(* Counting.                                                               *)

\* The inventory reads are natural numbers: the tickets of finitely many holds
\* and orders, each of at most MaxLineQty units, are finitely many.
LEMMA HeldNat ==
  ASSUME NEW ks \in SUBSET Keys PROVE Held(ks) \in Nat
<1>1. IsFiniteSet(Keys \X (1..MaxLineQty))
  <2>1. IsFiniteSet(Keys) /\ 1 \in Int /\ MaxLineQty \in Int
    BY ShapeAssumption
  <2>2. IsFiniteSet(1..MaxLineQty)
    BY <2>1, FS_Interval
  <2> QED BY <2>1, <2>2, FS_Product
<1> DEFINE U == UNION {UnitsOf(k) : k \in {j \in ks : Counted(j)}}
<1>2. U \subseteq Keys \X (1..MaxLineQty)
  BY ShapeAssumption DEF UnitsOf
<1>3. IsFiniteSet(U)
  BY <1>1, <1>2, FS_Subset
<1> QED
  BY <1>3, FS_CardinalityType DEF Held

LEMMA SoldNat ==
  ASSUME NEW ps \in SUBSET Payments PROVE Sold(ps) \in Nat
<1>1. IsFiniteSet(Payments \X (1..MaxLineQty))
  <2>1. IsFiniteSet(Payments) /\ 1 \in Int /\ MaxLineQty \in Int
    BY ShapeAssumption
  <2>2. IsFiniteSet(1..MaxLineQty)
    BY <2>1, FS_Interval
  <2> QED BY <2>1, <2>2, FS_Product
<1> DEFINE U == UNION {SeatsOf(p) : p \in {q \in ps : orders[q] = "paid"}}
<1>2. U \subseteq Payments \X (1..MaxLineQty)
  BY ShapeAssumption DEF SeatsOf
<1>3. IsFiniteSet(U)
  BY <1>1, <1>2, FS_Subset
<1> QED
  BY <1>3, FS_CardinalityType DEF Sold

---------------------------------------------------------------------------
(* Requests.                                                               *)

LEMMA FinishOK ==
  ASSUME RequestsOK, NEW w \in Workers, Finish(w)
  PROVE  RequestsOK'
<1>1. Idle \in Request
  BY DEF Idle, Request, Hold, NoHold
<1>2. req' \in [Workers -> Request] /\ req'[w] = Idle
  BY <1>1 DEF RequestsOK, Finish
<1>3. \A v \in Workers : v # w => req'[v] = req[v]
  BY DEF RequestsOK, Finish
<1> QED
  BY <1>2, <1>3 DEF RequestsOK, Idle, PayPCs, HoldPCs

\* A request moves within its operation, remembering a hold and a number.
MoveTo(w, l, h, n) ==
  req' = [req EXCEPT ![w] = [req[w] EXCEPT !.pc = l, !.seen = h, !.n = n]]

LEMMA MoveOK ==
  ASSUME RequestsOK, NEW w \in Workers,
         NEW l \in HoldPCs \cup PayPCs, NEW h \in Hold, NEW n \in Nat,
         req[w].pc \in HoldPCs => l \in HoldPCs,
         req[w].pc \in PayPCs => l \in PayPCs,
         req[w].pc # "idle",
         MoveTo(w, l, h, n)
  PROVE  RequestsOK'
<1> USE DEF MoveTo
<1> DEFINE r == [req[w] EXCEPT !.pc = l, !.seen = h, !.n = n]
<1>0. req[w] \in Request
  BY DEF RequestsOK
<1>1. /\ r \in Request
      /\ r.pc = l /\ r.pay = req[w].pay /\ r.key = req[w].key
  BY <1>0 DEF Request
<1>2. req' \in [Workers -> Request] /\ req'[w] = r
  BY <1>1 DEF RequestsOK
<1>3. \A v \in Workers : v # w => req'[v] = req[v]
  BY DEF RequestsOK
<1>4. /\ r.pc \in PayPCs => r.pay \in Payments
      /\ r.pc \in HoldPCs => r.key \in Keys
  <2>1. HoldPCs \cap PayPCs = {}
    BY DEF HoldPCs, PayPCs
  <2>2. req[w].pc \in HoldPCs \cup PayPCs
    BY <1>0 DEF Request
  <2> QED BY <1>1, <2>1, <2>2 DEF RequestsOK
<1> HIDE DEF r
<1> QED
  BY <1>2, <1>3, <1>4 DEF RequestsOK

LEMMA GotoOK ==
  ASSUME RequestsOK, NEW w \in Workers, NEW l \in HoldPCs \cup PayPCs,
         req[w].pc \in HoldPCs => l \in HoldPCs,
         req[w].pc \in PayPCs => l \in PayPCs,
         req[w].pc # "idle", Goto(w, l)
  PROVE  RequestsOK'
<1>1. req[w] \in Request /\ req \in [Workers -> Request]
  BY DEF RequestsOK
<1>2. req[w].seen \in Hold /\ req[w].n \in Nat
  BY <1>1 DEF Request
<1>3. [req[w] EXCEPT !.pc = l] =
        [req[w] EXCEPT !.pc = l, !.seen = req[w].seen, !.n = req[w].n]
  BY <1>1 DEF Request
<1>4. req' = [req EXCEPT ![w] = [req[w] EXCEPT !.pc = l]]
  BY DEF Goto
<1>5. MoveTo(w, l, req[w].seen, req[w].n)
  BY <1>3, <1>4 DEF MoveTo
<1> QED BY <1>2, <1>5, MoveOK

LEMMA BeginOK ==
  ASSUME RequestsOK, NEW w \in Workers, Begin(w)
  PROVE  RequestsOK'
<1>1. ASSUME NEW r \in Request, req' = [req EXCEPT ![w] = r],
             r.pc \in PayPCs => r.pay \in Payments,
             r.pc \in HoldPCs => r.key \in Keys
      PROVE  RequestsOK'
  BY <1>1 DEF RequestsOK
<1>2. NoHold \in Hold
  BY DEF NoHold, Hold
<1>3. ASSUME NEW k \in Keys, BeginHold(w, k) PROVE RequestsOK'
  <2> DEFINE r == [Idle EXCEPT !.pc = "holdLookup", !.key = k]
  <2>1. r \in Request /\ r.pc = "holdLookup" /\ r.key = k
    BY <1>2 DEF Idle, Request, HoldPCs
  <2>2. req' = [req EXCEPT ![w] = r]
    BY <1>3 DEF BeginHold
  <2>3. r.pc \notin PayPCs
    BY <2>1 DEF PayPCs
  <2> HIDE DEF r
  <2> QED BY <1>1, <2>1, <2>2, <2>3
<1>4. ASSUME NEW p \in Payments, BeginIntent(w, p) \/ BeginConfirm(w, p)
      PROVE  RequestsOK'
  <2>1. PICK l \in {"intentRead", "lookup"} :
          req' = [req EXCEPT ![w] = [Idle EXCEPT !.pc = l, !.pay = p]]
    BY <1>4 DEF BeginIntent, BeginConfirm
  <2> DEFINE r == [Idle EXCEPT !.pc = l, !.pay = p]
  <2>2. r \in Request /\ r.pc = l /\ r.pay = p
    BY <1>2 DEF Idle, Request, PayPCs
  <2>3. r.pc \notin HoldPCs
    BY <2>2 DEF HoldPCs
  <2>4. req' = [req EXCEPT ![w] = r]
    BY <2>1
  <2> HIDE DEF r
  <2> QED BY <1>1, <2>2, <2>3, <2>4
<1> QED BY <1>3, <1>4 DEF Begin
LEMMA StepRequestsOK ==
  ASSUME TypeOK, NEW w \in Workers, Step(w)
  PROVE  RequestsOK'
<1>0. RequestsOK /\ req \in [Workers -> Request] /\ req[w] \in Request
  BY DEF TypeOK, RequestsOK
<1>1. req[w].seen \in Hold /\ req[w].n \in Nat /\ \A k \in Keys : holds[k] \in Hold
  BY <1>0 DEF TypeOK, Request
<1>2. CASE CreateHoldStep(w)
  <2>1. CASE HoldLookup(w)
    BY <1>0, <2>1, FinishOK, GotoOK DEF HoldLookup, At, HoldPCs, PayPCs
  <2>2. CASE ReadSold(w)
    <3>1. MoveTo(w, "readHolds", req[w].seen, Sold(Payments))
      BY <1>0, <2>2 DEF MoveTo, ReadSold, Request
    <3> QED BY <1>0, <1>1, <2>2, <3>1, SoldNat, MoveOK DEF ReadSold, At, HoldPCs, PayPCs
  <2>3. CASE ReadHolds(w)
    BY <1>0, <2>3, FinishOK, GotoOK DEF ReadHolds, At, HoldPCs, PayPCs
  <2>4. CASE CapHeld(w)
    <3>1. Held(KeysOf(Owner[req[w].key])) \in Nat
      BY HeldNat DEF KeysOf
    <3>2. MoveTo(w, "capBought", req[w].seen, Held(KeysOf(Owner[req[w].key])))
      BY <1>0, <2>4 DEF MoveTo, CapHeld, Request
    <3> QED BY <1>0, <1>1, <2>4, <3>1, <3>2, MoveOK DEF CapHeld, At, HoldPCs, PayPCs
  <2>5. CASE CapBought(w)
    BY <1>0, <2>5, FinishOK, GotoOK DEF CapBought, At, HoldPCs, PayPCs
  <2>6. CASE CreateHold(w)
    BY <1>0, <2>6, FinishOK DEF CreateHold
  <2> QED BY <1>2, <2>1, <2>2, <2>3, <2>4, <2>5, <2>6 DEF CreateHoldStep
<1>3. ASSUME NEW l \in PayPCs, req[w].pc \in PayPCs, NEW h \in Hold,
             req' = [req EXCEPT ![w].pc = l, ![w].seen = h]
      PROVE  RequestsOK'
  <2>1. MoveTo(w, l, h, req[w].n)
    BY <1>0, <1>3 DEF MoveTo, Request
  <2> QED BY <1>0, <1>1, <1>3, <2>1, MoveOK DEF HoldPCs, PayPCs
<1>4. ASSUME NEW l \in PayPCs, req[w].pc \in PayPCs, NEW n \in Nat,
             req' = [req EXCEPT ![w].pc = l, ![w].n = n]
      PROVE  RequestsOK'
  <2>1. MoveTo(w, l, req[w].seen, n)
    BY <1>0, <1>4 DEF MoveTo, Request
  <2> QED BY <1>0, <1>1, <1>4, <2>1, MoveOK DEF HoldPCs, PayPCs
<1>5. ASSUME NEW l \in PayPCs, req[w].pc \in PayPCs, Goto(w, l) PROVE RequestsOK'
  BY <1>0, <1>5, GotoOK DEF HoldPCs, PayPCs
<1>6. req[w].pc \in PayPCs => req[w].pay \in Payments /\ HoldOf[req[w].pay] \in Keys
  BY <1>0, ShapeAssumption DEF RequestsOK
<1>7. CASE IntentStep(w)
  <2>1. CASE IntentRead(w)
    BY <1>0, <1>1, <1>3, <1>6, <2>1, FinishOK DEF IntentRead, At, PayPCs
  <2>2. CASE IntentCheck(w)
    BY <1>0, <2>2, FinishOK DEF IntentCheck
  <2> QED BY <1>7, <2>1, <2>2 DEF IntentStep
<1>8. CASE ConfirmStep(w)
  <2>1. CASE Lookup(w)
    BY <1>0, <1>5, <2>1, FinishOK DEF Lookup, At, PayPCs
  <2>2. CASE ReadHold(w)
    BY <1>0, <1>1, <1>3, <1>6, <2>2, FinishOK DEF ReadHold, At, PayPCs
  <2>3. CASE CheckHold(w)
    BY <1>0, <1>5, <2>3, FinishOK DEF CheckHold, At, PayPCs
  <2>4. CASE Verify(w)
    BY <1>0, <1>5, <2>4, FinishOK DEF Verify, At, PayPCs
  <2>5. CASE SaveOrder(w)
    BY <1>0, <1>5, <2>5, FinishOK DEF SaveOrder, At, PayPCs
  <2>6. CASE ConvertHold(w)
    BY <1>5, <2>6 DEF ConvertHold, At, PayPCs
  <2>7. CASE RedeemPromo(w)
    BY <1>4, <2>7 DEF RedeemPromo, At, PayPCs
  <2>8. CASE IssueSeat(w)
    <3>1. ASSUME req' = [req EXCEPT ![w].n = @ + 1] PROVE RequestsOK'
      <4>1. MoveTo(w, "issue", req[w].seen, req[w].n + 1)
        BY <1>0, <2>8, <3>1 DEF MoveTo, Request, IssueSeat, At
      <4> QED BY <1>0, <1>1, <2>8, <4>1, MoveOK DEF IssueSeat, At, HoldPCs, PayPCs
    <3> QED BY <1>0, <1>5, <2>8, <3>1, FinishOK DEF IssueSeat, At, PayPCs
  <2>9. CASE RecordLedger(w)
    BY <1>0, <1>5, <2>9, FinishOK DEF RecordLedger, At, PayPCs
  <2>10. CASE RecordSale(w)
    BY <1>5, <2>10 DEF RecordSale, At, PayPCs
  <2>11. CASE RecordCommission(w)
    BY <1>0, <2>11, FinishOK DEF RecordCommission
  <2> QED BY <1>8, <2>1, <2>2, <2>3, <2>4, <2>5, <2>6, <2>7, <2>8, <2>9, <2>10,
            <2>11 DEF ConfirmStep
<1> QED BY <1>2, <1>7, <1>8 DEF Step

---------------------------------------------------------------------------
(* Types.                                                                  *)

\* Every row and every request in flight keeps its type, under both drivers.
THEOREM TypeCorrect == Spec => []TypeOK
<1>1. Init => TypeOK
  <2> SUFFICES ASSUME Init PROVE TypeOK
    OBVIOUS
  <2>1. RequestsOK
    BY DEF Init, RequestsOK, Request, Idle, Hold, NoHold, HoldPCs, PayPCs
  <2> QED BY <2>1, ShapeAssumption DEF Init, TypeOK, Hold, NoHold
<1>2. TypeOK /\ [Next]_vars => TypeOK'
  <2> SUFFICES ASSUME TypeOK, [Next]_vars PROVE TypeOK'
    OBVIOUS
  <2>0. RequestsOK
    BY DEF TypeOK
  <2> USE ShapeAssumption, DriverAssumption DEF money, settled, door
  <2>1. ASSUME NEW w \in Workers, Begin(w) PROVE TypeOK'
    <3>1. RequestsOK'
      BY <2>0, <2>1, BeginOK
    <3> QED BY <2>1, <3>1 DEF Begin, BeginHold, BeginIntent, BeginConfirm, TypeOK
  <2>2. ASSUME NEW w \in Workers, Step(w) PROVE TypeOK'
    <3>1. RequestsOK'
      BY <2>2, StepRequestsOK
    <3>2. req[w].pc \in PayPCs => req[w].pay \in Payments /\ HoldOf[req[w].pay] \in Keys
      BY <2>0 DEF RequestsOK
    <3>3. req[w].pc \in HoldPCs => req[w].key \in Keys
      BY <2>0 DEF RequestsOK
    <3> USE <3>1, <3>2, <3>3 DEF At, TypeOK, HoldPCs, PayPCs
    <3>4. CASE CreateHoldStep(w)
      <4>1. CASE CreateHold(w)
        <5>1. ActiveHold \in Hold
          BY DEF ActiveHold, Hold
        <5>2. holds' \in [Keys -> Hold] /\ expired' \in [Keys -> BOOLEAN]
          BY <4>1, <5>1 DEF CreateHold
        <5> QED BY <4>1, <5>2 DEF CreateHold
      <4>2. CASE HoldLookup(w) \/ ReadSold(w) \/ ReadHolds(w)
        BY <4>2 DEF HoldLookup, ReadSold, ReadHolds
      <4>3. CASE CapHeld(w) \/ CapBought(w)
        BY <4>3 DEF CapHeld, CapBought
      <4> QED BY <3>4, <4>1, <4>2, <4>3 DEF CreateHoldStep
    <3>5. CASE IntentStep(w)
      <4>1. CASE IntentRead(w) BY <4>1 DEF IntentRead
      <4>2. CASE IntentCheck(w)
        <5>1. CASE expired[HoldOf[req[w].pay]]
          <6>1. holds' \in [Keys -> Hold] /\ UNCHANGED captured
            BY <4>2, <5>1 DEF IntentCheck, Release, Hold
          <6> QED BY <4>2, <6>1 DEF IntentCheck
        <5>2. CASE ~expired[HoldOf[req[w].pay]]
          <6>1. captured' \in [Payments -> {"none", "intent", "captured"}]
            BY <4>2, <5>2 DEF IntentCheck
          <6>2. UNCHANGED holds
            BY <4>2, <5>2 DEF IntentCheck
          <6> QED BY <4>2, <6>1, <6>2 DEF IntentCheck
        <5> QED BY <5>1, <5>2
      <4> QED BY <3>5, <4>1, <4>2 DEF IntentStep
    <3>6. CASE ConfirmStep(w)
      <4>1. CASE Lookup(w) \/ ReadHold(w) \/ Verify(w)
        BY <4>1 DEF Lookup, ReadHold, Verify
      <4>2. CASE CheckHold(w)
        <5>1. CASE expired[HoldOf[req[w].pay]]
          <6>1. holds' \in [Keys -> Hold]
            BY <4>2, <5>1 DEF CheckHold, Release, Hold
          <6> QED BY <4>2, <6>1 DEF CheckHold
        <5>2. CASE ~expired[HoldOf[req[w].pay]]
          BY <4>2, <5>2 DEF CheckHold
        <5> QED BY <5>1, <5>2
      <4>3. CASE SaveOrder(w) BY <4>3 DEF SaveOrder
      <4>4. CASE ConvertHold(w) BY <4>4 DEF ConvertHold, ConvertToOrder, Hold
      <4>5. CASE RedeemPromo(w) BY <4>5 DEF RedeemPromo
      <4>6. CASE IssueSeat(w) BY <4>6 DEF IssueSeat
      <4>7. CASE RecordLedger(w) BY <4>7 DEF RecordLedger
      <4>8. CASE RecordSale(w) BY <4>8 DEF RecordSale
      <4>9. CASE RecordCommission(w) BY <4>9 DEF RecordCommission
      <4> QED BY <3>6, <4>1, <4>2, <4>3, <4>4, <4>5, <4>6, <4>7, <4>8, <4>9 DEF ConfirmStep
    <3> QED BY <2>2, <3>4, <3>5, <3>6 DEF Step
  <2>3. ASSUME NEW w \in Workers, Crash(w) PROVE TypeOK'
    BY <2>0, <2>3, FinishOK DEF Crash, TypeOK
  <2>4. ASSUME Environment PROVE TypeOK'
    <3>0. req' = req => RequestsOK'
      BY <2>0 DEF RequestsOK
    <3> USE <3>0 DEF TypeOK
    <3>1. ASSUME NEW p \in Payments, Capture(p) PROVE TypeOK'
      BY <3>1 DEF Capture
    <3>2. ASSUME NEW p \in Payments, LockForRefund(p) PROVE TypeOK'
      BY <3>2 DEF LockForRefund
    <3>3. ASSUME NEW p \in Payments, RestoreOrder(p) PROVE TypeOK'
      BY <3>3 DEF RestoreOrder
    <3>4. ASSUME NEW k \in Keys, Expire(k) PROVE TypeOK'
      BY <3>4 DEF Expire
    <3>5. ASSUME NEW s \in Seats, ClaimAdmission(s) PROVE TypeOK'
      BY <3>5 DEF ClaimAdmission
    <3>6. CASE SweepQuery BY <3>6 DEF SweepQuery
    <3>7. CASE SweepCommit BY <3>7 DEF SweepCommit, Hold
    <3> QED BY <2>4, <3>1, <3>2, <3>3, <3>4, <3>5, <3>6, <3>7 DEF Environment
  <2>5. CASE UNCHANGED vars BY <2>5, <2>0 DEF vars, TypeOK, RequestsOK
  <2> QED BY <2>1, <2>2, <2>3, <2>4, <2>5 DEF Next
<1> QED BY <1>1, <1>2, PTL DEF Spec
---------------------------------------------------------------------------
(* Confirmation, whatever the driver.                                      *)

\* Rows that confirmation writes are never taken back.
LEMMA RowsStay ==
  ASSUME TypeOK, [Next]_vars
  PROVE  /\ \A p \in Payments : orders[p] # "none" => orders'[p] # "none"
         /\ \A p \in Payments : captured[p] = "captured" => captured'[p] = "captured"
         /\ \A s \in Seats : ents[s] # "none" => ents'[s] # "none"
         /\ redeemed \subseteq redeemed' /\ ledger \subseteq ledger'
         /\ attributed \subseteq attributed'
<1> USE DEF TypeOK, money, settled, door
<1>1. ASSUME NEW w \in Workers, Begin(w) \/ Crash(w)
      PROVE  UNCHANGED <<orders, door, money, settled>>
  BY <1>1 DEF Begin, BeginHold, BeginIntent, BeginConfirm, Crash
<1>2. ASSUME NEW w \in Workers, CreateHoldStep(w)
      PROVE  UNCHANGED <<orders, door, money, settled>>
  BY <1>2 DEF CreateHoldStep, HoldLookup, ReadSold, ReadHolds, CapHeld, CapBought,
              CreateHold
<1>3. ASSUME NEW w \in Workers, IntentStep(w)
      PROVE  /\ UNCHANGED <<orders, door, settled>>
             /\ \A p \in Payments : captured[p] = "captured" => captured'[p] = "captured"
  BY <1>3 DEF IntentStep, IntentRead, IntentCheck
<1>4. ASSUME NEW w \in Workers,
             Lookup(w) \/ ReadHold(w) \/ CheckHold(w) \/ Verify(w) \/ ConvertHold(w)
      PROVE  UNCHANGED <<orders, door, money, settled>>
  BY <1>4 DEF Lookup, ReadHold, CheckHold, Verify, ConvertHold
<1>5. ASSUME NEW w \in Workers, SaveOrder(w)
      PROVE  /\ UNCHANGED <<door, money, settled>>
             /\ \A p \in Payments : orders[p] # "none" => orders'[p] # "none"
  BY <1>5 DEF SaveOrder
<1>6. ASSUME NEW w \in Workers, IssueSeat(w)
      PROVE  /\ UNCHANGED <<orders, money, settled>>
             /\ \A s \in Seats : ents[s] # "none" => ents'[s] # "none"
  BY <1>6 DEF IssueSeat
<1>7. ASSUME NEW w \in Workers, RedeemPromo(w) \/ RecordLedger(w) \/ RecordSale(w)
      PROVE  /\ UNCHANGED <<orders, door, money>>
             /\ redeemed \subseteq redeemed' /\ ledger \subseteq ledger'
             /\ attributed \subseteq attributed'
  BY <1>7 DEF RedeemPromo, RecordLedger, RecordSale
<1>8. ASSUME NEW w \in Workers, RecordCommission(w)
      PROVE  UNCHANGED <<orders, door, money, redeemed, ledger, attributed>>
  BY <1>8 DEF RecordCommission
<1>9. ASSUME Environment
      PROVE  /\ \A p \in Payments : orders[p] # "none" => orders'[p] # "none"
             /\ \A p \in Payments : captured[p] = "captured" => captured'[p] = "captured"
             /\ \A s \in Seats : ents[s] # "none" => ents'[s] # "none"
             /\ UNCHANGED settled
  BY <1>9 DEF Environment, Capture, LockForRefund, RestoreOrder, Expire, ClaimAdmission,
              SweepQuery, SweepCommit
<1>10. CASE UNCHANGED vars
  BY <1>10 DEF vars
<1> QED
  BY <1>1, <1>2, <1>3, <1>4, <1>5, <1>6, <1>7, <1>8, <1>9, <1>10
     DEF Next, Step, ConfirmStep

\* A step of one request leaves what the others remember alone.
LEMMA OthersStay ==
  ASSUME TypeOK, NEW w \in Workers, Begin(w) \/ Step(w) \/ Crash(w)
  PROVE  \A v \in Workers : v # w => req'[v] = req[v]
<1> USE DEF TypeOK, RequestsOK, Goto, Finish
<1>1. CASE Begin(w) \/ Crash(w)
  BY <1>1 DEF Begin, BeginHold, BeginIntent, BeginConfirm, Crash
<1>2. CASE CreateHoldStep(w)
  BY <1>2 DEF CreateHoldStep, HoldLookup, ReadSold, ReadHolds, CapHeld, CapBought,
              CreateHold
<1>3. CASE IntentStep(w)
  BY <1>3 DEF IntentStep, IntentRead, IntentCheck
<1>4. CASE Lookup(w) \/ ReadHold(w) \/ CheckHold(w) \/ Verify(w) \/ SaveOrder(w)
             \/ ConvertHold(w)
  BY <1>4 DEF Lookup, ReadHold, CheckHold, Verify, SaveOrder, ConvertHold
<1>5. CASE RedeemPromo(w) \/ IssueSeat(w) \/ RecordLedger(w) \/ RecordSale(w)
             \/ RecordCommission(w)
  BY <1>5 DEF RedeemPromo, IssueSeat, RecordLedger, RecordSale, RecordCommission
<1> QED BY <1>1, <1>2, <1>3, <1>4, <1>5 DEF Step, ConfirmStep

\* Where a request may go in one step, and with which payment.
LEMMA Moves ==
  ASSUME TypeOK, NEW w \in Workers, Begin(w) \/ Step(w) \/ Crash(w)
  PROVE  \/ req'[w].pc \notin {"save"} \cup AfterSave
         \/ /\ req'[w].pay = req[w].pay
            /\ \/ Verify(w) /\ req'[w].pc = "save" /\ captured[req[w].pay] = "captured"
               \/ SaveOrder(w) /\ req'[w].pc = "convert" /\ orders'[req[w].pay] = "paid"
               \/ ConvertHold(w) /\ req'[w].pc = "redeem"
               \/ RedeemPromo(w) /\ req'[w].pc = "issue" /\ req'[w].n = 1
               \/ /\ IssueSeat(w) /\ req'[w].pc = "issue" /\ req'[w].n = req[w].n + 1
                  /\ req[w].n < Qty[HoldOf[req[w].pay]]
                  /\ ents' = [ents EXCEPT ![<<req[w].pay, req[w].n>>] = "valid"]
               \/ /\ IssueSeat(w) /\ req'[w].pc = "ledger"
                  /\ ~(req[w].n < Qty[HoldOf[req[w].pay]])
                  /\ ents' = [ents EXCEPT ![<<req[w].pay, req[w].n>>] = "valid"]
               \/ RecordLedger(w) /\ req'[w].pc = "attribute" /\ req[w].pay \in ledger'
               \/ RecordSale(w) /\ req'[w].pc = "credit"
<1> USE DEF TypeOK, RequestsOK, Request, At, Goto, Finish, Idle, PayPCs, HoldPCs, AfterSave, AfterRedeem,
            AfterIssue, AfterLedger
<1>1. CASE Begin(w)
  <2>1. ASSUME NEW k \in Keys, BeginHold(w, k) PROVE req'[w].pc = "holdLookup"
    BY <2>1 DEF BeginHold
  <2>2. ASSUME NEW p \in Payments, BeginIntent(w, p) PROVE req'[w].pc = "intentRead"
    BY <2>2 DEF BeginIntent
  <2>3. ASSUME NEW p \in Payments, BeginConfirm(w, p) PROVE req'[w].pc = "lookup"
    BY <2>3 DEF BeginConfirm
  <2>4. req'[w].pc \in {"holdLookup", "intentRead", "lookup"}
    BY <1>1, <2>1, <2>2, <2>3 DEF Begin
  <2> QED BY <2>4
<1>2. CASE Crash(w)
  BY <1>2 DEF Crash
<1>3. CASE CreateHoldStep(w)
  BY <1>3 DEF CreateHoldStep, HoldLookup, ReadSold, ReadHolds, CapHeld, CapBought,
              CreateHold
<1>4. CASE IntentStep(w)
  BY <1>4 DEF IntentStep, IntentRead, IntentCheck
<1>5. CASE Lookup(w) \/ ReadHold(w) \/ CheckHold(w)
  BY <1>5 DEF Lookup, ReadHold, CheckHold
<1>6. CASE Verify(w)
  BY <1>6 DEF Verify
<1>7. CASE SaveOrder(w)
  BY <1>7 DEF SaveOrder
<1>8. CASE ConvertHold(w)
  BY <1>8 DEF ConvertHold
<1>9. CASE RedeemPromo(w)
  BY <1>9 DEF RedeemPromo
<1>10. CASE IssueSeat(w)
  BY <1>10 DEF IssueSeat
<1>11. CASE RecordLedger(w)
  BY <1>11 DEF RecordLedger
<1>12. CASE RecordSale(w)
  BY <1>12 DEF RecordSale
<1>13. CASE RecordCommission(w)
  BY <1>13 DEF RecordCommission
<1> QED BY <1>1, <1>2, <1>3, <1>4, <1>5, <1>6, <1>7, <1>8, <1>9, <1>10, <1>11, <1>12,
           <1>13 DEF Step, ConfirmStep
LEMMA FlowInit == Init => FlowInv
<1> SUFFICES ASSUME Init PROVE FlowInv
  OBVIOUS
<1>1. \A p \in Payments : SeatsOf(p) \subseteq Seats
  BY DEF Seats
<1> QED
  BY <1>1 DEF Init, FlowInv, TicketsFollowMoney, SettledOrderIsComplete, CarriesThrough,
     Idle, AfterSave, AfterRedeem, AfterIssue, AfterLedger

\* Requests: what a request relies on stays true, and becomes true when it
\* moves past the write it relies on.
LEMMA CarriesStep ==
  ASSUME TypeOK, FlowInv, [Next]_vars, NEW v \in Workers
  PROVE  CarriesThrough(v)'
<1>0. CarriesThrough(v)
  BY DEF FlowInv
<1>p. req[v].pc \in {"save"} \cup AfterSave => req[v].pay \in Payments
  BY DEF TypeOK, RequestsOK, AfterSave, AfterRedeem, AfterIssue, AfterLedger, PayPCs
<1>s. \A p \in Payments : SeatsOf(p) \subseteq Seats
  BY DEF Seats
<1>i. \A p \in Payments : \A i \in 1..Qty[HoldOf[p]] : <<p, i>> \in Seats
  BY DEF Seats, SeatsOf
<1>q. \A p \in Payments : Qty[HoldOf[p]] \in Nat
  BY ShapeAssumption
<1>1. ASSUME req'[v] = req[v] PROVE CarriesThrough(v)'
  <2>1. req[v].pc = "issue" =>
          \A i \in 1..(req[v].n - 1) : <<req[v].pay, i>> \in Seats
    BY <1>0, <1>p, <1>i, <1>q
       DEF CarriesThrough, AfterSave, AfterRedeem, AfterIssue, AfterLedger
  <2>2. Issued(req[v].pay) /\ req[v].pay \in Payments => Issued(req[v].pay)'
    BY <1>1, <1>s, RowsStay DEF Issued
  <2> QED
    BY <1>0, <1>1, <1>p, <2>1, <2>2, RowsStay
       DEF CarriesThrough, AfterSave, AfterRedeem, AfterIssue, AfterLedger
<1>2. ASSUME Begin(v) \/ Step(v) \/ Crash(v) PROVE CarriesThrough(v)'
  <2> DEFINE p == req[v].pay
  <2>1. CASE req'[v].pc \notin {"save"} \cup AfterSave
    BY <2>1 DEF CarriesThrough, AfterSave, AfterRedeem, AfterIssue, AfterLedger
  <2> USE <1>0, <1>p, <1>q, RowsStay DEF CarriesThrough, AfterSave, AfterRedeem,
          AfterIssue, AfterLedger, At
  <2>2. CASE Verify(v) /\ req'[v].pc = "save" /\ captured[p] = "captured"
               /\ req'[v].pay = p
    <3>1. p \in Payments /\ captured' = captured
      BY <2>2 DEF Verify, money, TypeOK, RequestsOK, PayPCs
    <3> QED BY <2>2, <3>1
  <2>3. CASE SaveOrder(v) /\ req'[v].pc = "convert" /\ orders'[p] = "paid"
               /\ req'[v].pay = p
    BY <2>3 DEF SaveOrder
  <2>4. CASE ConvertHold(v) /\ req'[v].pc = "redeem" /\ req'[v].pay = p
    BY <2>4 DEF ConvertHold
  <2>5. CASE RedeemPromo(v) /\ req'[v].pc = "issue" /\ req'[v].n = 1 /\ req'[v].pay = p
    <3>1. p \in Payments /\ Qty[HoldOf[p]] \in 1..MaxLineQty
      BY <2>5, ShapeAssumption DEF RedeemPromo
    <3>2. captured[p] = "captured" /\ orders[p] # "none" /\ p \in redeemed'
      BY <2>5 DEF RedeemPromo
    <3>3. captured'[p] = "captured" /\ orders'[p] # "none"
      BY <3>1, <3>2
    <3>4. 1 \in 1..Qty[HoldOf[p]] /\ 1..(1 - 1) = {}
      BY <3>1, ShapeAssumption
    <3> QED BY <2>5, <3>2, <3>3, <3>4
  <2>6. CASE /\ IssueSeat(v) /\ req'[v].pc = "issue" /\ req'[v].n = req[v].n + 1
             /\ req[v].n < Qty[HoldOf[p]] /\ req'[v].pay = p
             /\ ents' = [ents EXCEPT ![<<p, req[v].n>>] = "valid"]
    <3>1. /\ p \in Payments /\ captured'[p] = "captured" /\ orders'[p] # "none"
          /\ p \in redeemed'
      BY <2>6 DEF IssueSeat
    <3>2. /\ req[v].n \in 1..Qty[HoldOf[p]]
          /\ \A i \in 1..(req[v].n - 1) : ents[<<p, i>>] # "none"
      BY <2>6 DEF IssueSeat
    <3>3. req'[v].n \in 1..Qty[HoldOf[p]]
      BY <1>q, <2>6, <3>1, <3>2
    <3>4. ASSUME NEW i \in 1..(req'[v].n - 1) PROVE ents'[<<p, i>>] # "none"
      <4>1. i \in 1..Qty[HoldOf[p]] /\ <<p, i>> \in Seats
        BY <1>q, <1>i, <2>6, <3>1, <3>2
      <4>2. CASE i = req[v].n
        BY <2>6, <4>1, <4>2 DEF TypeOK
      <4>3. CASE i # req[v].n
        <5>1. i \in 1..(req[v].n - 1)
          BY <1>q, <2>6, <3>1, <3>2, <4>3
        <5> QED BY <3>2, <4>1, <5>1
      <4> QED BY <4>2, <4>3
    <3> QED BY <2>6, <3>1, <3>3, <3>4
  <2>7. CASE /\ IssueSeat(v) /\ req'[v].pc = "ledger" /\ req'[v].pay = p
             /\ ~(req[v].n < Qty[HoldOf[p]])
             /\ ents' = [ents EXCEPT ![<<p, req[v].n>>] = "valid"]
    <3>1. /\ p \in Payments /\ captured'[p] = "captured" /\ orders'[p] # "none"
          /\ p \in redeemed'
      BY <2>7 DEF IssueSeat
    <3>2. /\ req[v].n = Qty[HoldOf[p]]
          /\ \A i \in 1..(req[v].n - 1) : ents[<<p, i>>] # "none"
      BY <1>q, <2>7 DEF IssueSeat
    <3>3. ASSUME NEW s \in SeatsOf(p) PROVE ents'[s] # "none"
      <4>1. PICK i \in 1..Qty[HoldOf[p]] : s = <<p, i>>
        BY DEF SeatsOf
      <4>2. s \in Seats
        BY <1>s, <3>1
      <4>3. CASE i = req[v].n
        BY <2>7, <4>1, <4>2, <4>3 DEF TypeOK
      <4>4. CASE i # req[v].n
        <5>1. i \in 1..(req[v].n - 1)
          BY <1>q, <3>1, <3>2, <4>4
        <5> QED BY <3>2, <4>1, <4>2, <5>1
      <4> QED BY <4>3, <4>4
    <3>4. Issued(p)'
      BY <2>7, <3>3 DEF Issued
    <3> QED BY <2>7, <3>1, <3>4
  <2>8. CASE RecordLedger(v) /\ req'[v].pc = "attribute" /\ req'[v].pay = p /\ p \in ledger'
    <3>1. Issued(p)' /\ p \in ledger'
      BY <2>8, <1>s DEF RecordLedger, Issued
    <3> QED BY <2>8, <3>1 DEF RecordLedger
  <2>9. CASE RecordSale(v) /\ req'[v].pc = "credit" /\ req'[v].pay = p
    <3>1. Issued(p)' /\ p \in attributed'
      BY <2>9, <1>s DEF RecordSale, Issued
    <3> QED BY <2>9, <3>1 DEF RecordSale
  <2> QED
    BY <1>2, <2>1, <2>2, <2>3, <2>4, <2>5, <2>6, <2>7, <2>8, <2>9, Moves
<1>3. ASSUME Environment \/ UNCHANGED vars PROVE req'[v] = req[v]
  BY <1>3 DEF Environment, Capture, LockForRefund, RestoreOrder, Expire, ClaimAdmission,
              SweepQuery, SweepCommit, vars
<1> QED
  BY <1>1, <1>2, <1>3, OthersStay DEF Next
\* Only the writes of confirmation create rows, each for the payment of the
\* request that makes it.
LEMMA NewRows ==
  ASSUME TypeOK, [Next]_vars
  PROVE  /\ \A p \in Payments : orders[p] = "none" /\ orders'[p] # "none" =>
              \E w \in Workers : SaveOrder(w) /\ req[w].pay = p
         /\ \A s \in Seats : ents[s] = "none" /\ ents'[s] # "none" =>
              \E w \in Workers : IssueSeat(w) /\ s = <<req[w].pay, req[w].n>>
         /\ \A p \in ledger' : p \in ledger \/
              \E w \in Workers : RecordLedger(w) /\ req[w].pay = p
         /\ \A p \in Payments : credited'[p] = credited[p] \/
              \E w \in Workers : /\ RecordCommission(w) /\ req[w].pay = p
                                 /\ credited'[p] = credited[p] + 1
<1> USE DEF TypeOK, money, settled, door
<1>1. ASSUME NEW w \in Workers, Begin(w) \/ Crash(w)
      PROVE  UNCHANGED <<orders, ents, ledger, credited>>
  BY <1>1 DEF Begin, BeginHold, BeginIntent, BeginConfirm, Crash
<1>2. ASSUME NEW w \in Workers, CreateHoldStep(w) \/ IntentStep(w)
      PROVE  UNCHANGED <<orders, ents, ledger, credited>>
  BY <1>2 DEF CreateHoldStep, HoldLookup, ReadSold, ReadHolds, CapHeld, CapBought,
              CreateHold, IntentStep, IntentRead, IntentCheck
<1>3. ASSUME NEW w \in Workers, Lookup(w) \/ ReadHold(w) \/ CheckHold(w) \/ Verify(w)
                                  \/ ConvertHold(w) \/ RedeemPromo(w) \/ RecordSale(w)
      PROVE  UNCHANGED <<orders, ents, ledger, credited>>
  BY <1>3 DEF Lookup, ReadHold, CheckHold, Verify, ConvertHold, RedeemPromo, RecordSale
<1>4. ASSUME NEW w \in Workers, SaveOrder(w)
      PROVE  /\ UNCHANGED <<ents, ledger, credited>>
             /\ \A p \in Payments : p # req[w].pay => orders'[p] = orders[p]
  BY <1>4 DEF SaveOrder
<1>5. ASSUME NEW w \in Workers, IssueSeat(w)
      PROVE  /\ UNCHANGED <<orders, ledger, credited>>
             /\ \A s \in Seats : s # <<req[w].pay, req[w].n>> => ents'[s] = ents[s]
  BY <1>5 DEF IssueSeat
<1>6. ASSUME NEW w \in Workers, RecordLedger(w)
      PROVE  /\ UNCHANGED <<orders, ents, credited>>
             /\ ledger' \subseteq ledger \cup {req[w].pay}
  BY <1>6 DEF RecordLedger
<1>7. ASSUME NEW w \in Workers, RecordCommission(w)
      PROVE  /\ UNCHANGED <<orders, ents, ledger>>
             /\ \A p \in Payments : credited'[p] = IF p = req[w].pay THEN credited[p] + 1
                                                   ELSE credited[p]
  BY <1>7 DEF RecordCommission
<1>8. ASSUME Environment
      PROVE  /\ UNCHANGED <<ledger, credited>>
             /\ \A p \in Payments : orders[p] = "none" => orders'[p] = "none"
             /\ \A s \in Seats : ents[s] = "none" => ents'[s] = "none"
  BY <1>8 DEF Environment, Capture, LockForRefund, RestoreOrder, Expire, ClaimAdmission,
              SweepQuery, SweepCommit
<1>9. CASE UNCHANGED vars
  BY <1>9 DEF vars
<1>10. CASE \E w \in Workers : Begin(w) \/ Crash(w) \/ CreateHoldStep(w) \/ IntentStep(w)
               \/ Lookup(w) \/ ReadHold(w) \/ CheckHold(w) \/ Verify(w)
               \/ ConvertHold(w) \/ RedeemPromo(w) \/ RecordSale(w)
  BY <1>1, <1>2, <1>3, <1>10
<1>11. CASE \E w \in Workers : SaveOrder(w)
  BY <1>4, <1>11
<1>12. CASE \E w \in Workers : IssueSeat(w)
  BY <1>5, <1>12
<1>13. CASE \E w \in Workers : RecordLedger(w)
  BY <1>6, <1>13
<1>14. CASE \E w \in Workers : RecordCommission(w)
  BY <1>7, <1>14
<1> QED
  BY <1>8, <1>9, <1>10, <1>11, <1>12, <1>13, <1>14 DEF Next, Step, ConfirmStep

LEMMA FlowStep == TypeOK /\ FlowInv /\ [Next]_vars => FlowInv'
<1> SUFFICES ASSUME TypeOK, FlowInv, [Next]_vars PROVE FlowInv'
  OBVIOUS
<1>w. ASSUME NEW w \in Workers, req[w].pc \in {"save"} \cup AfterSave
      PROVE  CarriesThrough(w) /\ req[w].pay \in Payments
  BY <1>w DEF FlowInv, TypeOK, RequestsOK, AfterSave, AfterRedeem, AfterIssue, AfterLedger,
              PayPCs
<1> USE DEF AfterSave, AfterRedeem, AfterIssue, AfterLedger, At
<1>s. \A p \in Payments : SeatsOf(p) \subseteq Seats
  BY DEF Seats
<1>1. TicketsFollowMoney'
  <2>1. ASSUME NEW p \in Payments, orders'[p] # "none" PROVE captured'[p] = "captured"
    <3>1. CASE orders[p] # "none"
      BY <3>1, RowsStay DEF FlowInv, TicketsFollowMoney
    <3>2. CASE orders[p] = "none"
      <4>1. PICK w \in Workers : SaveOrder(w) /\ req[w].pay = p
        BY <2>1, <3>2, NewRows
      <4>2. req[w].pc = "save"
        BY <4>1 DEF SaveOrder
      <4>3. captured[p] = "captured"
        BY <4>1, <4>2, <1>w DEF CarriesThrough
      <4> QED BY <4>3, RowsStay
    <3> QED BY <3>1, <3>2
  <2>2. ASSUME NEW p \in Payments, NEW s \in SeatsOf(p), ents'[s] # "none"
        PROVE  orders'[p] # "none"
    <3>1. CASE ents[s] # "none"
      BY <3>1, RowsStay DEF FlowInv, TicketsFollowMoney
    <3>2. CASE ents[s] = "none"
      <4>1. PICK w \in Workers : IssueSeat(w) /\ s = <<req[w].pay, req[w].n>>
        BY <1>s, <2>2, <3>2, NewRows
      <4>2. req[w].pc = "issue" /\ req[w].pay = p
        BY <4>1 DEF IssueSeat, SeatsOf
      <4>3. orders[p] # "none"
        BY <4>2, <1>w DEF CarriesThrough
      <4> QED BY <4>3, RowsStay
    <3> QED BY <3>1, <3>2
  <2>3. ASSUME NEW p \in ledger' PROVE orders'[p] # "none"
    <3>1. CASE p \in ledger
      BY <3>1, RowsStay DEF FlowInv, TicketsFollowMoney, TypeOK
    <3>2. CASE p \notin ledger
      <4>1. PICK w \in Workers : RecordLedger(w) /\ req[w].pay = p
        BY <3>2, NewRows
      <4>2. req[w].pc = "ledger"
        BY <4>1 DEF RecordLedger
      <4>3. p \in Payments /\ orders[p] # "none"
        BY <4>1, <4>2, <1>w DEF CarriesThrough
      <4> QED BY <4>3, RowsStay
    <3> QED BY <3>1, <3>2
  <2> QED BY <2>1, <2>2, <2>3 DEF TicketsFollowMoney, SeatsOf
<1>2. SettledOrderIsComplete'
  <2>1. ASSUME NEW p \in ledger' PROVE p \in redeemed' /\ Issued(p)'
    <3>1. p \in Payments /\ p \in redeemed /\ Issued(p)
      <4>1. CASE p \in ledger
        BY <4>1 DEF FlowInv, SettledOrderIsComplete, TypeOK, Issued
      <4>2. CASE p \notin ledger
        <5>1. PICK w \in Workers : RecordLedger(w) /\ req[w].pay = p
          BY <4>2, NewRows
        <5>2. req[w].pc = "ledger"
          BY <5>1 DEF RecordLedger
        <5> QED BY <5>1, <5>2, <1>w DEF CarriesThrough
      <4> QED BY <4>1, <4>2
    <3> QED BY <3>1, <1>s, RowsStay DEF Issued
  <2>2. ASSUME NEW p \in Payments, credited'[p] > 0
        PROVE  p \in ledger' \cap attributed'
    <3>1. CASE credited[p] > 0
      BY <3>1, RowsStay DEF FlowInv, SettledOrderIsComplete
    <3>2. CASE ~(credited[p] > 0)
      <4>1. PICK w \in Workers : RecordCommission(w) /\ req[w].pay = p
        BY <2>2, <3>2, NewRows
      <4>2. req[w].pc = "credit"
        BY <4>1 DEF RecordCommission
      <4>3. p \in ledger /\ p \in attributed
        BY <4>1, <4>2, <1>w DEF CarriesThrough
      <4> QED BY <4>3, RowsStay
    <3> QED BY <3>1, <3>2
  <2> QED BY <2>1, <2>2 DEF SettledOrderIsComplete, Issued
<1>3. \A w \in Workers : CarriesThrough(w)'
  BY CarriesStep
<1> QED BY <1>1, <1>2, <1>3 DEF FlowInv

THEOREM FlowCorrect == Spec => []FlowInv
<1> QED BY FlowInit, FlowStep, TypeCorrect, PTL DEF Spec

\* No order without captured money, no ticket and no ledger entry without an
\* order: for any number of holds, payments, racing confirmations and crashes,
\* under both storage drivers.
THEOREM TicketsFollowMoneyCorrect == Spec => []TicketsFollowMoney
<1>1. FlowInv => TicketsFollowMoney
  BY DEF FlowInv
<1> QED BY <1>1, FlowCorrect, PTL

\* Settlement covers complete orders only, under both storage drivers.
THEOREM SettlementCorrect == Spec => []SettledOrderIsComplete
<1>1. FlowInv => SettledOrderIsComplete
  BY DEF FlowInv
<1> QED BY <1>1, FlowCorrect, PTL
---------------------------------------------------------------------------
(* Confirmation over compare-and-set creates (the memory driver).          *)

\* A request that carries a payment past its order after a step carried it
\* before, or has just won the order's create.
LEMMA CarriersOnlyFromSave ==
  ASSUME TypeOK, [Next]_vars, Driver = "memory",
         NEW w \in Workers, req'[w].pc \in AfterSave
  PROVE  /\ req'[w].pay = req[w].pay
         /\ \/ req[w].pc \in AfterSave
            \/ SaveOrder(w) /\ req[w].pc = "save" /\ orders[req[w].pay] = "none"
<1> USE DEF AfterSave, AfterRedeem, AfterIssue, AfterLedger, At
<1>1. CASE Begin(w) \/ Step(w) \/ Crash(w)
  <2>1. CASE SaveOrder(w)
    <3>1. req[w].pc = "save" /\ req'[w].pay = req[w].pay
      BY <1>1, <2>1, Moves DEF SaveOrder
    <3>2. ASSUME orders[req[w].pay] # "none" PROVE FALSE
      <4>1. Finish(w)
        BY <2>1, <3>2 DEF SaveOrder, CreateLoses
      <4>2. req'[w].pc = "idle"
        BY <4>1 DEF Finish, Idle, TypeOK, RequestsOK
      <4> QED BY <4>2
    <3> QED BY <2>1, <3>1, <3>2
  <2>2. CASE ~SaveOrder(w)
    BY <1>1, <2>2, Moves DEF Verify, ConvertHold, RedeemPromo, IssueSeat, RecordLedger, RecordSale
  <2> QED BY <2>1, <2>2
<1>2. CASE req'[w] = req[w]
  BY <1>2
<1>3. ASSUME Environment \/ UNCHANGED vars PROVE req' = req
  BY <1>3 DEF Environment, Capture, LockForRefund, RestoreOrder, Expire, ClaimAdmission,
              SweepQuery, SweepCommit, vars
<1> QED BY <1>1, <1>2, <1>3, OthersStay DEF Next

\* What one step does to a ticket and to the count of people it let in.
LEMMA DoorMoves ==
  ASSUME TypeOK, [Next]_vars, Driver = "memory", NEW s \in Seats
  PROVE  \/ ents'[s] = ents[s] /\ admitted'[s] = admitted[s]
         \/ ents[s] = "none" /\ ents'[s] = "valid" /\ admitted'[s] = admitted[s]
         \/ ents[s] = "valid" /\ ents'[s] = "redeemed" /\ admitted'[s] = admitted[s] + 1
<1> USE DEF TypeOK, door
<1>1. ASSUME NEW w \in Workers, IssueSeat(w)
      PROVE  /\ admitted' = admitted
             /\ ents'[s] = ents[s] \/ (ents[s] = "none" /\ ents'[s] = "valid")
  BY <1>1 DEF IssueSeat, CreateLoses
<1>2. ASSUME NEW w \in Workers, Begin(w) \/ Crash(w) \/ CreateHoldStep(w) \/ IntentStep(w)
      PROVE  UNCHANGED <<ents, admitted>>
  BY <1>2 DEF Begin, BeginHold, BeginIntent, BeginConfirm, Crash, CreateHoldStep,
              HoldLookup, ReadSold, ReadHolds, CapHeld, CapBought, CreateHold,
              IntentStep, IntentRead, IntentCheck
<1>3. ASSUME NEW w \in Workers, ConfirmStep(w), ~IssueSeat(w)
      PROVE  UNCHANGED <<ents, admitted>>
  BY <1>3 DEF ConfirmStep, Lookup, ReadHold, CheckHold, Verify, SaveOrder, ConvertHold,
              RedeemPromo, RecordLedger, RecordSale, RecordCommission
<1>4. ASSUME NEW t \in Seats, ClaimAdmission(t)
      PROVE  IF s = t THEN /\ ents[s] = "valid" /\ ents'[s] = "redeemed"
                           /\ admitted'[s] = admitted[s] + 1
             ELSE ents'[s] = ents[s] /\ admitted'[s] = admitted[s]
  BY <1>4 DEF ClaimAdmission
<1>5. ASSUME Environment, \A t \in Seats : ~ClaimAdmission(t)
      PROVE  UNCHANGED <<ents, admitted>>
  BY <1>5 DEF Environment, Capture, LockForRefund, RestoreOrder, Expire, SweepQuery,
              SweepCommit
<1>6. CASE UNCHANGED vars
  BY <1>6 DEF vars
<1>7. CASE Environment
  BY <1>4, <1>5, <1>7
<1>8. CASE \E w \in Workers : Begin(w) \/ Step(w) \/ Crash(w)
  BY <1>1, <1>2, <1>3, <1>8 DEF Step
<1> QED BY <1>6, <1>7, <1>8 DEF Next

LEMMA CasStep == TypeOK /\ FlowInv /\ CasInv /\ [Next]_vars => CasInv'
<1> SUFFICES ASSUME TypeOK, FlowInv, OneCarrier, Driver = "memory", [Next]_vars
             PROVE  OneCarrier'
  BY DEF CasInv
<1> USE DEF At
<1>w. ASSUME NEW w \in Workers, req[w].pc \in AfterSave
      PROVE  /\ req[w].pay \in Payments /\ orders[req[w].pay] # "none"
             /\ credited[req[w].pay] = 0
  <2>1. req[w].pay \in Payments
    BY <1>w DEF TypeOK, RequestsOK, AfterSave, AfterRedeem, AfterIssue, AfterLedger, PayPCs
  <2>2. orders[req[w].pay] # "none"
    BY <1>w DEF FlowInv, CarriesThrough
  <2>3. credited[req[w].pay] \in Nat
    BY <2>1 DEF TypeOK
  <2> QED BY <1>w, <2>1, <2>2, <2>3 DEF OneCarrier
<1>c. \A p \in Payments : credited[p] > 0 => orders[p] # "none"
  BY DEF FlowInv, TicketsFollowMoney, SettledOrderIsComplete
<1>k. ASSUME NEW w \in Workers, req'[w].pc \in AfterSave
      PROVE  /\ req'[w].pay = req[w].pay
             /\ \/ req[w].pc \in AfterSave
                \/ SaveOrder(w) /\ req[w].pc = "save" /\ orders[req[w].pay] = "none"
  BY <1>k, CarriersOnlyFromSave
<1>n. "save" \notin AfterSave /\ "idle" \notin AfterSave /\ "credit" \in AfterSave
  BY DEF AfterSave, AfterRedeem, AfterIssue, AfterLedger
<1>1. ASSUME NEW v \in Workers, NEW w \in Workers,
             req'[v].pc \in AfterSave, req'[w].pc \in AfterSave,
             req'[v].pay = req'[w].pay
      PROVE  v = w
  <2>1. CASE req[v].pc \in AfterSave /\ req[w].pc \in AfterSave
    BY <1>1, <1>k, <2>1 DEF OneCarrier
  <2>2. ASSUME NEW x \in Workers, NEW y \in Workers, SaveOrder(x), req[y].pc = "save", x # y,
               req'[y].pc \in AfterSave
        PROVE  FALSE
    <3>1. req'[y] = req[y]
      BY <2>2, OthersStay DEF Step, ConfirmStep
    <3> QED BY <1>n, <2>2, <3>1
  <2> QED BY <1>1, <1>k, <1>w, <2>1, <2>2
<1>2. ASSUME NEW p \in Payments, credited'[p] > 0
      PROVE  /\ credited'[p] = 1
             /\ \A w \in Workers : req'[w].pc \in AfterSave => req'[w].pay # p
  <2>0. credited[p] \in Nat
    BY DEF TypeOK
  <2>1. CASE credited'[p] = credited[p]
    BY <1>2, <1>c, <1>k, <2>1 DEF OneCarrier
  <2>2. ASSUME NEW w \in Workers, RecordCommission(w), req[w].pay = p,
               credited'[p] = credited[p] + 1
        PROVE  /\ credited'[p] = 1
               /\ \A v \in Workers : req'[v].pc \in AfterSave => req'[v].pay # p
    <3>1. req[w].pc \in AfterSave
      BY <1>n, <2>2 DEF RecordCommission
    <3>2. credited'[p] = 1
      BY <1>w, <2>2, <3>1
    <3>3. req'[w].pc = "idle"
      BY <2>2 DEF RecordCommission, Finish, Idle, TypeOK, RequestsOK
    <3>4. ASSUME NEW v \in Workers, req'[v].pc \in AfterSave, req'[v].pay = p
          PROVE  FALSE
      <4>1. v # w
        BY <1>n, <3>3, <3>4
      <4>2. req'[v] = req[v]
        BY <2>2, <4>1, OthersStay DEF Step, ConfirmStep
      <4> QED BY <2>2, <3>1, <3>4, <4>1, <4>2 DEF OneCarrier
    <3> QED BY <3>2, <3>4
  <2> QED BY <2>1, <2>2, NewRows
<1>3. ASSUME NEW s \in Seats
      PROVE  admitted'[s] = IF ents'[s] = "redeemed" THEN 1 ELSE 0
  BY DoorMoves DEF OneCarrier
<1> QED BY <1>1, <1>2, <1>3 DEF OneCarrier

\* With compare-and-set creates, one request carries each payment past its
\* order, however many webhooks and redirects deliver it.
THEOREM CasCorrect == Spec => []CasInv
<1>1. Init => CasInv
  BY DEF Init, CasInv, OneCarrier, Idle, AfterSave, AfterRedeem, AfterIssue, AfterLedger
<1> QED BY <1>1, CasStep, FlowCorrect, TypeCorrect, PTL DEF Spec

\* A ticket admits once: no redelivery rewrites a redeemed entitlement.
THEOREM SeatAdmittedOnceCorrect ==
  ASSUME Driver = "memory" PROVE Spec => []SeatAdmittedOnce
<1>1. CasInv => SeatAdmittedOnce
  BY DEF CasInv, OneCarrier, SeatAdmittedOnce
<1> QED BY <1>1, CasCorrect, PTL

\* The leaderboard counts a sale once, although its increment is not keyed by
\* the order.
THEOREM CommissionCountedOnceCorrect ==
  ASSUME Driver = "memory" PROVE Spec => []CommissionCountedOnce
<1>1. TypeOK /\ CasInv => CommissionCountedOnce
  BY DEF CasInv, OneCarrier, CommissionCountedOnce, TypeOK
<1> QED BY <1>1, CasCorrect, TypeCorrect, PTL

---------------------------------------------------------------------------
(* Confirmation implements Fulfilment.                                     *)

\* The payments that have become an order.
Ordered == {p \in Payments : orders[p] # "none"}

\* Each step of checkout is one step of the promise, or none.
LEMMA PromiseStep ==
  ASSUME TypeOK, FlowInv, OneCarrier, Driver = "memory", [Next]_vars
  PROVE  [Promise!Next]_(Promise!vars)
<1> USE DEF TypeOK, money, settled, door, At
<1>0. /\ Promise!AllSeats = Seats
      /\ UNCHANGED <<Ordered, ents, credited>> => UNCHANGED Promise!vars
      /\ UNCHANGED <<orders, ents, credited>> => UNCHANGED Promise!vars
  BY DEF Promise!vars, Promise!AllSeats, Seats, Ordered
<1>1. ASSUME NEW w \in Workers, Begin(w) \/ Crash(w) \/ CreateHoldStep(w) \/ IntentStep(w)
      PROVE  UNCHANGED <<orders, ents, credited>>
  BY <1>1 DEF Begin, BeginHold, BeginIntent, BeginConfirm, Crash, CreateHoldStep,
              HoldLookup, ReadSold, ReadHolds, CapHeld, CapBought, CreateHold,
              IntentStep, IntentRead, IntentCheck
<1>2. ASSUME NEW w \in Workers, Lookup(w) \/ ReadHold(w) \/ CheckHold(w) \/ Verify(w)
                 \/ ConvertHold(w) \/ RedeemPromo(w) \/ RecordLedger(w) \/ RecordSale(w)
      PROVE  UNCHANGED <<orders, ents, credited>>
  BY <1>2 DEF Lookup, ReadHold, CheckHold, Verify, ConvertHold, RedeemPromo,
              RecordLedger, RecordSale
<1>w. ASSUME NEW w \in Workers, req[w].pc \in {"save"} \cup AfterSave
      PROVE  CarriesThrough(w) /\ req[w].pay \in Payments
  BY <1>w DEF FlowInv, RequestsOK, AfterSave, AfterRedeem, AfterIssue, AfterLedger, PayPCs
<1>n. {"save", "issue", "credit"} \subseteq {"save"} \cup AfterSave
  BY DEF AfterSave, AfterRedeem, AfterIssue, AfterLedger
<1>3. ASSUME NEW w \in Workers, SaveOrder(w)
      PROVE  [Promise!Next]_(Promise!vars)
  <2>0. PICK p \in Payments : p = req[w].pay
    BY <1>3, <1>w, <1>n DEF SaveOrder
  <2>1. CASE orders[p] # "none"
    <3>1. UNCHANGED <<orders, ents, credited>>
      BY <1>3, <2>0, <2>1 DEF SaveOrder, CreateLoses
    <3> QED BY <1>0, <3>1
  <2>2. CASE orders[p] = "none"
    <3>1. orders' = [orders EXCEPT ![p] = "paid"] /\ UNCHANGED <<ents, credited>>
      BY <1>3, <2>0, <2>2 DEF SaveOrder, CreateLoses
    <3>2. p \notin Ordered /\ Ordered' = Ordered \cup {p}
      BY <2>0, <2>2, <3>1 DEF Ordered
    <3>3. Promise!PlaceOrder(p)
      BY <3>1, <3>2 DEF Promise!PlaceOrder, Ordered
    <3> QED BY <2>0, <3>3 DEF Promise!Next
  <2> QED BY <2>1, <2>2
<1>4. ASSUME NEW w \in Workers, IssueSeat(w)
      PROVE  [Promise!Next]_(Promise!vars)
  <2> DEFINE p == req[w].pay
             s == <<p, req[w].n>>
  <2>0. /\ req[w].pc = "issue" /\ p \in Payments /\ orders[p] # "none"
        /\ s \in SeatsOf(p)
    <3>1. req[w].pc = "issue"
      BY <1>4 DEF IssueSeat
    <3>2. CarriesThrough(w) /\ p \in Payments
      BY <3>1, <1>w, <1>n
    <3>3. orders[p] # "none" /\ req[w].n \in 1..Qty[HoldOf[p]]
      BY <3>1, <3>2 DEF CarriesThrough, AfterSave, AfterRedeem, AfterIssue, AfterLedger
    <3> QED BY <3>1, <3>2, <3>3 DEF SeatsOf
  <2>1. CASE ents[s] # "none"
    <3>1. UNCHANGED <<orders, ents, credited>>
      BY <1>4, <2>1 DEF IssueSeat, CreateLoses
    <3> QED BY <1>0, <3>1
  <2>2. CASE ents[s] = "none"
    <3>1. ents' = [ents EXCEPT ![s] = "valid"] /\ UNCHANGED <<orders, credited>>
      BY <1>4, <2>2 DEF IssueSeat, CreateLoses
    <3>2. Promise!IssueTicket(p)
      BY <2>0, <2>2, <3>1 DEF Promise!IssueTicket
    <3> QED BY <2>0, <3>2 DEF Promise!Next
  <2> QED BY <2>1, <2>2
<1>5. ASSUME NEW w \in Workers, RecordCommission(w)
      PROVE  [Promise!Next]_(Promise!vars)
  <2> DEFINE p == req[w].pay
  <2>1. /\ req[w].pc = "credit" /\ UNCHANGED <<orders, ents>>
        /\ credited' = [credited EXCEPT ![p] = @ + 1]
    BY <1>5 DEF RecordCommission
  <2>2. p \in Payments /\ Issued(p)
    <3>1. CarriesThrough(w) /\ p \in Payments
      BY <2>1, <1>w, <1>n
    <3> QED BY <2>1, <3>1 DEF CarriesThrough, AfterIssue, AfterLedger
  <2>3. credited[p] = 0
    <3>1. req[w].pc \in AfterSave
      BY <2>1 DEF AfterSave, AfterRedeem, AfterIssue, AfterLedger
    <3>2. ~(credited[p] > 0)
      BY <2>2, <3>1 DEF OneCarrier
    <3> QED BY <2>2, <3>2
  <2>4. credited' = [credited EXCEPT ![p] = 1]
    BY <2>1, <2>2, <2>3
  <2>5. Promise!CountCommission(p)
    BY <2>1, <2>2, <2>3, <2>4 DEF Promise!CountCommission, Issued
  <2> QED BY <2>2, <2>5 DEF Promise!Next
<1>6. ASSUME NEW s \in Seats, ClaimAdmission(s)
      PROVE  [Promise!Next]_(Promise!vars)
  <2>1. Promise!Admit(s)
    BY <1>6 DEF ClaimAdmission, Promise!Admit
  <2> QED BY <1>0, <2>1 DEF Promise!Next
<1>7. ASSUME Environment, \A s \in Seats : ~ClaimAdmission(s)
      PROVE  UNCHANGED <<Ordered, ents, credited>>
  BY <1>7 DEF Environment, Capture, LockForRefund, RestoreOrder, Expire, SweepQuery,
              SweepCommit, Ordered
<1>8. CASE UNCHANGED vars
  BY <1>0, <1>8 DEF vars
<1>9. CASE \E w \in Workers : Begin(w) \/ Step(w) \/ Crash(w)
  BY <1>0, <1>1, <1>2, <1>3, <1>4, <1>5, <1>9 DEF Step, ConfirmStep
<1>10. CASE Environment
  BY <1>0, <1>6, <1>7, <1>10
<1> QED BY <1>8, <1>9, <1>10 DEF Next

\* Whatever races to confirm a payment, it becomes an order once, its tickets
\* are issued and admit once, and its commission is counted once.
THEOREM FulfilmentCorrect ==
  ASSUME Driver = "memory" PROVE Spec => ImplementsFulfilment
<1>1. Init => Promise!Init
  BY DEF Init, Promise!Init, Promise!AllSeats, Seats
<1>2. TypeOK /\ FlowInv /\ CasInv /\ [Next]_vars => [Promise!Next]_(Promise!vars)
  BY PromiseStep DEF CasInv
<1> QED
  BY <1>1, <1>2, TypeCorrect, FlowCorrect, CasCorrect, PTL
     DEF Spec, ImplementsFulfilment, Promise!Spec
---------------------------------------------------------------------------
(* Holds, whatever the driver.                                             *)

\* A request that is making a hold after a step was making it before, or has
\* just begun with a key no other request names.
LEMMA HoldMoves ==
  ASSUME TypeOK, NEW w \in Workers, Begin(w) \/ Step(w) \/ Crash(w),
         req'[w].pc \in HoldPCs
  PROVE  \/ /\ req[w].pc \in HoldPCs /\ req'[w].key = req[w].key
            /\ req'[w].pc # "holdLookup"
            /\ \/ req[w].pc # "holdLookup"
               \/ holds[req[w].key].status = "absent"
            /\ UNCHANGED <<holds, expired>>
         \/ /\ req'[w].pc = "holdLookup"
            /\ \A v \in Workers : req[v].key # req'[w].key
            /\ UNCHANGED <<holds, expired>>
<1> USE DEF TypeOK, RequestsOK, Request, At, Goto, Finish, Idle, PayPCs, HoldPCs
<1>1. CASE Begin(w)
  <2>1. ASSUME NEW k \in Keys, BeginHold(w, k)
        PROVE  /\ req'[w].pc = "holdLookup" /\ req'[w].key = k
               /\ \A v \in Workers : req[v].key # k
               /\ UNCHANGED <<holds, expired>>
    BY <2>1 DEF BeginHold
  <2>2. ASSUME NEW p \in Payments, BeginIntent(w, p) PROVE req'[w].pc = "intentRead"
    BY <2>2 DEF BeginIntent
  <2>3. ASSUME NEW p \in Payments, BeginConfirm(w, p) PROVE req'[w].pc = "lookup"
    BY <2>3 DEF BeginConfirm
  <2> QED BY <1>1, <2>1, <2>2, <2>3 DEF Begin
<1>2. CASE Crash(w)
  BY <1>2 DEF Crash
<1>3. CASE CreateHoldStep(w)
  BY <1>3 DEF CreateHoldStep, HoldLookup, ReadSold, ReadHolds, CapHeld, CapBought,
              CreateHold
<1>4. CASE IntentStep(w)
  BY <1>4 DEF IntentStep, IntentRead, IntentCheck
<1>5. CASE Lookup(w) \/ ReadHold(w) \/ CheckHold(w) \/ Verify(w) \/ SaveOrder(w)
             \/ ConvertHold(w)
  BY <1>5 DEF Lookup, ReadHold, CheckHold, Verify, SaveOrder, ConvertHold
<1>6. CASE RedeemPromo(w) \/ IssueSeat(w) \/ RecordLedger(w) \/ RecordSale(w)
             \/ RecordCommission(w)
  BY <1>6 DEF RedeemPromo, IssueSeat, RecordLedger, RecordSale, RecordCommission
<1> QED BY <1>1, <1>2, <1>3, <1>4, <1>5, <1>6 DEF Step, ConfirmStep

\* What a step does to one hold: nothing but let it expire, make it, release
\* it when it has expired, or convert it when its order exists.
LEMMA HoldRows ==
  ASSUME TypeOK, FlowInv, HoldsInv, [Next]_vars, NEW k \in Keys
  PROVE  \/ holds'[k] = holds[k] /\ expired'[k] = expired[k]
         \/ holds'[k] = holds[k] /\ expired'[k]
         \/ \E w \in Workers : /\ CreateHold(w) /\ req[w].key = k
                               /\ holds[k].status = "absent"
                               /\ holds'[k].status = "active"
         \/ /\ holds[k].status # "absent" /\ holds'[k].status # "absent"
            /\ expired[k] /\ expired'[k]
         \/ /\ holds[k].status # "absent" /\ holds'[k].status # "absent"
            /\ expired'[k] = expired[k]
            /\ \E p \in Payments : HoldOf[p] = k /\ orders[p] # "none"
<1> USE DEF TypeOK
<1>1. ASSUME NEW w \in Workers, Begin(w) \/ Crash(w)
      PROVE  UNCHANGED <<holds, expired>>
  BY <1>1 DEF Begin, BeginHold, BeginIntent, BeginConfirm, Crash
<1>2. ASSUME NEW w \in Workers, CreateHoldStep(w), ~CreateHold(w)
      PROVE  UNCHANGED <<holds, expired>>
  BY <1>2 DEF CreateHoldStep, HoldLookup, ReadSold, ReadHolds, CapHeld, CapBought
<1>3. ASSUME NEW w \in Workers, CreateHold(w)
      PROVE  IF req[w].key = k
             THEN holds[k].status = "absent" /\ holds'[k].status = "active"
             ELSE holds'[k] = holds[k] /\ expired'[k] = expired[k]
  <2>1. req[w].pc \in HoldPCs \ {"holdLookup"} /\ req[w].key \in Keys
    BY <1>3 DEF CreateHold, At, RequestsOK, HoldPCs
  <2>2. holds[req[w].key].status = "absent"
    BY <2>1 DEF HoldsInv
  <2> QED BY <1>3, <2>1, <2>2 DEF CreateHold, ActiveHold
<1>4. ASSUME NEW w \in Workers, IntentCheck(w) \/ CheckHold(w)
      PROVE  /\ expired' = expired
             /\ \/ holds'[k] = holds[k]
                \/ /\ holds[k].status # "absent" /\ holds'[k].status # "absent"
                   /\ expired[k]
  <2>1. /\ expired' = expired
        /\ \/ holds' = holds
           \/ Release(HoldOf[req[w].pay]) /\ expired[HoldOf[req[w].pay]]
    BY <1>4 DEF IntentCheck, CheckHold
  <2>2. PICK j : /\ expired' = expired
                 /\ holds' = holds \/ (Release(j) /\ expired[j])
    BY <2>1
  <2>3. CASE k = j /\ holds[k].status # "absent" /\ Release(j)
    <3>1. holds[k] \in Hold /\ holds'[k] = [holds[k] EXCEPT !.status = "released"]
      BY <2>3 DEF Release
    <3>2. holds'[k].status = "released"
      BY <3>1 DEF Hold
    <3> QED BY <2>2, <2>3, <3>2 DEF Release
  <2>4. CASE holds' = holds
    BY <2>2, <2>4
  <2>5. CASE Release(j) /\ (k # j \/ holds[k].status = "absent")
    BY <2>2, <2>5 DEF Release
  <2> QED BY <2>2, <2>3, <2>4, <2>5
<1>5. ASSUME NEW w \in Workers, ConvertHold(w)
      PROVE  /\ expired' = expired
             /\ \/ holds'[k] = holds[k]
                \/ /\ holds[k].status # "absent" /\ holds'[k].status # "absent"
                   /\ \E p \in Payments : HoldOf[p] = k /\ orders[p] # "none"
  <2>1. /\ req[w].pc = "convert" /\ req[w].pay \in Payments
        /\ orders[req[w].pay] # "none"
    BY <1>5 DEF ConvertHold, At, RequestsOK, PayPCs, FlowInv, CarriesThrough, AfterSave
  <2> QED BY <1>5, <2>1 DEF ConvertHold, ConvertToOrder
<1>6. ASSUME NEW w \in Workers, ConfirmStep(w) \/ IntentStep(w),
             ~IntentCheck(w), ~CheckHold(w), ~ConvertHold(w)
      PROVE  UNCHANGED <<holds, expired>>
  BY <1>6 DEF ConfirmStep, IntentStep, IntentRead, Lookup, ReadHold, Verify, SaveOrder,
              RedeemPromo, IssueSeat, RecordLedger, RecordSale, RecordCommission
<1>7. ASSUME SweepCommit
      PROVE  /\ expired' = expired
             /\ \/ holds'[k] = holds[k]
                \/ /\ holds[k].status # "absent" /\ holds'[k].status # "absent"
                   /\ expired[k]
  BY <1>7 DEF SweepCommit, HoldsInv
<1>8. ASSUME Environment, ~SweepCommit
      PROVE  holds' = holds /\ (expired'[k] = expired[k] \/ expired'[k])
  BY <1>8 DEF Environment, Capture, LockForRefund, RestoreOrder, Expire, ClaimAdmission,
              SweepQuery
<1>9. CASE UNCHANGED vars
  BY <1>9 DEF vars
<1>10. CASE Environment
  BY <1>7, <1>8, <1>10
<1>11. CASE \E w \in Workers : Begin(w) \/ Step(w) \/ Crash(w)
  BY <1>1, <1>2, <1>3, <1>4, <1>5, <1>6, <1>11 DEF Step
<1> QED BY <1>9, <1>10, <1>11 DEF Next

LEMMA HoldsStep == TypeOK /\ FlowInv /\ HoldsInv /\ [Next]_vars => HoldsInv'
<1> SUFFICES ASSUME TypeOK, FlowInv, HoldsInv, [Next]_vars PROVE HoldsInv'
  OBVIOUS
<1>s. \A k \in Keys : holds[k].status # "absent" => holds'[k].status # "absent"
  BY HoldRows
<1>w. \/ \E w \in Workers : Begin(w) \/ Step(w) \/ Crash(w)
      \/ req' = req
  BY DEF Next, Environment, Capture, LockForRefund, RestoreOrder, Expire, ClaimAdmission,
         SweepQuery, SweepCommit, vars
<1>k. ASSUME NEW w \in Workers, req[w].pc \in HoldPCs PROVE req[w].key \in Keys
  BY <1>k DEF TypeOK, RequestsOK
<1>a. ASSUME NEW w \in Workers, req'[w].pc \in HoldPCs
      PROVE  \/ /\ req[w].pc \in HoldPCs /\ req'[w].key = req[w].key
                /\ req'[w].pc = req[w].pc \/ req'[w].pc # "holdLookup"
             \/ /\ req'[w].pc = "holdLookup"
                /\ \A v \in Workers : req[v].key # req'[w].key
  BY <1>w, <1>a, HoldMoves, OthersStay
<1>1. ASSUME NEW v \in Workers, NEW w \in Workers, v # w,
             req'[v].pc \in HoldPCs, req'[w].pc \in HoldPCs, req'[v].key = req'[w].key
      PROVE  FALSE
  <2>1. CASE req' = req
    BY <1>1, <2>1 DEF HoldsInv
  <2>2. ASSUME NEW x \in Workers, NEW y \in Workers, x # y,
               Begin(x) \/ Step(x) \/ Crash(x),
               req'[x].pc \in HoldPCs, req'[y].pc \in HoldPCs, req'[x].key = req'[y].key
        PROVE  FALSE
    <3>1. req'[y] = req[y]
      BY <2>2, OthersStay
    <3>2. \/ req[x].pc \in HoldPCs /\ req'[x].key = req[x].key
          \/ \A z \in Workers : req[z].key # req'[x].key
      BY <2>2, HoldMoves
    <3> QED BY <2>2, <3>1, <3>2 DEF HoldsInv
  <2>3. CASE \E x \in Workers : Begin(x) \/ Step(x) \/ Crash(x)
    <3>1. PICK x \in Workers : Begin(x) \/ Step(x) \/ Crash(x)
      BY <2>3
    <3>2. CASE x = v
      BY <1>1, <2>2, <3>1, <3>2
    <3>3. CASE x = w
      BY <1>1, <2>2, <3>1, <3>3
    <3>4. CASE x # v /\ x # w
      BY <1>1, <3>1, <3>4, OthersStay DEF HoldsInv
    <3> QED BY <3>2, <3>3, <3>4
  <2> QED BY <1>w, <2>1, <2>3
<1>2. ASSUME NEW w \in Workers, req'[w].pc \in HoldPCs \ {"holdLookup"}
      PROVE  holds'[req'[w].key].status = "absent"
  <2> DEFINE k == req[w].key
  <2>1. /\ req[w].pc \in HoldPCs /\ req'[w].key = k /\ k \in Keys
        /\ holds[k].status = "absent"
    <3>1. CASE req'[w] = req[w]
      BY <1>2, <1>k, <3>1 DEF HoldsInv
    <3>2. CASE Begin(w) \/ Step(w) \/ Crash(w)
      BY <1>2, <1>k, <3>2, HoldMoves DEF HoldsInv
    <3> QED BY <1>w, <3>1, <3>2, OthersStay
  <2>2. ASSUME NEW v \in Workers, CreateHold(v), req[v].key = k PROVE FALSE
    <3>1. req[v].pc = "createHold" /\ req'[v] = Idle
      BY <2>2 DEF CreateHold, At, Finish, TypeOK, RequestsOK
    <3>2. v = w
      BY <2>1, <2>2, <3>1 DEF HoldsInv, HoldPCs
    <3> QED BY <1>2, <3>1, <3>2 DEF Idle, HoldPCs
  <2>3. holds'[k] = holds[k]
    BY <2>1, <2>2, HoldRows
  <2> QED BY <2>1, <2>3
<1>3. ASSUME NEW k \in sweep' PROVE holds'[k].status # "absent" /\ expired'[k]
  <2>1. k \in Keys /\ holds[k].status # "absent" /\ expired[k]
    <3>1. CASE sweep' = sweep
      BY <1>3, <3>1 DEF HoldsInv, TypeOK
    <3>2. CASE SweepQuery
      BY <1>3, <3>2 DEF SweepQuery
    <3>3. CASE SweepCommit
      BY <1>3, <3>3 DEF SweepCommit
    <3>4. sweep' = sweep \/ SweepQuery \/ SweepCommit
      <4>1. ASSUME NEW w \in Workers, Begin(w) \/ Crash(w) \/ CreateHoldStep(w)
                                        \/ IntentStep(w)
            PROVE  sweep' = sweep
        BY <4>1 DEF Begin, BeginHold, BeginIntent, BeginConfirm, Crash, CreateHoldStep,
                    HoldLookup, ReadSold, ReadHolds, CapHeld, CapBought, CreateHold,
                    IntentStep, IntentRead, IntentCheck
      <4>2. ASSUME NEW w \in Workers, ConfirmStep(w) PROVE sweep' = sweep
        BY <4>2 DEF ConfirmStep, Lookup, ReadHold, CheckHold, Verify, SaveOrder,
                    ConvertHold, RedeemPromo, IssueSeat, RecordLedger, RecordSale,
                    RecordCommission
      <4>3. ASSUME Environment PROVE sweep' = sweep \/ SweepQuery \/ SweepCommit
        BY <4>3 DEF Environment, Capture, LockForRefund, RestoreOrder, Expire,
                    ClaimAdmission
      <4> QED BY <4>1, <4>2, <4>3 DEF Next, Step, vars
    <3> QED BY <3>1, <3>2, <3>3, <3>4
  <2> QED BY <2>1, HoldRows
<1>4. ASSUME NEW k \in Keys, holds'[k].status # "absent", ~expired'[k]
      PROVE  \/ holds'[k].status = "active"
             \/ \E p \in Payments : HoldOf[p] = k /\ orders'[p] # "none"
  BY <1>4, HoldRows, RowsStay DEF HoldsInv, UnexpiredHoldIsSeen
<1> QED BY <1>1, <1>2, <1>3, <1>4 DEF HoldsInv, UnexpiredHoldIsSeen

LEMMA HoldsCorrect == Spec => []HoldsInv
<1>1. Init => HoldsInv
  BY DEF Init, HoldsInv, UnexpiredHoldIsSeen, Idle, NoHold, HoldPCs
<1> QED BY <1>1, HoldsStep, FlowCorrect, TypeCorrect, PTL DEF Spec

---------------------------------------------------------------------------
(* Sizes of sets of holds and of orders.                                   *)

Units(A) == UNION {UnitsOf(k) : k \in A}
Tickets(B) == UNION {SeatsOf(p) : p \in B}
Size(A) == Cardinality(Units(A))

\* No two of these payments were made for the same hold.
Apart(B) == \A p, q \in B : HoldOf[p] = HoldOf[q] => p = q
HoldsOf(B) == {HoldOf[p] : p \in B}

LEMMA UnitsFinite ==
  ASSUME NEW A \in SUBSET Keys PROVE IsFiniteSet(Units(A)) /\ Size(A) \in Nat
<1>1. IsFiniteSet(Keys \X (1..MaxLineQty))
  <2>1. IsFiniteSet(Keys) /\ 1 \in Int /\ MaxLineQty \in Int
    BY ShapeAssumption
  <2>2. IsFiniteSet(1..MaxLineQty)
    BY <2>1, FS_Interval
  <2> QED BY <2>1, <2>2, FS_Product
<1>2. Units(A) \subseteq Keys \X (1..MaxLineQty)
  BY ShapeAssumption DEF Units, UnitsOf
<1>3. IsFiniteSet(Units(A))
  BY <1>1, <1>2, FS_Subset
<1> QED BY <1>3, FS_CardinalityType DEF Size

\* Fewer holds, fewer units.
LEMMA SizeGrows ==
  ASSUME NEW A \in SUBSET Keys, NEW B \in SUBSET A PROVE Size(B) <= Size(A)
<1>1. Units(B) \subseteq Units(A)
  BY DEF Units
<1> QED BY <1>1, UnitsFinite, FS_Subset DEF Size

\* The units of two sets of holds: at most the sum, and the sum when they have
\* no hold in common.
LEMMA SizeAdds ==
  ASSUME NEW A \in SUBSET Keys, NEW B \in SUBSET Keys
  PROVE  /\ Size(A \cup B) <= Size(A) + Size(B)
         /\ A \cap B = {} => Size(A \cup B) = Size(A) + Size(B)
<1>1. Units(A \cup B) = Units(A) \cup Units(B)
  BY DEF Units
<1>2. IsFiniteSet(Units(A)) /\ IsFiniteSet(Units(B)) /\ Size(A) \in Nat /\ Size(B) \in Nat
  BY UnitsFinite
<1>3. Size(A \cup B) = Size(A) + Size(B) - Cardinality(Units(A) \cap Units(B))
  BY <1>1, <1>2, FS_Union DEF Size
<1>4. Units(A) \cap Units(B) \subseteq Units(A)
  OBVIOUS
<1>5. Cardinality(Units(A) \cap Units(B)) \in Nat
  BY <1>2, <1>4, FS_Subset, FS_CardinalityType
<1>6. ASSUME A \cap B = {} PROVE Units(A) \cap Units(B) = {}
  BY <1>6 DEF Units, UnitsOf
<1>7. A \cap B = {} => Cardinality(Units(A) \cap Units(B)) = 0
  BY <1>6, FS_EmptySet
<1> QED BY <1>2, <1>3, <1>5, <1>7

LEMMA SizeOfOne == ASSUME NEW k \in Keys PROVE Size({k}) = Qty[k]
<1>1. Units({k}) = {k} \X (1..Qty[k])
  BY DEF Units, UnitsOf
<1>2. Qty[k] \in Nat /\ Qty[k] >= 1 /\ Qty[k] \in Int /\ 1 \in Int
  BY ShapeAssumption
<1>3. IsFiniteSet(1..Qty[k]) /\ Cardinality(1..Qty[k]) = Qty[k]
  BY <1>2, FS_Interval
<1>4. IsFiniteSet({k}) /\ Cardinality({k}) = 1
  BY FS_Singleton
<1>5. Cardinality({k} \X (1..Qty[k])) = Cardinality({k}) * Cardinality(1..Qty[k])
  BY <1>3, <1>4, FS_Product
<1>6. Cardinality({k} \X (1..Qty[k])) = 1 * Qty[k]
  BY <1>3, <1>4, <1>5, Zenon
<1>7. 1 * Qty[k] = Qty[k]
  BY <1>2
<1> QED BY <1>1, <1>6, <1>7, Zenon DEF Size

\* The tickets of orders for different holds are as many as those holds' units.
LEMMA TicketsAreUnits ==
  ASSUME NEW B \in SUBSET Payments, Apart(B)
  PROVE  HoldsOf(B) \in SUBSET Keys /\ Cardinality(Tickets(B)) = Size(HoldsOf(B))
<1>1. HoldsOf(B) \in SUBSET Keys
  BY ShapeAssumption DEF HoldsOf
<1> DEFINE f == [s \in Tickets(B) |-> <<HoldOf[s[1]], s[2]>>]
<1>2. \A s \in Tickets(B) : s[1] \in B /\ s[2] \in 1..Qty[HoldOf[s[1]]] /\ s = <<s[1], s[2]>>
  BY DEF Tickets, SeatsOf
<1>3. \A s \in Tickets(B) : f[s] \in Units(HoldsOf(B))
  BY <1>2 DEF Units, UnitsOf, HoldsOf
<1>4. ASSUME NEW s \in Tickets(B), NEW t \in Tickets(B), f[s] = f[t] PROVE s = t
  <2>1. HoldOf[s[1]] = HoldOf[t[1]] /\ s[2] = t[2]
    BY <1>4
  <2>2. s[1] = t[1]
    BY <1>2, <2>1 DEF Apart
  <2> QED BY <1>2, <2>1, <2>2
<1>5. ASSUME NEW u \in Units(HoldsOf(B)) PROVE \E s \in Tickets(B) : f[s] = u
  <2>1. PICK p \in B : u \in {HoldOf[p]} \X (1..Qty[HoldOf[p]])
    BY DEF Units, UnitsOf, HoldsOf
  <2>2. PICK i \in 1..Qty[HoldOf[p]] : u = <<HoldOf[p], i>>
    BY <2>1
  <2>3. <<p, i>> \in Tickets(B)
    BY <2>2 DEF Tickets, SeatsOf
  <2>4. f[<<p, i>>] = u
    BY <2>2, <2>3
  <2> QED BY <2>3, <2>4
<1>6. f \in Bijection(Tickets(B), Units(HoldsOf(B)))
  <2>1. f \in [Tickets(B) -> Units(HoldsOf(B))]
    BY <1>3
  <2> HIDE DEF f
  <2> QED BY <1>4, <1>5, <2>1 DEF Bijection, Injection, Surjection, IsInjective
<1>7. IsFiniteSet(Tickets(B))
  <2>1. IsFiniteSet(Payments \X (1..MaxLineQty))
    <3>1. IsFiniteSet(Payments) /\ 1 \in Int /\ MaxLineQty \in Int
      BY ShapeAssumption
    <3>2. IsFiniteSet(1..MaxLineQty)
      BY <3>1, FS_Interval
    <3> QED BY <3>1, <3>2, FS_Product
  <2>2. Tickets(B) \subseteq Payments \X (1..MaxLineQty)
    BY ShapeAssumption DEF Tickets, SeatsOf
  <2> QED BY <2>1, <2>2, FS_Subset
<1>8. ExistsBijection(Tickets(B), Units(HoldsOf(B)))
  BY <1>6 DEF ExistsBijection
<1>9. Cardinality(Units(HoldsOf(B))) = Cardinality(Tickets(B))
  BY <1>7, <1>8, FS_Bijection
<1> QED BY <1>1, <1>9 DEF Size
---------------------------------------------------------------------------
(* What the inventory counts.                                              *)

\* The active holds count their units.
LEMMA HeldIs ==
  ASSUME NEW ks \in SUBSET Keys PROVE Held(ks) = Size({k \in ks : Counted(k)})
BY DEF Held, Size, Units

\* A paid order counts as many tickets as its hold has units.
LEMMA PaidIsSold ==
  ASSUME NEW p \in Payments, orders[p] = "paid", NEW ps \in SUBSET Payments, p \in ps
  PROVE  Sold(ps) >= Qty[HoldOf[p]]
<1> DEFINE B == {q \in ps : orders[q] = "paid"}
<1>1. HoldOf[p] \in Keys
  BY ShapeAssumption
<1>2. Cardinality(Tickets({p})) = Qty[HoldOf[p]]
  <2>1. {p} \in SUBSET Payments /\ Apart({p}) /\ HoldsOf({p}) = {HoldOf[p]}
    BY DEF Apart, HoldsOf
  <2>2. Cardinality(Tickets({p})) = Size(HoldsOf({p}))
    BY <2>1, TicketsAreUnits
  <2> QED BY <1>1, <2>1, <2>2, SizeOfOne
<1>3. IsFiniteSet(Tickets(B))
  <2>1. IsFiniteSet(Payments \X (1..MaxLineQty))
    <3>1. IsFiniteSet(Payments) /\ 1 \in Int /\ MaxLineQty \in Int
      BY ShapeAssumption
    <3>2. IsFiniteSet(1..MaxLineQty)
      BY <3>1, FS_Interval
    <3> QED BY <3>1, <3>2, FS_Product
  <2>2. Tickets(B) \subseteq Payments \X (1..MaxLineQty)
    BY ShapeAssumption DEF Tickets, SeatsOf
  <2> QED BY <2>1, <2>2, FS_Subset
<1>4. Tickets({p}) \subseteq Tickets(B)
  BY DEF Tickets
<1>5. Cardinality(Tickets({p})) <= Cardinality(Tickets(B)) /\ Sold(ps) = Cardinality(Tickets(B))
  BY <1>3, <1>4, FS_Subset DEF Sold, Tickets
<1>6. Sold(ps) \in Nat /\ Qty[HoldOf[p]] \in Nat
  BY <1>1, SoldNat, ShapeAssumption
<1> HIDE DEF B
<1> QED BY <1>2, <1>5, <1>6

\* The inventory never loses sight of an unexpired hold: its active holds and
\* paid orders count at least the hold's units at every instant, for any number
\* of racing holds, confirmations, cleanups and crashes and under both storage
\* drivers, unless an order made of the hold is locked for a refund.
THEOREM HoldsAreCounted == Spec => []UnexpiredHoldIsCounted
<1>1. TypeOK /\ HoldsInv => UnexpiredHoldIsCounted
  <2> SUFFICES ASSUME TypeOK, HoldsInv, NEW k \in Keys,
                      holds[k].status # "absent", ~expired[k],
                      \A p \in Payments : HoldOf[p] = k => orders[p] # "refund_requested"
               PROVE  Held({k}) + Sold({p \in Payments : HoldOf[p] = k}) >= Qty[k]
    BY DEF UnexpiredHoldIsCounted
  <2> DEFINE made == {p \in Payments : HoldOf[p] = k}
  <2>0. Qty[k] \in Nat /\ Held({k}) \in Nat /\ Sold(made) \in Nat
    BY HeldNat, SoldNat, ShapeAssumption
  <2>1. CASE holds[k].status = "active"
    <3>1. {j \in {k} : Counted(j)} = {k}
      BY <2>1 DEF Counted
    <3>2. Held({k}) = Size({k})
      BY <3>1, HeldIs
    <3> QED BY <2>0, <3>2, SizeOfOne
  <2>2. CASE \E p \in Payments : HoldOf[p] = k /\ orders[p] # "none"
    <3>1. PICK p \in Payments : HoldOf[p] = k /\ orders[p] # "none"
      BY <2>2
    <3>2. orders[p] = "paid"
      BY <3>1 DEF TypeOK
    <3>3. p \in made /\ made \in SUBSET Payments
      BY <3>1
    <3> HIDE DEF made
    <3>4. Sold(made) >= Qty[k]
      BY <3>1, <3>2, <3>3, PaidIsSold
    <3> QED BY <2>0, <3>4 DEF made
  <2> QED BY <2>1, <2>2 DEF HoldsInv, UnexpiredHoldIsSeen
<1> QED BY <1>1, HoldsCorrect, TypeCorrect, PTL
---------------------------------------------------------------------------
(* One request at a time, over the memory driver.                          *)

\* An order's hold exists and is still active only while the request that saved
\* the order is about to convert it; a request that has checked its hold and not
\* yet saved the order finds the hold active.
OrdersInv ==
  /\ sweep = {}
  /\ \A p \in Payments : orders[p] # "none" =>
       /\ holds[HoldOf[p]].status # "absent"
       /\ holds[HoldOf[p]].status = "active" =>
            \E w \in Workers : req[w].pc = "convert" /\ req[w].pay = p
  /\ \A w \in Workers : req[w].pc \in {"checkHold", "verify", "save"} =>
       holds[HoldOf[req[w].pay]].status = "active"
  /\ OneOrderPerHold

LEMMA OrdersStep ==
  ASSUME Driver = "memory", \A v, w \in Workers : v = w
  PROVE  TypeOK /\ FlowInv /\ HoldsInv /\ OrdersInv /\ [Next]_vars => OrdersInv'
<1> SUFFICES ASSUME TypeOK, FlowInv, HoldsInv, OrdersInv, [Next]_vars PROVE OrdersInv'
  OBVIOUS
<1> USE DEF TypeOK, RequestsOK, PayPCs, HoldPCs, At
<1>h. \A p \in Payments : HoldOf[p] \in Keys
  BY ShapeAssumption
<1>q. \A w \in Workers : req[w] \in Request
  OBVIOUS
<1>u. ASSUME UNCHANGED <<holds, orders, sweep>>,
             \A w \in Workers :
               /\ req[w].pc = "convert" => req'[w] = req[w]
               /\ req'[w].pc \in {"checkHold", "verify", "save"} =>
                    holds[HoldOf[req'[w].pay]].status = "active"
      PROVE  OrdersInv'
  BY <1>u DEF OrdersInv, OneOrderPerHold
\* A request releases a hold whose order, if it has one, is not being made.
<1>r. ASSUME NEW w \in Workers, req[w].pc \notin {"convert"}, req'[w] = Idle,
             UNCHANGED <<orders, sweep>>, NEW k \in Keys, Release(k)
      PROVE  OrdersInv'
  <2>1. \A j \in Keys : holds'[j].status = holds[j].status
                          \/ (holds'[j].status = "released" /\ holds[j].status # "absent")
    BY <1>r DEF Release, Hold
  <2>2. \A v \in Workers : req'[v] = Idle /\ req[v].pc # "convert"
    BY <1>r
  <2> QED BY <1>r, <1>h, <2>1, <2>2 DEF OrdersInv, OneOrderPerHold, Idle
<1>1. ASSUME NEW w \in Workers, Begin(w) PROVE OrdersInv'
  <2>1. req[w].pc = "idle" /\ UNCHANGED <<holds, orders, sweep>>
    BY <1>1 DEF Begin, BeginHold, BeginIntent, BeginConfirm
  <2>2. req'[w].pc \in {"holdLookup", "intentRead", "lookup"}
    <3>1. ASSUME NEW k \in Keys, BeginHold(w, k) PROVE req'[w].pc = "holdLookup"
      BY <3>1 DEF BeginHold, Idle
    <3>2. ASSUME NEW p \in Payments, BeginIntent(w, p) PROVE req'[w].pc = "intentRead"
      BY <3>2 DEF BeginIntent, Idle
    <3>3. ASSUME NEW p \in Payments, BeginConfirm(w, p) PROVE req'[w].pc = "lookup"
      BY <3>3 DEF BeginConfirm, Idle
    <3> QED BY <1>1, <3>1, <3>2, <3>3 DEF Begin
  <2> QED BY <1>u, <2>1, <2>2
<1>2. ASSUME NEW w \in Workers, CreateHoldStep(w), ~CreateHold(w) PROVE OrdersInv'
  <2>1. req[w].pc \in HoldPCs /\ UNCHANGED <<holds, orders, sweep>>
    BY <1>2 DEF CreateHoldStep, HoldLookup, ReadSold, ReadHolds, CapHeld, CapBought
  <2>2. req'[w].pc \in HoldPCs \cup {"idle"}
    BY <1>2, <1>q DEF CreateHoldStep, HoldLookup, ReadSold, ReadHolds, CapHeld, CapBought,
       Goto, Finish, Idle, Request
  <2> QED BY <1>u, <2>1, <2>2
<1>3. ASSUME NEW w \in Workers, CreateHold(w) PROVE OrdersInv'
  <2> DEFINE k == req[w].key
  <2>1. /\ k \in Keys /\ req[w].pc = "createHold" /\ req'[w] = Idle
        /\ UNCHANGED <<orders, sweep>>
        /\ \A j \in Keys : j # k => holds'[j] = holds[j]
    BY <1>3 DEF CreateHold, Finish
  <2>2. holds[k].status = "absent"
    BY <2>1 DEF HoldsInv
  <2>3. \A p \in Payments : orders[p] # "none" => HoldOf[p] # k
    BY <2>2 DEF OrdersInv
  <2>4. \A v \in Workers : req'[v] = Idle /\ req[v].pc # "convert"
    BY <2>1
  <2> HIDE DEF k
  <2> QED BY <1>h, <2>1, <2>3, <2>4 DEF OrdersInv, OneOrderPerHold, Idle
<1>4. ASSUME NEW w \in Workers, IntentStep(w) PROVE OrdersInv'
  <2>1. CASE IntentRead(w)
    <3>1. /\ req[w].pc = "intentRead" /\ UNCHANGED <<holds, orders, sweep>>
          /\ req'[w].pc \in {"intentCheck", "idle"}
      BY <2>1, <1>q DEF IntentRead, Finish, Idle, Request
    <3> QED BY <1>u, <3>1
  <2>2. CASE IntentCheck(w)
    <3>1. /\ req[w].pc = "intentCheck" /\ UNCHANGED <<orders, sweep>>
          /\ req'[w] = Idle /\ HoldOf[req[w].pay] \in Keys
          /\ holds' = holds \/ Release(HoldOf[req[w].pay])
      BY <2>2, <1>h DEF IntentCheck, Finish
    <3>2. CASE holds' = holds
      BY <1>u, <3>1, <3>2 DEF Idle
    <3> QED BY <1>r, <3>1, <3>2
  <2> QED BY <1>4, <2>1, <2>2 DEF IntentStep
<1>5. ASSUME NEW w \in Workers, Lookup(w) \/ ReadHold(w) \/ Verify(w) PROVE OrdersInv'
  <2>1. /\ req[w].pc \in {"lookup", "readHold", "verify"}
        /\ UNCHANGED <<holds, orders, sweep>>
    BY <1>5 DEF Lookup, ReadHold, Verify
  <2>2. \/ req'[w].pc \in {"readHold", "idle"}
        \/ /\ req'[w].pc \in {"checkHold", "save"} /\ req'[w].pay = req[w].pay
           /\ holds[HoldOf[req[w].pay]].status = "active"
    BY <1>5, <1>q DEF Lookup, ReadHold, Verify, Goto, Finish, Idle, Request, OrdersInv
  <2> QED BY <1>u, <2>1, <2>2
<1>6. ASSUME NEW w \in Workers, CheckHold(w) PROVE OrdersInv'
  <2> DEFINE k == HoldOf[req[w].pay]
  <2>1. /\ req[w].pc = "checkHold" /\ UNCHANGED <<orders, sweep>> /\ k \in Keys
        /\ holds[k].status = "active"
    BY <1>6, <1>h DEF CheckHold, OrdersInv
  <2>2. CASE expired[k]
    BY <1>6, <1>r, <2>1, <2>2 DEF CheckHold, Finish
  <2>3. CASE ~expired[k]
    <3>1. holds' = holds /\ req'[w].pc = "verify" /\ req'[w].pay = req[w].pay
      BY <1>6, <1>q, <2>3 DEF CheckHold, Goto, Request
    <3> QED BY <1>u, <2>1, <3>1
  <2> QED BY <2>2, <2>3
<1>7. ASSUME NEW w \in Workers, SaveOrder(w) PROVE OrdersInv'
  <2> DEFINE p == req[w].pay
  <2>1. /\ req[w].pc = "save" /\ p \in Payments /\ UNCHANGED <<holds, sweep>>
        /\ holds[HoldOf[p]].status = "active"
    BY <1>7 DEF SaveOrder, OrdersInv
  <2>2. CASE orders[p] # "none"
    BY <1>7, <1>u, <2>1, <2>2 DEF SaveOrder, CreateLoses, Finish, Idle
  <2>3. CASE orders[p] = "none"
    <3>1. /\ orders' = [orders EXCEPT ![p] = "paid"]
          /\ req'[w].pc = "convert" /\ req'[w].pay = p
      BY <1>7, <1>q, <2>3 DEF SaveOrder, CreateLoses, Goto, Request
    <3>2. \A q \in Payments : orders[q] # "none" =>
            HoldOf[q] # HoldOf[p] /\ holds[HoldOf[q]].status # "active"
      BY <2>1 DEF OrdersInv
    <3>3. \A q \in Payments : orders'[q] # "none" => orders[q] # "none" \/ q = p
      BY <2>1, <3>1
    <3> QED BY <2>1, <3>1, <3>2, <3>3 DEF OrdersInv, OneOrderPerHold
  <2> QED BY <2>2, <2>3
<1>8. ASSUME NEW w \in Workers, ConvertHold(w) PROVE OrdersInv'
  <2> DEFINE p == req[w].pay
  <2>1. /\ req[w].pc = "convert" /\ p \in Payments /\ UNCHANGED <<orders, sweep>>
        /\ orders[p] # "none" /\ req'[w].pc = "redeem"
    BY <1>8, <1>q DEF ConvertHold, Goto, Request, FlowInv, CarriesThrough, AfterSave
  <2>2. holds' = [holds EXCEPT ![HoldOf[p]] = [status |-> "converted", order |-> p]]
    BY <1>8, <2>1 DEF ConvertHold, ConvertToOrder, OrdersInv
  <2>3. ASSUME NEW q \in Payments, orders[q] # "none"
        PROVE  holds'[HoldOf[q]].status \notin {"absent", "active"}
    <3>1. CASE q = p
      BY <1>h, <2>1, <2>2, <3>1
    <3>2. CASE q # p
      <4>1. HoldOf[q] # HoldOf[p]
        BY <2>1, <2>3, <3>2 DEF OrdersInv, OneOrderPerHold
      <4>2. holds[HoldOf[q]].status \notin {"absent", "active"}
        BY <2>1, <2>3, <3>2 DEF OrdersInv
      <4> QED BY <1>h, <2>2, <4>1, <4>2
    <3> QED BY <3>1, <3>2
  <2> QED BY <2>1, <2>3 DEF OrdersInv, OneOrderPerHold
<1>9. ASSUME NEW w \in Workers, RedeemPromo(w) \/ IssueSeat(w) \/ RecordLedger(w)
                                  \/ RecordSale(w) \/ RecordCommission(w)
      PROVE  OrdersInv'
  <2>1. /\ req[w].pc \in AfterRedeem \cup {"redeem"} /\ UNCHANGED <<holds, orders, sweep>>
        /\ req'[w].pc \in AfterRedeem \cup {"idle"}
    BY <1>9, <1>q DEF RedeemPromo, IssueSeat, RecordLedger, RecordSale, RecordCommission,
       Goto, Finish, Idle, Request, AfterRedeem, AfterIssue, AfterLedger
  <2> QED BY <1>u, <2>1 DEF AfterRedeem, AfterIssue, AfterLedger
<1>10. CASE Environment
  <2>1. /\ UNCHANGED <<holds, req, sweep>>
        /\ \A p \in Payments : orders'[p] = "none" <=> orders[p] = "none"
    BY <1>10 DEF Environment, Capture, LockForRefund, RestoreOrder, Expire,
                 ClaimAdmission, SweepQuery, SweepCommit, OrdersInv
  <2> QED BY <2>1 DEF OrdersInv, OneOrderPerHold
<1>11. CASE UNCHANGED vars
  BY <1>11 DEF vars, OrdersInv, OneOrderPerHold
<1>12. ASSUME NEW w \in Workers, Crash(w) PROVE FALSE
  BY <1>12 DEF Crash
<1>13. ASSUME NEW w \in Workers, Step(w) PROVE OrdersInv'
  BY <1>13, <1>2, <1>3, <1>4, <1>5, <1>6, <1>7, <1>8, <1>9 DEF Step, ConfirmStep
<1> QED BY <1>1, <1>10, <1>11, <1>12, <1>13 DEF Next

LEMMA OrdersCorrect ==
  ASSUME Driver = "memory", \A v, w \in Workers : v = w
  PROVE  Spec => []OrdersInv
<1>1. Init => OrdersInv
  BY DEF Init, OrdersInv, OneOrderPerHold, Idle
<1> QED BY <1>1, OrdersStep, HoldsCorrect, FlowCorrect, TypeCorrect, PTL DEF Spec

\* One hold makes one order when no two requests are in flight together and
\* creates are compare-and-set: each confirmation then finds the hold as the
\* last one left it (OneOrderPerHold fails as soon as two overlap).
THEOREM OneOrderSerially ==
  ASSUME Driver = "memory", \A v, w \in Workers : v = w
  PROVE  Spec => []OneOrderPerHold
<1>1. OrdersInv => OneOrderPerHold
  BY DEF OrdersInv
<1> QED BY <1>1, OrdersCorrect, PTL
---------------------------------------------------------------------------
(* Stock, one request at a time.                                           *)

Bought == {p \in Payments : orders[p] # "none"}

\* The holds whose units are spoken for: live carts, holds a confirmation has
\* checked and is about to make an order of, and holds with an order.
Taken ==
  {k \in Keys : \/ Counted(k)
                \/ \E w \in Workers : /\ req[w].pc \in {"verify", "save"}
                                      /\ HoldOf[req[w].pay] = k
                \/ k \in HoldsOf(Bought)}

\* What a request that makes a hold knows of the room it needs.
Weighed(w) ==
  LET k == req[w].key
      mine == KeysOf(Owner[k])
  IN  /\ req[w].pc = "readHolds" => Size(HoldsOf(Bought)) <= req[w].n
      /\ req[w].pc \in {"capHeld", "capBought", "createHold"} =>
           Size(Taken) + Qty[k] <= Stock
      /\ req[w].pc = "capBought" => Held(mine) <= req[w].n
      /\ req[w].pc = "createHold" /\ MaxPerUser # 0 =>
           Size(Taken \cap mine) + Qty[k] <= MaxPerUser

StockInv ==
  /\ \A p \in Payments : orders[p] # "refund_requested"
  /\ Size(Taken) <= Stock
  /\ MaxPerUser # 0 => \A u \in Users : Size(Taken \cap KeysOf(u)) <= MaxPerUser
  /\ \A w \in Workers : Weighed(w)

\* What is committed is within what is taken.
LEMMA CommittedIsTaken ==
  ASSUME OrdersInv, NEW ks \in SUBSET Keys
  PROVE  Committed(ks) <= Size(Taken \cap ks)
<1> DEFINE bought == {p \in Payments : orders[p] # "none" /\ HoldOf[p] \in ks}
           held == {k \in ks : Counted(k) /\ \A p \in bought : HoldOf[p] # k}
<1>1. bought \in SUBSET Payments /\ Apart(bought)
  BY DEF OrdersInv, OneOrderPerHold, Apart
<1>2. held \in SUBSET Keys
  OBVIOUS
<1>3. held \cap HoldsOf(bought) = {}
  BY DEF HoldsOf
<1>4. held \cup HoldsOf(bought) \subseteq Taken \cap ks
  BY DEF HoldsOf, Taken, Bought
<1>5. Committed(ks) = Size(held) + Cardinality(Tickets(bought))
  BY DEF Committed, Size, Units, Tickets
<1> HIDE DEF held, bought
<1>6. HoldsOf(bought) \in SUBSET Keys /\ Cardinality(Tickets(bought)) = Size(HoldsOf(bought))
  BY <1>1, TicketsAreUnits
<1>7. Size(held \cup HoldsOf(bought)) = Size(held) + Size(HoldsOf(bought))
  BY <1>2, <1>3, <1>6, SizeAdds
<1>8. Taken \cap ks \in SUBSET Keys
  OBVIOUS
<1>9. Size(held \cup HoldsOf(bought)) <= Size(Taken \cap ks)
  BY <1>4, <1>8, SizeGrows
<1> QED BY <1>5, <1>6, <1>7, <1>9

\* The two reads of a request that makes a hold cover what is taken.
LEMMA SoldIs ==
  ASSUME TypeOK, OrdersInv, StockInv, NEW ps \in SUBSET Payments
  PROVE  Sold(ps) = Size(HoldsOf(ps \cap Bought)) /\ HoldsOf(ps \cap Bought) \in SUBSET Keys
<1>1. {q \in ps : orders[q] = "paid"} = ps \cap Bought
  BY DEF TypeOK, StockInv, Bought
<1>2. Sold(ps) = Cardinality(Tickets(ps \cap Bought))
  BY <1>1 DEF Sold, Tickets
<1>3. ps \cap Bought \in SUBSET Payments /\ Apart(ps \cap Bought)
  BY DEF OrdersInv, OneOrderPerHold, Apart, Bought
<1> QED BY <1>2, <1>3, TicketsAreUnits

LEMMA TakenIsRead ==
  ASSUME TypeOK, OrdersInv, StockInv, NEW ks \in SUBSET Keys, NEW ps \in SUBSET Payments,
         \A p \in Payments : HoldOf[p] \in ks => p \in ps,
         \A w \in Workers : req[w].pc \notin {"verify", "save"}
  PROVE  Size(Taken \cap ks) <= Held(ks) + Size(HoldsOf(ps \cap Bought))
<1> DEFINE A == {k \in ks : Counted(k)}
           B == HoldsOf(ps \cap Bought)
<1>1. A \in SUBSET Keys /\ B \in SUBSET Keys
  BY SoldIs
<1>2. Taken \cap ks \subseteq A \cup B
  BY DEF Taken, HoldsOf, Bought
<1>3. Held(ks) = Size(A)
  BY HeldIs
<1> HIDE DEF A, B
<1>4. Size(A \cup B) <= Size(A) + Size(B)
  BY <1>1, SizeAdds
<1>5. Size(Taken \cap ks) <= Size(A \cup B)
  BY <1>1, <1>2, SizeGrows
<1>6. Size(A) \in Nat /\ Size(B) \in Nat /\ Size(A \cup B) \in Nat /\ Size(Taken \cap ks) \in Nat
  <2>1. A \cup B \in SUBSET Keys /\ Taken \cap ks \in SUBSET Keys
    BY <1>1
  <2> QED BY <1>1, <2>1, UnitsFinite
<1>7. Size(Taken \cap ks) <= Size(A) + Size(B)
  BY <1>4, <1>5, <1>6
<1> QED BY <1>3, <1>7 DEF B

\* A step takes no hold but the one it makes: whatever else is spoken for after
\* it was spoken for before, as a cart, by its confirmation or by its order.
LEMMA TakenStays ==
  ASSUME TypeOK, FlowInv, HoldsInv, OrdersInv, [Next]_vars, NEW k \in Taken'
  PROVE  k \in Taken \/ \E w \in Workers : CreateHold(w) /\ req[w].key = k
<1> USE DEF TypeOK, RequestsOK, PayPCs, HoldPCs, At
<1>1. k \in Keys
  BY DEF Taken
<1>2. CASE Counted(k)'
  <2>1. holds'[k].status = "active" /\ ~expired'[k]
    BY <1>2 DEF Counted
  <2> QED BY <1>1, <2>1, HoldRows DEF Taken, Counted, HoldsOf, Bought
<1>3. ASSUME NEW p \in Payments, orders'[p] # "none", HoldOf[p] = k
      PROVE  k \in Taken
  <2>1. CASE orders[p] # "none"
    BY <1>1, <1>3, <2>1 DEF Taken, HoldsOf, Bought
  <2>2. CASE orders[p] = "none"
    <3>1. PICK w \in Workers : SaveOrder(w) /\ req[w].pay = p
      BY <1>3, <2>2, NewRows
    <3> QED BY <1>1, <1>3, <3>1 DEF SaveOrder, Taken
  <2> QED BY <2>1, <2>2
<1>4. ASSUME NEW w \in Workers, req'[w].pc \in {"verify", "save"}, HoldOf[req'[w].pay] = k
      PROVE  k \in Taken
  <2>1. CASE req'[w] = req[w]
    BY <1>1, <1>4, <2>1 DEF Taken
  <2>2. CASE Begin(w) \/ Step(w) \/ Crash(w)
    <3>q. req[w] \in Request
      OBVIOUS
    <3>1. CASE req'[w].pc = "save"
      <4>1. Verify(w) /\ req'[w].pay = req[w].pay
        BY <2>2, <3>1, Moves DEF AfterSave, AfterRedeem, AfterIssue, AfterLedger
      <4> QED BY <1>1, <1>4, <4>1 DEF Verify, Taken
    <3>2. CASE req'[w].pc = "verify"
      <4>1. CheckHold(w)
        <5>1. CASE Begin(w)
          <6>1. ASSUME NEW j \in Keys, BeginHold(w, j) PROVE req'[w].pc = "holdLookup"
            BY <6>1 DEF BeginHold, Idle
          <6>2. ASSUME NEW p \in Payments, BeginIntent(w, p) PROVE req'[w].pc = "intentRead"
            BY <6>2 DEF BeginIntent, Idle
          <6>3. ASSUME NEW p \in Payments, BeginConfirm(w, p) PROVE req'[w].pc = "lookup"
            BY <6>3 DEF BeginConfirm, Idle
          <6> QED BY <3>2, <5>1, <6>1, <6>2, <6>3 DEF Begin
        <5> USE <3>q DEF Goto, Finish, Idle, Request
        <5>2. CASE Crash(w)
          BY <3>2, <5>2 DEF Crash
        <5>3. CASE CreateHoldStep(w)
          BY <3>2, <5>3 DEF CreateHoldStep, HoldLookup, ReadSold, ReadHolds, CapHeld,
             CapBought, CreateHold
        <5>4. CASE IntentStep(w)
          BY <3>2, <5>4 DEF IntentStep, IntentRead, IntentCheck
        <5>5. CASE Lookup(w) \/ ReadHold(w) \/ Verify(w) \/ SaveOrder(w) \/ ConvertHold(w)
          BY <3>2, <5>5 DEF Lookup, ReadHold, Verify, SaveOrder, ConvertHold
        <5>6. CASE RedeemPromo(w) \/ IssueSeat(w) \/ RecordLedger(w) \/ RecordSale(w)
                     \/ RecordCommission(w)
          BY <3>2, <5>6 DEF RedeemPromo, IssueSeat, RecordLedger, RecordSale,
             RecordCommission
        <5> QED BY <2>2, <5>1, <5>2, <5>3, <5>4, <5>5, <5>6 DEF Step, ConfirmStep
      <4>2. /\ req[w].pc = "checkHold" /\ req'[w].pay = req[w].pay
            /\ ~expired[HoldOf[req[w].pay]]
        BY <3>2, <3>q, <4>1 DEF CheckHold, Finish, Goto, Idle, Request
      <4>3. Counted(k)
        BY <1>4, <4>2 DEF Counted, OrdersInv
      <4> QED BY <1>1, <4>3 DEF Taken
    <3> QED BY <1>4, <3>1, <3>2
  <2>3. CASE Environment \/ UNCHANGED vars
    BY <2>1, <2>3 DEF Environment, Capture, LockForRefund, RestoreOrder, Expire,
       ClaimAdmission, SweepQuery, SweepCommit, vars
  <2> QED BY <2>1, <2>2, <2>3, OthersStay DEF Next
<1>5. \/ Counted(k)'
      \/ \E w \in Workers : req'[w].pc \in {"verify", "save"} /\ HoldOf[req'[w].pay] = k
      \/ \E p \in Payments : orders'[p] # "none" /\ HoldOf[p] = k
  BY DEF Taken, HoldsOf, Bought
<1> QED BY <1>2, <1>3, <1>4, <1>5

LEMMA StockStep ==
  ASSUME Driver = "memory", \A v, w \in Workers : v = w, MaxRefunds = 0
  PROVE  /\ TypeOK /\ FlowInv /\ HoldsInv /\ OrdersInv /\ StockInv
         /\ [Next]_vars /\ TypeOK' /\ OrdersInv'
         => StockInv'
<1> SUFFICES ASSUME TypeOK, FlowInv, HoldsInv, OrdersInv, StockInv,
                    [Next]_vars, TypeOK', OrdersInv'
             PROVE  StockInv'
  OBVIOUS
<1>q. \A w \in Workers : req[w] \in Request
  BY DEF TypeOK, RequestsOK
<1>k. \A w \in Workers : req[w].pc \in HoldPCs =>
        /\ req[w].key \in Keys /\ Qty[req[w].key] \in Nat
        /\ Owner[req[w].key] \in Users
  BY ShapeAssumption DEF TypeOK, RequestsOK
<1>n. Stock \in Nat /\ MaxPerUser \in Nat
  BY ShapeAssumption
<1>t. Taken \in SUBSET Keys /\ \A u : KeysOf(u) \in SUBSET Keys
  BY DEF Taken, KeysOf
<1>z. \A A \in SUBSET Keys : Size(A) \in Nat
  BY UnitsFinite
\* No order is locked for a refund.
<1>l. \A p \in Payments : orders'[p] # "refund_requested"
  <2>1. ASSUME NEW w \in Workers, Begin(w) \/ Step(w) \/ Crash(w)
        PROVE  orders' = orders \/ \E p \in Payments : orders' = [orders EXCEPT ![p] = "paid"]
    <3>1. CASE SaveOrder(w)
      BY <3>1 DEF SaveOrder, At, TypeOK, RequestsOK, PayPCs
    <3>2. CASE ~SaveOrder(w)
      BY <2>1, <3>2 DEF Begin, BeginHold, BeginIntent, BeginConfirm, Crash, Step,
         CreateHoldStep, HoldLookup, ReadSold, ReadHolds, CapHeld, CapBought, CreateHold,
         IntentStep, IntentRead, IntentCheck, ConfirmStep, Lookup, ReadHold, CheckHold,
         Verify, ConvertHold, RedeemPromo, IssueSeat, RecordLedger, RecordSale,
         RecordCommission
    <3> QED BY <3>1, <3>2
  <2>2. \A p \in Payments : ~LockForRefund(p) /\ ~RestoreOrder(p)
    BY DEF LockForRefund, RestoreOrder, TypeOK, StockInv
  <2>3. Environment \/ UNCHANGED vars => orders' = orders
    BY <2>2 DEF Environment, Capture, Expire, ClaimAdmission, SweepQuery, SweepCommit, vars
  <2> QED BY <2>1, <2>3 DEF Next, StockInv, TypeOK
\* A step that takes no hold keeps the room.
<1>g. ASSUME Taken' \subseteq Taken
      PROVE  /\ Size(Taken') <= Size(Taken) /\ Size(Taken') \in Nat
             /\ \A u : /\ Size(Taken' \cap KeysOf(u)) <= Size(Taken \cap KeysOf(u))
                       /\ Size(Taken' \cap KeysOf(u)) \in Nat
  <2>1. ASSUME NEW u PROVE Size(Taken' \cap KeysOf(u)) <= Size(Taken \cap KeysOf(u))
    <3>1. /\ Taken \cap KeysOf(u) \in SUBSET Keys
          /\ Taken' \cap KeysOf(u) \in SUBSET (Taken \cap KeysOf(u))
      BY <1>g, <1>t
    <3> QED BY <3>1, SizeGrows
  <2>2. \A u : Taken' \cap KeysOf(u) \in SUBSET Keys
    BY <1>g, <1>t
  <2> QED BY <1>g, <1>t, <1>z, <2>1, <2>2, SizeGrows
<1>r. ASSUME Taken' \subseteq Taken, \A w \in Workers : Weighed(w)'
      PROVE  StockInv'
  <2>1. Size(Taken') <= Stock
    BY <1>g, <1>n, <1>r, <1>t, <1>z DEF StockInv
  <2>2. ASSUME MaxPerUser # 0, NEW u \in Users
        PROVE  Size(Taken' \cap KeysOf(u)) <= MaxPerUser
    <3>1. Size(Taken \cap KeysOf(u)) <= MaxPerUser
      BY <2>2 DEF StockInv
    <3>2. Taken \cap KeysOf(u) \in SUBSET Keys
      BY <1>t
    <3> QED BY <1>g, <1>n, <1>r, <1>z, <3>1, <3>2
  <2> QED BY <1>l, <1>r, <2>1, <2>2 DEF StockInv
\* What is weighed stays weighed while carts only expire.
<1>w. ASSUME NEW w \in Workers, Taken' \subseteq Taken, Bought' = Bought,
             req'[w] = req[w], \A k \in Keys : Counted(k)' => Counted(k)
      PROVE  Weighed(w)'
  <2> DEFINE k == req[w].key
             mine == KeysOf(Owner[k])
  <2>1. Weighed(w)
    BY DEF StockInv
  <2>2. CASE req[w].pc \notin HoldPCs
    BY <1>w, <2>2 DEF Weighed, HoldPCs
  <2>3. CASE req[w].pc \in HoldPCs
    <3>1. k \in Keys /\ Qty[k] \in Nat /\ mine \in SUBSET Keys
      BY <1>k, <1>t, <2>3
    <3>2. Held(mine)' <= Held(mine) /\ Held(mine)' \in Nat /\ Held(mine) \in Nat
      <4>1. PICK A, B : A = {j \in mine : Counted(j)} /\ B = {j \in mine : Counted(j)'}
        OBVIOUS
      <4>2. Held(mine) = Size(A) /\ Held(mine)' = Size(B)
        BY <1>w, <4>1 DEF Held, Size, Units
      <4>3. A \in SUBSET Keys /\ B \in SUBSET A /\ B \in SUBSET Keys
        BY <1>w, <3>1, <4>1
      <4> QED BY <4>2, <4>3, <1>z, SizeGrows
    <3>3. /\ Size(Taken') <= Size(Taken) /\ Size(Taken') \in Nat /\ Size(Taken) \in Nat
          /\ Size(Taken' \cap mine) <= Size(Taken \cap mine)
          /\ Size(Taken' \cap mine) \in Nat /\ Size(Taken \cap mine) \in Nat
      <4>1. Taken \cap mine \in SUBSET Keys
        BY <1>t
      <4> QED BY <1>g, <1>t, <1>w, <1>z, <4>1
    <3>4. req[w].n \in Nat
      BY <1>q DEF Request
    <3>5. req[w].pc = "capBought" => Held(mine)' <= req[w].n
      BY <2>1, <3>2, <3>4 DEF Weighed
    <3>6. req[w].pc \in {"capHeld", "capBought", "createHold"} => Size(Taken') + Qty[k] <= Stock
      BY <2>1, <3>1, <3>3, <1>n DEF Weighed
    <3>7. req[w].pc = "createHold" /\ MaxPerUser # 0 =>
            Size(Taken' \cap mine) + Qty[k] <= MaxPerUser
      BY <2>1, <3>1, <3>3, <1>n DEF Weighed
    <3>8. req[w].pc = "readHolds" => Size(HoldsOf(Bought')) <= req[w].n
      BY <1>w, <2>1 DEF Weighed
    <3> QED BY <1>w, <3>5, <3>6, <3>7, <3>8 DEF Weighed
  <2> QED BY <2>2, <2>3
\* A request that is not making a hold has nothing to weigh.
<1>o. ASSUME NEW w \in Workers, ~CreateHold(w), Begin(w) \/ Step(w) \/ Crash(w)
      PROVE  Taken' \subseteq Taken
  <2>1. ASSUME NEW v \in Workers PROVE ~CreateHold(v)
    BY <1>o
  <2> QED BY <2>1, TakenStays
<1>1. ASSUME NEW w \in Workers, Begin(w) \/ Step(w) \/ Crash(w), ~CreateHold(w),
             req'[w].pc \notin {"readHolds", "capHeld", "capBought", "createHold"}
      PROVE  StockInv'
  <2>1. Weighed(w)'
    BY <1>1 DEF Weighed
  <2>2. \A v \in Workers : Weighed(v)'
    BY <2>1
  <2> QED BY <1>1, <1>o, <1>r, <2>2
<1>2. ASSUME NEW w \in Workers, ReadSold(w) PROVE StockInv'
  <2> DEFINE k == req[w].key
  <2>1. /\ req'[w].pc = "readHolds" /\ req'[w].n = Sold(Payments)
        /\ UNCHANGED orders
    BY <1>2, <1>q DEF ReadSold, Request, TypeOK, RequestsOK
  <2>2. Sold(Payments) = Size(HoldsOf(Payments \cap Bought))
    BY SoldIs
  <2>3. Payments \cap Bought = Bought /\ Bought' = Bought
    BY <2>1 DEF Bought
  <2>4. Sold(Payments) \in Nat
    BY SoldNat
  <2>5. Size(HoldsOf(Bought')) <= req'[w].n
    <3>1. Size(HoldsOf(Bought')) = Sold(Payments)
      BY <2>2, <2>3, Zenon
    <3> QED BY <2>1, <2>4, <3>1
  <2>6. Weighed(w)'
    BY <2>1, <2>5 DEF Weighed
  <2>7. Taken' \subseteq Taken
    BY <1>2, <1>o DEF Step, CreateHoldStep, ReadSold, CreateHold, At
  <2> QED BY <1>r, <2>6, <2>7
<1>3. ASSUME NEW w \in Workers, ReadHolds(w),
             req'[w].pc \in {"readHolds", "capHeld", "capBought", "createHold"}
      PROVE  StockInv'
  <2> DEFINE k == req[w].key
  <2>1. /\ req[w].pc = "readHolds" /\ req'[w].key = k
        /\ req'[w].pc = IF MaxPerUser = 0 THEN "createHold" ELSE "capHeld"
        /\ req[w].n + Held(Keys) + Qty[k] <= Stock
    BY <1>3, <1>q DEF ReadHolds, Finish, Goto, Idle, Request, At, TypeOK, RequestsOK
  <2>2. k \in Keys /\ Qty[k] \in Nat /\ req[w].n \in Nat /\ Held(Keys) \in Nat
    BY <1>k, <1>q, <2>1, HeldNat DEF HoldPCs, Request
  <2>3. Taken' \subseteq Taken
    BY <1>3, <1>o DEF Step, CreateHoldStep, ReadHolds, CreateHold, At
  <2>4. Size(Taken \cap Keys) <= Held(Keys) + Size(HoldsOf(Payments \cap Bought))
    <3>1. \A v \in Workers : req[v].pc \notin {"verify", "save"}
      BY <2>1
    <3>2. \A p \in Payments : HoldOf[p] \in Keys => p \in Payments
      OBVIOUS
    <3> QED BY <3>1, <3>2, TakenIsRead
  <2>5. Taken \cap Keys = Taken /\ Payments \cap Bought = Bought
    BY <1>t DEF Bought
  <2>6. Size(HoldsOf(Bought)) <= req[w].n /\ Size(HoldsOf(Bought)) \in Nat
    <3>1. Weighed(w)
      BY DEF StockInv
    <3>2. HoldsOf(Payments \cap Bought) \in SUBSET Keys
      BY SoldIs
    <3> QED BY <1>z, <2>1, <2>5, <3>1, <3>2 DEF Weighed
  <2>7. Size(Taken') + Qty[k] <= Stock
    <3>1. Size(Taken) \in Nat /\ Size(Taken') \in Nat /\ Size(Taken') <= Size(Taken)
      BY <1>g, <1>t, <1>z, <2>3
    <3>2. Size(Taken) <= Held(Keys) + Size(HoldsOf(Bought))
      BY <2>4, <2>5
    <3> QED BY <1>n, <2>1, <2>2, <2>6, <3>1, <3>2
  <2>8. Weighed(w)'
    BY <2>1, <2>7 DEF Weighed
  <2> QED BY <1>r, <2>3, <2>8
<1>4. ASSUME NEW w \in Workers, CapHeld(w) PROVE StockInv'
  <2> DEFINE k == req[w].key
             mine == KeysOf(Owner[k])
  <2>1. /\ req[w].pc = "capHeld" /\ req'[w].pc = "capBought" /\ req'[w].key = k
        /\ req'[w].n = Held(mine) /\ UNCHANGED <<holds, expired>>
    BY <1>4, <1>q DEF CapHeld, Request, At, TypeOK, RequestsOK
  <2>2. k \in Keys /\ Qty[k] \in Nat /\ mine \in SUBSET Keys
    BY <1>k, <1>t, <2>1 DEF HoldPCs
  <2>3. Taken' \subseteq Taken
    BY <1>4, <1>o DEF Step, CreateHoldStep, CapHeld, CreateHold, At
  <2>4. Held(mine) \in Nat /\ Held(mine)' = Held(mine)
    <3>1. Held(mine) \in Nat
      BY <2>2, HeldNat
    <3>2. Held(mine)' = Held(mine)
      BY <2>1 DEF Held, Counted
    <3> QED BY <3>1, <3>2
  <2>5. Size(Taken') + Qty[k] <= Stock
    <3>1. Size(Taken) \in Nat /\ Size(Taken') \in Nat /\ Size(Taken') <= Size(Taken)
      BY <1>g, <1>t, <1>z, <2>3
    <3>2. Size(Taken) + Qty[k] <= Stock
      BY <2>1 DEF StockInv, Weighed
    <3> QED BY <1>n, <2>2, <3>1, <3>2
  <2>6. Held(KeysOf(Owner[req[w].key]))' <= req'[w].n
    BY <2>1, <2>4
  <2>7. Weighed(w)'
    BY <2>1, <2>5, <2>6 DEF Weighed
  <2> QED BY <1>r, <2>3, <2>7
<1>5. ASSUME NEW w \in Workers, CapBought(w),
             req'[w].pc \in {"readHolds", "capHeld", "capBought", "createHold"}
      PROVE  StockInv'
  <2> DEFINE k == req[w].key
             mine == KeysOf(Owner[k])
             paid == PaymentsOf(Owner[k])
  <2>1. /\ req[w].pc = "capBought" /\ req'[w].key = k /\ req'[w].pc = "createHold"
        /\ ~(req[w].n + Sold(paid) + Qty[k] > MaxPerUser)
    BY <1>5, <1>q DEF CapBought, Finish, Goto, Idle, Request, At, TypeOK, RequestsOK
  <2>2. /\ k \in Keys /\ Qty[k] \in Nat /\ mine \in SUBSET Keys /\ paid \in SUBSET Payments
        /\ req[w].n \in Nat /\ Held(mine) \in Nat /\ Sold(paid) \in Nat
    <3>1. k \in Keys /\ Qty[k] \in Nat /\ mine \in SUBSET Keys /\ paid \in SUBSET Payments
      BY <1>k, <1>t, <2>1 DEF HoldPCs, PaymentsOf
    <3> QED BY <1>q, <3>1, HeldNat, SoldNat DEF Request
  <2>3. Taken' \subseteq Taken
    BY <1>5, <1>o DEF Step, CreateHoldStep, CapBought, CreateHold, At
  <2>4. Size(Taken \cap mine) <= Held(mine) + Sold(paid)
    <3>1. \A v \in Workers : req[v].pc \notin {"verify", "save"}
      BY <2>1
    <3>2. \A p \in Payments : HoldOf[p] \in mine => p \in paid
      BY DEF KeysOf, PaymentsOf
    <3>3. Sold(paid) = Size(HoldsOf(paid \cap Bought))
      BY <2>2, SoldIs
    <3> HIDE DEF mine, paid
    <3>4. Size(Taken \cap mine) <= Held(mine) + Size(HoldsOf(paid \cap Bought))
      BY <2>2, <3>1, <3>2, TakenIsRead
    <3> QED BY <3>3, <3>4
  <2>5. /\ Held(mine) <= req[w].n
        /\ Size(Taken) + Qty[k] <= Stock
    BY <2>1 DEF StockInv, Weighed
  <2>6. Size(Taken') + Qty[k] <= Stock
    <3>1. Size(Taken) \in Nat /\ Size(Taken') \in Nat /\ Size(Taken') <= Size(Taken)
      BY <1>g, <1>t, <1>z, <2>3
    <3> QED BY <1>n, <2>2, <2>5, <3>1
  <2>7. Size(Taken' \cap mine) + Qty[k] <= MaxPerUser
    <3>1. /\ Size(Taken' \cap mine) \in Nat /\ Size(Taken \cap mine) \in Nat
          /\ Size(Taken' \cap mine) <= Size(Taken \cap mine)
      <4>1. Taken \cap mine \in SUBSET Keys
        BY <1>t
      <4> QED BY <1>g, <1>z, <2>3, <4>1
    <3> QED BY <1>n, <2>1, <2>2, <2>4, <2>5, <3>1
  <2>8. Weighed(w)'
    BY <2>1, <2>6, <2>7 DEF Weighed
  <2> QED BY <1>r, <2>3, <2>8
<1>6. ASSUME NEW w \in Workers, CreateHold(w) PROVE StockInv'
  <2> DEFINE k == req[w].key
  <2>1. req[w].pc = "createHold" /\ req'[w].pc = "idle"
    BY <1>6 DEF CreateHold, Finish, Idle, At, TypeOK, RequestsOK
  <2>2. k \in Keys /\ Qty[k] \in Nat /\ Owner[k] \in Users /\ Size({k}) = Qty[k]
    BY <1>k, <2>1, SizeOfOne DEF HoldPCs
  <2>3. Taken' \subseteq Taken \cup {k}
    <3>1. \A v \in Workers : CreateHold(v) => req[v].key = k
      OBVIOUS
    <3> HIDE DEF k
    <3> QED BY <3>1, TakenStays
  <2>4. Size(Taken') <= Stock
    <3>1. Size(Taken) + Qty[k] <= Stock
      BY <2>1 DEF StockInv, Weighed
    <3> HIDE DEF k
    <3>2. Taken \cup {k} \in SUBSET Keys /\ {k} \in SUBSET Keys /\ Taken' \in SUBSET (Taken \cup {k})
      BY <1>t, <2>2, <2>3
    <3>3. Size(Taken') <= Size(Taken \cup {k}) /\ Size(Taken \cup {k}) <= Size(Taken) + Size({k})
      BY <1>t, <3>2, SizeGrows, SizeAdds
    <3>4. /\ Size(Taken) \in Nat /\ Size(Taken') \in Nat /\ Size(Taken \cup {k}) \in Nat
      <4>1. Taken' \in SUBSET Keys
        BY <3>2
      <4> QED BY <1>t, <1>z, <3>2, <4>1
    <3> QED BY <1>n, <2>2, <3>1, <3>3, <3>4
  <2>5. ASSUME MaxPerUser # 0, NEW u \in Users
        PROVE  Size(Taken' \cap KeysOf(u)) <= MaxPerUser
    <3>1. Size(Taken \cap KeysOf(u)) <= MaxPerUser
      BY <2>5 DEF StockInv
    <3>2. u = Owner[k] => Size(Taken \cap KeysOf(u)) + Qty[k] <= MaxPerUser
      BY <2>1, <2>5 DEF StockInv, Weighed
    <3> HIDE DEF k
    <3>3. CASE u # Owner[k]
      <4>1. Taken' \cap KeysOf(u) \in SUBSET (Taken \cap KeysOf(u))
        BY <2>3, <3>3 DEF KeysOf
      <4>2. Taken \cap KeysOf(u) \in SUBSET Keys /\ Taken' \cap KeysOf(u) \in SUBSET Keys
        BY <1>t, <4>1
      <4>3. /\ Size(Taken' \cap KeysOf(u)) <= Size(Taken \cap KeysOf(u))
            /\ Size(Taken' \cap KeysOf(u)) \in Nat /\ Size(Taken \cap KeysOf(u)) \in Nat
        BY <1>z, <4>1, <4>2, SizeGrows
      <4> QED BY <1>n, <3>1, <4>3
    <3>4. CASE u = Owner[k]
      <4> DEFINE A == Taken \cap KeysOf(u)
                 B == Taken' \cap KeysOf(u)
      <4>1. /\ A \in SUBSET Keys /\ {k} \in SUBSET Keys /\ A \cup {k} \in SUBSET Keys
            /\ B \in SUBSET (A \cup {k})
        BY <1>t, <2>2, <2>3
      <4>2. Size(A) + Qty[k] <= MaxPerUser
        BY <3>2, <3>4
      <4> HIDE DEF A, B
      <4>3. Size(B) <= Size(A \cup {k}) /\ Size(A \cup {k}) <= Size(A) + Size({k})
        BY <4>1, SizeGrows, SizeAdds
      <4>4. Size(A) \in Nat /\ Size(B) \in Nat /\ Size(A \cup {k}) \in Nat
        <5>1. B \in SUBSET Keys
          BY <4>1
        <5> QED BY <1>z, <4>1, <5>1
      <4>5. Size(B) <= MaxPerUser
        BY <1>n, <2>2, <4>2, <4>3, <4>4
      <4> QED BY <4>5 DEF B
    <3> QED BY <3>3, <3>4
  <2>6. \A v \in Workers : Weighed(v)'
    BY <2>1 DEF Weighed
  <2> QED BY <1>l, <2>4, <2>5, <2>6 DEF StockInv
<1>7. CASE Environment \/ UNCHANGED vars
  <2>1. /\ req' = req
        /\ \A k \in Keys : Counted(k)' => Counted(k)
    <3>1. /\ req' = req /\ UNCHANGED holds
          /\ \A k \in Keys : expired'[k] = expired[k] \/ expired'[k]
      BY <1>7 DEF Environment, Capture, LockForRefund, RestoreOrder, Expire, ClaimAdmission,
         SweepQuery, SweepCommit, vars, OrdersInv, TypeOK
    <3> QED BY <3>1 DEF Counted
  <2>2. Bought' = Bought
    <3>1. \A p \in Payments : orders'[p] = "none" <=> orders[p] = "none"
      BY <1>7 DEF Environment, Capture, LockForRefund, RestoreOrder, Expire, ClaimAdmission,
         SweepQuery, SweepCommit, vars, TypeOK
    <3> QED BY <3>1 DEF Bought
  <2>3. Taken' \subseteq Taken
    <3>1. ASSUME NEW k \in Taken', NEW w \in Workers, CreateHold(w) PROVE k \in Taken
      <4>1. req[w].pc = "createHold" /\ req'[w] = Idle
        BY <3>1 DEF CreateHold, At, Finish, TypeOK, RequestsOK
      <4> QED BY <2>1, <4>1 DEF Idle
    <3> QED BY <3>1, TakenStays
  <2>4. \A w \in Workers : Weighed(w)'
    BY <1>w, <2>1, <2>2, <2>3
  <2> QED BY <1>r, <2>3, <2>4
<1>8. ASSUME NEW w \in Workers, Begin(w) \/ Step(w) \/ Crash(w) PROVE StockInv'
  <2> DEFINE weighs == {"readHolds", "capHeld", "capBought", "createHold"}
  <2>1. CASE req'[w].pc \notin weighs
    BY <1>1, <1>6, <1>8, <2>1
  <2>2. CASE req'[w].pc \in weighs
    <3>1. CASE ReadSold(w) \/ ReadHolds(w) \/ CapHeld(w) \/ CapBought(w) \/ CreateHold(w)
      BY <1>2, <1>3, <1>4, <1>5, <1>6, <2>2, <3>1
    <3>2. CASE ~ReadSold(w) /\ ~ReadHolds(w) /\ ~CapHeld(w) /\ ~CapBought(w) /\ ~CreateHold(w)
      <4> USE <1>q DEF At, Goto, Finish, Idle, Request, TypeOK, RequestsOK
      <4>1. CASE Begin(w)
        <5>1. ASSUME NEW k \in Keys, BeginHold(w, k) PROVE req'[w].pc = "holdLookup"
          BY <5>1 DEF BeginHold
        <5>2. ASSUME NEW p \in Payments, BeginIntent(w, p) PROVE req'[w].pc = "intentRead"
          BY <5>2 DEF BeginIntent
        <5>3. ASSUME NEW p \in Payments, BeginConfirm(w, p) PROVE req'[w].pc = "lookup"
          BY <5>3 DEF BeginConfirm
        <5>4. req'[w].pc \in {"holdLookup", "intentRead", "lookup"}
          BY <4>1, <5>1, <5>2, <5>3 DEF Begin
        <5> QED BY <2>2, <5>4
      <4>2. CASE Crash(w)
        BY <2>2, <4>2 DEF Crash
      <4>3. CASE HoldLookup(w)
        BY <2>2, <4>3 DEF HoldLookup
      <4>4. CASE IntentStep(w)
        BY <2>2, <4>4 DEF IntentStep, IntentRead, IntentCheck
      <4>5. CASE Lookup(w) \/ ReadHold(w) \/ CheckHold(w) \/ Verify(w) \/ SaveOrder(w)
                   \/ ConvertHold(w)
        BY <2>2, <4>5 DEF Lookup, ReadHold, CheckHold, Verify, SaveOrder, ConvertHold
      <4>6. CASE RedeemPromo(w) \/ IssueSeat(w) \/ RecordLedger(w) \/ RecordSale(w)
                   \/ RecordCommission(w)
        BY <2>2, <4>6 DEF RedeemPromo, IssueSeat, RecordLedger, RecordSale, RecordCommission
      <4> QED BY <1>8, <3>2, <4>1, <4>2, <4>3, <4>4, <4>5, <4>6
              DEF Step, CreateHoldStep, ConfirmStep
    <3> QED BY <3>1, <3>2
  <2> QED BY <2>1, <2>2
<1> QED BY <1>7, <1>8 DEF Next

\* With one request in flight at a time, compare-and-set creates and no order
\* locked for a refund, live carts and orders together stay within the tier's
\* quantity, and each buyer's within the cap: the two reads and the write of a
\* hold then see one state.  Both fail when requests overlap, and the stock when
\* a rejected refund brings back an order whose tickets were sold again.
THEOREM StockKeptSerially ==
  ASSUME Driver = "memory", \A v, w \in Workers : v = w, MaxRefunds = 0
  PROVE  Spec => [](NeverOversold /\ CapRespected)
<1>1. Init => StockInv
  <2> SUFFICES ASSUME Init PROVE StockInv
    OBVIOUS
  <2>1. Taken = {}
    BY DEF Init, Taken, Counted, NoHold, Idle, HoldsOf, Bought
  <2>2. Units({}) = {} /\ \A u : {} \cap KeysOf(u) = {}
    BY DEF Units
  <2>3. Size({}) = 0
    BY <2>2, FS_EmptySet DEF Size
  <2>4. Size(Taken) = 0 /\ \A u : Size(Taken \cap KeysOf(u)) = 0
    BY <2>1, <2>2, <2>3, Zenon
  <2>5. Stock \in Nat /\ MaxPerUser \in Nat
    BY ShapeAssumption
  <2> QED BY <2>4, <2>5 DEF Init, StockInv, Weighed, Idle
<1>2. TypeOK /\ OrdersInv /\ StockInv => NeverOversold /\ CapRespected
  <2> SUFFICES ASSUME TypeOK, OrdersInv, StockInv PROVE NeverOversold /\ CapRespected
    OBVIOUS
  <2>1. ASSUME NEW ks \in SUBSET Keys, NEW n \in Nat, Size(Taken \cap ks) <= n
        PROVE  Committed(ks) <= n
    <3>1. Taken \cap ks \in SUBSET Keys
      OBVIOUS
    <3>2. Size(Taken \cap ks) \in Nat
      BY <3>1, UnitsFinite
    <3>3. Committed(ks) <= Size(Taken \cap ks)
      BY CommittedIsTaken
    <3>4. Committed(ks) \in Int
      <4> DEFINE bought == {p \in Payments : orders[p] # "none" /\ HoldOf[p] \in ks}
                 held == {k \in ks : Counted(k) /\ \A p \in bought : HoldOf[p] # k}
      <4>1. bought \in SUBSET Payments /\ Apart(bought) /\ held \in SUBSET Keys
        BY DEF OrdersInv, OneOrderPerHold, Apart
      <4>2. Committed(ks) = Size(held) + Cardinality(Tickets(bought))
        BY DEF Committed, Size, Units, Tickets
      <4> HIDE DEF bought, held
      <4>3. Size(held) \in Nat /\ Cardinality(Tickets(bought)) \in Nat
        BY <4>1, TicketsAreUnits, UnitsFinite
      <4> QED BY <4>2, <4>3
    <3> QED BY <2>1, <3>2, <3>3, <3>4
  <2>2. Stock \in Nat /\ MaxPerUser \in Nat
    BY ShapeAssumption
  <2>3. Taken \cap Keys = Taken /\ Keys \in SUBSET Keys /\ \A u : KeysOf(u) \in SUBSET Keys
    BY DEF Taken, KeysOf
  <2>4. NeverOversold
    <3>1. Size(Taken \cap Keys) <= Stock
      BY <2>3 DEF StockInv
    <3> QED BY <2>1, <2>2, <2>3, <3>1 DEF NeverOversold
  <2>5. CapRespected
    <3>1. ASSUME MaxPerUser # 0, NEW u \in Users PROVE Committed(KeysOf(u)) <= MaxPerUser
      <4>1. Size(Taken \cap KeysOf(u)) <= MaxPerUser
        BY <3>1 DEF StockInv
      <4> QED BY <2>1, <2>2, <2>3, <4>1
    <3> QED BY <3>1 DEF CapRespected
  <2> QED BY <2>4, <2>5
<1> QED
  BY <1>1, <1>2, StockStep, OrdersCorrect, HoldsCorrect, FlowCorrect, TypeCorrect, PTL DEF Spec
=============================================================================
