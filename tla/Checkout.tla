------------------------------ MODULE Checkout ------------------------------
(***************************************************************************)
(* Ticket checkout: cart holds, inventory, payment intents, the dual-path  *)
(* payment confirmation and the door's admission claim, over the two       *)
(* storage drivers of the backend.                                         *)
(*                                                                         *)
(* Every repository call is one atomic step; between two `await`s of a     *)
(* request any other request may run.  One event and one ticket tier; a    *)
(* hold is named by its idempotency key (`HOLD-{key}`), an order by the    *)
(* payment it was created for (`ORD-{paymentId}`), an entitlement by its   *)
(* order and its index in it.                                              *)
(***************************************************************************)
EXTENDS Naturals, FiniteSets

CONSTANTS
  Keys,        \* idempotency keys of hold requests
  Payments,    \* payments the provider may take
  Users,       \* buyers
  Workers,     \* requests in flight at a time
  HoldOf,      \* the hold a payment's intent names in its metadata
  Tight,       \* payments whose commission, frozen with the cart, may be more than
               \* the plan's fee and the venue's share leave when they are settled
  Owner,       \* the buyer of a hold
  Qty,         \* the quantity a hold asks for
  MaxLineQty,  \* the request schema's largest quantity (100)
  Stock,       \* tier.quantity
  MaxPerUser,  \* tier.maxPerUser, 0 when the tier has no cap
  Driver,      \* "memory" or "firestore"
  MaxRefunds,  \* bound: refund locks taken in one behaviour
  None

ASSUME DriverAssumption == Driver \in {"memory", "firestore"}

ASSUME ShapeAssumption ==
  /\ HoldOf \in [Payments -> Keys]
  /\ Tight \subseteq Payments
  /\ Owner \in [Keys -> Users]
  /\ MaxLineQty \in Nat /\ Qty \in [Keys -> 1..MaxLineQty]
  /\ Stock \in Nat /\ MaxPerUser \in Nat /\ MaxRefunds \in Nat
  /\ IsFiniteSet(Keys) /\ IsFiniteSet(Payments)
  /\ None \notin Payments /\ None \notin Keys

VARIABLES
  holds,       \* cart reservations
  expired,     \* holds whose expiresAt lies in the past
  orders,      \* status of the order of each payment
  ents,        \* status of each entitlement
  captured,    \* provider's view of each payment
  redeemed,    \* orders with a promo redemption row
  ledger,      \* orders with ledger entries
  attributed,  \* orders recorded on their referral link
  credited,    \* leaderboard increments made for each order
  admitted,    \* successful admissions of each entitlement (history)
  refunds,     \* refund locks taken so far
  sweep,       \* holds the running cleanup read as active and expired
  req          \* the requests in flight

money   == <<captured, refunds>>
settled == <<redeemed, ledger, attributed, credited>>
door    == <<ents, admitted>>
vars == <<holds, expired, orders, ents, captured, redeemed, ledger,
          attributed, credited, admitted, refunds, sweep, req>>

---------------------------------------------------------------------------
(* Entities.                                                               *)

\* The units a hold reserves, and the tickets the order of a payment has.
UnitsOf(k) == {k} \X (1..Qty[k])
SeatsOf(p) == {p} \X (1..Qty[HoldOf[p]])
Seats == UNION {SeatsOf(p) : p \in Payments}

Hold == [status : {"absent", "active", "converted", "released"},
         order  : Payments \cup {None}]
NoHold == [status |-> "absent", order |-> None]
ActiveHold == [status |-> "active", order |-> None]

HoldPCs == {"holdLookup", "readSold", "readHolds", "capHeld", "capBought",
            "createHold"}
PayPCs == {"intentRead", "intentCheck",
           "lookup", "readHold", "checkHold", "verify", "save", "convert",
           "redeem", "issue", "ledger", "attribute", "credit"}

\* What a request keeps between two awaits: where it is, what it is about, the
\* hold it read, and a number (sold or held units, or the next ticket index).
Request == [pc : {"idle"} \cup HoldPCs \cup PayPCs,
            key : Keys \cup {None}, pay : Payments \cup {None},
            seen : Hold, n : Nat]
Idle == [pc |-> "idle", key |-> None, pay |-> None, seen |-> NoHold, n |-> 0]

Goto(w, l) == req' = [req EXCEPT ![w].pc = l]
Finish(w) == req' = [req EXCEPT ![w] = Idle]
At(w, l) == req[w].pc = l

---------------------------------------------------------------------------
(* Reads.                                                                  *)

Counted(k) == holds[k].status = "active" /\ ~expired[k]

Held(ks) == Cardinality(UNION {UnitsOf(k) : k \in {j \in ks : Counted(j)}})

\* Only orders in status `paid` count as sold: one locked for a refund does not.
Sold(ps) == Cardinality(UNION {SeatsOf(p) : p \in {q \in ps : orders[q] = "paid"}})

KeysOf(u) == {k \in Keys : Owner[k] = u}
PaymentsOf(u) == {p \in Payments : Owner[HoldOf[p]] = u}

---------------------------------------------------------------------------
Init ==
  /\ holds = [k \in Keys |-> NoHold]
  /\ expired = [k \in Keys |-> FALSE]
  /\ orders = [p \in Payments |-> "none"]
  /\ ents = [s \in Seats |-> "none"]
  /\ captured = [p \in Payments |-> "none"]
  /\ redeemed = {} /\ ledger = {} /\ attributed = {}
  /\ credited = [p \in Payments |-> 0]
  /\ admitted = [s \in Seats |-> 0]
  /\ refunds = 0
  /\ sweep = {}
  /\ req = [w \in Workers |-> Idle]

---------------------------------------------------------------------------
(* POST /checkout/holds: CheckoutService.createHold.                       *)

\* The route's idempotency claim keeps two requests with one key apart.
BeginHold(w, k) ==
  /\ At(w, "idle")
  /\ \A v \in Workers : req[v].key # k
  /\ req' = [req EXCEPT ![w] = [Idle EXCEPT !.pc = "holdLookup", !.key = k]]
  /\ UNCHANGED <<holds, expired, orders, door, money, settled, sweep>>

HoldLookup(w) ==
  /\ At(w, "holdLookup")
  /\ IF holds[req[w].key].status # "absent" THEN Finish(w) ELSE Goto(w, "readSold")
  /\ UNCHANGED <<holds, expired, orders, door, money, settled, sweep>>

ReadSold(w) ==
  /\ At(w, "readSold")
  /\ req' = [req EXCEPT ![w].pc = "readHolds", ![w].n = Sold(Payments)]
  /\ UNCHANGED <<holds, expired, orders, door, money, settled, sweep>>

\* The second read of getAvailableQuantity, the comparison with the quantity
\* asked for, and whether the tier has a per-user cap at all.
ReadHolds(w) ==
  /\ At(w, "readHolds")
  /\ LET enough == req[w].n + Held(Keys) + Qty[req[w].key] <= Stock
     IN  IF ~enough THEN Finish(w)
         ELSE Goto(w, IF MaxPerUser = 0 THEN "createHold" ELSE "capHeld")
  /\ UNCHANGED <<holds, expired, orders, door, money, settled, sweep>>

CapHeld(w) ==
  /\ At(w, "capHeld")
  /\ req' = [req EXCEPT ![w].pc = "capBought",
                        ![w].n = Held(KeysOf(Owner[req[w].key]))]
  /\ UNCHANGED <<holds, expired, orders, door, money, settled, sweep>>

CapBought(w) ==
  /\ At(w, "capBought")
  /\ LET k == req[w].key
     IN  IF req[w].n + Sold(PaymentsOf(Owner[k])) + Qty[k] > MaxPerUser
         THEN Finish(w) ELSE Goto(w, "createHold")
  /\ UNCHANGED <<holds, expired, orders, door, money, settled, sweep>>

\* Neither driver looks for an earlier row: memory uses Map.set, firestore a
\* plain set because the version is 1.
CreateHold(w) ==
  /\ At(w, "createHold")
  /\ holds' = [holds EXCEPT ![req[w].key] = ActiveHold]
  /\ expired' = [expired EXCEPT ![req[w].key] = FALSE]
  /\ Finish(w)
  /\ UNCHANGED <<orders, door, money, settled, sweep>>

---------------------------------------------------------------------------
(* POST /payments/attempts: CheckoutService.createPaymentIntent.           *)

\* `release` and `convertToOrder` rewrite whatever row they find, in both
\* drivers, and keep its other fields.
Release(k) ==
  holds' = IF holds[k].status = "absent" THEN holds
           ELSE [holds EXCEPT ![k].status = "released"]

ConvertToOrder(k, p) ==
  holds' = IF holds[k].status = "absent" THEN holds
           ELSE [holds EXCEPT ![k] = [status |-> "converted", order |-> p]]

BeginIntent(w, p) ==
  /\ At(w, "idle")
  /\ captured[p] = "none"
  /\ req' = [req EXCEPT ![w] = [Idle EXCEPT !.pc = "intentRead", !.pay = p]]
  /\ UNCHANGED <<holds, expired, orders, door, money, settled, sweep>>

IntentRead(w) ==
  /\ At(w, "intentRead")
  /\ LET h == holds[HoldOf[req[w].pay]]
     IN  IF h.status # "active" THEN Finish(w)
         ELSE req' = [req EXCEPT ![w].pc = "intentCheck", ![w].seen = h]
  /\ UNCHANGED <<holds, expired, orders, door, money, settled, sweep>>

\* An expired hold is released; otherwise the provider creates the intent.
IntentCheck(w) ==
  /\ At(w, "intentCheck")
  /\ LET p == req[w].pay
     IN  IF expired[HoldOf[p]]
         THEN Release(HoldOf[p]) /\ UNCHANGED captured
         ELSE /\ captured' = [captured EXCEPT ![p] = IF @ = "none" THEN "intent" ELSE @]
              /\ UNCHANGED holds
  /\ Finish(w)
  /\ UNCHANGED <<expired, orders, door, refunds, settled, sweep>>

---------------------------------------------------------------------------
(* Webhook and redirect: CheckoutService.confirmPayment.                   *)

\* Both paths, and every retry of either, enter here: any number of requests
\* for the same payment may be in flight.
BeginConfirm(w, p) ==
  /\ At(w, "idle")
  /\ captured[p] # "none"
  /\ req' = [req EXCEPT ![w] = [Idle EXCEPT !.pc = "lookup", !.pay = p]]
  /\ UNCHANGED <<holds, expired, orders, door, money, settled, sweep>>

\* getByPaymentId: a payment that already has an order is a no-op.
Lookup(w) ==
  /\ At(w, "lookup")
  /\ IF orders[req[w].pay] # "none" THEN Finish(w) ELSE Goto(w, "readHold")
  /\ UNCHANGED <<holds, expired, orders, door, money, settled, sweep>>

\* A converted hold converges on its order; any other inactive one is refused.
ReadHold(w) ==
  /\ At(w, "readHold")
  /\ LET h == holds[HoldOf[req[w].pay]]
     IN  IF h.status # "active" THEN Finish(w)
         ELSE req' = [req EXCEPT ![w].pc = "checkHold", ![w].seen = h]
  /\ UNCHANGED <<holds, expired, orders, door, money, settled, sweep>>

\* The decision uses the row read one step earlier.
CheckHold(w) ==
  /\ At(w, "checkHold")
  /\ LET k == HoldOf[req[w].pay]
     IN  IF expired[k] THEN Release(k) /\ Finish(w)
         ELSE Goto(w, "verify") /\ UNCHANGED holds
  /\ UNCHANGED <<expired, orders, door, money, settled, sweep>>

\* Mutation of Verify: the caller's word that the payment was captured is taken.
VerifyTrusting(w) ==
  /\ At(w, "verify")
  /\ Goto(w, "save")
  /\ UNCHANGED <<holds, expired, orders, door, money, settled, sweep>>

\* Mutation of Verify: only an uncaptured payment passes.
VerifyInverted(w) ==
  /\ At(w, "verify")
  /\ IF captured[req[w].pay] = "captured" THEN Finish(w) ELSE Goto(w, "save")
  /\ UNCHANGED <<holds, expired, orders, door, money, settled, sweep>>

\* The provider is asked again; the amount is the hold's by construction.
Verify(w) ==
  /\ At(w, "verify")
  /\ IF captured[req[w].pay] # "captured" THEN Finish(w) ELSE Goto(w, "save")
  /\ UNCHANGED <<holds, expired, orders, door, money, settled, sweep>>

\* Mutation of CreateLoses: a create never looks for the row it replaces.
CreateOverwrites(exists) == FALSE /\ exists

\* A version-1 write: the memory driver refuses it when the row exists and the
\* caller converges on the winner, firestore overwrites.
CreateLoses(exists) == Driver = "memory" /\ exists

SaveOrder(w) ==
  /\ At(w, "save")
  /\ LET p == req[w].pay
     IN  IF CreateLoses(orders[p] # "none")
         THEN Finish(w) /\ UNCHANGED orders
         ELSE orders' = [orders EXCEPT ![p] = "paid"] /\ Goto(w, "convert")
  /\ UNCHANGED <<holds, expired, door, money, settled, sweep>>

ConvertHold(w) ==
  /\ At(w, "convert")
  /\ ConvertToOrder(HoldOf[req[w].pay], req[w].pay)
  /\ Goto(w, "redeem")
  /\ UNCHANGED <<expired, orders, door, money, settled, sweep>>

\* Mutation of RedeemPromo: settlement first, tickets never.
RedeemPromoThenSettle(w) ==
  /\ At(w, "redeem")
  /\ redeemed' = redeemed \cup {req[w].pay}
  /\ Goto(w, "ledger")
  /\ UNCHANGED <<holds, expired, orders, door, money, ledger, attributed,
                 credited, sweep>>

\* The redemption row's id is derived from the order: idempotent.
RedeemPromo(w) ==
  /\ At(w, "redeem")
  /\ redeemed' = redeemed \cup {req[w].pay}
  /\ req' = [req EXCEPT ![w].pc = "issue", ![w].n = 1]
  /\ UNCHANGED <<holds, expired, orders, door, money, ledger, attributed,
                 credited, sweep>>

\* Mutation of IssueSeat: the last ticket of the order is left out.
IssueSeatShort(w) ==
  /\ At(w, "issue")
  /\ ents' = [ents EXCEPT ![<<req[w].pay, req[w].n>>] = "valid"]
  /\ IF req[w].n + 1 < Qty[HoldOf[req[w].pay]]
     THEN req' = [req EXCEPT ![w].n = @ + 1]
     ELSE Goto(w, "ledger")
  /\ UNCHANGED <<holds, expired, orders, admitted, money, settled, sweep>>

\* Entitlements are saved one by one, in index order, as version-1 rows.  A
\* lost create is not caught: the request fails.
IssueSeat(w) ==
  /\ At(w, "issue")
  /\ LET s == <<req[w].pay, req[w].n>>
     IN  IF CreateLoses(ents[s] # "none")
         THEN Finish(w) /\ UNCHANGED ents
         ELSE /\ ents' = [ents EXCEPT ![s] = "valid"]
              /\ IF req[w].n < Qty[HoldOf[req[w].pay]]
                 THEN req' = [req EXCEPT ![w].n = @ + 1]
                 ELSE Goto(w, "ledger")
  /\ UNCHANGED <<holds, expired, orders, admitted, money, settled, sweep>>

\* Mutation of RecordLedger: an order that is already settled is settled, and
\* any other one is left for a later confirmation.
RecordLedgerReplayOnly(w) ==
  /\ At(w, "ledger")
  /\ IF req[w].pay \in ledger THEN Goto(w, "attribute") ELSE Finish(w)
  /\ UNCHANGED <<holds, expired, orders, door, money, settled, sweep>>

\* A settlement that is not a replay refuses a commission that exceeds what the
\* terms of the moment leave: the request fails, the order and its tickets stay.
SettlementRefuses(p) == p \in Tight /\ p \notin ledger

\* recordTicketSale: one transaction, idempotent per order.
RecordLedger(w) ==
  /\ At(w, "ledger")
  /\ \/ ledger' = ledger \cup {req[w].pay} /\ Goto(w, "attribute")
     \/ SettlementRefuses(req[w].pay) /\ UNCHANGED ledger /\ Finish(w)
  /\ UNCHANGED <<holds, expired, orders, door, money, redeemed, attributed,
                 credited, sweep>>

\* referralLinks.recordSale: idempotent per order.
RecordSale(w) ==
  /\ At(w, "attribute")
  /\ attributed' = attributed \cup {req[w].pay}
  /\ Goto(w, "credit")
  /\ UNCHANGED <<holds, expired, orders, door, money, redeemed, ledger,
                 credited, sweep>>

\* leaderboard.recordCommission: an increment, not keyed by the order.
RecordCommission(w) ==
  /\ At(w, "credit")
  /\ credited' = [credited EXCEPT ![req[w].pay] = @ + 1]
  /\ Finish(w)
  /\ UNCHANGED <<holds, expired, orders, door, money, redeemed, ledger,
                 attributed, sweep>>

---------------------------------------------------------------------------
(* The environment and the other writers of the same rows.                 *)

\* The buyer pays: the provider captures the money of an intent.
Capture(p) ==
  /\ captured[p] = "intent"
  /\ captured' = [captured EXCEPT ![p] = "captured"]
  /\ UNCHANGED <<holds, expired, orders, door, refunds, settled, sweep, req>>

\* Ten minutes pass.
Expire(k) ==
  /\ holds[k].status # "absent" /\ ~expired[k]
  /\ expired' = [expired EXCEPT ![k] = TRUE]
  /\ UNCHANGED <<holds, orders, door, money, settled, sweep, req>>

\* Mutation of SweepQuery: the expiry filter is dropped.
SweepQueryAllActive ==
  /\ Driver = "firestore" /\ sweep = {}
  /\ sweep' = {k \in Keys : holds[k].status = "active"}
  /\ sweep' # {}
  /\ UNCHANGED <<holds, expired, orders, door, money, settled, req>>

\* The five-minute timer exists only over firestore: a query, then a batch that
\* writes back the rows as the query saw them, released.
SweepQuery ==
  /\ Driver = "firestore" /\ sweep = {}
  /\ sweep' = {k \in Keys : holds[k].status = "active" /\ expired[k]}
  /\ sweep' # {}
  /\ UNCHANGED <<holds, expired, orders, door, money, settled, req>>

SweepCommit ==
  /\ sweep # {}
  /\ holds' = [k \in Keys |-> IF k \in sweep
                              THEN [status |-> "released", order |-> None]
                              ELSE holds[k]]
  /\ sweep' = {}
  /\ UNCHANGED <<expired, orders, door, money, settled, req>>

\* claimAdmission: one transaction over the entitlement alone.
ClaimAdmission(s) ==
  /\ ents[s] = "valid"
  /\ ents' = [ents EXCEPT ![s] = "redeemed"]
  /\ admitted' = [admitted EXCEPT ![s] = @ + 1]
  /\ UNCHANGED <<holds, expired, orders, money, settled, sweep, req>>

\* The admin console's refund request locks the order, a rejection restores it
\* (RefundFlow models the requests).
LockForRefund(p) ==
  /\ orders[p] = "paid" /\ refunds < MaxRefunds
  /\ orders' = [orders EXCEPT ![p] = "refund_requested"]
  /\ refunds' = refunds + 1
  /\ UNCHANGED <<holds, expired, door, captured, settled, sweep, req>>

\* Mutation of RestoreOrder: the restored status is a hard-coded guess.
RestoreOrderHardCoded(p) ==
  /\ orders[p] = "refund_requested"
  /\ orders' = [orders EXCEPT ![p] = "confirmed"]
  /\ UNCHANGED <<holds, expired, door, money, settled, sweep, req>>

RestoreOrder(p) ==
  /\ orders[p] = "refund_requested"
  /\ orders' = [orders EXCEPT ![p] = "paid"]
  /\ UNCHANGED <<holds, expired, door, money, settled, sweep, req>>

\* A process dies between two repository calls.  Only firestore's rows outlive
\* the process, so only there is the crash followed by anything.
Crash(w) ==
  /\ Driver = "firestore" /\ ~At(w, "idle")
  /\ Finish(w)
  /\ UNCHANGED <<holds, expired, orders, door, money, settled, sweep>>

---------------------------------------------------------------------------
CreateHoldStep(w) ==
  \/ HoldLookup(w) \/ ReadSold(w) \/ ReadHolds(w)
  \/ CapHeld(w) \/ CapBought(w) \/ CreateHold(w)

IntentStep(w) == IntentRead(w) \/ IntentCheck(w)

ConfirmStep(w) ==
  \/ Lookup(w) \/ ReadHold(w) \/ CheckHold(w) \/ Verify(w) \/ SaveOrder(w)
  \/ ConvertHold(w) \/ RedeemPromo(w) \/ IssueSeat(w)
  \/ RecordLedger(w) \/ RecordSale(w) \/ RecordCommission(w)

Step(w) == CreateHoldStep(w) \/ IntentStep(w) \/ ConfirmStep(w)

Begin(w) ==
  \/ \E k \in Keys : BeginHold(w, k)
  \/ \E p \in Payments : BeginIntent(w, p) \/ BeginConfirm(w, p)

Environment ==
  \/ \E p \in Payments : Capture(p) \/ LockForRefund(p) \/ RestoreOrder(p)
  \/ \E k \in Keys : Expire(k)
  \/ \E s \in Seats : ClaimAdmission(s)
  \/ SweepQuery \/ SweepCommit

Next ==
  \/ \E w \in Workers : Begin(w) \/ Step(w) \/ Crash(w)
  \/ Environment

Spec == Init /\ [][Next]_vars

\* A request the server has accepted runs on (the event loop is fair); nobody
\* is obliged to start one, pay, scan or refund.
RequestFairness == \A w \in Workers : WF_vars(Step(w))

\* The provider redelivers `payment.captured` until it is answered.
Redelivery == \A p \in Payments : SF_vars(\E w \in Workers : BeginConfirm(w, p))

FairSpec == Spec /\ RequestFairness /\ Redelivery
---------------------------------------------------------------------------
(* Properties.                                                             *)

\* A request in the middle of an operation knows what the operation is about.
RequestsOK ==
  /\ req \in [Workers -> Request]
  /\ \A w \in Workers : /\ req[w].pc \in PayPCs => req[w].pay \in Payments
                        /\ req[w].pc \in HoldPCs => req[w].key \in Keys

\* Types of the rows and of the requests in flight.
TypeOK ==
  /\ holds \in [Keys -> Hold]
  /\ expired \in [Keys -> BOOLEAN]
  /\ orders \in [Payments -> {"none", "paid", "refund_requested"}]
  /\ ents \in [Seats -> {"none", "valid", "redeemed"}]
  /\ captured \in [Payments -> {"none", "intent", "captured"}]
  /\ redeemed \subseteq Payments /\ ledger \subseteq Payments
  /\ attributed \subseteq Payments
  /\ credited \in [Payments -> Nat]
  /\ admitted \in [Seats -> Nat]
  /\ refunds \in 0..MaxRefunds
  /\ sweep \subseteq Keys
  /\ RequestsOK

\* An order exists only for captured money, a ticket or a ledger entry only for
\* an order: whatever mixture of webhooks, redirects, retries and crashes led
\* there (confirmPayment verifies with the provider before it writes).
TicketsFollowMoney ==
  /\ \A p \in Payments : orders[p] # "none" => captured[p] = "captured"
  /\ \A p \in Payments : \A s \in SeatsOf(p) : ents[s] # "none" => orders[p] # "none"
  /\ \A p \in ledger : orders[p] # "none"

\* While a hold is unexpired the inventory's two counts together see its tickets,
\* as units of a live cart or as tickets of a paid order: the conversion leaves no
\* moment in which neither does, and the cleanup gives nothing back before its
\* time.  The tickets of an order that is locked for a refund are not counted.
UnexpiredHoldIsCounted ==
  \A k \in Keys :
    LET made == {p \in Payments : HoldOf[p] = k} IN
    (/\ holds[k].status # "absent" /\ ~expired[k]
     /\ \A p \in made : orders[p] # "refund_requested")
      => Held({k}) + Sold(made) >= Qty[k]

\* A converted hold stays converted, with the order it was converted to.
ConversionIsFinal ==
  [][\A k \in Keys : holds[k].status = "converted" => holds'[k] = holds[k]]_vars

\* Money is settled only for orders whose every ticket exists and whose promo
\* code is spent, and the leaderboard follows the ledger and the referral link.
SettledOrderIsComplete ==
  /\ \A p \in ledger : p \in redeemed /\ \A s \in SeatsOf(p) : ents[s] # "none"
  /\ \A p \in Payments : credited[p] > 0 => p \in ledger \cap attributed

\* A ticket lets one person in, once.
SeatAdmittedOnce == \A s \in Seats : admitted[s] <= 1

\* The promoter leaderboard counts a sale once, however often it is confirmed.
CommissionCountedOnce == \A p \in Payments : credited[p] <= 1

\* The hold's conversion is the single point of contention: one order per hold.
OneOrderPerHold ==
  \A p, q \in Payments :
    orders[p] # "none" /\ orders[q] # "none" /\ HoldOf[p] = HoldOf[q] => p = q

\* Units of live carts not yet bought, plus tickets sold, of some holds.
Committed(ks) ==
  LET bought == {p \in Payments : orders[p] # "none" /\ HoldOf[p] \in ks}
      held   == {k \in ks : Counted(k) /\ \A p \in bought : HoldOf[p] # k}
  IN  Cardinality(UNION {UnitsOf(k) : k \in held})
        + Cardinality(UNION {SeatsOf(p) : p \in bought})

\* Tickets held by live carts and tickets sold never exceed the tier.
NeverOversold == Committed(Keys) <= Stock

\* One buyer's live carts and orders stay within the tier's per-user cap.
CapRespected ==
  MaxPerUser # 0 => \A u \in Users : Committed(KeysOf(u)) <= MaxPerUser

\* A paid order ends up with all its tickets and, unless its settlement may be
\* refused, in the ledger and on the leaderboard: a confirmation that took the
\* money is carried through.
PaidOrderIsFulfilled ==
  \A p \in Payments :
    orders[p] # "none" ~> (/\ \A s \in SeatsOf(p) : ents[s] # "none"
                           /\ p \in Tight \/ (p \in ledger /\ credited[p] > 0))

\* "a paid order became money": every paid order reaches the ledger.
PaidOrderIsSettled == \A p \in Payments : orders[p] # "none" ~> p \in ledger

\* Captured money becomes an order while its hold lasts: redelivery gets there
\* unless the hold expires or another payment used it first.
CapturedMoneyIsOrdered ==
  \A p \in Payments :
    captured[p] = "captured" ~>
      (orders[p] # "none" \/ expired[HoldOf[p]] \/ holds[HoldOf[p]].status # "active")

---------------------------------------------------------------------------
(* The inductive invariant behind the theorems of CheckoutProofs.          *)

AfterLedger == {"attribute", "credit"}
AfterIssue  == {"ledger"} \cup AfterLedger
AfterRedeem == {"issue"} \cup AfterIssue
AfterSave   == {"convert", "redeem"} \cup AfterRedeem

Issued(p) == \A s \in SeatsOf(p) : ents[s] # "none"

\* What a request that is past a write may rely on: the row it wrote is there.
CarriesThrough(w) ==
  LET p == req[w].pay
      pc == req[w].pc
  IN  /\ pc \in {"save"} \cup AfterSave => captured[p] = "captured"
      /\ pc \in AfterSave => orders[p] # "none"
      /\ pc \in AfterRedeem => p \in redeemed
      /\ pc = "issue" => /\ req[w].n \in 1..Qty[HoldOf[p]]
                         /\ \A i \in 1..(req[w].n - 1) : ents[<<p, i>>] # "none"
      /\ pc \in AfterIssue => Issued(p)
      /\ pc \in AfterLedger => p \in ledger
      /\ pc = "credit" => p \in attributed

\* Both drivers.
FlowInv ==
  /\ TicketsFollowMoney
  /\ SettledOrderIsComplete
  /\ \A w \in Workers : CarriesThrough(w)

\* With compare-and-set creates one request carries a payment past its order,
\* and none does once the commission is counted; an entitlement row and the
\* people it let in agree.
OneCarrier ==
  /\ \A v, w \in Workers :
       req[v].pc \in AfterSave /\ req[w].pc \in AfterSave
         /\ req[v].pay = req[w].pay => v = w
  /\ \A p \in Payments : credited[p] > 0 =>
       /\ credited[p] = 1
       /\ \A w \in Workers : req[w].pc \in AfterSave => req[w].pay # p
  /\ \A s \in Seats : admitted[s] = (IF ents[s] = "redeemed" THEN 1 ELSE 0)

CasInv == Driver = "memory" => OneCarrier

\* An unexpired hold is live, or an order has been saved for it.
UnexpiredHoldIsSeen ==
  \A k \in Keys :
    holds[k].status # "absent" /\ ~expired[k]
      => \/ holds[k].status = "active"
         \/ \E p \in Payments : HoldOf[p] = k /\ orders[p] # "none"

\* A hold is made by one request at a time and where no row was found; a hold
\* the cleanup has read exists and stays expired.
HoldsInv ==
  /\ \A v, w \in Workers :
       req[v].pc \in HoldPCs /\ req[w].pc \in HoldPCs /\ req[v].key = req[w].key
         => v = w
  /\ \A w \in Workers :
       req[w].pc \in HoldPCs \ {"holdLookup"} => holds[req[w].key].status = "absent"
  /\ \A k \in sweep : holds[k].status # "absent" /\ expired[k]
  /\ UnexpiredHoldIsSeen

\* The promise of Fulfilment, read off the rows.
Promise == INSTANCE Fulfilment WITH
             ordered <- {p \in Payments : orders[p] # "none"},
             seats   <- ents,
             credits <- credited

\* Confirmation, with all its interleavings, does what Fulfilment promises.
ImplementsFulfilment == Promise!Spec
=============================================================================
