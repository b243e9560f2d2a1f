---------------------------- MODULE DoorTickets ----------------------------
(***************************************************************************)
(* A walk-up guest buys a ticket at the door and is admitted with it: one  *)
(* request stores a paid order in three writes, issues the tickets,        *)
(* admits and records each guest, and settles the revenue.                 *)
(*                                                                         *)
(* The order is named by the request's idempotency key, and a request that *)
(* finds the order answers with it.  The gateway runs one request of a key *)
(* at a time (Idempotency); a request that fails or dies frees its key, at *)
(* once or when the record expires, and is sent again.                     *)
(***************************************************************************)
EXTENDS Requests, Integers

CONSTANTS
  Keys,           \* idempotency keys, one for each guest at the door
  Capacity,       \* places of the one ticket tier
  Price,          \* of a ticket, in paise
  Plans,          \* what the plan of the host may be when a sale is settled
  VenueRates      \* and the venue's share, a percentage

VARIABLES
  sale,       \* the order of each key
  tickets,    \* tickets of each order: not issued, or how many have entered
  scans,      \* admissions of each order in the scan ledger
  revenue,    \* what each order has been settled to
  answered    \* keys whose guest has been told of a sale

doorTicketVars == <<sale, tickets, scans, revenue, answered>>

OrderAt(versions) ==
  [status : {"pending", "awaiting_payment", "paid"}, quantity : 1..Capacity, version : versions]
Order == OrderAt(1..3)

ASSUME DoorTicketAssumption == Capacity \in Nat /\ Price \in Nat /\ None \notin OrderAt(Nat)

DoorTicketTypeOK ==
  /\ sale \in [Keys -> Order \cup {None}]
  /\ \A k \in Keys : tickets[k] = None \/ tickets[k] \in 0..Capacity
  /\ scans \in [Keys -> 0..Capacity]
  /\ answered \subseteq Keys

---------------------------------------------------------------------------
(* How the money of one order is split between the platform, the venue,    *)
(* the promoter and the host.  Amounts are integer paise, rates are        *)
(* percentages; every share but the host's is rounded on its own, and the  *)
(* host takes what is left.                                                *)

\* What Math.round makes of a percentage of an amount: the rate is a binary
\* fraction, so a half may fall to either side.
Rounded(amount, rate) ==
  {n \in 0..amount : /\ 100 * n <= amount * rate + 50
                     /\ amount * rate <= 100 * n + 50}

\* The platform's fee by the plan of the host; a host with no plan on file pays as
\* on the basic one.
PlatformFeePercentFor(plan) ==
  IF plan = "diamond" THEN 10 ELSE IF plan = "silver" THEN 12 ELSE 15

Split(gross, fee, venue, promoter) ==
  [platformFee |-> fee, venueShare |-> venue, promoterCommission |-> promoter,
   hostPayout |-> gross - fee - venue - promoter]

ComputeSettlementSplit(gross, platformRate, venueRate, promoterRate) ==
  {Split(gross, fee, venue, promoter) :
     fee \in Rounded(gross, platformRate), venue \in Rounded(gross, venueRate),
     promoter \in Rounded(gross, promoterRate)}

\* The commission frozen at checkout takes the place of the computed one.
WithCommission(split, gross, commission) ==
  Split(gross, split.platformFee, split.venueShare, commission)

\* A commission that exceeds what the platform and the venue leave is refused.
Distributable(split, gross) ==
  /\ split.promoterCommission >= 0
  /\ split.promoterCommission <= gross - split.platformFee - split.venueShare

\* What a recorded sale may be split into: nothing when the commission is refused.
\* `frozen` holds the commission frozen at checkout, if there is one.
SettlementLegs(gross, plan, venueRate, promoterRate, frozen) ==
  LET computed == ComputeSettlementSplit(gross, PlatformFeePercentFor(plan), venueRate,
                                         promoterRate)
      taken == IF frozen = {} THEN computed
               ELSE {WithCommission(s, gross, commission) : s \in computed, commission \in frozen}
  IN {s \in taken : Distributable(s, gross)}

\* "platformFee + venueShare + promoterCommission + hostPayout == grossAmount", and
\* "Always non-negative".
LegsAreSound(legs, gross) ==
  /\ legs.platformFee + legs.venueShare + legs.promoterCommission + legs.hostPayout = gross
  /\ \A leg \in DOMAIN legs : legs[leg] >= 0

---------------------------------------------------------------------------
(* The rules.                                                              *)

CreateOrder(quantity) == [status |-> "pending", quantity |-> quantity, version |-> 1]
AttachPaymentIntent(o) ==
  When(o.status = "pending", Bump([o EXCEPT !.status = "awaiting_payment"]))
MarkPaid(o) == When(o.status = "awaiting_payment", Bump([o EXCEPT !.status = "paid"]))

IsPaid(k) == sale[k] # None /\ sale[k].status = "paid"

\* Face value: no fee, no discount.
DoorPricing(o) == Price * o.quantity

\* Paid orders alone take places; nobody holds one at the door.
SoldCount(K) == Cardinality({s \in K \X (1..Capacity) :
                               IsPaid(s[1]) /\ s[2] <= sale[s[1]].quantity})
Available == IF SoldCount(Keys) > Capacity THEN 0 ELSE Capacity - SoldCount(Keys)

---------------------------------------------------------------------------
(* One request, write by write.                                            *)

SaleKept == UNCHANGED <<sale, tickets, scans, revenue, answered>>
OnlySale == UNCHANGED <<tickets, scans, revenue, answered>>

PostTicketSale(c) ==
  \E k \in Keys, quantity \in 1..Capacity :
    /\ \A d \in Calls : call[d].on # k
    /\ Arrive(c, "sell", "operator", k, quantity)
    /\ SaleKept

\* An order under the key is answered as it is.
FindSale(c) ==
  LET k == call[c].on IN
  /\ At(c, "sell", "read") /\ UNCHANGED <<sale, tickets, scans, revenue>>
  /\ IF sale[k] # None THEN answered' = answered \cup {k} /\ Leave(c)
     ELSE UNCHANGED answered /\ Goto(c, "check", None)

CheckAvailable(c) ==
  /\ At(c, "sell", "check") /\ SaleKept
  /\ Decide(c, When(Available >= call[c].arg, CreateOrder(call[c].arg)), "order")

\* Mutation of AfterPayment: the money is settled and the tickets forgotten.
SettlesAtOnce == "settle"

AfterPayment == "issue"

\* The order walks its own states, each of them saved.
SaveOrder(c) ==
  LET q == call[c] IN
  /\ At(c, "sell", "order") /\ OnlySale
  /\ sale' = Written(sale, q.on, q.row)
  /\ IF q.row.status = "paid" THEN Goto(c, AfterPayment, q.row)
     ELSE Decide(c, AttachPaymentIntent(q.row) \cup MarkPaid(q.row), "order")

\* The rows of the tickets are written together.
IssueEntitlements(c) ==
  LET q == call[c] IN
  /\ At(c, "sell", "issue")
  /\ tickets' = [tickets EXCEPT ![q.on] = 0]
  /\ Goto(c, "admit", q.row)
  /\ UNCHANGED <<sale, scans, revenue, answered>>

ClaimAdmission(c) ==
  LET q == call[c] IN
  /\ At(c, "sell", "admit")
  /\ tickets' = [tickets EXCEPT ![q.on] = @ + 1]
  /\ Goto(c, "scan", q.row)
  /\ UNCHANGED <<sale, scans, revenue, answered>>

\* Each ticket is claimed, then recorded, before the next one.
RecordScan(c) ==
  LET q == call[c] IN
  /\ At(c, "sell", "scan")
  /\ scans' = [scans EXCEPT ![q.on] = @ + 1]
  /\ Goto(c, IF tickets[q.on] < q.row.quantity THEN "admit" ELSE "settle", q.row)
  /\ UNCHANGED <<sale, tickets, revenue, answered>>

\* The host's plan and the partnership's rate are those of the moment; no promoter
\* brings a guest to the door.
LegsAt(o, plan, rate) == SettlementLegs(DoorPricing(o), plan, rate, 0, {})
Legs(o) == UNION {LegsAt(o, plan, rate) : plan \in Plans, rate \in VenueRates}
Refusable(o) == \E plan \in Plans, rate \in VenueRates : LegsAt(o, plan, rate) = {}

\* The legs are written in one transaction, and those whose key is there are passed over.
CreateBatch(k, legs) ==
  revenue' = IF revenue[k] = None THEN [revenue EXCEPT ![k] = legs] ELSE revenue

\* Shares that exceed the price are refused, and the request fails with the
\* guest inside.  A sale settles once: no later request of its key gets here.
SettleOrder(c) ==
  LET q == call[c] IN
  /\ At(c, "sell", "settle") /\ UNCHANGED <<sale, tickets, scans, answered>>
  /\ \/ Refusable(q.row) /\ Leave(c) /\ UNCHANGED revenue
     \/ /\ \E legs \in Legs(q.row) : CreateBatch(q.on, legs)
        /\ Goto(c, "answer", q.row)

AnswerSale(c) ==
  /\ At(c, "sell", "answer")
  /\ answered' = answered \cup {call[c].on} /\ Leave(c)
  /\ UNCHANGED <<sale, tickets, scans, revenue>>

DoorTicketInit ==
  /\ sale = [k \in Keys |-> None] /\ tickets = [k \in Keys |-> None]
  /\ scans = [k \in Keys |-> 0] /\ revenue = [k \in Keys |-> None]
  /\ answered = {}

DoorTicketStep(c) ==
  \/ PostTicketSale(c) \/ FindSale(c) \/ CheckAvailable(c) \/ SaveOrder(c)
  \/ IssueEntitlements(c) \/ ClaimAdmission(c) \/ RecordScan(c) \/ SettleOrder(c)
  \/ AnswerSale(c)

---------------------------------------------------------------------------

\* "A venue's numbers add up at the end of the night": a sale is in the finance
\* ledger only with its legs adding up to its price, every one of its tickets
\* issued, and every guest of it admitted and in the scan ledger.
SettledSalesAreWhole ==
  \A k \in Keys : revenue[k] # None =>
    /\ IsPaid(k) /\ LegsAreSound(revenue[k], DoorPricing(sale[k]))
    /\ tickets[k] = sale[k].quantity /\ scans[k] = sale[k].quantity

\* "The guest already paid and already walked in": a guest who is told of a sale,
\* the first time or again, has a paid order and its tickets.
AnsweredSalesAreReal ==
  \A k \in answered : IsPaid(k) /\ tickets[k] = sale[k].quantity
=============================================================================
