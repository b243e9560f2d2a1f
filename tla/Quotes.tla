------------------------------- MODULE Quotes -------------------------------
(***************************************************************************)
(* What tickets cost: the tiers and promo codes a host puts on sale, the   *)
(* quotes guests ask for and the price their holds freeze.                 *)
(*                                                                         *)
(* A quote reads the tiers, then the promo code, then the promoter's link, *)
(* each in a call of its own; a hold is quoted again inside its idempotent *)
(* run, and is created with that breakdown.  The clock counts days, of a   *)
(* year of `DaysInYear`: a pricing phase is given by two days without a  *)
(* year.  Currency, names and the tiers' other options are left out; what  *)
(* a hold does to the inventory is Checkout's.                             *)
(***************************************************************************)
EXTENDS Requests, Integers, FiniteSetsExt

CONSTANTS
  Classes,        \* ids of the event's tiers
  DoorPrices,     \* prices a tier is given, in paise
  PercentsOff, PaiseOff, \* discounts a promo code is given
  TermsSigned,    \* commission terms a referral link signed
  DaysInYear, LastDay

\* What a link earns on each tier: the tier's own rate and fee, or the link's.
CommissionTerms == [Classes -> [percent : 0..100, flat : Nat]]

ASSUME QuoteAssumption ==
  /\ IsFiniteSet(Classes) /\ IsFiniteSet(DoorPrices) /\ DoorPrices # {}
  /\ DoorPrices \subseteq Nat /\ PaiseOff \subseteq Nat /\ TermsSigned \subseteq CommissionTerms

VARIABLES
  day,       \* the clock
  class,     \* the tier rows
  offer,     \* the event's promo code, None before it is created
  signed     \* the terms the active referral link signed, None without one

quoteVars == <<day, class, offer, signed>>

Days == 0..LastDay

Paise == Nat

TicketPricingPhase == [price : Paise, from : Nat, to : Nat]

\* `least` and `most` bound one order; `window` is None or the days of the sale.
TicketTier ==
  [price : Paise, phases : SUBSET TicketPricingPhase, window : (Days \X Days) \cup {None},
   least : Nat, most : Nat \cup {None}]

PromoCode == [kind : {"percent", "fixed"}, value : Nat, on : SUBSET Classes]

PricingBreakdown ==
  [lines : [Classes -> Nat], unit : [Classes -> Paise], subtotal : Paise, discount : Paise,
   platformFee : Paise, paymentFee : Paise, gst : Paise, total : Paise, commission : Paise]

\* The breakdowns about to be answered, or frozen into a hold.
Quoted ==
  {call[c].row : c \in {d \in Calls : call[d].op \in {"quote", "hold"} /\ call[d].pc = "answer"}}

QuoteTypeOK ==
  /\ day \in Days /\ class \in [Classes -> TicketTier \cup {None}]
  /\ offer \in PromoCode \cup {None} /\ signed \in TermsSigned \cup {None}
  /\ Quoted \subseteq PricingBreakdown

---------------------------------------------------------------------------
(* Tiers and promo codes.                                                  *)

\* A phase starts on the next day of its name, today at the earliest, and ends
\* with the first day of the other name from there on.
ResolvePricingPhase(p, today) ==
  LET from == today + ((p.first - today) % DaysInYear)
  IN [price |-> p.price, from |-> from, to |-> from + ((p.last - p.first) % DaysInYear) + 1]

Overlap(p, q) == p.from < q.to /\ q.from < p.to

CreateTicketTier(input, today) ==
  LET phases == {ResolvePricingPhase(p, today) : p \in input.phases} IN
  When(/\ input.price > 0 /\ input.least >= 1
       /\ input.most # None => input.most >= input.least
       /\ input.window # None => input.window[1] < input.window[2]
       /\ \A p \in phases : p.price > 0
       /\ \A p, q \in phases : p # q => ~Overlap(p, q),
       [input EXCEPT !.phases = phases])

CreatePromoCode(input) ==
  When(input.kind = "percent" => input.value \in 1..100, input)

\* Half up, of a rate in tenths of a percent.
ApplyPercent(paise, tenths) == (paise * tenths + 500) \div 1000

---------------------------------------------------------------------------
(* The pricing engine.                                                     *)

InForce(tier, today) == {p \in tier.phases : p.from <= today /\ today < p.to}

UnitPrice(tier, today) ==
  IF InForce(tier, today) = {} THEN tier.price
  ELSE (CHOOSE p \in InForce(tier, today) : TRUE).price

\* Whether a tier sells `n` units today.
Sells(tier, n, today) ==
  /\ tier # None
  /\ tier.window # None => tier.window[1] <= today /\ today < tier.window[2]
  /\ n >= tier.least /\ (tier.most # None => n <= tier.most)

Cost(lines, unit, on) == MapThenSumSet(LAMBDA k : lines[k] * unit[k], on)

\* Mutation of DiscountFor: a fixed discount is not capped at what it applies to.
DiscountUncapped(promo, lines, unit) ==
  LET eligible == Cost(lines, unit, IF promo.on = {} THEN Classes ELSE promo.on)
  IN IF eligible = 0 THEN 0
     ELSE IF promo.kind = "percent" THEN ApplyPercent(eligible, promo.value * 10) ELSE promo.value

\* What a code takes off: never more than the lines it is for.
DiscountFor(promo, lines, unit) ==
  LET eligible == Cost(lines, unit, IF promo.on = {} THEN Classes ELSE promo.on)
      raw == IF promo.kind = "percent" THEN ApplyPercent(eligible, promo.value * 10)
                                       ELSE promo.value
  IN IF raw < eligible THEN raw ELSE eligible

Discounted(subtotal, discount) == IF subtotal > discount THEN subtotal - discount ELSE 0

\* Subtotal, discount, fees on what is left, tax on the fees: in this order.
CalculatePricing(lines, unit, promo) ==
  LET subtotal == Cost(lines, unit, Classes)
      discount == IF promo = None THEN 0 ELSE DiscountFor(promo, lines, unit)
      left == Discounted(subtotal, discount)
      platform == ApplyPercent(left, 50)
      payment == ApplyPercent(left, 25)
      gst == ApplyPercent(platform + payment, 180)
  IN [lines |-> lines, unit |-> unit, subtotal |-> subtotal, discount |-> discount,
      platformFee |-> platform, paymentFee |-> payment, gst |-> gst,
      total |-> left + platform + payment + gst, commission |-> 0]

\* A breakdown whose parts do not come to its total is not given out.
Reconciles(b) ==
  /\ Cost(b.lines, b.unit, Classes) = b.subtotal
  /\ b.total = Discounted(b.subtotal, b.discount) + b.platformFee + b.paymentFee + b.gst
  /\ b.total >= 0

\* The promoter earns on the lines before any discount.
CommissionForLines(b, terms) ==
  MapThenSumSet(LAMBDA k : (b.lines[k] * b.unit[k] * terms[k].percent) \div 100
                             + terms[k].flat * b.lines[k], Classes)

---------------------------------------------------------------------------
(* The host's side.                                                        *)

Plain(price) == [price |-> price, phases |-> {}, window |-> None, least |-> 1, most |-> None]

\* Two phases that meet, and two that overlap when the year turns between them.
PhasesAsked ==
  LET whole == [price |-> Min(DoorPrices), first |-> 0, last |-> 0]
      next == [whole EXCEPT !.price = Max(DoorPrices), !.first = 1, !.last = DaysInYear - 1]
  IN {{whole, next}, {[whole EXCEPT !.last = 1], next}}

TiersAsked ==
  {Plain(price) : price \in DoorPrices}
  \cup {[Plain(Max(DoorPrices)) EXCEPT !.phases = ps] : ps \in PhasesAsked}
  \cup {[Plain(Min(DoorPrices)) EXCEPT !.window = <<1, 2>>, !.least = 2],
        [Plain(Min(DoorPrices)) EXCEPT !.most = 1]}

CodesAsked ==
  [kind : {"percent"}, value : PercentsOff, on : {{}} \cup {{k} : k \in Classes}]
  \cup [kind : {"fixed"}, value : PaiseOff, on : {{}} \cup {{k} : k \in Classes}]

\* A tier's id is fresh, and its row is written once: nothing edits it later.
OpenTier(k) ==
  /\ class[k] = None
  /\ \E input \in TiersAsked :
       \E tier \in CreateTicketTier(input, day) : class' = [class EXCEPT ![k] = tier]
  /\ UNCHANGED <<day, offer, signed, call>>

CreatePromo ==
  /\ offer = None
  /\ \E input \in CodesAsked : \E promo \in CreatePromoCode(input) : offer' = promo
  /\ UNCHANGED <<day, class, signed, call>>

\* The promoter's link comes and goes: ReferralLinks has its life.
SignLink ==
  /\ signed' \in (TermsSigned \cup {None}) \ {signed}
  /\ UNCHANGED <<day, class, offer, call>>

DayPasses ==
  /\ day < LastDay /\ day' = day + 1
  /\ UNCHANGED <<class, offer, signed, call>>

---------------------------------------------------------------------------
(* The guest's side: a quote, and a hold that is quoted again.             *)

Baskets == {lines \in [Classes -> 0..2] : MapThenSumSet(LAMBDA k : lines[k], Classes) \in 1..2}

PostQuote(c) ==
  /\ \E lines \in Baskets, coded, referred \in BOOLEAN :
       Arrive(c, "quote", "guest", None, [lines |-> lines, coded |-> coded, referred |-> referred])
  /\ UNCHANGED quoteVars

PostHold(c) ==
  /\ \E lines \in Baskets, coded, referred \in BOOLEAN :
       Arrive(c, "hold", "guest", None, [lines |-> lines, coded |-> coded, referred |-> referred])
  /\ UNCHANGED quoteVars

ListTiers(c) ==
  LET lines == call[c].arg.lines bought == {k \in Classes : lines[k] > 0} IN
  /\ call[c].op \in {"quote", "hold"} /\ call[c].pc = "read"
  /\ IF \A k \in bought : Sells(class[k], lines[k], day)
     THEN Goto(c, "promo", [k \in Classes |-> IF k \in bought THEN UnitPrice(class[k], day) ELSE 0])
     ELSE Leave(c)
  /\ UNCHANGED quoteVars

\* A code that exists is taken: its dates, its limits and whether it is active are
\* not looked at.
GetPromoByCode(c) ==
  LET q == call[c]
      b == CalculatePricing(q.arg.lines, q.row, IF q.arg.coded THEN offer ELSE None)
  IN
  /\ q.pc = "promo"
  /\ IF q.arg.coded /\ offer = None THEN Leave(c)
     ELSE Decide(c, When(Reconciles(b), b), "attribute")
  /\ UNCHANGED quoteVars

\* A link that is gone attributes nothing; a commission above what can be given
\* away refuses the order.
ResolveAttribution(c) ==
  LET q == call[c]
      earned == IF q.arg.referred /\ signed # None THEN CommissionForLines(q.row, signed) ELSE 0 IN
  /\ q.pc = "attribute"
  /\ IF earned > q.row.total - q.row.platformFee THEN Leave(c)
     ELSE Goto(c, "answer", [q.row EXCEPT !.commission = earned])
  /\ UNCHANGED quoteVars

AnswerQuote(c) == At(c, "quote", "answer") /\ Leave(c) /\ UNCHANGED quoteVars

\* The hold is created with the breakdown: CreateHold of Checkout.
FreezeQuote(c) == At(c, "hold", "answer") /\ Leave(c) /\ UNCHANGED quoteVars

QuoteInit ==
  /\ day = 0 /\ class = [k \in Classes |-> None] /\ offer = None
  /\ signed = None

QuoteStep(c) ==
  \/ PostQuote(c) \/ PostHold(c) \/ ListTiers(c) \/ GetPromoByCode(c)
  \/ ResolveAttribution(c) \/ AnswerQuote(c) \/ FreezeQuote(c)

QuoteWorld ==
  CreatePromo \/ SignLink \/ DayPasses \/ \E k \in Classes : OpenTier(k)

---------------------------------------------------------------------------

\* Whatever is created, or expires, while a quote is being put together: a code
\* never makes a basket dearer nor takes off more than the lines it is for cost,
\* and the promoter's commission and the platform's fee fit in what the guest
\* pays.
QuotesAreFair ==
  \A b \in Quoted :
    /\ b.total <= CalculatePricing(b.lines, b.unit, None).total
    /\ b.discount > 0 =>
         b.discount <= Cost(b.lines, b.unit, IF offer.on = {} THEN Classes ELSE offer.on)
    /\ b.commission + b.platformFee <= b.total
=============================================================================
