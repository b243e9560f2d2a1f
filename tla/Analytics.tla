----------------------------- MODULE Analytics -----------------------------
(***************************************************************************)
(* What partners and admins read off the orders and the tickets: the       *)
(* organisation's overview, its trend chart, its event cards and its       *)
(* calendar, an event's own figures, and the platform's summary.           *)
(*                                                                         *)
(* Nothing is projected ahead of a request: each screen is computed from   *)
(* the rows when it is asked for, by a scan of its own.  A scan stops at   *)
(* 1,000 rows, which this instance stays below.  Instants are hours.  The  *)
(* rates a card shows, and names and venues, are left out.                 *)
(***************************************************************************)
EXTENDS Requests, FiniteSetsExt

CONSTANTS
  Purchases,     \* ids of orders
  Shows,         \* the events of one organisation, with one couple's ticket each
  Billings,      \* what the events' rows may be: start and status
  Instants,      \* hours at which orders are made and tickets scanned
  Spans,         \* first and last days asked of the trend chart
  HoursPerDay,   \* 24
  DaysPerMonth,  \* 30
  MaxBuckets,    \* MAX_TREND_BUCKETS
  GrandTotal,    \* what an order costs
  Quantity,      \* tickets on an order's lines
  MaxScans       \* bound on the admissions

\* An event that takes place starts within the time considered.
ASSUME AnalyticsAssumption ==
  /\ IsFiniteSet(Purchases) /\ IsFiniteSet(Shows) /\ IsFiniteSet(Instants)
  /\ Instants \subseteq Nat /\ Spans \subseteq Nat \X Nat
  /\ \A b \in Billings, s \in Shows :
       b[s].status \notin {"cancelled", "archived"} => b[s].start \in Instants
  /\ HoursPerDay \in Nat \ {0} /\ DaysPerMonth \in Nat \ {0} /\ MaxBuckets \in Nat
  /\ GrandTotal \in Nat /\ Quantity \in Nat

VARIABLES
  billing,    \* the events' rows
  purchase,   \* the orders
  scannedAt   \* how often each event's ticket was scanned at each instant

analyticsVars == <<billing, purchase, scannedAt>>

OrderTransitions ==
  [pending |-> {"awaiting_payment", "cancelled", "expired"},
   awaiting_payment |-> {"paid", "failed", "cancelled", "expired"}, paid |-> {"refund_requested"},
   failed |-> {}, cancelled |-> {}, expired |-> {}, refund_requested |-> {"paid", "refunded"},
   refunded |-> {}]

Purchase == [show : Shows, createdAt : Instants, status : DOMAIN OrderTransitions,
             refunded : 0..GrandTotal]

AnalyticsTypeOK ==
  /\ billing \in Billings
  /\ purchase \in [Purchases -> Purchase \cup {None}]
  /\ scannedAt \in [Shows -> [Instants -> 0..MaxScans]]

---------------------------------------------------------------------------
(* The rows, which other services write.  An order can fail, be cancelled, *)
(* expire and be paid back; no service does that to one yet, and the       *)
(* figures provide for it.                                                 *)

PlaceOrder(o) ==
  /\ purchase[o] = None
  /\ \E s \in Shows, at \in Instants :
       purchase' = [purchase EXCEPT ![o] = [show |-> s, createdAt |-> at, refunded |-> 0,
                                            status |-> "pending"]]
  /\ UNCHANGED <<billing, scannedAt>>

Becomes(o, status, refunded) ==
  /\ purchase[o] # None /\ status \in OrderTransitions[purchase[o].status]
  /\ purchase' = [purchase EXCEPT ![o].status = status, ![o].refunded = refunded]
  /\ UNCHANGED <<billing, scannedAt>>

Keeps(o, status) == purchase[o] # None /\ Becomes(o, status, purchase[o].refunded)

AwaitPayment(o) == Keeps(o, "awaiting_payment")

\* A paid order that is confirmed again stays as it is.
PayOrder(o) ==
  purchase[o] # None /\ purchase[o].status = "awaiting_payment" /\ Keeps(o, "paid")

MarkFailed(o)  == Keeps(o, "failed")
CancelOrder(o) == Keeps(o, "cancelled")
ExpireOrder(o) == Keeps(o, "expired")
LockOrderForRefund(o) == Keeps(o, "refund_requested")
RestoreOrderAfterRefundFailure(o) ==
  purchase[o] # None /\ purchase[o].status = "refund_requested" /\ Keeps(o, "paid")

\* A part of the order may be refunded, again and again until nothing is left.
ApplyOrderRefund(o) ==
  /\ purchase[o] # None /\ purchase[o].status = "refund_requested"
  /\ \E amount \in 1..GrandTotal - purchase[o].refunded :
       LET refunded == purchase[o].refunded + amount IN
       Becomes(o, IF refunded = GrandTotal THEN "refunded" ELSE "paid", refunded)

ScansDuring(s, hours) == MapThenSumSet(LAMBDA at : scannedAt[s][at], hours)
ScansOf(s) == ScansDuring(s, Instants)
CheckIns(hours) == MapThenSumSet(LAMBDA s : ScansDuring(s, hours), Shows)

\* Each admission is an instant of its own on the ticket's list.
ScanEntitlement(s) ==
  /\ CheckIns(Instants) < MaxScans
  /\ \E at \in Instants : scannedAt' = [scannedAt EXCEPT ![s][at] = @ + 1]
  /\ UNCHANGED <<billing, purchase>>

AnalyticsInit ==
  /\ billing \in Billings
  /\ purchase = [o \in Purchases |-> None]
  /\ scannedAt = [s \in Shows |-> [at \in Instants |-> 0]]

AnalyticsWorld ==
  /\ UNCHANGED call
  /\ \/ \E o \in Purchases :
          \/ PlaceOrder(o) \/ AwaitPayment(o) \/ PayOrder(o)
          \/ MarkFailed(o) \/ CancelOrder(o) \/ ExpireOrder(o)
          \/ LockOrderForRefund(o) \/ RestoreOrderAfterRefundFailure(o) \/ ApplyOrderRefund(o)
     \/ \E s \in Shows : ScanEntitlement(s)

---------------------------------------------------------------------------
(* The figures.                                                            *)

\* Money was captured in these states, whatever became of it.
IsCaptured(o) ==
  purchase[o] # None /\ purchase[o].status \in {"paid", "refund_requested", "refunded"}

NetPaise(o) == GrandTotal - purchase[o].refunded
RefundedPaise(o) == purchase[o].refunded

Figures(orders, checkIns) ==
  [revenue |-> MapThenSumSet(NetPaise, orders), tickets |-> Quantity * Cardinality(orders),
   checkIns |-> checkIns]

Captured == {o \in Purchases : IsCaptured(o)}
CapturedFor(s) == {o \in Captured : purchase[o].show = s}

\* The same three figures on the overview and beside the chart.
Overview == Figures(Captured, CheckIns(Instants))

EventAnalytics(s) ==
  [figures |-> Figures(CapturedFor(s), ScansOf(s)),
   refundAmount |-> MapThenSumSet(RefundedPaise, CapturedFor(s))]

\* Admins see the whole platform, here of one organisation.
AnalyticsSummary ==
  [revenue |-> MapThenSumSet(NetPaise, Captured), tickets |-> Quantity * Cardinality(Captured)]

\* Neither of the screens shows what has been called off.
Happening(s) == billing[s].status \notin {"cancelled", "archived"}

\* The cards are of what is to come, with what each has sold.
OrganizationEventCards(now) ==
  [s \in {s \in Shows : Happening(s) /\ billing[s].start >= now} |->
     Quantity * Cardinality(CapturedFor(s))]

---------------------------------------------------------------------------
(* The trend chart.                                                        *)

DayOf(at) == at \div HoursPerDay
MonthOf(day) == day \div DaysPerMonth

OrganizationCalendar(month) ==
  [day \in {d \in {DayOf(at) : at \in Instants} : MonthOf(d) = month} |->
     Cardinality({s \in Shows : Happening(s) /\ DayOf(billing[s].start) = day})]

\* Mutation of KeyOf: an hour is known by its day.
KeyOfDay(granularity, at) == <<"day", DayOf(at)>>

\* Under which key an order or a scan is counted.
KeyOf(granularity, at) == IF granularity = "hour" THEN <<"hour", at>> ELSE <<"day", DayOf(at)>>

BucketCount(first, last, granularity) ==
  CASE granularity = "hour"  -> (last - first + 1) * HoursPerDay
    [] granularity = "month" -> MonthOf(last) - MonthOf(first) + 1
    [] granularity = "day"   -> last - first + 1

\* The key of a bucket of the chart: a month's is the month itself.
BucketKey(first, n, granularity) ==
  CASE granularity = "hour"  -> KeyOf(granularity, first * HoursPerDay + n)
    [] granularity = "month" -> <<"month", MonthOf(first) + n>>
    [] granularity = "day"   -> KeyOf(granularity, (first + n) * HoursPerDay)

\* Bounds in the wrong order are swapped, and a long range is cut short.
BuildRange(from, to, granularity) ==
  LET first == Min({from, to})
      last  == Max({from, to})
      count == Min({BucketCount(first, last, granularity), MaxBuckets})
  IN {BucketKey(first, n, granularity) : n \in 0..count - 1}

Bucket(key, granularity) ==
  LET in(at) == KeyOf(granularity, at) = key
  IN Figures({o \in Captured : in(purchase[o].createdAt)}, CheckIns({at \in Instants : in(at)}))

OrganizationTrends(from, to, granularity) ==
  [key \in BuildRange(from, to, granularity) |-> Bucket(key, granularity)]

---------------------------------------------------------------------------
(* Properties.                                                             *)

TotalOf(chart, figure) == MapThenSumSet(LAMBDA key : chart[key][figure], DOMAIN chart)
AddsUp(chart, figures) == \A f \in {"revenue", "tickets", "checkIns"} : TotalOf(chart, f) = figures[f]

\* How many events a month of the calendar shows.
ShownIn(month) ==
  LET days == OrganizationCalendar(month) IN MapThenSumSet(LAMBDA d : days[d], DOMAIN days)

\* What was sold and scanned in the hours from one instant to another.
During(from, to) ==
  LET within == {at \in Instants : from <= at /\ at <= to}
  IN Figures({o \in Captured : purchase[o].createdAt \in within}, CheckIns(within))

\* The hours a chart of days or hours covers.
Covered(from, to, granularity) ==
  LET first == Min({from, to}) * HoursPerDay
      hours == Cardinality(BuildRange(from, to, granularity))
                 * (IF granularity = "hour" THEN 1 ELSE HoursPerDay)
  IN During(first, first + hours - 1)

\* "two different endpoints must never disagree about the same money": the overview, the
\* events' own figures, the cards and the platform's summary agree on every order and
\* scan, the calendar shows each event that has a card, and a chart of days or hours adds
\* up to what was sold and scanned in the time it covers, whichever way round its bounds
\* are given and wherever it is cut short.
FiguresAgree ==
  /\ \A f \in DOMAIN Overview :
       Overview[f] = MapThenSumSet(LAMBDA s : EventAnalytics(s).figures[f], Shows)
  /\ AnalyticsSummary.revenue = Overview.revenue /\ AnalyticsSummary.tickets = Overview.tickets
  /\ Overview.revenue + MapThenSumSet(LAMBDA s : EventAnalytics(s).refundAmount, Shows)
       = GrandTotal * Cardinality(Captured)
  /\ LET cards == OrganizationEventCards(0)
         months == {MonthOf(DayOf(at)) : at \in Instants}
     IN /\ \A s \in DOMAIN cards : cards[s] = EventAnalytics(s).figures.tickets
        /\ MapThenSumSet(ShownIn, months) = Cardinality(DOMAIN cards)
  /\ \A span \in Spans, granularity \in {"hour", "day"} :
       LET chart == OrganizationTrends(span[1], span[2], granularity) IN
       /\ AddsUp(chart, Covered(span[1], span[2], granularity))
       /\ Cardinality(DOMAIN chart) <= MaxBuckets

\* Beside the chart stand lifetime totals, "NOT the sum of `buckets`": "The two differ
\* whenever an order or scan falls outside the requested window"; so a chart of all the
\* months adds up to them.
MonthsAddUp ==
  LET days == {DayOf(at) : at \in Instants}
      chart == OrganizationTrends(Min(days), Max(days), "month")
  IN AddsUp(chart, Overview)
=============================================================================
