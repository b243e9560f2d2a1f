-------------------------------- MODULE Rsvp --------------------------------
(***************************************************************************)
(* Free bookings of one event: one order and one ticket per guest, without *)
(* a hold or a payment.                                                    *)
(*                                                                         *)
(* The order's id is made of the event and the guest, so that a repeated   *)
(* booking meets the first one.  Where it meets it depends on the driver:  *)
(* the memory driver refuses a second first version, and the request then  *)
(* answers with the winner's; the firestore driver sets it.                *)
(***************************************************************************)
EXTENDS Requests

CONSTANTS
  Attendees,   \* guests who ask for a ticket
  Places       \* places of the free tier

VARIABLES
  driver,      \* the storage driver of this behaviour
  bookable,    \* the event is published and free, its tier active and at no price
  booked,      \* guests whose order is stored: paid, with nothing to refund
  admission    \* guest -> the ticket row: None, "issued", "used"

rsvpVars == <<driver, bookable, booked, admission>>

RsvpTypeOK ==
  /\ driver \in {"memory", "firestore"} /\ bookable \in BOOLEAN
  /\ booked \subseteq Attendees
  /\ admission \in [Attendees -> {None, "issued", "used"}]

---------------------------------------------------------------------------
PlacesLeft == Cardinality(booked) < Places

PostRsvp(c) ==
  /\ \E u \in Attendees : Arrive(c, "rsvp", u, u, None)
  /\ UNCHANGED rsvpVars

\* The event first, then the tier.
ReadEventAndTier(c) ==
  /\ At(c, "rsvp", "read")
  /\ IF bookable THEN Goto(c, "existing", None) ELSE Leave(c)
  /\ UNCHANGED rsvpVars

\* A booking made before is a conflict.
FindBooking(c) ==
  /\ At(c, "rsvp", "existing")
  /\ IF call[c].on \in booked THEN Leave(c) ELSE Goto(c, "inventory", None)
  /\ UNCHANGED rsvpVars

AssertAvailable(c) ==
  /\ At(c, "rsvp", "inventory")
  /\ IF PlacesLeft THEN Goto(c, "save", None) ELSE Leave(c)
  /\ UNCHANGED rsvpVars

\* The loser of a race in the memory driver answers with the winner's order, and
\* with what tickets it has by then.
SaveBooking(c) ==
  LET u == call[c].on IN
  /\ At(c, "rsvp", "save")
  /\ IF driver = "memory" /\ u \in booked THEN Leave(c) ELSE Goto(c, "issue", None)
  /\ booked' = booked \cup {u}
  /\ UNCHANGED <<driver, bookable, admission>>

\* A ticket's id is made of the order's: the row is set again by a second issue.
IssueTicket(c) ==
  LET u == call[c].on IN
  /\ At(c, "rsvp", "issue")
  /\ admission' = [admission EXCEPT ![u] =
       IF driver = "memory" /\ @ # None THEN @ ELSE "issued"]
  /\ Leave(c)
  /\ UNCHANGED <<driver, bookable, booked>>

\* Around it: the host opens and closes the event, a ticket is scanned.
ToggleBookable ==
  bookable' = ~bookable /\ UNCHANGED <<driver, booked, admission, call>>

ScanTicket(u) ==
  /\ admission[u] = "issued"
  /\ admission' = [admission EXCEPT ![u] = "used"]
  /\ UNCHANGED <<driver, bookable, booked, call>>

RsvpInit ==
  /\ driver \in {"memory", "firestore"} /\ bookable = TRUE
  /\ booked = {} /\ admission = [u \in Attendees |-> None]

RsvpStep(c) ==
  \/ PostRsvp(c) \/ ReadEventAndTier(c) \/ FindBooking(c) \/ AssertAvailable(c)
  \/ SaveBooking(c) \/ IssueTicket(c)

RsvpWorld ==
  ToggleBookable \/ \E u \in Attendees : ScanTicket(u)
=============================================================================
