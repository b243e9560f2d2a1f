----------------------------- MODULE MCProgramme -----------------------------
(***************************************************************************)
(* The programme, the finance desk, the support and safety desks and the   *)
(* inboxes, in one run.  They share no row, so a behaviour exercises one   *)
(* of them, chosen at the start, with several requests in flight.          *)
(***************************************************************************)
EXTENDS Events, Venues, Catalogue, Disputes, BankAccounts, DoorTickets, Support, AdminDesk,
        Social, Quotes, Rsvp, EmailOtp, Limits, Analytics, Listings, TLC

CONSTANTS
  c1, c2, t1, t2, b0, y1, y2, e2, o1, o2,
  Parts   \* the components a run exercises

VARIABLE part   \* the one this behaviour exercises

rows == <<eventVars, venueVars, catalogueVars, disputeVars, account, doorTicketVars,
          ticket, deskVars, socialVars, quoteVars, rsvpVars, otpVars, limitVars,
          analyticsVars, listingVars>>

programmeVars == <<call, part, rows>>

\* One tier has terms of its own: a fee and a low rate instead of the link's.
OwnTerms ==
  {[k \in Classes |-> IF k = y1 THEN [percent |-> 15, flat |-> 60]
                                ELSE [percent |-> 95, flat |-> 0]]}

\* Both months, the bounds the wrong way round, and an end of each.
SomeSpans == {<<3, 0>>, <<1, 2>>}

\* Two events on the last day, or one of them called off on the first.
NothingBilled == [s \in Shows |-> [start |-> Max(Instants), status |-> "published"]]
BothBilled == {NothingBilled, [NothingBilled EXCEPT ![e2] = [start |-> 0, status |-> "cancelled"]]}

IsVenuePart(p) == p \in {"venue", "calendar", "slotRequest"}
IsDeskPart(p)  == p \in {"report", "ban", "settings"}
IsInboxPart(p) == p \in {"feed", "inbox", "profile"}

Init ==
  /\ call = [c \in Calls |-> Idle]
  /\ part \in Parts
  /\ VenueInit /\ (IsVenuePart(part) \/ (venue = None /\ slot[Offered] = None))
  /\ EventInit /\ CatalogueInit /\ DisputeInit /\ BankInit /\ DoorTicketInit
  /\ SupportInit /\ DeskInit /\ SocialInit /\ QuoteInit /\ OtpInit /\ LimitInit
  /\ RsvpInit /\ (part = "rsvp" \/ driver = "memory")
  /\ AnalyticsInit /\ (part = "analytics" \/ billing = NothingBilled)
  /\ ListingInit /\ (part = "listing" \/ (listed = {} /\ paging = "row"))

\* Only the rows of the component at work change.
OthersKept ==
  /\ IF part = "event" THEN TRUE ELSE UNCHANGED eventVars
  /\ IF IsVenuePart(part) THEN TRUE ELSE UNCHANGED venueVars
  /\ IF part = "catalogue" THEN TRUE ELSE UNCHANGED catalogueVars
  /\ IF part = "dispute" THEN TRUE ELSE UNCHANGED disputeVars
  /\ IF part = "bank" THEN TRUE ELSE UNCHANGED account
  /\ IF part = "doorTicket" THEN TRUE ELSE UNCHANGED doorTicketVars
  /\ IF part = "support" THEN TRUE ELSE UNCHANGED ticket
  /\ IF IsDeskPart(part) THEN TRUE ELSE UNCHANGED deskVars
  /\ IF IsInboxPart(part) THEN TRUE ELSE UNCHANGED socialVars
  /\ IF part = "quote" THEN TRUE ELSE UNCHANGED quoteVars
  /\ IF part = "rsvp" THEN TRUE ELSE UNCHANGED rsvpVars
  /\ IF part = "otp" THEN TRUE ELSE UNCHANGED otpVars
  /\ IF part \in {"stream", "budget", "cache"} THEN TRUE ELSE UNCHANGED limitVars
  /\ IF part = "analytics" THEN TRUE ELSE UNCHANGED analyticsVars
  /\ IF part = "listing" THEN TRUE ELSE UNCHANGED listingVars

\* A request is cut off between two of its calls.  A stream is not: it goes with the
\* whole process, ProcessRestarts of Limits.
Dies(c) == ~Free(c) /\ part # "stream" /\ Leave(c) /\ UNCHANGED <<part, rows>>

\* A quote, and a walk over a list, write nothing, so that two of them do not meet.
Alone(c) == \A d \in Calls \ {c} : Free(d)

\* Bound: of two requests about tickets one is sent, says something or merges.
OneDesk ==
  Cardinality({c \in Calls : call'[c].op \notin {"idle", "submit", "message", "reply", "merge"}}) <= 1

Work(c) ==
  \/ part = "event" /\ EventStep(c)
  \/ part = "venue" /\ VenueStep(c)
  \/ part = "calendar" /\ CalendarStep(c)
  \/ part = "slotRequest" /\ SlotRequestStep(c)
  \/ part = "catalogue" /\ CatalogueStep(c)
  \/ part = "dispute" /\ DisputeStep(c)
  \/ part = "bank" /\ BankStep(c)
  \/ part = "doorTicket" /\ DoorTicketStep(c)
  \/ part = "support" /\ SupportStep(c) /\ OneDesk
  \/ part = "report" /\ ReportStep(c)
  \/ part = "ban" /\ BanStep(c)
  \/ part = "settings" /\ SettingsStep(c)
  \/ part = "feed" /\ FollowStep(c)
  \/ part = "inbox" /\ InboxStep(c)
  \/ part = "profile" /\ ProfileStep(c)
  \/ part = "quote" /\ Alone(c) /\ QuoteStep(c)
  \/ part = "rsvp" /\ RsvpStep(c)
  \/ part = "otp" /\ OtpStep(c)
  \/ part = "stream" /\ StreamStep(c)
  \/ part = "cache" /\ CacheStep(c)
  \/ part = "listing" /\ Alone(c) /\ ListingStep(c)

\* What goes on around the requests.
World ==
  \/ part = "quote" /\ QuoteWorld
  \/ part = "rsvp" /\ RsvpWorld
  \/ part = "otp" /\ MinutePasses
  \/ part = "stream" /\ StreamWorld
  \/ part = "budget" /\ BudgetWorld
  \/ part = "cache" /\ CacheWorld
  \/ part = "analytics" /\ AnalyticsWorld
  \/ part = "listing" /\ ListingWorld

Next ==
  \/ \E c \in Calls : Dies(c)
  \/ UNCHANGED part /\ OthersKept /\ (World \/ \E c \in Calls : Work(c))

Spec == Init /\ [][Next]_programmeVars

TypeOK ==
  /\ EventTypeOK /\ VenueTypeOK /\ CatalogueTypeOK /\ DisputeTypeOK /\ BankTypeOK
  /\ DoorTicketTypeOK /\ SupportTypeOK /\ DeskTypeOK /\ SocialTypeOK
  /\ QuoteTypeOK /\ RsvpTypeOK /\ OtpTypeOK /\ LimitTypeOK /\ AnalyticsTypeOK
  /\ ListingTypeOK

\* The screens agree with each other and with the rows: see Analytics.
DashboardsAgree == part = "analytics" => FiguresAgree

Symmetry == Permutations({c1, c2}) \cup Permutations({t1, t2}) \cup Permutations({y1, y2})
            \cup Permutations({o1, o2})
=============================================================================
