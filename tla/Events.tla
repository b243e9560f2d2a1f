------------------------------- MODULE Events -------------------------------
(***************************************************************************)
(* One event row of a host: its life cycle, asked for by the host's staff  *)
(* and by platform admins, and the ticket tiers that publishing reads.     *)
(*                                                                         *)
(* Every operation reads the row in one call and writes it back in a later *)
(* one.  Title, dates, prices and the other descriptive fields are         *)
(* abstracted to the version an edit bumps; of the compensation only the   *)
(* tiers it gives a rate are kept.  A copy of an event is a row of its own *)
(* and starts as this one does.  Announcing a change on the event bus is   *)
(* EventBus's; the admins' audit records are not kept here.                *)
(***************************************************************************)
EXTENDS Requests

CONSTANTS
  Tiers,           \* ticket tiers that earn a promoter commission
  MaxEventVersion  \* bound on the versions of the row

VARIABLES
  event,   \* the event row, None before it is created
  tiers    \* the event's tiers on sale

eventVars == <<event, tiers>>

EventStatuses == {"draft", "review", "scheduled", "published", "sales_paused",
                  "started", "ended", "archived", "cancelled"}

\* `rates` is None unless the compensation is per tier.
EventAt(versions) ==
  [status : EventStatuses, isPublic : BOOLEAN, adminOverride : BOOLEAN,
   rates : (SUBSET Tiers) \cup {None}, version : versions]
Event == EventAt(1..MaxEventVersion)

ASSUME EventAssumption == None \notin EventAt(Nat)

EventTypeOK == event \in Event \cup {None} /\ tiers \subseteq Tiers

---------------------------------------------------------------------------
(* The rules of the event model.                                           *)

EventTransitions ==
  [draft |-> {"review", "cancelled"},
   review |-> {"scheduled", "draft", "cancelled"},
   scheduled |-> {"published", "started", "cancelled"},
   published |-> {"sales_paused", "started", "cancelled"},
   sales_paused |-> {"published", "started", "cancelled"},
   started |-> {"ended"}, ended |-> {"archived"}, archived |-> {}, cancelled |-> {}]

PublicStatuses == {"published", "sales_paused", "started"}
Pausable == {"published", "sales_paused"}

CreateEvent(rates) ==
  [status |-> "draft", isPublic |-> FALSE, adminOverride |-> FALSE, rates |-> rates, version |-> 1]

\* An edit keeps the status it read.
UpdateEvent(e, rates) == {Bump([e EXCEPT !.rates = rates])}

\* Asking for the status it has hands the row back as it was read.
TransitionEvent(e, to) ==
  When(to = e.status \/ to \in EventTransitions[e.status],
       IF to = e.status THEN e
       ELSE Bump([e EXCEPT !.status = to, !.isPublic = to \in PublicStatuses,
                           !.adminOverride = FALSE]))

\* A cancellation leaves the mark of an admin's pause on the row.
CancelEvent(e) ==
  When(e.status = "cancelled" \/ "cancelled" \in EventTransitions[e.status],
       IF e.status = "cancelled" THEN e
       ELSE Bump([e EXCEPT !.status = "cancelled", !.isPublic = FALSE]))

AdminPauseEvent(e) ==
  IF e.status = "sales_paused"
  THEN {IF e.adminOverride THEN e ELSE Bump([e EXCEPT !.adminOverride = TRUE])}
  ELSE When(e.status \in Pausable,
            Bump([e EXCEPT !.status = "sales_paused", !.isPublic = TRUE, !.adminOverride = TRUE]))

AdminResumeEvent(e) == IF e.status \in Pausable THEN TransitionEvent(e, "published") ELSE {}

\* The one edge that is not in the table.
AdminForceCompleteEvent(e) ==
  When(e.status \in {"ended", "published", "sales_paused", "started"},
       IF e.status = "ended" THEN e
       ELSE Bump([e EXCEPT !.status = "ended", !.isPublic = FALSE, !.adminOverride = TRUE]))

ValidateCompensationForPublish(e, on) == e.rates = None \/ on \subseteq e.rates

\* Publishing walks review -> scheduled -> published and bumps the version once.
Publish(e, on) ==
  IF ~ValidateCompensationForPublish(e, on) THEN {}
  ELSE TransitionEvent(IF e.status = "review" THEN [e EXCEPT !.status = "scheduled"] ELSE e,
                       "published")

---------------------------------------------------------------------------
(* The routes: who may ask.                                                *)

\* One creation at a time: its id is fresh.
PostEvent(c) ==
  /\ event = None /\ \A d \in Calls : call[d].op # "createEvent"
  /\ \E rates \in (SUBSET Tiers) \cup {None} : Arrive(c, "createEvent", "host", None, rates)

\* If-Match carries the version the caller sees, or is left out.
PatchEvent(c) ==
  /\ event # None
  /\ \E v \in {event.version, None}, rates \in (SUBSET Tiers) \cup {None} :
       Arrive(c, "updateEvent", "host", v, rates)

SimpleActions == {"review", "publish", "pauseSales", "resumeSales", "duplicate"}
PostEventAction(c) ==
  /\ event # None
  /\ \E op \in SimpleActions : Arrive(c, op, "host", None, None)

PostEventCancel(c) == event # None /\ Arrive(c, "cancelEvent", "host", None, None)

\* The service moves events to any status; no route asks it to.  It is not asked for
\* "draft": a draft handed back at version 1 is written without a look at the store.
MoveEvent(c) ==
  /\ event # None
  /\ \E to \in EventStatuses \ {"draft"} : Arrive(c, "transitionTo", "host", None, to)

PostAdminPause(c)    == event # None /\ Arrive(c, "adminPause", "admin", None, None)
PostAdminResume(c)   == event # None /\ Arrive(c, "adminResume", "admin", None, None)
PostAdminComplete(c) == event # None /\ Arrive(c, "adminComplete", "admin", None, None)

PostTier(c) ==
  /\ event # None
  /\ \E t \in Tiers \ tiers : Arrive(c, "createTier", "host", t, None)

EventArrives(c) ==
  /\ \/ PostEvent(c) \/ PatchEvent(c) \/ PostEventAction(c) \/ PostEventCancel(c)
     \/ MoveEvent(c) \/ PostAdminPause(c) \/ PostAdminResume(c) \/ PostAdminComplete(c)
     \/ PostTier(c)
  /\ UNCHANGED eventVars

---------------------------------------------------------------------------
(* The services.                                                           *)

\* The venue lets the host in, or not: it may be missing, suspended, the host's
\* own, or one it has a live partnership with.
AssertVenueAccess(c) ==
  /\ At(c, "createEvent", "read")
  /\ \/ Goto(c, "saveEvent", CreateEvent(call[c].arg))
     \/ Leave(c)
  /\ UNCHANGED eventVars

\* Operations that read the row and write back what the rule makes of it.
EventRule(q) ==
  CASE q.op = "updateEvent" -> IF q.on \in {event.version, None} THEN UpdateEvent(event, q.arg) ELSE {}
    [] q.op = "review"       -> TransitionEvent(event, "review")
    [] q.op = "pauseSales"   -> TransitionEvent(event, "sales_paused")
    [] q.op = "resumeSales"  -> TransitionEvent(event, "published")
    [] q.op = "cancelEvent"  -> CancelEvent(event)
    [] q.op = "transitionTo" -> TransitionEvent(event, q.arg)

HostOps == {"updateEvent", "review", "pauseSales", "resumeSales", "cancelEvent", "transitionTo"}

FetchOwned(c) ==
  /\ call[c].op \in HostOps /\ call[c].pc = "read" /\ HasRoom(event, MaxEventVersion)
  /\ Decide(c, EventRule(call[c]), "saveEvent")
  /\ UNCHANGED eventVars

\* Publishing reads the event, then its tiers.
PublishReadsEvent(c) ==
  /\ At(c, "publish", "read") /\ HasRoom(event, MaxEventVersion)
  /\ Goto(c, "readTiers", event)
  /\ UNCHANGED eventVars

PublishReadsTiers(c) ==
  /\ At(c, "publish", "readTiers")
  /\ Decide(c, Publish(call[c].row, tiers), "saveEvent")
  /\ UNCHANGED eventVars

\* The copy is another row.
Duplicate(c) ==
  /\ At(c, "duplicate", "read") /\ event # None
  /\ Leave(c)
  /\ UNCHANGED eventVars

AdminRule(q) ==
  CASE q.op = "adminPause"    -> AdminPauseEvent(event)
    [] q.op = "adminResume"   -> AdminResumeEvent(event)
    [] q.op = "adminComplete" -> AdminForceCompleteEvent(event)

\* An admin's operation that changes nothing answers without writing.
RequireEvent(c) ==
  /\ call[c].op \in {"adminPause", "adminResume", "adminComplete"} /\ call[c].pc = "read"
  /\ HasRoom(event, MaxEventVersion)
  /\ Decide(c, AdminRule(call[c]) \ {event}, "saveEvent")
  /\ UNCHANGED eventVars

\* Adding a tier looks at the event's owner only, not at its status.
CreateTier(c) ==
  /\ At(c, "createTier", "read") /\ event # None
  /\ tiers' = tiers \cup {call[c].on}
  /\ Leave(c)
  /\ UNCHANGED event

---------------------------------------------------------------------------
SaveEvent(c) ==
  /\ call[c].pc = "saveEvent"
  /\ event' = IF MayWrite(event, call[c].row) THEN call[c].row ELSE event
  /\ Leave(c)
  /\ UNCHANGED tiers

EventInit == event = None /\ tiers = {}

EventStep(c) ==
  \/ EventArrives(c) \/ AssertVenueAccess(c) \/ FetchOwned(c) \/ PublishReadsEvent(c)
  \/ PublishReadsTiers(c) \/ Duplicate(c) \/ RequireEvent(c) \/ CreateTier(c) \/ SaveEvent(c)

---------------------------------------------------------------------------

\* "The single source of truth" of the life cycle, with publishing's transient
\* step and the admins' one extra edge.
LifeCycle ==
  {e \in EventStatuses \X EventStatuses : e[2] \in EventTransitions[e[1]]}
  \cup {<<"review", "published">>}
  \cup {<<s, "ended">> : s \in {"published", "sales_paused", "started"}}

\* Whoever else is editing, pausing or cancelling it, an event moves along its
\* life cycle: what was read before a pause, a cancellation or an end puts
\* nothing back on sale; and sales an admin halted stay marked as halted until
\* the event leaves that pause.
EventKept(e, f) ==
  /\ e.status # f.status => <<e.status, f.status>> \in LifeCycle
  /\ f.isPublic <=> f.status \in PublicStatuses
  /\ e.adminOverride /\ e.status = f.status => f.adminOverride
EventLifeCycle == [][event # None => EventKept(event, event')]_event
=============================================================================
