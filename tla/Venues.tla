------------------------------- MODULE Venues -------------------------------
(***************************************************************************)
(* One venue: its row, the blocks on its calendar and the requests of      *)
(* hosts for a slot on it.                                                 *)
(*                                                                         *)
(* Times are the marks 0..LastMark of one evening.  Slots that are open or *)
(* booked come from upstream: the model starts with one of them or none.   *)
(* Profile, menu and private notes are abstracted to the version an edit   *)
(* bumps.  Accepting a slot request does not touch the calendar.           *)
(***************************************************************************)
EXTENDS Requests, FiniteSetsExt

CONSTANTS
  Blocks,          \* ids of the blocks staff create
  Offered,         \* id of the slot that comes from upstream
  LastMark,        \* last mark of the evening
  MaxSlotsRead,    \* rows one read of the calendar answers at most
  SlotRequests,    \* ids of the requests hosts make
  MaxVenueVersion  \* bound on the versions of a row

VARIABLES
  venue,         \* the venue row, None before it is created
  slot,          \* the calendar's rows
  slotRequest    \* the rows of hosts' requests

venueVars == <<venue, slot, slotRequest>>

Marks  == 0..LastMark
Ranges == {r \in Marks \X Marks : r[1] < r[2]}

Venue       == [status : {"active", "suspended"}, version : 1..MaxVenueVersion]
SlotAt(versions) ==
  [status : {"open", "booked", "blocked", "cancelled"}, from : Marks, to : Marks, version : versions]
VenueSlot   == SlotAt(1..MaxVenueVersion)
SlotRequest == [status : {"pending", "accepted", "rejected", "cancelled"},
                version : 1..MaxVenueVersion]

ASSUME VenueAssumption ==
  LastMark \in Nat \ {0} /\ MaxSlotsRead \in Nat /\ None \notin SlotAt(Nat)

VenueTypeOK ==
  /\ venue \in Venue \cup {None}
  /\ slot \in [Blocks \cup {Offered} -> VenueSlot \cup {None}]
  /\ slotRequest \in [SlotRequests -> SlotRequest \cup {None}]

---------------------------------------------------------------------------
(* The rules of the venue model.                                           *)

NewVenue == [status |-> "active", version |-> 1]

UpdateVenue(v) == {Bump(v)}
UpdateVenueMenu(v) == {Bump(v)}

SuspendVenue(v)   == {IF v.status = "suspended" THEN v ELSE Bump([v EXCEPT !.status = "suspended"])}
ReinstateVenue(v) == {IF v.status = "active" THEN v ELSE Bump([v EXCEPT !.status = "active"])}

CreateVenueBlock(r) == [status |-> "blocked", from |-> r[1], to |-> r[2], version |-> 1]

CancelVenueBlock(s) == When(s.status = "blocked", Bump([s EXCEPT !.status = "cancelled"]))

\* Half-open ranges: one that ends where the other begins does not touch it.
DoSlotRangesOverlap(s, t) == s.from < t.to /\ t.from < s.to

StoredSlots == {b \in DOMAIN slot : slot[b] # None}
LiveSlots   == {b \in StoredSlots : slot[b].status # "cancelled"}

\* What a read may answer: every row of the calendar, or as many as it is capped to.
CappedReads ==
  IF Cardinality(StoredSlots) <= MaxSlotsRead THEN {StoredSlots}
  ELSE {R \in SUBSET StoredSlots : Cardinality(R) = MaxSlotsRead}

SlotRangeFree(read, s) == \A b \in read \cap LiveSlots : ~DoSlotRangesOverlap(slot[b], s)

\* The slots that begin in a window: one that began before it is not listed.
ListSlots(from, to) == {b \in LiveSlots : from <= slot[b].from /\ slot[b].from <= to}

\* What listed slots come to: how many are open, booked and blocked, and the time
\* the open ones offer.
ComputeVenueAvailability(listed) ==
  LET of(status) == {b \in listed : slot[b].status = status} IN
  [openSlots |-> Cardinality(of("open")), bookedSlots |-> Cardinality(of("booked")),
   blockedSlots |-> Cardinality(of("blocked")),
   openMinutes |-> MapThenSumSet(LAMBDA b : slot[b].to - slot[b].from, of("open")),
   fullyBooked |-> listed # {} /\ of("open") = {}]

NewSlotRequest == [status |-> "pending", version |-> 1]

SlotRequestTransitions ==
  [pending |-> {"accepted", "rejected"}, accepted |-> {"cancelled"}, rejected |-> {},
   cancelled |-> {}]

\* Asking for the status it has is refused.
TransitionSlotRequest(r, to) ==
  When(to \in SlotRequestTransitions[r.status], Bump([r EXCEPT !.status = to]))

---------------------------------------------------------------------------
(* The routes: who may ask.                                                *)

PostVenue(c) ==
  /\ venue = None /\ \A d \in Calls : call[d].op # "createVenue"
  /\ Arrive(c, "createVenue", "owner", None, None)

PatchVenue(c) ==
  /\ venue # None
  /\ \E v \in {venue.version, None} : Arrive(c, "updateVenue", "owner", v, None)

PutVenueMenu(c) ==
  /\ venue # None
  /\ \E v \in {venue.version, None} : Arrive(c, "updateMenu", "owner", v, None)

\* The private profile is edited without If-Match.
PatchVenuePrivate(c) == venue # None /\ Arrive(c, "updatePrivate", "owner", None, None)

PostAdminSuspend(c)   == venue # None /\ Arrive(c, "suspendVenue", "admin", None, None)
PostAdminReinstate(c) == venue # None /\ Arrive(c, "reinstateVenue", "admin", None, None)

\* A block's id is fresh.
PostBlock(c) ==
  /\ venue # None
  /\ \E b \in Blocks, r \in Ranges :
       /\ slot[b] = None /\ \A d \in Calls : call[d].on # b
       /\ Arrive(c, "block", "owner", b, r)

DeleteBlock(c) ==
  /\ venue # None
  /\ \E b \in DOMAIN slot : slot[b] # None /\ Arrive(c, "unblock", "owner", b, None)

\* Any host may ask; the venue's calendar is not looked at.
PostSlotRequest(c) ==
  \E q \in SlotRequests :
    /\ slotRequest[q] = None /\ \A d \in Calls : call[d].on # q
    /\ Arrive(c, "requestSlot", "host", q, None)

PostSlotRequestAnswer(c) ==
  \E q \in SlotRequests, to \in {"accepted", "rejected"} :
    slotRequest[q] # None /\ venue # None /\ Arrive(c, "answerSlot", "owner", q, to)

PostSlotRequestCancel(c) ==
  \E q \in SlotRequests :
    slotRequest[q] # None /\ Arrive(c, "answerSlot", "host", q, "cancelled")

VenueArrives(c) ==
  /\ \/ PostVenue(c) \/ PatchVenue(c) \/ PutVenueMenu(c) \/ PatchVenuePrivate(c)
     \/ PostAdminSuspend(c) \/ PostAdminReinstate(c)
  /\ UNCHANGED venueVars
CalendarArrives(c) == (PostBlock(c) \/ DeleteBlock(c)) /\ UNCHANGED venueVars
SlotRequestArrives(c) ==
  /\ PostSlotRequest(c) \/ PostSlotRequestAnswer(c) \/ PostSlotRequestCancel(c)
  /\ UNCHANGED venueVars

---------------------------------------------------------------------------
(* The services.                                                           *)

CreateVenue(c) ==
  /\ At(c, "createVenue", "read")
  /\ venue' = NewVenue /\ Leave(c)
  /\ UNCHANGED <<slot, slotRequest>>

Expected(q) == q.on \in {venue.version, None}

VenueRule(q) ==
  CASE q.op = "updateVenue"   -> IF Expected(q) THEN UpdateVenue(venue) ELSE {}
    [] q.op = "updateMenu"    -> IF Expected(q) THEN UpdateVenueMenu(venue) ELSE {}
    [] q.op = "updatePrivate" -> UpdateVenue(venue)

FetchVenue(c) ==
  /\ call[c].op \in {"updateVenue", "updateMenu", "updatePrivate"} /\ call[c].pc = "read"
  /\ HasRoom(venue, MaxVenueVersion)
  /\ Decide(c, VenueRule(call[c]), "saveVenue")
  /\ UNCHANGED venueVars

\* An admin's operation that changes nothing answers without writing.
SuspendVenueReads(c) ==
  /\ At(c, "suspendVenue", "read") /\ HasRoom(venue, MaxVenueVersion)
  /\ Decide(c, SuspendVenue(venue) \ {venue}, "saveVenue")
  /\ UNCHANGED venueVars

ReinstateVenueReads(c) ==
  /\ At(c, "reinstateVenue", "read") /\ HasRoom(venue, MaxVenueVersion)
  /\ Decide(c, ReinstateVenue(venue) \ {venue}, "saveVenue")
  /\ UNCHANGED venueVars

\* Blocking reads the venue, then hands the block to the repository.
BlockReadsVenue(c) ==
  /\ At(c, "block", "read")
  /\ Goto(c, "createBlock", CreateVenueBlock(call[c].arg))
  /\ UNCHANGED venueVars

\* Mutation of CreateBlockIfFree: the guard has been asked before the transaction.
CreateBlockGuardedEarlier(c) ==
  LET q == call[c] IN
  /\ At(c, "block", "createBlock")
  /\ slot' = [slot EXCEPT ![q.on] = q.row]
  /\ Leave(c)
  /\ UNCHANGED <<venue, slotRequest>>

\* The guard and the insert share one transaction.
CreateBlockIfFree(c) ==
  LET q == call[c] IN
  /\ At(c, "block", "createBlock")
  /\ \E read \in CappedReads :
       slot' = IF SlotRangeFree(read, q.row) THEN [slot EXCEPT ![q.on] = q.row] ELSE slot
  /\ Leave(c)
  /\ UNCHANGED <<venue, slotRequest>>

Unblock(c) ==
  /\ At(c, "unblock", "read")
  /\ Decide(c, CancelVenueBlock(slot[call[c].on]), "saveSlots")
  /\ UNCHANGED venueVars

\* Nothing is compared: the rows are set.
SaveSlots(c) ==
  /\ call[c].pc = "saveSlots"
  /\ slot' = [slot EXCEPT ![call[c].on] = call[c].row]
  /\ Leave(c)
  /\ UNCHANGED <<venue, slotRequest>>

CreateSlotRequest(c) ==
  /\ At(c, "requestSlot", "read")
  /\ slotRequest' = [slotRequest EXCEPT ![call[c].on] = NewSlotRequest]
  /\ Leave(c)
  /\ UNCHANGED <<venue, slot>>

AnswerSlotRequest(c) ==
  LET q == call[c] IN
  /\ At(c, "answerSlot", "read") /\ HasRoom(slotRequest[q.on], MaxVenueVersion)
  /\ Decide(c, TransitionSlotRequest(slotRequest[q.on], q.arg), "saveSlotRequest")
  /\ UNCHANGED venueVars

---------------------------------------------------------------------------
SaveVenue(c) ==
  /\ call[c].pc = "saveVenue"
  /\ venue' = IF MayWrite(venue, call[c].row) THEN call[c].row ELSE venue
  /\ Leave(c)
  /\ UNCHANGED <<slot, slotRequest>>

SaveSlotRequest(c) ==
  /\ call[c].pc = "saveSlotRequest"
  /\ slotRequest' = Written(slotRequest, call[c].on, call[c].row)
  /\ Leave(c)
  /\ UNCHANGED <<venue, slot>>

VenueInit ==
  /\ venue \in {None, NewVenue}
  /\ \E offer \in {None} \cup {[CreateVenueBlock(<<0, 1>>) EXCEPT !.status = s] : s \in {"open", "booked"}} :
       slot = [b \in Blocks \cup {Offered} |-> IF b = Offered THEN offer ELSE None]
  /\ slotRequest = [q \in SlotRequests |-> None]

\* The row, the calendar and the requests do not read each other.
VenueStep(c) ==
  \/ VenueArrives(c) \/ CreateVenue(c) \/ FetchVenue(c) \/ SuspendVenueReads(c)
  \/ ReinstateVenueReads(c) \/ SaveVenue(c)
CalendarStep(c) ==
  \/ CalendarArrives(c) \/ BlockReadsVenue(c) \/ CreateBlockIfFree(c) \/ Unblock(c)
  \/ SaveSlots(c)
SlotRequestStep(c) ==
  \/ SlotRequestArrives(c) \/ CreateSlotRequest(c) \/ AnswerSlotRequest(c)
  \/ SaveSlotRequest(c)

---------------------------------------------------------------------------

\* "A venue's timeline is a single track: two live slots may never occupy the
\* same minutes", however blocks and unblocks interleave, as long as one read
\* answers the whole calendar: what guests are told is open, in whatever window,
\* fits beside what is taken, and an evening that is blocked from end to end offers
\* nothing.
SingleTrack ==
  LET told(from, to) == ComputeVenueAvailability(ListSlots(from, to))
      taken == {b \in LiveSlots : slot[b].status # "open"}
      takenMinutes == MapThenSumSet(LAMBDA b : slot[b].to - slot[b].from, taken)
  IN /\ \A a, b \in LiveSlots : a # b => ~DoSlotRangesOverlap(slot[a], slot[b])
     /\ \A from, to \in Marks : told(from, to).openMinutes + takenMinutes <= LastMark
     /\ (\E b \in taken : slot[b].to - slot[b].from = LastMark) => told(0, LastMark).fullyBooked
=============================================================================
