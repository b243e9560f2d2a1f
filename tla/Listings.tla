------------------------------ MODULE Listings ------------------------------
(***************************************************************************)
(* Lists that are read page by page: who walks over one, how far, and the  *)
(* three ways the stores number their pages.                               *)
(*                                                                         *)
(* Sold counts, fan-outs, manifests, rosters and figures turn the pages    *)
(* themselves, some of them up to a cap; a feed is turned by its reader;   *)
(* screens and exports take one page.  Rows enter and leave the list while *)
(* a walk is under way.  Entries are their places in the list's order:     *)
(* rows enter anywhere, since firestore lists by document id and an event  *)
(* published again has its old place.                                      *)
(***************************************************************************)
EXTENDS Requests

CONSTANTS
  Entries,     \* rows the list may have, numbered by place
  Clamp,       \* rows a page holds at most, whatever was asked (100)
  Limit,       \* rows asked for by screens, sold counts and fan-outs
  WideLimit,   \* rows asked for by rosters, manifests, figures and exports (up to 1000)
  MaxScan,     \* rows after which a roster or a figure stops
  MaxPages     \* pages after which the door's events stop (10)

ASSUME ListingAssumption ==
  /\ Entries \subseteq Nat \ {0} /\ IsFiniteSet(Entries)
  /\ Clamp \in Nat \ {0} /\ Limit \in Nat \ {0} /\ WideLimit \in Nat \ {0}
  /\ MaxScan \in Nat /\ MaxPages \in Nat

VARIABLES
  listed,   \* the rows now in the list
  paging    \* what the store's cursors are: a row, an offset, an offset beside a count

listingVars == <<listed, paging>>

Ask == [limit : {Limit, WideLimit}, cap : {None, 1, MaxScan, MaxPages}, unit : {"row", "page"}]

\* from: the cursor; total, items: what came of the page's two reads; seen: rows taken;
\* spent: what counts towards the cap; cut: more was left when it stopped.  Two things
\* no code holds: the rows in the list ever since the walk began, and whether the list
\* moved under it in a way that may hide a row from it.
Walk == [from : Nat, total : Nat \cup {None}, items : (SUBSET Entries) \cup {None},
         seen : SUBSET Entries, spent : Nat, cut : BOOLEAN,
         stayed : SUBSET Entries, torn : BOOLEAN]

Walking(c) == call[c].op = "walk" /\ call[c].pc \in {"page", "told"}

ListingTypeOK ==
  /\ listed \subseteq Entries /\ paging \in {"row", "offset", "counted"}
  /\ \A c \in Calls : Walking(c) => call[c].arg \in Ask /\ call[c].row \in Walk

---------------------------------------------------------------------------
(* Who asks.                                                               *)

Asks(c, limit, cap, unit) ==
  /\ Arrive(c, "walk", None, None, [limit |-> limit, cap |-> cap, unit |-> unit])
  /\ UNCHANGED listingVars

\* One page, and whether there are more: none of these answers carries a cursor.
Screen(c) == Asks(c, Limit, 1, "page")
\* One page that is meant to be all of it.
Export(c) == Asks(c, WideLimit, 1, "page")

\* Who may read a desk, and the row an export of users leaves in the audit, are not
\* matters of the list; nor is what a filter or a wallet's count leaves out of its page.
ReadDirectory(c) == Screen(c)
ExportDirectory(c) == Export(c)
ExportUsers(c) == Export(c)
OrderDesk(c) == Screen(c) \/ Export(c)
TicketDesk(c) == Screen(c) \/ Export(c)
PromotionDesk(c) == Screen(c) \/ Export(c)
PromoterDesk(c) == Screen(c) \/ Export(c)
ReadWallet(c) == Screen(c) \/ Export(c)
SupportDesk(c) == Screen(c)
ListEvents(c) == Screen(c)
PartnerEvents(c) == Screen(c)
ListOrganizations(c) == Screen(c)
SlotRequestDesk(c) == Screen(c)
FinanceDesk(c) == Screen(c)
ListPayouts(c) == Screen(c)
ListDisputes(c) == Screen(c)
ListWallets(c) == Export(c)

Desks(c) ==
  \/ ReadDirectory(c) \/ ExportDirectory(c) \/ ExportUsers(c) \/ OrderDesk(c)
  \/ TicketDesk(c) \/ PromotionDesk(c) \/ PromoterDesk(c) \/ SupportDesk(c)
  \/ ReadWallet(c) \/ ListEvents(c) \/ PartnerEvents(c) \/ ListOrganizations(c)
  \/ SlotRequestDesk(c) \/ FinanceDesk(c) \/ ListPayouts(c) \/ ListDisputes(c)
  \/ ListWallets(c)

\* Until there is no next page.
GetSoldCount(c) == Asks(c, Limit, None, "page")
FollowersOf(c) == Asks(c, Limit, None, "page")
BuildOfflineManifest(c) == Asks(c, WideLimit, None, "page")
\* Follows and notifications: the answer has the cursor, and the reader comes back with it.
GetFeed(c) == Asks(c, Limit, None, "page")

\* Until there is none, or enough has been looked at.
ScanAll(c) == Asks(c, WideLimit, MaxScan, "row")
\* The tickets are walked over; of the door's own sales one page is taken.
ListGuests(c) == Asks(c, WideLimit, MaxScan, "row") \/ Export(c)
GetAttendanceReport(c) == Asks(c, WideLimit, MaxScan, "row")
ListDoorEvents(c) == Asks(c, WideLimit, MaxPages, "page")

---------------------------------------------------------------------------
(* Pages.                                                                  *)

Before(rows, e) == Cardinality({d \in rows : d < e})
Slice(rows, start, n) == {e \in rows : Before(rows, e) \in start..(start + n - 1)}

Clamped(limit) == IF limit < Clamp THEN limit ELSE Clamp

Open(c) ==
  /\ At(c, "walk", "read")
  /\ Goto(c, "page", [from |-> 0, total |-> None, items |-> None, seen |-> {}, spent |-> 0,
                      cut |-> FALSE, stayed |-> listed, torn |-> FALSE])
  /\ UNCHANGED listingVars

\* The walk takes a page.  It ends there, or goes on from the next cursor.
TakePage(c, page, next, more) ==
  LET ask   == call[c].arg
      walk  == call[c].row
      spent == IF ask.cap = None THEN 0
               ELSE walk.spent + (IF ask.unit = "page" THEN 1 ELSE Cardinality(page))
      stops == ~more \/ (ask.cap # None /\ spent >= ask.cap)
  IN  Goto(c, IF stops THEN "told" ELSE "page",
           [walk EXCEPT !.from = next, !.total = None, !.items = None,
                        !.seen = @ \cup page, !.spent = spent, !.cut = stops /\ more])

\* The cursor is the last row of the page before.  One that has left the list is not
\* found, and the walk is back at the beginning.  The limit is taken as it was asked.
ReadAfterRow(c) ==
  LET walk  == call[c].row
      start == IF walk.from \in listed THEN walk.from ELSE 0
      rest  == {e \in listed : e > start}
      page  == Slice(rest, 0, call[c].arg.limit)
  IN  /\ At(c, "walk", "page") /\ paging = "row"
      /\ \/ rest = {} /\ TakePage(c, {}, 0, FALSE)
         \/ \E last \in page :
              (\A e \in page : e <= last) /\ TakePage(c, page, last, page # rest)
      /\ UNCHANGED listingVars

\* The cursor is an offset, and the list is read whole.
ReadSlice(c) ==
  LET walk == call[c].row
      next == walk.from + Clamped(call[c].arg.limit)
  IN  /\ At(c, "walk", "page") /\ paging = "offset"
      /\ TakePage(c, Slice(listed, walk.from, Clamped(call[c].arg.limit)), next,
                  next < Cardinality(listed))
      /\ UNCHANGED listingVars

\* The cursor is an offset; the list is counted in one read and the page fetched in
\* another, neither waiting for the other.

\* Mutation of TakeCounted: a last page of one row is not asked for.
TakeCountedShort(c, page, total) ==
  LET next == call[c].row.from + Cardinality(page)
  IN  TakePage(c, page, next, next + 1 < total)

TakeCounted(c, page, total) ==
  LET next == call[c].row.from + Cardinality(page)
  IN  TakePage(c, page, next, next < total)

CountRows(c) ==
  LET walk == call[c].row IN
  /\ At(c, "walk", "page") /\ paging = "counted" /\ walk.total = None
  /\ IF walk.items = None
     THEN Goto(c, "page", [walk EXCEPT !.total = Cardinality(listed)])
     ELSE TakeCounted(c, walk.items, Cardinality(listed))
  /\ UNCHANGED listingVars

FetchRows(c) ==
  LET walk == call[c].row
      page == Slice(listed, walk.from, Clamped(call[c].arg.limit))
  IN  /\ At(c, "walk", "page") /\ paging = "counted" /\ walk.items = None
      /\ IF walk.total = None
         THEN Goto(c, "page", [walk EXCEPT !.items = page])
         ELSE TakeCounted(c, page, walk.total)
      /\ UNCHANGED listingVars

Tell(c) == At(c, "walk", "told") /\ Leave(c) /\ UNCHANGED listingVars

---------------------------------------------------------------------------
(* The list meanwhile.                                                     *)

\* The walks that `hiding` names may miss a row from now on; `gone` has left the list.
ListMoves(hiding, gone) ==
  /\ call' = [c \in Calls |->
       IF Walking(c) THEN [call[c] EXCEPT !.row.torn = @ \/ c \in hiding,
                                          !.row.stayed = @ \ gone] ELSE call[c]]
  /\ UNCHANGED paging

\* A row that enters between a page's count and its fetch may push the last row of the
\* list past the end of a full last page.
AwaitsPage(c) ==
  Walking(c) /\ paging = "counted" /\ call[c].row.total # None /\ call[c].row.items = None

RowEnters(e) ==
  /\ e \notin listed /\ listed' = listed \cup {e}
  /\ ListMoves({c \in Calls : AwaitsPage(c)}, {})

\* A row that leaves once an offset walk has begun may move another under its cursor.
HasBegun(c) ==
  /\ Walking(c) /\ paging # "row"
  /\ call[c].row.from > 0 \/ call[c].row.total # None \/ call[c].row.items # None

RowLeaves(e) ==
  /\ e \in listed /\ listed' = listed \ {e}
  /\ ListMoves({c \in Calls : HasBegun(c)}, {e})

ListingInit == listed \in SUBSET Entries /\ paging \in {"row", "offset", "counted"}

ListingStep(c) ==
  \/ Desks(c) \/ GetSoldCount(c) \/ FollowersOf(c) \/ BuildOfflineManifest(c) \/ GetFeed(c)
  \/ ScanAll(c) \/ ListGuests(c) \/ GetAttendanceReport(c) \/ ListDoorEvents(c)
  \/ Open(c) \/ ReadAfterRow(c) \/ ReadSlice(c) \/ CountRows(c) \/ FetchRows(c) \/ Tell(c)

ListingWorld == \E e \in Entries : RowEnters(e) \/ RowLeaves(e)

---------------------------------------------------------------------------

\* A walk that was not cut short has taken every row that was in the list all along,
\* unless the list moved under it between two reads that its cursor does not tie
\* together: rows that enter between two pages cost a row twice and never one.
WalksAreWhole ==
  \A c \in Calls :
    At(c, "walk", "told") /\ ~call[c].row.cut /\ ~call[c].row.torn =>
      call[c].row.stayed \subseteq call[c].row.seen

\* The same without the exception: what the sold count and the fan-out are written for.
\* It holds where a row is the cursor.
NothingIsMissed ==
  \A c \in Calls :
    At(c, "walk", "told") /\ ~call[c].row.cut => call[c].row.stayed \subseteq call[c].row.seen
=============================================================================
