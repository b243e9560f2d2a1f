--------------------------- MODULE ReferralLinks ---------------------------
(***************************************************************************)
(* Promoter codes and the referral links of one event.                     *)
(*                                                                         *)
(* Creating a link is a chain of calls: the promoter's assignment to the   *)
(* event is looked up, the promoter's code is reserved in one transaction, *)
(* the vanity address in another, and the link, whose id is made of the    *)
(* promoter and the event, is written last with a plain set.  Clicks and   *)
(* sales move the counters of the row in transactions of their own, which  *)
(* leave its version alone.                                                *)
(***************************************************************************)
EXTENDS Requests

CONSTANTS
  Promoters, Codes, Orders,
  MaxLinkVersion, \* bound on the versions of a row
  MaxClicks       \* bound on the clicks of a link

ASSUME LinkAssumption ==
  /\ MaxLinkVersion \in Nat \ {0} /\ MaxClicks \in Nat
  /\ IsFiniteSet(Orders) /\ None \notin Promoters /\ None \notin Codes

VARIABLES
  assigned,   \* promoters with an active assignment to the event
  codeOf,     \* promoter -> the code reserved for it
  ownerOf,    \* code -> the promoter that reserved it
  aliasOf,    \* code (the vanity address is made from it) -> the promoter's link
  link,       \* promoter -> its link for the event, the id being deterministic
  sales       \* promoter -> orders recorded under its link

linkVars == <<assigned, codeOf, ownerOf, aliasOf, link, sales>>

Link == [code : Codes, active : BOOLEAN, clicks : 0..MaxClicks,
         sold : 0..Cardinality(Orders), version : 1..MaxLinkVersion]

LinkTypeOK ==
  /\ assigned \subseteq Promoters
  /\ codeOf \in [Promoters -> Codes \cup {None}] /\ ownerOf \in [Codes -> Promoters \cup {None}]
  /\ aliasOf \in [Codes -> Promoters \cup {None}]
  /\ link \in [Promoters -> Link \cup {None}] /\ sales \in [Promoters -> SUBSET Orders]

NewLink(code) == [code |-> code, active |-> TRUE, clicks |-> 0, sold |-> 0, version |-> 1]

\* A link already inactive is handed back as it was read.
Deactivated(l) == IF l.active THEN Bump([l EXCEPT !.active = FALSE]) ELSE l

LinksWith(code) == {p \in Promoters : link[p] # None /\ link[p].code = code}

---------------------------------------------------------------------------

\* A promoter asks for the link of its own assignment, or the event's host for it.
\* The body may ask for a code; without one the promoter's own, or a new one,
\* is proposed.
PostReferralLink(c) ==
  /\ \E p \in Promoters, code \in Codes \cup {None} : Arrive(c, "newLink", p, p, code)
  /\ UNCHANGED linkVars

PostEventLink(c) ==
  /\ \E p \in Promoters, code \in Codes \cup {None} : Arrive(c, "newLink", None, p, code)
  /\ UNCHANGED linkVars

PostDeactivation(c) ==
  /\ \E p \in Promoters : link[p] # None /\ Arrive(c, "deactivate", p, p, None)
  /\ UNCHANGED linkVars

\* A promoter needs its assignment; the host's request makes one that is missing, over
\* whatever row of it there is, suspended or ended.
FindAssignment(c) ==
  LET q == call[c] IN
  /\ At(c, "newLink", "read")
  /\ IF q.on \in assigned \/ q.who = None THEN Goto(c, "code", None) ELSE Leave(c)
  /\ assigned' = IF q.who = None THEN assigned \cup {q.on} ELSE assigned
  /\ UNCHANGED <<codeOf, ownerOf, aliasOf, link, sales>>

Proposals(q) ==
  IF q.arg # None THEN {q.arg} ELSE IF link[q.on] # None THEN {link[q.on].code} ELSE Codes

\* Mutation of Reserve: the code's owner is not looked at.
ReserveAnyway(p, proposed) ==
  IF codeOf[p] = None THEN {proposed} ELSE {codeOf[p]}

\* The transaction: the promoter's code, unless another promoter has it.
Reserve(p, proposed) ==
  LET code == IF codeOf[p] = None THEN proposed ELSE codeOf[p] IN
  When(ownerOf[code] \in {None, p}, code)

\* A generated code that is taken is tried again with another; a requested one
\* that is taken, or is not the promoter's, ends the request.
GetOrCreatePromoterCode(c) ==
  LET q == call[c] IN
  /\ At(c, "newLink", "code")
  /\ \E proposed \in Proposals(q) :
       IF Reserve(q.on, proposed) = {} THEN Leave(c) /\ UNCHANGED linkVars
       ELSE \E code \in Reserve(q.on, proposed) :
              /\ codeOf' = [codeOf EXCEPT ![q.on] = code]
              /\ ownerOf' = [ownerOf EXCEPT ![code] = q.on]
              /\ IF q.arg \in {None, code} THEN Goto(c, "clash", code) ELSE Leave(c)
              /\ UNCHANGED <<assigned, aliasOf, link, sales>>

\* A link of another promoter with this code, then this promoter's own link.
FindByCode(c) ==
  LET q == call[c] code == q.row IN
  /\ At(c, "newLink", "clash")
  /\ IF LinksWith(code) # {} THEN Leave(c) ELSE Goto(c, "alias", code)
  /\ UNCHANGED linkVars

ClaimVanityAlias(c) ==
  LET q == call[c] code == q.row IN
  /\ At(c, "newLink", "alias")
  /\ IF aliasOf[code] \in {None, q.on}
     THEN /\ aliasOf' = [aliasOf EXCEPT ![code] = q.on]
          /\ Goto(c, "saveLink", NewLink(code))
     ELSE Leave(c) /\ UNCHANGED aliasOf
  /\ UNCHANGED <<assigned, codeOf, ownerOf, link, sales>>

DeactivateReferralLink(c) ==
  /\ At(c, "deactivate", "read") /\ HasRoom(link[call[c].on], MaxLinkVersion)
  /\ Goto(c, "saveLink", Deactivated(link[call[c].on]))
  /\ UNCHANGED linkVars

SaveLink(c) ==
  /\ call[c].pc = "saveLink"
  /\ link' = Written(link, call[c].on, call[c].row)
  /\ Leave(c)
  /\ UNCHANGED <<assigned, codeOf, ownerOf, aliasOf, sales>>

\* Checkout records the sale of an order: once per order, version untouched.
RecordSale(p, o) ==
  /\ link[p] # None /\ o \notin sales[p]
  /\ \A r \in Promoters : o \notin sales[r]
  /\ sales' = [sales EXCEPT ![p] = @ \cup {o}]
  /\ link' = [link EXCEPT ![p].sold = @ + 1]
  /\ UNCHANGED <<assigned, codeOf, ownerOf, aliasOf, call>>

\* A guest opens the link: counted while it is active.
TrackClick(p) ==
  /\ link[p] # None /\ link[p].active /\ link[p].clicks < MaxClicks
  /\ link' = [link EXCEPT ![p].clicks = @ + 1]
  /\ UNCHANGED <<assigned, codeOf, ownerOf, aliasOf, sales, call>>

\* The host assigns the promoter, or ends it, or an admin suspends: see Catalogue.
\* A request looks once, at its start, so that this may come before it, or after.
AssignmentMoves(p) ==
  /\ \A c \in Calls : call[c].on # p
  /\ assigned' \in {assigned \cup {p}, assigned \ {p}}
  /\ UNCHANGED <<codeOf, ownerOf, aliasOf, link, sales, call>>

LinkInit ==
  /\ assigned = {}
  /\ codeOf = [p \in Promoters |-> None] /\ ownerOf = [x \in Codes |-> None]
  /\ aliasOf = [x \in Codes |-> None] /\ link = [p \in Promoters |-> None]
  /\ sales = [p \in Promoters |-> {}]

LinkStep(c) ==
  \/ PostReferralLink(c) \/ PostEventLink(c) \/ PostDeactivation(c)
  \/ FindAssignment(c) \/ GetOrCreatePromoterCode(c) \/ FindByCode(c)
  \/ ClaimVanityAlias(c) \/ DeactivateReferralLink(c) \/ SaveLink(c)

LinkWorld ==
  \E p \in Promoters :
    TrackClick(p) \/ AssignmentMoves(p) \/ \E o \in Orders : RecordSale(p, o)

---------------------------------------------------------------------------

\* A code names one promoter, a promoter has one code in every link it makes, and
\* no link counts more sales than were recorded under it, whatever overlaps.
CodesAreOwned ==
  \A p \in Promoters : link[p] # None =>
    /\ link[p].code = codeOf[p] /\ ownerOf[link[p].code] = p
    /\ aliasOf[link[p].code] = p
    /\ link[p].sold <= Cardinality(sales[p])
=============================================================================
