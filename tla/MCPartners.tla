----------------------------- MODULE MCPartners -----------------------------
(***************************************************************************)
(* The partner side in one run.  Its components share no row, so a         *)
(* behaviour exercises one of them, chosen at the start, with several      *)
(* requests in flight: interleaving them with another component's would    *)
(* reach no further state of either.                                       *)
(***************************************************************************)
EXTENDS Access, Relations, ReferralLinks, Onboarding, TLC

CONSTANTS founder, p1, p2

VARIABLE part   \* the component this behaviour exercises

partnersVars == <<call, part, orgVars, accessVars, relVars, linkVars, onbVars>>

Init ==
  /\ call = [c \in Calls |-> Idle]
  /\ part \in {"organization", "partnership", "connection", "referral", "onboarding", "access"}
  /\ AccessInit /\ (part = "access" \/ trade = CHOOSE t \in Trades : TRUE)
  /\ IF part = "access" THEN org \in Staffed /\ NobodyInvited ELSE OrgInit
  /\ RelInit /\ LinkInit /\ OnbInit

\* The gateway's process dies between two of a request's calls.
Dies(c) ==
  /\ ~Free(c) /\ Leave(c)
  /\ UNCHANGED <<orgVars, accessVars, relVars, linkVars, onbVars>>

OrganizationPart ==
  /\ part = "organization" /\ UNCHANGED <<accessVars, relVars, linkVars, onbVars>>
  /\ (\E c \in Calls : OrgStep(c)) \/ Lapse
RelationPart ==
  /\ UNCHANGED <<orgVars, accessVars, linkVars, onbVars>>
  /\ \E c \in Calls : \/ part = "partnership" /\ RelStep(c, Partnerships)
                      \/ part = "connection" /\ RelStep(c, Connections)
ReferralPart ==
  /\ part = "referral" /\ UNCHANGED <<orgVars, accessVars, relVars, onbVars>>
  /\ (\E c \in Calls : LinkStep(c)) \/ LinkWorld
OnboardingPart ==
  /\ part = "onboarding" /\ UNCHANGED <<orgVars, accessVars, relVars, linkVars>>
  /\ \E c \in Calls : OnbStep(c)
\* A request for a dashboard may meet one of another kind; others do not meet.
MeetsAccess(c) ==
  Free(c) => \A d \in Calls \ {c} : Free(d) \/ (call[d].op = "access" /\ call'[c].op # "access")

AccessPart ==
  /\ part = "access" /\ UNCHANGED <<relVars, linkVars, onbVars>>
  /\ \/ (\E c \in Calls : AccessStep(c) /\ MeetsAccess(c)) /\ UNCHANGED orgVars
     \/ DayPasses /\ UNCHANGED orgVars
     \/ MembershipMoves

Next ==
  /\ UNCHANGED part
  /\ \/ \E c \in Calls : Dies(c)
     \/ OrganizationPart \/ RelationPart \/ ReferralPart \/ OnboardingPart
     \/ AccessPart

Spec == Init /\ [][Next]_partnersVars

TypeOK == OrgTypeOK /\ AccessTypeOK /\ RelTypeOK /\ LinkTypeOK /\ OnbTypeOK

Symmetry == Permutations(Calls) \cup Permutations({p1, p2}) \cup Permutations(Promoters)
=============================================================================
