------------------------------ MODULE Disputes ------------------------------
(***************************************************************************)
(* A partner's challenge of an amount in the ledger, and its resolution:   *)
(* by the partner, which never touches the ledger, or by an admin, who     *)
(* writes a correcting entry when the challenge is upheld.                 *)
(*                                                                         *)
(* Two requests of one dispute interleave between reading it and saving    *)
(* it; the correcting entry is a write of its own, before the save.  The   *)
(* order an upheld dispute names is looked up: an unknown one ends the     *)
(* request, as its process's death does.                                   *)
(***************************************************************************)
EXTENDS Requests

CONSTANTS Disputes   \* ids of disputes

VARIABLES
  dispute,      \* the dispute rows
  correction    \* disputes with a correcting entry in the ledger

disputeVars == <<dispute, correction>>

Outcomes == {"upheld", "denied"}

DisputeAt(versions) ==
  [status : {"open", "under_review", "resolved"}, resolution : Outcomes \cup {None},
   version : versions]
Dispute == DisputeAt(1..3)

\* No row and no outcome are neither.
ASSUME DisputeAssumption == None \notin Outcomes /\ None \notin DisputeAt(Nat)

DisputeTypeOK ==
  /\ dispute \in [Disputes -> Dispute \cup {None}]
  /\ correction \subseteq Disputes

---------------------------------------------------------------------------
(* The rules of the dispute model.                                         *)

CreateDispute == [status |-> "open", resolution |-> None, version |-> 1]

BeginReview(d) == When(d.status = "open", Bump([d EXCEPT !.status = "under_review"]))

ResolveDispute(d) == When(d.status # "resolved", Bump([d EXCEPT !.status = "resolved"]))

AdminResolveDispute(d, outcome) ==
  When(d.status # "resolved",
       Bump([d EXCEPT !.status = "resolved", !.resolution = outcome]))

---------------------------------------------------------------------------
(* The routes: who may ask.                                                *)

\* A dispute's id is fresh: one per organisation and millisecond.
PostDispute(c) ==
  \E d \in Disputes : /\ dispute[d] = None /\ \A e \in Calls : call[e].on # d
                      /\ Arrive(c, "raise", "partner", d, None)

Raised == {d \in Disputes : dispute[d] # None}

PostDisputeReview(c)  == \E d \in Raised : Arrive(c, "review", "partner", d, None)
PostResolve(c) == \E d \in Raised : Arrive(c, "resolve", "partner", d, None)
PostAdminResolve(c) ==
  \E d \in Raised, outcome \in Outcomes : Arrive(c, "adminResolve", "admin", d, outcome)

DisputeArrives(c) ==
  /\ PostDispute(c) \/ PostDisputeReview(c) \/ PostResolve(c) \/ PostAdminResolve(c)
  /\ UNCHANGED disputeVars

---------------------------------------------------------------------------
(* The services: read, decide, write.                                      *)

RaiseDispute(c) ==
  /\ At(c, "raise", "read")
  /\ dispute' = [dispute EXCEPT ![call[c].on] = CreateDispute]
  /\ Leave(c) /\ UNCHANGED correction

FindOwned(c) ==
  LET d == dispute[call[c].on] IN
  /\ \/ At(c, "review", "read") /\ Decide(c, BeginReview(d), "save")
     \/ At(c, "resolve", "read") /\ Decide(c, ResolveDispute(d), "save")
  /\ UNCHANGED disputeVars

\* Mutation of NextAfter: an upheld dispute is saved without its correction.
SavesAtOnce(outcome) == "save"

NextAfter(outcome) == IF outcome = "upheld" THEN "correct" ELSE "save"

Adjudicate(c) ==
  LET q == call[c] IN
  /\ At(c, "adminResolve", "read")
  /\ Decide(c, AdminResolveDispute(dispute[q.on], q.arg), NextAfter(q.arg))
  /\ UNCHANGED disputeVars

\* Keyed by the dispute: a second correction is the first one.
WriteCorrection(c) ==
  /\ At(c, "adminResolve", "correct")
  /\ correction' = correction \cup {call[c].on}
  /\ Goto(c, "save", call[c].row) /\ UNCHANGED dispute

\* The save finds the version the request read, or is refused.
SaveDispute(c) ==
  LET q == call[c] IN
  /\ q.op \in {"review", "resolve", "adminResolve"} /\ q.pc = "save"
  /\ dispute' = Written(dispute, q.on, q.row)
  /\ Leave(c) /\ UNCHANGED correction

DisputeInit == dispute = [d \in Disputes |-> None] /\ correction = {}

DisputeStep(c) ==
  \/ DisputeArrives(c) \/ RaiseDispute(c) \/ FindOwned(c) \/ Adjudicate(c)
  \/ WriteCorrection(c) \/ SaveDispute(c)

---------------------------------------------------------------------------

\* A dispute an admin has upheld has its correcting entry in the ledger, whatever
\* died between the two writes and whoever resolved it at the same time.
UpheldIsPaid ==
  \A d \in Raised : dispute[d].resolution = "upheld" => d \in correction
=============================================================================
