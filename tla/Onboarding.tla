----------------------------- MODULE Onboarding -----------------------------
(***************************************************************************)
(* One person's applications to become a partner: drafting, documents,     *)
(* submission, the KYC desk's verdict on each document, the onboarding     *)
(* desk's decision, and the rate limit of document checks.                 *)
(*                                                                         *)
(* Approval provisions the organisation in one write and closes the        *)
(* application in the next.  A profile is reduced to the entity type that  *)
(* decides which documents are required, one label for each type.          *)
(***************************************************************************)
EXTENDS Requests

CONSTANTS
  Applications,   \* ids of application rows, all of one applicant
  AttemptLimit,   \* document checks per applicant and day (5)
  MaxAppVersion  \* bound on the versions of a row

ASSUME OnbAssumption == MaxAppVersion \in Nat \ {0}

VARIABLES
  application,    \* the rows
  provisioned,    \* organisations created by approvals: <<application, approval>>
  attempts        \* recorded document checks of the last day

onbVars == <<application, provisioned, attempts>>

Entities == {"individual", "business"}
Labels == {"id", "registration"}
Required == [individual |-> {"id"}, business |-> {"registration"}]

Application ==
  [status : {"draft", "submitted", "changes_requested", "approved", "rejected"},
   entity : Entities, docs : [Labels -> {"pending", "verified", "rejected", None}],
   organization : (Applications \X Calls) \cup {None}, version : 1..MaxAppVersion]

OnbTypeOK ==
  /\ application \in [Applications -> Application \cup {None}]
  /\ provisioned \subseteq Applications \X Calls
  /\ attempts \in Nat

OnboardingTransitions ==
  [draft |-> {"submitted"}, submitted |-> {"approved", "rejected", "changes_requested"},
   changes_requested |-> {"submitted"}, approved |-> {}, rejected |-> {}]

---------------------------------------------------------------------------
(* The rules of the model.                                                 *)

NewApplication(entity) ==
  [status |-> "draft", entity |-> entity, docs |-> [l \in Labels |-> None],
   organization |-> None, version |-> 1]

UpdateProfile(a, entity) ==
  When(a.status \in {"draft", "changes_requested"}, Bump([a EXCEPT !.entity = entity]))

\* A new upload replaces the old one of its label and is unverified again.
AddDocument(a, label) ==
  When(a.status \notin {"approved", "rejected"}, Bump([a EXCEPT !.docs[label] = "pending"]))

\* The KYC desk's verdict does not look at the application's status.
ReviewDocument(a, label, verdict) ==
  When(a.docs[label] # None, Bump([a EXCEPT !.docs[label] = verdict]))

MissingDocuments(a) == {l \in Required[a.entity] : a.docs[l] = None}
AllRequiredVerified(a) == \A l \in Required[a.entity] : a.docs[l] = "verified"

\* Moving to the state the row is in is no error: it is a new version of the row,
\* and a review that is repeated replaces the one before.
Moves(a, to) ==
  When(to = a.status \/ to \in OnboardingTransitions[a.status], Bump([a EXCEPT !.status = to]))

Submit(a) == IF MissingDocuments(a) = {} THEN Moves(a, "submitted") ELSE {}

\* The service refuses a repeated approval before it provisions anything.
Approve(a, o) ==
  IF a.status = "submitted" /\ AllRequiredVerified(a)
  THEN Moves([a EXCEPT !.organization = o], "approved") ELSE {}

ApplicantRule(q, a) ==
  CASE q.op = "saveProgress" -> UpdateProfile(a, q.arg)
    [] q.op = "addDocument"  -> AddDocument(a, q.arg)
    [] q.op = "submit"       -> Submit(a)

DeskRule(q, a) == ReviewDocument(a, q.arg, IF q.op = "verifyDoc" THEN "verified" ELSE "rejected")

ReviewRule(q, a) == Moves(a, IF q.op = "reject" THEN "rejected" ELSE "changes_requested")

OnboardingRule(q, a) ==
  CASE q.op \in {"saveProgress", "addDocument", "submit"} -> ApplicantRule(q, a)
    [] q.op \in {"verifyDoc", "rejectDoc"} -> DeskRule(q, a)
    [] OTHER -> ReviewRule(q, a)

---------------------------------------------------------------------------
(* The routes: the applicant's own, and the admins'.                       *)

PostApplication(c) ==
  \E id \in Applications, e \in Entities :
    /\ application[id] = None /\ \A d \in Calls : call[d].on # id
    /\ Arrive(c, "start", "applicant", id, e)

PatchApplication(c, id) == \E e \in Entities : Arrive(c, "saveProgress", "applicant", id, e)
PostDocument(c, id) == \E l \in Labels : Arrive(c, "addDocument", "applicant", id, l)
PostSubmission(c, id) == Arrive(c, "submit", "applicant", id, None)
PostVerification(c) == Arrive(c, "check", "applicant", None, None)

PostDocumentVerified(c, id) == \E l \in Labels : Arrive(c, "verifyDoc", "admin", id, l)
PostDocumentRejected(c, id) == \E l \in Labels : Arrive(c, "rejectDoc", "admin", id, l)
PostApproval(c, id) == Arrive(c, "approve", "admin", id, None)
PostReview(c, id) == \E op \in {"reject", "changes"} : Arrive(c, op, "admin", id, None)

OnbArrives(c) ==
  /\ \/ PostApplication(c) \/ PostVerification(c)
     \/ \E id \in Applications :
          /\ application[id] # None
          /\ \/ PatchApplication(c, id) \/ PostDocument(c, id) \/ PostSubmission(c, id)
             \/ PostDocumentVerified(c, id) \/ PostDocumentRejected(c, id)
             \/ PostApproval(c, id) \/ PostReview(c, id)
  /\ UNCHANGED onbVars

---------------------------------------------------------------------------
(* The service.                                                            *)

\* One open application per person: looked up here, relied on when it is saved.
OpenApplications ==
  {id \in Applications : /\ application[id] # None
                         /\ application[id].status \notin {"approved", "rejected"}}

Start(c) ==
  /\ At(c, "start", "read")
  /\ Decide(c, When(OpenApplications = {}, NewApplication(call[c].arg)), "saveApplication")
  /\ UNCHANGED onbVars

SingleWrites ==
  {"saveProgress", "addDocument", "submit", "verifyDoc", "rejectDoc", "reject", "changes"}

ReadApplication(c) ==
  LET q == call[c] IN
  /\ q.op \in SingleWrites /\ q.pc = "read" /\ HasRoom(application[q.on], MaxAppVersion)
  /\ Decide(c, OnboardingRule(q, application[q.on]), "saveApplication")
  /\ UNCHANGED onbVars

ReadForApproval(c) ==
  LET q == call[c] IN
  /\ At(c, "approve", "read") /\ HasRoom(application[q.on], MaxAppVersion)
  /\ Decide(c, Approve(application[q.on], <<q.on, c>>), "provision")
  /\ UNCHANGED onbVars

\* Mutation of Provision: the application is closed before the organisation exists.
ProvisionNothing(c) ==
  /\ call[c].pc = "provision"
  /\ Goto(c, "saveApplication", call[c].row)
  /\ UNCHANGED onbVars

Provision(c) ==
  /\ call[c].pc = "provision"
  /\ provisioned' = provisioned \cup {call[c].row.organization}
  /\ Goto(c, "saveApplication", call[c].row)
  /\ UNCHANGED <<application, attempts>>

SaveApplication(c) ==
  /\ call[c].pc = "saveApplication"
  /\ application' = Written(application, call[c].on, call[c].row)
  /\ Leave(c)
  /\ UNCHANGED <<provisioned, attempts>>

UnderLimit == attempts < AttemptLimit

\* A document check counts the day's attempts, asks the provider, and records
\* the attempt whatever the provider answered.
CountAttempts(c) ==
  /\ At(c, "check", "read")
  /\ IF UnderLimit THEN Goto(c, "verify", None) ELSE Leave(c)
  /\ UNCHANGED onbVars

RecordAttempt(c) ==
  /\ At(c, "check", "verify")
  /\ attempts' = attempts + 1
  /\ Leave(c)
  /\ UNCHANGED <<application, provisioned>>

OnbInit ==
  /\ application = [id \in Applications |-> None]
  /\ provisioned = {} /\ attempts = 0

OnbStep(c) ==
  \/ OnbArrives(c) \/ Start(c) \/ ReadApplication(c) \/ ReadForApproval(c)
  \/ Provision(c) \/ SaveApplication(c) \/ CountAttempts(c) \/ RecordAttempt(c)

---------------------------------------------------------------------------

\* Stated here and checked by no run: an approval that is refused leaves no
\* organisation behind that its application does not name.  The gate is checked
\* before the organisation is created; losing the save that follows is not, and
\* the README lists what breaks it.
NoOrphans ==
  \A o \in provisioned :
    \/ application[o[1]].organization = o
    \/ call[o[2]].op = "approve" /\ call[o[2]].pc = "saveApplication"

\* An application is approved over a row whose required documents the KYC desk
\* had all verified and that no upload has replaced since, and the organisation
\* it names exists by then; nothing reopens it, or moves it to another
\* organisation, afterwards.
ApprovalIsSound ==
  [][\A id \in Applications : application[id] # None =>
       LET old == application[id] new == application'[id] IN
       /\ new.status = "approved" /\ old.status # "approved" =>
            /\ AllRequiredVerified(old) /\ AllRequiredVerified(new)
            /\ new.organization \in provisioned
       /\ old.status \in {"approved", "rejected"} =>
            new.status = old.status /\ new.organization = old.organization]_application
=============================================================================
