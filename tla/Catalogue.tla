----------------------------- MODULE Catalogue -----------------------------
(***************************************************************************)
(* What a host sets up around an event, and what an admin does to the      *)
(* promoters of all of them: promo codes, table packages and promoter      *)
(* assignments.                                                            *)
(*                                                                         *)
(* The catalogue's repository writes every row with a plain set.  An       *)
(* admin's suspension lists a promoter's assignments and writes them back  *)
(* one by one as they were listed.  Commission terms are frozen when an    *)
(* assignment is made: the model keeps one rate.                           *)
(***************************************************************************)
EXTENDS Requests

CONSTANTS
  Assignments,          \* ids of the assignments of one promoter
  Promos, Tables,       \* ids of promo codes and table packages
  Rates,                \* commission rates
  MaxAssignmentVersion  \* bound on the versions of a row

VARIABLES
  assignment,   \* the assignment rows
  promo,        \* promo codes on sale
  table,        \* table packages on sale
  invited       \* assignments whose promoter has been notified

catalogueVars == <<assignment, promo, table, invited>>

PromoterAssignment ==
  [status : {"active", "ended", "suspended"}, rate : Rates, version : 1..MaxAssignmentVersion]

CatalogueTypeOK ==
  /\ assignment \in [Assignments -> PromoterAssignment \cup {None}]
  /\ promo \subseteq Promos /\ table \subseteq Tables
  /\ invited \subseteq Assignments

---------------------------------------------------------------------------
(* The rules of the catalogue model.                                       *)

CreatePromoterAssignment(rate) == [status |-> "active", rate |-> rate, version |-> 1]

\* An assignment that has ended is handed back as it was read by all three.
EndPromoterAssignment(a) ==
  IF a.status = "ended" THEN a ELSE Bump([a EXCEPT !.status = "ended"])
SuspendPromoterAssignment(a) ==
  IF a.status # "active" THEN a ELSE Bump([a EXCEPT !.status = "suspended"])
ReinstatePromoterAssignment(a) ==
  IF a.status # "suspended" THEN a ELSE Bump([a EXCEPT !.status = "active"])

---------------------------------------------------------------------------
(* The routes: who may ask.                                                *)

PostPromotion(c) == \E p \in Promos \ promo : Arrive(c, "createPromotion", "host", p, None)
PostTable(c)     == \E t \in Tables \ table : Arrive(c, "createTable", "host", t, None)

\* A row's id is fresh.
PostAssignment(c) ==
  \E a \in Assignments, rate \in Rates :
    /\ assignment[a] = None /\ \A d \in Calls : call[d].on # a
    /\ Arrive(c, "assign", "host", a, rate)

PostAssignmentEnd(c) ==
  \E a \in Assignments : assignment[a] # None /\ Arrive(c, "end", "host", a, None)

PostPromoterSuspend(c)   == Arrive(c, "suspend", "admin", None, None)
PostPromoterReinstate(c) == Arrive(c, "reinstate", "admin", None, None)

CatalogueArrives(c) ==
  /\ \/ PostPromotion(c) \/ PostTable(c) \/ PostAssignment(c) \/ PostAssignmentEnd(c)
     \/ PostPromoterSuspend(c) \/ PostPromoterReinstate(c)
  /\ UNCHANGED catalogueVars

---------------------------------------------------------------------------
(* The host's side.                                                        *)

CreatePromotion(c) ==
  /\ At(c, "createPromotion", "read")
  /\ promo' = promo \cup {call[c].on} /\ Leave(c)
  /\ UNCHANGED <<assignment, table, invited>>

CreateTable(c) ==
  /\ At(c, "createTable", "read")
  /\ table' = table \cup {call[c].on} /\ Leave(c)
  /\ UNCHANGED <<assignment, promo, invited>>

SaveAssignment(a, row) == assignment' = [assignment EXCEPT ![a] = row]

\* The assignment is saved, then its promoter notified.
AssignPromoter(c) ==
  /\ At(c, "assign", "read")
  /\ SaveAssignment(call[c].on, CreatePromoterAssignment(call[c].arg))
  /\ Goto(c, "notify", None)
  /\ UNCHANGED <<promo, table, invited>>

NotifyPromoter(c) ==
  /\ At(c, "assign", "notify")
  /\ invited' = invited \cup {call[c].on} /\ Leave(c)
  /\ UNCHANGED <<assignment, promo, table>>

EndAssignment(c) ==
  LET a == call[c].on IN
  /\ At(c, "end", "read") /\ HasRoom(assignment[a], MaxAssignmentVersion)
  /\ Goto(c, "save", EndPromoterAssignment(assignment[a]))
  /\ UNCHANGED catalogueVars

SaveEnded(c) ==
  /\ At(c, "end", "save")
  /\ SaveAssignment(call[c].on, call[c].row) /\ Leave(c)
  /\ UNCHANGED <<promo, table, invited>>

---------------------------------------------------------------------------
(* The admins' side: `row` holds the rows to be written, and the ids of    *)
(* those written so far.                                                   *)

Matching(op) ==
  {a \in Assignments : /\ assignment[a] # None
                       /\ assignment[a].status = IF op = "suspend" THEN "active" ELSE "suspended"}

Flipped(op, a) == IF op = "suspend" THEN SuspendPromoterAssignment(a)
                                    ELSE ReinstatePromoterAssignment(a)

\* The list is read once; every row is written as it was listed.
ListAssignmentsByPromoter(c) ==
  LET q == call[c] todo == Matching(q.op) IN
  /\ q.op \in {"suspend", "reinstate"} /\ q.pc = "read"
  /\ \A a \in todo : HasRoom(assignment[a], MaxAssignmentVersion)
  /\ IF todo = {} THEN Leave(c)
     ELSE Goto(c, "write", [todo |-> [a \in todo |-> Flipped(q.op, assignment[a])], done |-> {}])
  /\ UNCHANGED catalogueVars

SaveNextAssignment(c) ==
  LET q == call[c] IN
  /\ q.pc = "write"
  /\ \E a \in DOMAIN q.row.todo \ q.row.done :
       /\ SaveAssignment(a, q.row.todo[a])
       /\ Goto(c, "write", [q.row EXCEPT !.done = @ \cup {a}])
  /\ UNCHANGED <<promo, table, invited>>

\* The audit record, which is not kept here, ends the request.
RecordAction(c) ==
  LET q == call[c] IN
  /\ q.pc = "write" /\ q.row.done = DOMAIN q.row.todo
  /\ Leave(c) /\ UNCHANGED catalogueVars

CatalogueInit ==
  /\ assignment = [a \in Assignments |-> None]
  /\ promo = {} /\ table = {} /\ invited = {}

CatalogueStep(c) ==
  \/ CatalogueArrives(c) \/ CreatePromotion(c) \/ CreateTable(c) \/ AssignPromoter(c)
  \/ NotifyPromoter(c) \/ EndAssignment(c) \/ SaveEnded(c)
  \/ ListAssignmentsByPromoter(c) \/ SaveNextAssignment(c) \/ RecordAction(c)
=============================================================================
