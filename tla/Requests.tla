------------------------------ MODULE Requests ------------------------------
(***************************************************************************)
(* What the partner, programme, desk and finance modules share: requests   *)
(* that read a row in one awaited call and write it back in a later one,   *)
(* and the compare-and-set every firestore repository writes with.         *)
(*                                                                         *)
(* A request the gateway refuses (no session, missing permission, invalid  *)
(* body) changes nothing, so a request here is one the gateway let         *)
(* through.  A rule of the domain is an operator that answers the set of   *)
(* rows it may produce: empty when it throws.                              *)
(***************************************************************************)
EXTENDS Naturals, FiniteSets

CONSTANTS
  Calls,        \* requests in flight at a time
  None

VARIABLE call   \* each request: what it asks, how far it is, what it read

Idle == [op |-> "idle", pc |-> "idle", who |-> None, on |-> None, arg |-> None, row |-> None]

Free(c) == call[c].pc = "idle"
At(c, op, pc) == call[c].op = op /\ call[c].pc = pc

\* A request arrives: operation, caller, the row it names, what its body asks.
Arrive(c, op, who, on, arg) ==
  /\ Free(c)
  /\ call' = [call EXCEPT ![c] = [op |-> op, pc |-> "read", who |-> who, on |-> on,
                                  arg |-> arg, row |-> None]]

\* It goes on with the row it read or is about to write.
Goto(c, pc, row) == call' = [call EXCEPT ![c].pc = pc, ![c].row = row]

\* It answers, or refuses, or its process dies: nothing of it is left.
Leave(c) == call' = [call EXCEPT ![c] = Idle]

\* The step after reading: go on with a row the rule produced, or be refused.
Decide(c, rows, pc) == IF rows = {} THEN Leave(c) ELSE \E r \in rows : Goto(c, pc, r)

---------------------------------------------------------------------------
(* Versioned rows.                                                         *)

\* A rule that answers one row, or throws.
When(ok, row) == IF ok THEN {row} ELSE {}

Bump(row) == [row EXCEPT !.version = @ + 1]
\* The bound of a model: a row at its last version is not read to be written.
HasRoom(row, last) == row # None /\ row.version < last

\* Mutation of MayWrite: a write does not look at the stored version.
WritesBlindly(stored, next) == TRUE

\* A first version is a plain set; a later one must find its predecessor.
MayWrite(stored, next) ==
  \/ next.version = 1
  \/ stored # None /\ stored.version = next.version - 1

Written(rows, id, next) ==
  IF MayWrite(rows[id], next) THEN [rows EXCEPT ![id] = next] ELSE rows
=============================================================================
