------------------------------ MODULE Payouts ------------------------------
(***************************************************************************)
(* Payouts of one organization's ledger balance to its bank account:       *)
(* PayoutService (request, beginProcessing, complete, fail) and            *)
(* AdminPayoutService (freeze, release, runBatch).  A call is one request  *)
(* to the gateway; rows are saved by compare-and-set on their version,     *)
(* under both drivers, and created by a plain set.                         *)
(*                                                                         *)
(* Freeze and release run from an approved proposal.  An approved proposal *)
(* stays executable (AdminAuthority), so any call may run one at any time. *)
(* The ledger's settled sum is a constant: no code moves an entry out of   *)
(* `settled`, and a sale during the run only adds to it.                   *)
(***************************************************************************)
EXTENDS Integers, Sequences, FiniteSetsExt, TLC

CONSTANTS
  Calls,      \* HTTP requests
  MaxId,      \* payout ids are the milliseconds 1..MaxId
  Amounts,    \* amounts asked for, in units of the minimum payout
  Settled,    \* settled host payouts, venue shares and commissions
  Ops,        \* the operations called
  Batches,    \* the id lists runBatch is called with
  Serial,     \* calls run one at a time
  SameMillisecond  \* two requests may be decided in one millisecond

Ids == 1..MaxId
AllOps == {"request", "begin", "complete", "fail", "freeze", "release", "batch"}

ASSUME PayoutsAssumption ==
  /\ MaxId \in Nat /\ Settled \in Nat
  /\ Amounts \subseteq Nat \ {0}
  /\ Ops \subseteq AllOps
  /\ Batches \subseteq Seq(Ids)
  /\ Serial \in BOOLEAN
  /\ SameMillisecond \in BOOLEAN

VARIABLES
  payout,     \* the payouts by id
  last,       \* the millisecond of the newest payout id
  call        \* each call in flight

vars == <<payout, last, call>>

---------------------------------------------------------------------------
Statuses == {"none", "requested", "processing", "paid", "failed", "frozen"}
Payout == [status : Statuses, previousStatus : {"none", "requested", "processing"},
           amount : Nat, version : Nat]
NoPayout == [status |-> "none", previousStatus |-> "none", amount |-> 0, version |-> 0]

\* createPayout.
NewPayout(a) ==
  [status |-> "requested", previousStatus |-> "none", amount |-> a, version |-> 1]

\* What one of the two sums has counted: the amount of every row it matched.
Counted == [Ids -> Nat]
Uncounted == [i \in Ids |-> 0]

Call == [pc : {"idle", "sums", "create", "read", "save", "record", "done"},
         op : AllOps, id : Ids \cup {0}, amount : Nat, read : Payout,
         unread : SUBSET {"paid", "reserved"}, paid : Counted, reserved : Counted,
         todo : Seq(Ids), reply : {"none", "ok", "refused", "conflict"},
         moved : BOOLEAN, recorded : BOOLEAN]

Idle == [pc |-> "idle", op |-> "request", id |-> 0, amount |-> 0, read |-> NoPayout,
         unread |-> {}, paid |-> Uncounted, reserved |-> Uncounted, todo |-> <<>>,
         reply |-> "none", moved |-> FALSE, recorded |-> FALSE]

Set(k, c) == call' = [call EXCEPT ![k] = c]
Reply(k, r) == Set(k, [call[k] EXCEPT !.pc = "done", !.reply = r])

InFlight == {k \in Calls : call[k].pc \notin {"idle", "done"}}
MayBegin(op) ==
  /\ op \in Ops
  /\ Serial => InFlight = {}

Total(counted) == MapThenSumSet(LAMBDA i : counted[i], Ids)

\* sumRequestedOrProcessingByOrganization.
Reserving == {"requested", "processing"}

Amount(statuses) == [i \in Ids |-> IF payout[i].status \in statuses THEN payout[i].amount ELSE 0]

Init ==
  /\ payout = [i \in Ids |-> NoPayout]
  /\ last = 0
  /\ call = [k \in Calls |-> Idle]

---------------------------------------------------------------------------
(* PayoutService.requestPayout.                                            *)

RequestPayout(k, a) ==
  /\ call[k].pc = "idle" /\ MayBegin("request")
  /\ Set(k, [Idle EXCEPT !.pc = "sums", !.amount = a, !.unread = {"paid", "reserved"}])
  /\ UNCHANGED <<payout, last>>

\* availableBalance sends both queries at once; they answer in any order.
SumPaid(k) ==
  /\ call[k].pc = "sums" /\ "paid" \in call[k].unread
  /\ Set(k, [call[k] EXCEPT !.unread = @ \ {"paid"}, !.paid = Amount({"paid"})])
  /\ UNCHANGED <<payout, last>>

SumReserved(k) ==
  /\ call[k].pc = "sums" /\ "reserved" \in call[k].unread
  /\ Set(k, [call[k] EXCEPT !.unread = @ \ {"reserved"}, !.reserved = Amount(Reserving)])
  /\ UNCHANGED <<payout, last>>

Affordable(c) == c.amount <= Settled - Total(c.paid) - Total(c.reserved)

\* Mutation of NewId: the clock may not have moved.
NewIdSame(i) == i \in {last, last + 1}

\* createPayout's id is the current millisecond.
NewId(i) == i = last + 1 \/ (SameMillisecond /\ i = last)

Decide(k) ==
  /\ call[k].pc = "sums" /\ call[k].unread = {}
  /\ IF Affordable(call[k])
     THEN \E i \in Ids : /\ NewId(i)
                         /\ last' = i
                         /\ Set(k, [call[k] EXCEPT !.pc = "create", !.id = i])
     ELSE Reply(k, "refused") /\ UNCHANGED last
  /\ UNCHANGED payout

\* PayoutRepository.create: whatever is stored under the id.
Create(k) ==
  /\ call[k].pc = "create"
  /\ payout' = [payout EXCEPT ![call[k].id] = NewPayout(call[k].amount)]
  /\ Reply(k, "ok")
  /\ UNCHANGED last

---------------------------------------------------------------------------
(* Moves of one stored payout: read, then save.                            *)

\* Mutation of From: a freeze stalls a payout in any state.
FromTerminal(op) == CASE op = "freeze"  -> Statuses \ {"none"}
                      [] op = "release" -> {"frozen"}
                      [] OTHER          -> {"requested", "processing"}

\* The statuses a move starts from; freezing a frozen payout is a no-op.
From(op) == CASE op \in {"begin", "batch"} -> {"requested"}
              [] op = "complete"           -> {"processing"}
              [] op = "fail"               -> {"requested", "processing"}
              [] op = "freeze"             -> {"requested", "processing", "frozen"}
              [] op = "release"            -> {"frozen"}

\* The status it leads to.
To(op, p) == CASE op \in {"begin", "batch"} -> "processing"
               [] op = "complete"           -> "paid"
               [] op = "fail"               -> "failed"
               [] op = "freeze"             -> "frozen"
               [] op = "release"            -> p.previousStatus

\* What the payout remembers afterwards.
Remembered(op, p) ==
  CASE op = "freeze"  -> p.status
    [] op = "release" -> "none"
    [] OTHER          -> p.previousStatus

Moved(op, p) ==
  IF op = "freeze" /\ p.status = "frozen" THEN p
  ELSE [status |-> To(op, p), previousStatus |-> Remembered(op, p),
        amount |-> p.amount, version |-> p.version + 1]

Single == AllOps \ {"request", "batch"}
Audited(op) == op \in {"freeze", "release", "batch"}

ReadPayout(k, op, i) ==
  /\ call[k].pc = "idle" /\ MayBegin(op)
  /\ payout[i].status # "none"
  /\ IF payout[i].status \in From(op)
     THEN Set(k, [Idle EXCEPT !.pc = "save", !.op = op, !.id = i, !.read = payout[i]])
     ELSE Set(k, [Idle EXCEPT !.pc = "done", !.op = op, !.id = i, !.reply = "refused"])
  /\ UNCHANGED <<payout, last>>

\* Mutation of CasHolds: the save is a plain set.
CasHoldsAlways(stored, next) == TRUE

\* A save of version N finds version N - 1.
CasHolds(stored, next) == stored.version = next.version - 1

\* What follows a save: the next payout of the batch, the audit record or the reply.
SavePayout(k) ==
  LET c == call[k]
      next == Moved(c.op, c.read) IN
  /\ c.pc = "save"
  /\ IF CasHolds(payout[c.id], next)
     THEN /\ payout' = [payout EXCEPT ![c.id] = next]
          /\ Set(k, [c EXCEPT !.moved = TRUE,
                              !.pc = IF c.op = "batch" THEN "read"
                                     ELSE IF Audited(c.op) THEN "record" ELSE "done",
                              !.reply = IF Audited(c.op) THEN "none" ELSE "ok"])
     ELSE Reply(k, "conflict") /\ UNCHANGED payout
  /\ UNCHANGED last

RunBatch(k, ids) ==
  /\ call[k].pc = "idle" /\ MayBegin("batch")
  /\ Set(k, [Idle EXCEPT !.pc = "read", !.op = "batch", !.todo = ids])
  /\ UNCHANGED <<payout, last>>

\* The batch takes its next id and skips a payout that is not requested.
ReadNext(k) ==
  LET c == call[k] IN
  /\ c.pc = "read"
  /\ IF c.todo = <<>> THEN Set(k, [c EXCEPT !.pc = "record"])
     ELSE LET i == Head(c.todo) IN
          Set(k, [c EXCEPT !.todo = Tail(@), !.id = i, !.read = payout[i],
                           !.pc = IF payout[i].status \in From("batch") THEN "save" ELSE "read"])
  /\ UNCHANGED <<payout, last>>

\* The audit record of a freeze, a release or a whole batch.
Record(k) ==
  /\ call[k].pc = "record"
  /\ Set(k, [call[k] EXCEPT !.pc = "done", !.recorded = TRUE, !.reply = "ok"])
  /\ UNCHANGED <<payout, last>>

Next ==
  \E k \in Calls :
    \/ \E a \in Amounts : RequestPayout(k, a)
    \/ SumPaid(k) \/ SumReserved(k) \/ Decide(k) \/ Create(k)
    \/ \E op \in Single, i \in Ids : ReadPayout(k, op, i)
    \/ \E ids \in Batches : RunBatch(k, ids)
    \/ SavePayout(k) \/ ReadNext(k) \/ Record(k)

Spec == Init /\ [][Next]_vars

---------------------------------------------------------------------------
\* Types of the rows and of the calls.
TypeOK ==
  /\ payout \in [Ids -> Payout]
  /\ last \in Ids \cup {0}
  /\ call \in [Calls -> Call]

\* Requested payouts never exceed the available balance: what has been paid,
\* is being processed or may still be is covered by the settled ledger.
NoOverdraw == Total(Amount({"requested", "processing", "paid"})) <= Settled

\* A payout that was paid or has failed stays as it is, whatever calls still
\* hold it as it was before.
TerminalIsFinal ==
  [][\A i \in Ids : payout[i].status \in {"paid", "failed"} => payout'[i] = payout[i]]_vars

\* Only a release thaws a frozen payout, back to where it was: no batch,
\* completion or failure that had read it before the freeze gets past it.
FreezeHolds ==
  [][\A i \in Ids :
       payout[i].status = "frozen" /\ payout'[i] # payout[i] =>
         /\ payout'[i].status = payout[i].previousStatus
         /\ \E k \in Calls : call[k].op = "release" /\ call[k].pc = "save" /\ call[k].id = i]_vars

\* No request is lost under another: a stored payout changes by one version at
\* a time and keeps its amount.
RequestsAreKept ==
  [][\A i \in Ids :
       payout[i].status # "none" /\ payout'[i] # payout[i] =>
         /\ payout'[i].version = payout[i].version + 1
         /\ payout'[i].amount = payout[i].amount]_vars

\* A frozen payout knows where it came from, and no other remembers anything.
FrozenRemembers ==
  \A i \in Ids : payout[i].status = "frozen" <=> payout[i].previousStatus # "none"

\* Only a stored payout has a version.
VersionsCount == \A i \in Ids : payout[i].status = "none" <=> payout[i].version = 0

\* What a call has read is the stored row or an older version of it.
ReadOf(read, stored) ==
  read.version <= stored.version /\ (read.version = stored.version => read = stored)
ReadsAreOld ==
  \A k \in Calls : LET c == call[k] IN
    /\ c.pc = "read" => c.op = "batch"
    /\ c.pc = "save" =>
         /\ c.id \in Ids /\ c.op # "request"
         /\ c.read.status \in From(c.op) /\ c.read.status # "none"
         /\ ReadOf(c.read, payout[c.id])

\* No two requests are creating one payout, and none creates a stored one.
CreatesAreFresh ==
  /\ \A k \in Calls : call[k].pc = "create" =>
       call[k].id \in Ids /\ call[k].id <= last /\ payout[call[k].id].status = "none"
  /\ \A j, k \in Calls :
       call[j].pc = "create" /\ call[k].pc = "create" /\ call[j].id = call[k].id => j = k
  /\ \A i \in Ids : i > last => payout[i].status = "none"

\* The invariant behind the moves of a payout.
PayoutInv == FrozenRemembers /\ VersionsCount /\ ReadsAreOld /\ CreatesAreFresh

\* Freezing a frozen payout is a no-op and not an error.
FreezeIsIdempotent ==
  \A k \in Calls :
    call[k].op = "freeze" /\ call[k].read.status = "frozen" => call[k].reply # "conflict"

\* What an admin's call has moved is on the audit trail once the call is over.
MovesAreAudited ==
  \A k \in Calls :
    call[k].pc = "done" /\ Audited(call[k].op) /\ call[k].moved => call[k].recorded

---------------------------------------------------------------------------
(* Small instances for TLC.                                                 *)

\* Calls are interchangeable.
Symmetry == Permutations(Calls)

Unfrozen == AllOps \ {"freeze", "release"}
BothInOrder == {<<1, 2>>}
=============================================================================
