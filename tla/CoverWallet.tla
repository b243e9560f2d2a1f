---------------------------- MODULE CoverWallet ----------------------------
(***************************************************************************)
(* The cover wallet of one guest at one event: its opening, credits,       *)
(* debits, preset charges, refunds and adjustments, freezing, termination  *)
(* and closing, the per-device velocity limit and the daily reconciliation *)
(* with its resolution.                                                    *)
(*                                                                         *)
(* The service reads the wallet, counts recent debits and looks the        *)
(* idempotency key up, each in a call of its own; the repository then      *)
(* moves the balance and writes the transaction row in one transaction.    *)
(* This is the firestore repository: the memory one, which serves tests,   *)
(* awaits a count between reading the wallet and storing it.  Amounts are  *)
(* positive; a debit's row holds the negated amount, as in the code.       *)
(***************************************************************************)
EXTENDS Integers, FiniteSets, FiniteSetsExt

CONSTANTS
  Workers,        \* requests in flight at a time
  Keys,           \* idempotency keys of wallet requests
  TxnKeys,        \* keys a transaction row may carry
  OpeningKey,     \* the key of a wallet's first row
  Devices,        \* scanners that charge wallets
  Amounts,        \* paise asked for, and prices on the venue's list
  MaxCharge,      \* paise one charge may come to
  Ops,            \* operations this instance exercises
  Opening,        \* opening balance
  VelocityLimit,  \* debits per device and minute (3)
  None

Money  == {"credit", "debit", "charge", "refund", "adjustUp", "adjustDown"}
AllOps == Money \cup {"create", "terminate", "freeze", "unfreeze", "close", "reconcile",
                     "resolve"}

ASSUME WalletAssumption ==
  /\ Keys \cup {OpeningKey} \subseteq TxnKeys /\ Ops \subseteq AllOps
  /\ Opening \in Nat /\ VelocityLimit \in Nat /\ MaxCharge \in Nat /\ Amounts \subseteq Nat \ {0}
  /\ None \notin Keys /\ None \notin Devices /\ OpeningKey \notin Keys

VARIABLES
  wallet,      \* the wallet row: status and balance
  ledger,      \* its committed transaction rows
  lately,      \* rows of the devices' debits made within the last minute
  report,      \* status of the day's reconciliation
  twins,       \* further wallets made for the same guest and event
  asked,       \* the body each key was first sent with
  answered,    \* keys whose response the gateway has stored
  req          \* the requests in flight

walletVars == <<wallet, ledger, lately, report, twins, asked, answered, req>>

Debits  == {"debit", "charge"}
Ended   == {"terminated", "closed"}
Wallet  == [status : {"none", "active", "frozen"} \cup Ended, balance : Nat]
Body    == [op : Ops, amount : Amounts \cup {0}, device : Devices \cup {None}]
Txn     == [key : TxnKeys, nth : Nat, type : {"credit", "debit", "refund", "adjustment"},
            amount : Int, device : Devices \cup {None}]
PCs     == {"find", "create", "open", "price", "read", "velocity", "lookup", "apply", "report",
            "sum", "reply"}
Request == [pc : PCs, key : Keys, seen : Wallet \cup {None}]
Idle    == [pc |-> "idle", key |-> None, seen |-> None]

WalletTypeOK ==
  /\ wallet \in Wallet
  /\ ledger \subseteq Txn /\ lately \subseteq ledger
  /\ report \in {"none", "pending", "resolved"} /\ twins \in Nat
  /\ asked \in [Keys -> Body \cup {None}] /\ answered \subseteq Keys
  /\ req \in [Workers -> Request \cup {Idle}]

---------------------------------------------------------------------------
(* The rows.                                                               *)

RowsOf(k) == {t \in ledger : t.key = k}
AmountOf(t) == t.amount
Total(rows) == MapThenSumSet(AmountOf, rows)

\* Debits and adjustments refuse to take the balance below zero.
Covered(type, amount) == type \in {"debit", "adjustment"} => wallet.balance + amount >= 0

\* A debit that empties the wallet terminates it, whatever its status was.
After(type, amount) ==
  [status  |-> IF type = "debit" /\ wallet.balance + amount = 0 THEN "terminated"
                                                               ELSE wallet.status,
   balance |-> wallet.balance + amount]

Row(k, type, amount, device) ==
  [key |-> k, nth |-> Cardinality(RowsOf(k)), type |-> type, amount |-> amount,
   device |-> device]

OpeningRow == [key |-> OpeningKey, nth |-> 0, type |-> "credit",
               amount |-> Opening, device |-> None]
Opened == [status |-> "active", balance |-> Opening]

\* The transaction reads the wallet, and stores the new one with the row.
Commit(k, type, amount, device) ==
  LET row == Row(k, type, amount, device) IN
  /\ Covered(type, amount)
  /\ wallet' = After(type, amount)
  /\ ledger' = ledger \cup {row}
  /\ lately' = IF type = "debit" /\ device # None THEN lately \cup {row} ELSE lately

RecentDebits(d) == Cardinality({t \in lately : t.device = d})

---------------------------------------------------------------------------
(* Requests: the gateway's claim of the key, then the service.             *)

BodyOf(w) == asked[req[w].key]
Goto(w, pc) == req' = [req EXCEPT ![w].pc = pc]
End(w) == req' = [req EXCEPT ![w] = Idle]
At(w, pc) == req[w].pc = pc
Is(w, op) == ~At(w, "idle") /\ BodyOf(w).op = op

\* What an event's statistics say of its wallets: the movements of each kind, what
\* they come to, and how many rows there are.
GetEventStats ==
  LET of(type) == Total({t \in ledger : t.type = type})
  IN  [totalCredits |-> of("credit"), totalDebits |-> -of("debit"),
       totalRefunds |-> of("refund"), totalAdjustments |-> of("adjustment"),
       netFlow |-> Total(ledger), txnCount |-> Cardinality(ledger)]

\* A key has one request in flight, and always the body it was first sent with;
\* an answered key is replayed by the gateway.
Begin(w, k, b, pc) ==
  /\ b.op \in Ops
  /\ At(w, "idle") /\ k \notin answered
  /\ \A v \in Workers : req[v].key # k
  /\ asked[k] \in {None, b}
  /\ asked' = [asked EXCEPT ![k] = b]
  /\ req' = [req EXCEPT ![w] = [pc |-> pc, key |-> k, seen |-> None]]
  /\ UNCHANGED <<wallet, ledger, lately, report, twins, answered>>

\* The venue's price for so many of an item: nothing for one that is not on its list,
\* or a total beyond the tab's bounds.
PriceForCharge(item, quantity) ==
  IF item = None \/ item * quantity > MaxCharge THEN 0 ELSE item * quantity

Ask(op, amount, device) == [op |-> op, amount |-> amount, device |-> device]
Exists == wallet.status # "none"

PostCreation(w, k)    == Begin(w, k, Ask("create", 0, None), "find")
PostCredit(w, k)      == Exists /\ \E a \in Amounts : Begin(w, k, Ask("credit", a, None), "read")
PostDebit(w, k) ==
  Exists /\ \E a \in Amounts, d \in Devices \cup {None} : Begin(w, k, Ask("debit", a, d), "read")
PostCharge(w, k) ==
  Exists /\ \E item \in Amounts \cup {None}, n \in 1..2, d \in Devices :
              Begin(w, k, Ask("charge", PriceForCharge(item, n), d), "price")
PostFreeze(w, k)      == Exists /\ Begin(w, k, Ask("freeze", 0, None), "read")
PostUnfreeze(w, k)    == Exists /\ Begin(w, k, Ask("unfreeze", 0, None), "read")
PostTermination(w, k) == Exists /\ Begin(w, k, Ask("terminate", 0, None), "read")
PostReconciliation(w, k) == Exists /\ Begin(w, k, Ask("reconcile", 0, None), "report")

\* The service has these too, for callers other than its routes.
AskRefund(w, k) == Exists /\ \E a \in Amounts : Begin(w, k, Ask("refund", a, None), "read")
AskAdjustment(w, k) ==
  Exists /\ \E a \in Amounts, op \in {"adjustUp", "adjustDown"} :
              Begin(w, k, Ask(op, a, None), "read")
AskClosing(w, k) == Exists /\ Begin(w, k, Ask("close", 0, None), "read")
AskResolution(w, k) == report # "none" /\ Begin(w, k, Ask("resolve", 0, None), "report")

---------------------------------------------------------------------------
(* Opening a wallet: looked for, stored, and its first row written.        *)

FindExisting(w) ==
  /\ At(w, "find")
  /\ IF Exists THEN End(w) ELSE Goto(w, "create")
  /\ UNCHANGED <<wallet, ledger, lately, report, twins, asked, answered>>

\* Ids are random: a second creation makes a second wallet, with its own ledger.
CreateRow(w) ==
  /\ At(w, "create")
  /\ \/ /\ ~Exists /\ wallet' = Opened /\ Goto(w, "open")
        /\ UNCHANGED twins
     \/ /\ Exists /\ twins' = twins + 1 /\ Goto(w, "reply")
        /\ UNCHANGED wallet
  /\ UNCHANGED <<ledger, lately, report, asked, answered>>

CreateOpening(w) ==
  /\ At(w, "open")
  /\ ledger' = ledger \cup {OpeningRow} /\ Goto(w, "reply")
  /\ UNCHANGED <<wallet, lately, report, twins, asked, answered>>

---------------------------------------------------------------------------
(* Reads before a change.                                                  *)

\* A preset charge needs a price, and looks at the balance before it is a debit.
Price(w) ==
  /\ At(w, "price")
  /\ IF BodyOf(w).amount \in 1..wallet.balance THEN Goto(w, "read") ELSE End(w)
  /\ UNCHANGED <<wallet, ledger, lately, report, twins, asked, answered>>

Allowed(b) ==
  /\ b.op \in Money => wallet.status = "active"
  /\ b.op = "adjustDown" => wallet.balance >= b.amount
  /\ b.op = "terminate" => wallet.status \notin Ended

AfterRead(b) ==
  CASE b.op \in Debits /\ b.device # None -> "velocity"
    [] b.op \in Money /\ ~(b.op \in Debits /\ b.device # None) -> "lookup"
    [] b.op = "reconcile" -> "sum"
    [] OTHER -> "apply"

ReadWallet(w) ==
  /\ At(w, "read")
  /\ IF Allowed(BodyOf(w))
     THEN req' = [req EXCEPT ![w].pc = AfterRead(BodyOf(w)),
                             ![w].seen = IF BodyOf(w).op = "reconcile"
                                         THEN wallet ELSE None]
     ELSE End(w)
  /\ UNCHANGED <<wallet, ledger, lately, report, twins, asked, answered>>

TooFast(d) == RecentDebits(d) >= VelocityLimit

CountDebits(w) ==
  /\ At(w, "velocity")
  /\ IF TooFast(BodyOf(w).device) THEN End(w) ELSE Goto(w, "lookup")
  /\ UNCHANGED <<wallet, ledger, lately, report, twins, asked, answered>>

\* Mutation of Done: the key is not looked up.
DoneNever(k) == FALSE
Done(k) == RowsOf(k) # {}

LookUp(w) ==
  /\ At(w, "lookup")
  /\ Goto(w, IF Done(req[w].key) THEN "reply" ELSE "apply")
  /\ UNCHANGED <<wallet, ledger, lately, report, twins, asked, answered>>

---------------------------------------------------------------------------
(* The repository's changes.                                               *)

Moves(w, type, amount) ==
  /\ At(w, "apply")
  /\ \/ Commit(req[w].key, type, amount, BodyOf(w).device) /\ Goto(w, "reply")
     \/ /\ ~Covered(type, amount)
        /\ End(w) /\ UNCHANGED <<wallet, ledger, lately>>
  /\ UNCHANGED <<report, twins, asked, answered>>

Credit(w) == Moves(w, "credit", BodyOf(w).amount)
Debit(w)  == Moves(w, "debit", -BodyOf(w).amount)
Refund(w) == Moves(w, "refund", BodyOf(w).amount)
Adjust(w) ==
  Moves(w, "adjustment", IF Is(w, "adjustUp") THEN BodyOf(w).amount ELSE -BodyOf(w).amount)

Becomes(w, may, status) ==
  /\ At(w, "apply")
  /\ IF may THEN wallet' = [wallet EXCEPT !.status = status] /\ Goto(w, "reply")
            ELSE End(w) /\ UNCHANGED wallet
  /\ UNCHANGED <<ledger, lately, report, twins, asked, answered>>

\* Termination and closing are plain updates; freezing checks the stored status.
Terminate(w) == Becomes(w, TRUE, "terminated")
Close(w)     == Becomes(w, TRUE, "closed")
Freeze(w)    == Becomes(w, wallet.status = "active", "frozen")
Unfreeze(w)  == Becomes(w, wallet.status = "frozen", "active")

---------------------------------------------------------------------------
(* Reconciliation.                                                         *)

\* A day is reconciled once, and its reconciliation resolved once.
FindReport(w) ==
  /\ At(w, "report")
  /\ \/ Is(w, "reconcile") /\ report = "none" /\ Goto(w, "read")
     \/ Is(w, "resolve") /\ report = "pending" /\ Goto(w, "apply")
     \/ /\ report # (IF Is(w, "reconcile") THEN "none" ELSE "pending")
        /\ End(w)
  /\ UNCHANGED <<wallet, ledger, lately, report, twins, asked, answered>>

\* The rows of debits, whose amounts are negative already, are subtracted, and
\* adjustments are passed over.
Expected ==
  LET of(type) == Total({t \in ledger : t.type = type})
  IN  of("credit") - of("debit") + of("refund")

Agrees(w) == req[w].seen.balance = Expected

CreateReconciliation == "pending"

\* The report's id comes from the event and the day: a second one replaces the
\* first, resolved or not.  What it says nothing here reads.
StoreReport(w) ==
  /\ At(w, "sum")
  /\ report' = CreateReconciliation
  /\ req' = [req EXCEPT ![w].pc = "reply", ![w].seen = None]
  /\ UNCHANGED <<wallet, ledger, lately, twins, asked, answered>>

Resolve(w) ==
  /\ At(w, "apply")
  /\ report' = "resolved" /\ Goto(w, "reply")
  /\ UNCHANGED <<wallet, ledger, lately, twins, asked, answered>>

---------------------------------------------------------------------------
(* The service's operations, each the steps it makes.                      *)

CreateWallet(w)    == Is(w, "create") /\ (FindExisting(w) \/ CreateRow(w) \/ CreateOpening(w))
CreditWallet(w)    == Is(w, "credit") /\ (ReadWallet(w) \/ LookUp(w) \/ Credit(w))
ToDebit(w)         == ReadWallet(w) \/ CountDebits(w) \/ LookUp(w) \/ Debit(w)
DebitWallet(w)     == Is(w, "debit") /\ ToDebit(w)
ChargePreset(w)    == Is(w, "charge") /\ (Price(w) \/ ToDebit(w))
RefundWallet(w)    == Is(w, "refund") /\ (ReadWallet(w) \/ LookUp(w) \/ Refund(w))
AdjustWallet(w) ==
  (Is(w, "adjustUp") \/ Is(w, "adjustDown")) /\ (ReadWallet(w) \/ LookUp(w) \/ Adjust(w))
TerminateWallet(w) == Is(w, "terminate") /\ (ReadWallet(w) \/ Terminate(w))
FreezeWallet(w)    == Is(w, "freeze") /\ (ReadWallet(w) \/ Freeze(w))
UnfreezeWallet(w)  == Is(w, "unfreeze") /\ (ReadWallet(w) \/ Unfreeze(w))
CloseWallet(w)     == Is(w, "close") /\ (ReadWallet(w) \/ Close(w))
RunReconciliation(w) ==
  Is(w, "reconcile") /\ (FindReport(w) \/ ReadWallet(w) \/ StoreReport(w))
ResolveReconciliation(w) == Is(w, "resolve") /\ (FindReport(w) \/ Resolve(w))

\* The audit record, then the gateway stores the response.
Reply(w) ==
  /\ At(w, "reply")
  /\ answered' = answered \cup {req[w].key}
  /\ End(w)
  /\ UNCHANGED <<wallet, ledger, lately, report, twins, asked>>

\* The request dies, or its audit write fails; its key is free again once the
\* claim is released or has expired.
Die(w) ==
  /\ ~At(w, "idle") /\ End(w)
  /\ UNCHANGED <<wallet, ledger, lately, report, twins, asked, answered>>

\* A debit leaves the one-minute window.
Age(t) ==
  /\ lately' = lately \ {t}
  /\ UNCHANGED <<wallet, ledger, report, twins, asked, answered, req>>

\* The guest's wallet is open, or nobody has made one.
WalletInit ==
  /\ \/ wallet = Opened /\ ledger = {OpeningRow}
     \/ wallet = [status |-> "none", balance |-> 0] /\ ledger = {}
  /\ lately = {} /\ report = "none" /\ twins = 0
  /\ asked = [k \in Keys |-> None] /\ answered = {}
  /\ req = [w \in Workers |-> Idle]

WalletPosted(w, k) ==
  \/ PostCreation(w, k) \/ PostCredit(w, k) \/ PostDebit(w, k) \/ PostCharge(w, k)
  \/ PostFreeze(w, k) \/ PostUnfreeze(w, k) \/ PostTermination(w, k)
  \/ PostReconciliation(w, k)
  \/ AskRefund(w, k) \/ AskAdjustment(w, k) \/ AskClosing(w, k) \/ AskResolution(w, k)

WalletStep(w) ==
  \/ CreateWallet(w) \/ CreditWallet(w) \/ DebitWallet(w) \/ ChargePreset(w)
  \/ RefundWallet(w) \/ AdjustWallet(w) \/ TerminateWallet(w)
  \/ FreezeWallet(w) \/ UnfreezeWallet(w) \/ CloseWallet(w)
  \/ RunReconciliation(w) \/ ResolveReconciliation(w) \/ Reply(w) \/ Die(w)

WalletNext ==
  \/ \E w \in Workers, k \in Keys : WalletPosted(w, k)
  \/ \E w \in Workers : WalletStep(w)
  \/ \E t \in lately : Age(t)

WalletSpec == WalletInit /\ [][WalletNext]_walletVars

---------------------------------------------------------------------------
(* Properties.                                                             *)

\* "never double-bills on a retry": a key moves the balance at most once, however
\* often a request that died is sent again; and what an event's statistics say came
\* in and went out is what its wallet holds, once the wallet's first row is written.
MovedOnce ==
  /\ \A k \in TxnKeys : Cardinality(RowsOf(k)) <= 1
  /\ OpeningRow \in ledger => GetEventStats.netFlow = wallet.balance

\* No interleaving of unfreezing, freezing and late debits brings a terminated or
\* closed wallet back.
EndIsFinal == [][wallet.status \in Ended => wallet'.status \in Ended]_walletVars

\* Money moves only while the wallet is active: "terminated wallets reject all
\* mutations", and so do frozen ones.
OnlyActiveMoves ==
  [][wallet.status # "active" => wallet'.balance = wallet.balance]_walletVars

\* "max 3 debits/min per device".
VelocityHolds ==
  \A d \in Devices : Cardinality({t \in lately : t.device = d}) <= VelocityLimit

\* A frozen wallet stays frozen until it is active again: "only `active` is
\* reachable from it".
FrozenOnlyThaws ==
  [][wallet.status = "frozen" => wallet'.status \in {"frozen", "active"}]_walletVars

\* A reconciliation reports a discrepancy only of a wallet whose balance and rows
\* disagree: expected is "opening + credits - debits + refunds".
DiscrepanciesAreReal ==
  \A w \in Workers :
    At(w, "sum") /\ wallet.balance = Total(ledger) => Agrees(w)

=============================================================================
