----------------------------- MODULE DoorSales -----------------------------
(***************************************************************************)
(* Walk-in and dine-in sales at the door and the cover wallet they debit:  *)
(* a sale is stored, then the wallet of whoever made it is charged when it *)
(* can be; a void or a refund gives back what the ledger says was taken.   *)
(*                                                                         *)
(* Sales go to the wallet's repository directly, past the service's own    *)
(* idempotency and velocity checks.  The module composes the wallet with   *)
(* the sales: their requests interleave with its own.                      *)
(***************************************************************************)
EXTENDS CoverWallet

CONSTANTS
  Sales,   \* sales, named by the idempotency key they were asked for with
  Clerks,  \* door-sale requests in flight at a time
  TierPrice, \* what the event's tier costs
  Back,    \* amount a refund asks to give back
  MaxRows  \* bound: sale rows created under one key

ASSUME SaleAssumption ==
  /\ TierPrice \in Nat \ {0} /\ Back \in Nat \ {0}
  /\ MaxRows \in Nat /\ IsFiniteSet(Sales)
  /\ Sales \X {"debit", "void", "refund"} \subseteq TxnKeys \ (Keys \cup {OpeningKey})

VARIABLES
  sales,    \* status of each sale
  sold,     \* sale rows created under each key
  indexed,  \* keys whose index row names a sale
  served,   \* creations the gateway has answered: command and sale
  sreq      \* the requests in flight

saleVars == <<sales, sold, indexed, served, sreq>>
vars == <<wallet, ledger, lately, report, twins, asked, answered, req,
          sales, sold, indexed, served, sreq>>

SalePCs == {"findKey", "create", "index", "findWallet", "debit", "findSale", "mark",
            "sumDebits", "checkWallet", "giveBack", "audit"}
Creations == {"walkin", "dinein"}
SaleReq == [pc : SalePCs, op : Creations \cup {"void", "refund"}, sale : Sales, back : Nat]
NoSale  == [pc |-> "idle", op |-> "void", sale |-> None, back |-> 0]

SaleTypeOK ==
  /\ WalletTypeOK
  /\ sales \in [Sales -> {"absent", "active", "voided", "refunded"}]
  /\ sold \in [Sales -> Nat]
  /\ indexed \subseteq Sales /\ served \subseteq Creations \X Sales
  /\ sreq \in [Clerks -> SaleReq \cup {NoSale}]

---------------------------------------------------------------------------
SaleOf(c) == sreq[c].sale
AtS(c, pc) == sreq[c].pc = pc
GotoS(c, pc) == sreq' = [sreq EXCEPT ![c].pc = pc]
EndS(c) == sreq' = [sreq EXCEPT ![c] = NoSale]

\* The wallet's service keeps these while a door sale runs.
WalletCalls == <<report, twins, asked, answered, req>>

Arrive(c, op, s, pc) ==
  /\ AtS(c, "idle")
  /\ sreq' = [sreq EXCEPT ![c] = [pc |-> pc, op |-> op, sale |-> s, back |-> 0]]
  /\ UNCHANGED <<walletVars, sales, sold, indexed, served>>

\* A creation holds the claim of its key and is not answered twice; the claim names
\* the command too, which the sale's index does not.
PostSale(c, op, s) ==
  /\ <<op, s>> \notin served
  /\ \A o \in Clerks : ~(sreq[o].op = op /\ SaleOf(o) = s)
  /\ Arrive(c, op, s, "findKey")
PostWalkIn(c, s) == PostSale(c, "walkin", s)
PostDineIn(c, s) == PostSale(c, "dinein", s)

\* Voids and refunds are of sales that exist and claim nothing.
AskVoid(c, s)       == sales[s] # "absent" /\ Arrive(c, "void", s, "findSale")
AskSaleRefund(c, s) == sales[s] # "absent" /\ Arrive(c, "refund", s, "findSale")

Sold(s) == s \in indexed

FindByKey(c) ==
  /\ AtS(c, "findKey")
  /\ GotoS(c, IF Sold(SaleOf(c)) THEN "audit" ELSE "create")
  /\ UNCHANGED <<walletVars, sales, sold, indexed, served>>

\* The row and the index of its key are two writes; a second row of a key takes the
\* place of the first in `sales`.
CreateSale(c) ==
  /\ AtS(c, "create") /\ sold[SaleOf(c)] < MaxRows
  /\ sales' = [sales EXCEPT ![SaleOf(c)] = "active"]
  /\ sold' = [sold EXCEPT ![SaleOf(c)] = @ + 1]
  /\ GotoS(c, "index")
  /\ UNCHANGED <<walletVars, indexed, served>>

IndexSale(c) ==
  /\ AtS(c, "index")
  /\ indexed' = indexed \cup {SaleOf(c)} /\ GotoS(c, "findWallet")
  /\ UNCHANGED <<walletVars, sales, sold, served>>

\* The wallet is charged only if it is active and covers the price.
FindWallet(c) ==
  /\ AtS(c, "findWallet")
  /\ GotoS(c, IF wallet.status = "active" /\ wallet.balance >= TierPrice
              THEN "debit" ELSE "audit")
  /\ UNCHANGED <<walletVars, sales, sold, indexed, served>>

\* A debit that is not covered any more fails the request; the sale stays.
DebitForSale(c) ==
  /\ AtS(c, "debit")
  /\ \/ /\ Commit(<<SaleOf(c), "debit">>, "debit", -TierPrice, None)
        /\ GotoS(c, "audit")
     \/ ~Covered("debit", -TierPrice) /\ EndS(c) /\ UNCHANGED <<wallet, ledger, lately>>
  /\ UNCHANGED <<WalletCalls, sales, sold, indexed, served>>

MayUndo(s) == sales[s] = "active"

FindSale(c) ==
  /\ AtS(c, "findSale")
  /\ \/ MayUndo(SaleOf(c)) /\ (sreq[c].op = "refund" => Back <= TierPrice) /\ GotoS(c, "mark")
     \/ ~(MayUndo(SaleOf(c)) /\ (sreq[c].op = "refund" => Back <= TierPrice)) /\ EndS(c)
  /\ UNCHANGED <<walletVars, sales, sold, indexed, served>>

\* The repository marks the row without looking at its status.
MarkSale(c) ==
  /\ AtS(c, "mark")
  /\ sales' = [sales EXCEPT ![SaleOf(c)] = IF sreq[c].op = "void" THEN "voided"
                                                                  ELSE "refunded"]
  /\ GotoS(c, "sumDebits")
  /\ UNCHANGED <<walletVars, sold, indexed, served>>

Debited(s) == -Total({t \in RowsOf(<<s, "debit">>) : t.type = "debit"})

\* Mutation of BackFor: the sale's amount is given back, not what was taken.
BackForPrice(op, s) == IF op = "void" THEN TierPrice ELSE Back
BackFor(op, s) ==
  IF op = "void" \/ Debited(s) < Back THEN Debited(s) ELSE Back

\* What an event's statistics say of its door sales: every row there is, at its full
\* price, those that were voided or refunded too.
DoorSaleStats ==
  LET rows == MapThenSumSet(LAMBDA s : sold[s], Sales)
  IN  [totalSales |-> rows, totalRevenue |-> rows * TierPrice]

SumDebits(c) ==
  LET back == BackFor(sreq[c].op, SaleOf(c)) IN
  /\ AtS(c, "sumDebits")
  /\ sreq' = [sreq EXCEPT ![c].back = back,
                          ![c].pc = IF back > 0 THEN "checkWallet" ELSE "audit"]
  /\ UNCHANGED <<walletVars, sales, sold, indexed, served>>

CheckWallet(c) ==
  /\ AtS(c, "checkWallet")
  /\ GotoS(c, IF wallet.status = "active" THEN "giveBack" ELSE "audit")
  /\ UNCHANGED <<walletVars, sales, sold, indexed, served>>

GiveBack(c) ==
  /\ AtS(c, "giveBack")
  /\ Commit(<<SaleOf(c), sreq[c].op>>, "refund", sreq[c].back, None)
  /\ GotoS(c, "audit")
  /\ UNCHANGED <<WalletCalls, sales, sold, indexed, served>>

Audit(c) ==
  /\ AtS(c, "audit")
  /\ served' = IF sreq[c].op \in Creations THEN served \cup {<<sreq[c].op, SaleOf(c)>>} ELSE served
  /\ EndS(c)
  /\ UNCHANGED <<walletVars, sales, sold, indexed>>

DieSale(c) ==
  /\ ~AtS(c, "idle") /\ EndS(c)
  /\ UNCHANGED <<walletVars, sales, sold, indexed, served>>

Init ==
  /\ WalletInit
  /\ sales = [s \in Sales |-> "absent"] /\ sold = [s \in Sales |-> 0]
  /\ indexed = {} /\ served = {} /\ sreq = [c \in Clerks |-> NoSale]

Creating(c) ==
  \/ FindByKey(c) \/ CreateSale(c) \/ IndexSale(c) \/ FindWallet(c) \/ DebitForSale(c)
Undoing(c) ==
  \/ FindSale(c) \/ MarkSale(c) \/ SumDebits(c) \/ CheckWallet(c) \/ GiveBack(c)

\* The operations of the service, each the steps it makes.
CreateWalkIn(c) == sreq[c].op = "walkin" /\ (Creating(c) \/ Audit(c))
CreateDineIn(c) == sreq[c].op = "dinein" /\ (Creating(c) \/ Audit(c))
VoidSale(c)     == sreq[c].op = "void" /\ (Undoing(c) \/ Audit(c))
RefundSale(c)   == sreq[c].op = "refund" /\ (Undoing(c) \/ Audit(c))

SalePosted(c, s) == PostWalkIn(c, s) \/ PostDineIn(c, s) \/ AskVoid(c, s) \/ AskSaleRefund(c, s)

SaleNext ==
  \/ \E c \in Clerks, s \in Sales : SalePosted(c, s)
  \/ \E c \in Clerks : CreateWalkIn(c) \/ CreateDineIn(c) \/ VoidSale(c) \/ RefundSale(c)
                      \/ DieSale(c)

Next == (WalletNext /\ UNCHANGED saleVars) \/ SaleNext

Spec == Init /\ [][Next]_vars

---------------------------------------------------------------------------
(* Properties.                                                             *)

\* "Idempotent via client-supplied idempotency key": however often a creation dies
\* and is sent again, it makes one sale and charges the wallet at most once.
OneSalePerKey ==
  \A s \in Sales : sold[s] <= 1 /\ Cardinality(RowsOf(<<s, "debit">>)) <= 1

GivenBack(s) == Total(RowsOf(<<s, "void">>) \cup RowsOf(<<s, "refund">>))

\* "the wallet is only ever credited back what it was actually debited for this
\* sale", wherever a creation, a void or a refund dies and however often each is sent
\* again; and what wallets were debited is in the revenue the event's statistics show.
\* Of one till at a time: two of them, each finding the sale active, break it.
RefundsNeedDebits ==
  /\ \A s \in Sales : GivenBack(s) <= Debited(s)
  /\ MapThenSumSet(Debited, Sales) <= DoorSaleStats.totalRevenue
=============================================================================
