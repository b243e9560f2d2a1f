---------------------------- MODULE BankAccounts ----------------------------
(***************************************************************************)
(* The payout destinations of one organisation.  Adding looks whether      *)
(* there is one yet, making another the default unsets the old default and *)
(* sets the new one in two saves, removing checks the row it read.         *)
(***************************************************************************)
EXTENDS Requests

CONSTANTS
  Accounts,          \* ids of bank accounts
  MaxAccountVersion  \* bound on the versions of a row

VARIABLE account     \* the account rows

BankAccount == [isDefault : BOOLEAN, version : 1..MaxAccountVersion]

BankTypeOK == account \in [Accounts -> BankAccount \cup {None}]

---------------------------------------------------------------------------
(* The rules of the account model.                                         *)

CreateBankAccount(isFirstAccount) == [isDefault |-> isFirstAccount, version |-> 1]

SetAsDefault(a) == Bump([a EXCEPT !.isDefault = TRUE])
UnsetDefault(a) == Bump([a EXCEPT !.isDefault = FALSE])
RemoveBankAccount(a) == ~a.isDefault

---------------------------------------------------------------------------
(* The repository.                                                         *)

ListByOrganization == {a \in Accounts : account[a] # None}
FindDefault == {a \in ListByOrganization : account[a].isDefault}

\* A row that is gone is written again.
SaveAccount(a, row) ==
  account' = IF account[a] = None \/ account[a].version = row.version - 1
             THEN [account EXCEPT ![a] = row] ELSE account
DeleteAccount(a) == account' = [account EXCEPT ![a] = None]

---------------------------------------------------------------------------
(* The routes: who may ask.                                                *)

\* An id is fresh: one per organisation and millisecond.
PostAccount(c) ==
  \E a \in Accounts \ ListByOrganization :
    /\ \A d \in Calls : call[d].on # a /\ (call[d].arg # None => call[d].arg.id # a)
    /\ Arrive(c, "add", "partner", a, None)

PostDefault(c)   == \E a \in ListByOrganization : Arrive(c, "default", "partner", a, None)
DeleteRequest(c) == \E a \in ListByOrganization : Arrive(c, "remove", "partner", a, None)

BankArrives(c) ==
  (PostAccount(c) \/ PostDefault(c) \/ DeleteRequest(c)) /\ UNCHANGED account

---------------------------------------------------------------------------
(* The service.                                                            *)

AddBankAccount(c) ==
  \/ /\ At(c, "add", "read")
     /\ Goto(c, "save", CreateBankAccount(ListByOrganization = {}))
     /\ UNCHANGED account
  \/ /\ At(c, "add", "save")
     /\ account' = [account EXCEPT ![call[c].on] = call[c].row] /\ Leave(c)

\* The row, or a refusal when there is none any more.
FindAccount(c, op, pc) ==
  LET a == call[c].on IN
  /\ At(c, op, "read")
  /\ IF account[a] = None THEN Leave(c)
     ELSE HasRoom(account[a], MaxAccountVersion) /\ Goto(c, pc, account[a])

\* The current default is read after the account; the query answers any one row that
\* is a default.
ReadDefault(c) ==
  LET q == call[c] IN
  /\ At(c, "default", "current")
  /\ \/ /\ FindDefault = {} \/ q.on \in FindDefault
        /\ Goto(c, "set", q.row)
     \/ \E d \in FindDefault \ {q.on} :
          /\ HasRoom(account[d], MaxAccountVersion)
          /\ call' = [call EXCEPT ![c].pc = "unset",
                                  ![c].arg = [id |-> d, row |-> UnsetDefault(account[d])]]
  /\ UNCHANGED account

\* A refused save ends the request.
UnsetCurrent(c) ==
  LET q == call[c] IN
  /\ At(c, "default", "unset")
  /\ SaveAccount(q.arg.id, q.arg.row)
  /\ IF account'[q.arg.id] = q.arg.row THEN Goto(c, "set", q.row) ELSE Leave(c)

SetDefault(c) ==
  /\ At(c, "default", "set")
  /\ SaveAccount(call[c].on, SetAsDefault(call[c].row)) /\ Leave(c)

RemoveAccount(c) ==
  \/ FindAccount(c, "remove", "check") /\ UNCHANGED account
  \/ /\ At(c, "remove", "check") /\ Leave(c)
     /\ IF RemoveBankAccount(call[c].row) THEN DeleteAccount(call[c].on)
        ELSE UNCHANGED account

BankInit == account = [a \in Accounts |-> None]

BankStep(c) ==
  \/ BankArrives(c) \/ AddBankAccount(c)
  \/ FindAccount(c, "default", "current") /\ UNCHANGED account
  \/ ReadDefault(c) \/ UnsetCurrent(c) \/ SetDefault(c) \/ RemoveAccount(c)
=============================================================================
