----------------------------- MODULE Fulfilment -----------------------------
(***************************************************************************)
(* What checkout promises about one payment, whatever the storage driver   *)
(* and however many times the confirmation is delivered: it becomes an     *)
(* order once, each ticket of the order is issued once and admits once,    *)
(* and the promoter's commission is counted once, after the tickets.       *)
(***************************************************************************)
EXTENDS Naturals

CONSTANTS
  Payments,
  SeatsOf(_)   \* the tickets the order of a payment is made of

VARIABLES
  ordered,     \* payments that have become an order
  seats,       \* each ticket: none, valid or redeemed
  credits      \* payments whose commission has been counted

vars == <<ordered, seats, credits>>

AllSeats == UNION {SeatsOf(p) : p \in Payments}

Init ==
  /\ ordered = {}
  /\ seats = [s \in AllSeats |-> "none"]
  /\ credits = [p \in Payments |-> 0]

PlaceOrder(p) ==
  /\ p \notin ordered
  /\ ordered' = ordered \cup {p}
  /\ UNCHANGED <<seats, credits>>

IssueTicket(p) ==
  /\ p \in ordered
  /\ \E s \in SeatsOf(p) :
       /\ seats[s] = "none"
       /\ seats' = [seats EXCEPT ![s] = "valid"]
  /\ UNCHANGED <<ordered, credits>>

Admit(s) ==
  /\ seats[s] = "valid"
  /\ seats' = [seats EXCEPT ![s] = "redeemed"]
  /\ UNCHANGED <<ordered, credits>>

CountCommission(p) ==
  /\ credits[p] = 0
  /\ \A s \in SeatsOf(p) : seats[s] # "none"
  /\ credits' = [credits EXCEPT ![p] = 1]
  /\ UNCHANGED <<ordered, seats>>

Next ==
  \/ \E p \in Payments : PlaceOrder(p) \/ IssueTicket(p) \/ CountCommission(p)
  \/ \E s \in AllSeats : Admit(s)

Spec == Init /\ [][Next]_vars
=============================================================================
