------------------------------ MODULE OnceOnly ------------------------------
(***************************************************************************)
(* What idempotent execution promises about one key: one holder at a time  *)
(* runs the work, a finished run's response stands until it expires, and a *)
(* failed run frees the key.                                               *)
(***************************************************************************)
CONSTANTS Callers, None

VARIABLES
  holder,     \* the caller that runs the work
  response    \* the caller whose response is stored

vars == <<holder, response>>

Init == holder = None /\ response = None

Take(c) ==
  /\ holder = None /\ response = None
  /\ holder' = c
  /\ UNCHANGED response

Finish(c) ==
  /\ holder = c
  /\ holder' = None
  /\ response' = c

GiveUp(c) ==
  /\ holder = c
  /\ holder' = None
  /\ UNCHANGED response

Expire ==
  /\ response # None
  /\ response' = None
  /\ UNCHANGED holder

Next ==
  \/ \E c \in Callers : Take(c) \/ Finish(c) \/ GiveUp(c)
  \/ Expire

Spec == Init /\ [][Next]_vars
=============================================================================
