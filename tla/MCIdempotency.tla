--------------------------- MODULE MCIdempotency ---------------------------
(***************************************************************************)
(* The two pieces of plumbing that make retries harmless: commands under a *)
(* key, and events handed to their subscribers.  They share no row, so a   *)
(* behaviour exercises one of them, chosen at the start: commands over the *)
(* memory store, commands over a firestore where everything goes wrong, or *)
(* events.                                                                 *)
(***************************************************************************)
EXTENDS Idempotency, TLC

CONSTANTS c1, c2, c3, body1, body2, e1, e2, e3, h1, h2,
  Events, Handlers, Subscribed, Traffic, MaxAttempts, Limit  \* of EventBus

VARIABLES
  part,
  document, slot, at, answered, asked, worked, done,    \* of the firestore's commands
  status, attempts, pending, seen, runs, draining, call  \* of the events

\* Two retries of one request, and a third that reuses the key for another.
ReusedKey == [c \in Callers |-> IF c = c3 THEN body2 ELSE body1]

\* Two events with two subscriptions, one with a subscription of its own.
TwoEach == e1 :> {h1, h2} @@ e2 :> {h1} @@ e3 :> {}

Bus == INSTANCE EventBus

ASSUME BusAssumption == Bus!BusAssumption

Store == INSTANCE Idempotency WITH
  Driver <- "firestore", Faults <- FaultKinds, record <- document, inFlight <- slot,
  pc <- at, told <- answered, calls <- asked, effects <- worked, ran <- done

storeVars == <<document, slot, at, answered, asked, worked, done>>
busVars == <<status, attempts, pending, seen, runs, draining, call>>
onceVars == <<vars, part, storeVars, busVars>>

OnceInit == part \in {"commands", "faults", "events"} /\ Init /\ Store!Init /\ Bus!Init

Commands == part = "commands" /\ Next /\ UNCHANGED <<part, storeVars, busVars>>
FaultyCommands == part = "faults" /\ Store!Next /\ UNCHANGED <<part, vars, busVars>>
Deliveries == part = "events" /\ Bus!Next /\ UNCHANGED <<part, vars, storeVars>>

\* The fairness of Idempotency's FairSpec and of EventBus's.
OnceSpec ==
  /\ OnceInit /\ [][Commands \/ FaultyCommands \/ Deliveries]_onceVars
  /\ \A c \in Callers : WF_onceVars(Commands /\ Execute(c))
  /\ \A e \in Events : WF_onceVars(Deliveries /\ Bus!Step(e))

\* Nothing is replayed that did not happen, over either store: see Idempotency.
NothingInvented == ReplayIsReal /\ Store!ReplayIsReal
\* A handler finishes an event at most once: see EventBus.
HandledOnce == Bus!HandledOnce
\* A processed row has been handled by every subscriber: see EventBus.
ProcessedIsHandled == Bus!ProcessedIsHandled
\* A drain reaches every row it listed, and drains that keep coming reach every
\* pending row: see EventBus.
DrainsMakeProgress == Bus!DrainsMakeProgress
\* Every appended row is settled in the end: see EventBus.
EveryRowSettles == Bus!EveryRowSettles
=============================================================================
