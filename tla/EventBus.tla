------------------------------ MODULE EventBus ------------------------------
(***************************************************************************)
(* The outbox and the in-process event bus.  A service appends an event    *)
(* and drains in the same call: the first caller takes the `draining` flag,*)
(* lists the pending rows and hands each to its handlers; everyone else    *)
(* returns at once.  Nothing else ever drains.                             *)
(*                                                                         *)
(* A step is the code between two awaits.  Handlers are external: each run *)
(* succeeds or throws.  Rows live in the process; a restart is not modelled*)
(* because it takes rows and bus with it.                                  *)
(***************************************************************************)
EXTENDS Naturals, Sequences, SequencesExt, FiniteSets

CONSTANTS
  Events,      \* events services append, by id
  Handlers,    \* subscriptions
  Subscribed,  \* the handlers of each event's type
  Traffic,     \* events that stand for ever new ones of their type
  MaxAttempts, \* OUTBOX_MAX_ATTEMPTS (5)
  Limit        \* rows a drain lists (100)

BusAssumption ==
  /\ Subscribed \in [Events -> SUBSET Handlers] /\ Traffic \subseteq Events
  /\ \A e \in Traffic : Subscribed[e] = {}
  /\ MaxAttempts \in Nat \ {0} /\ Limit \in Nat \ {0}

VARIABLES
  status,    \* of each row
  attempts,  \* of each row
  pending,   \* pending rows, oldest first
  seen,      \* dedupe sets: events each handler has finished
  runs,      \* successful runs of each handler for each event (history)
  draining,  \* the bus's flag
  call       \* where the append of each event is

vars == <<status, attempts, pending, seen, runs, draining, call>>

Call == [pc    : {"idle", "drain", "list", "next", "dispatch"},
         batch : Seq(Events), todo : SUBSET Handlers, ok : BOOLEAN]
Quiet == [pc |-> "idle", batch |-> <<>>, todo |-> {}, ok |-> TRUE]

TypeOK ==
  /\ status \in [Events -> {"none", "pending", "processed", "failed"}]
  /\ attempts \in [Events -> 0..MaxAttempts]
  /\ pending \in Seq(Events) /\ IsInjective(pending)
  /\ ToSet(pending) = {e \in Events : status[e] = "pending"}
  /\ seen \subseteq Handlers \X Events
  /\ runs \in [Handlers \X Events -> Nat]
  /\ draining \in BOOLEAN /\ call \in [Events -> Call]

---------------------------------------------------------------------------
At(c, pc) == call[c].pc = pc
Row(c) == Head(call[c].batch)

\* The store appends the row; an event id is appended once.  Traffic may come again:
\* its row stands for every row of its kind that is pending.
Emit(c) ==
  /\ At(c, "idle") /\ (status[c] = "none" \/ c \in Traffic)
  /\ status' = [status EXCEPT ![c] = "pending"]
  /\ pending' = IF status[c] = "pending" THEN pending ELSE Append(pending, c)
  /\ call' = [call EXCEPT ![c].pc = "drain"]
  /\ UNCHANGED <<attempts, seen, runs, draining>>

\* Mutation of Free: the flag is not looked at.
FreeAlways == TRUE
Free == ~draining

Drain(c) ==
  /\ At(c, "drain")
  /\ \/ Free /\ draining' = TRUE /\ call' = [call EXCEPT ![c].pc = "list"]
     \/ ~Free /\ call' = [call EXCEPT ![c] = Quiet] /\ UNCHANGED draining
  /\ UNCHANGED <<status, attempts, pending, seen, runs>>

\* Mutation of Listed: only the rows that have not failed yet.
ListedFresh == SelectSeq(pending, LAMBDA e : attempts[e] = 0)
Listed == SubSeq(pending, 1, IF Len(pending) < Limit THEN Len(pending) ELSE Limit)

List(c) ==
  /\ At(c, "list")
  /\ call' = [call EXCEPT ![c].pc = "next", ![c].batch = Listed]
  /\ UNCHANGED <<status, attempts, pending, seen, runs, draining>>

\* Mutation of Unseen: the dedupe set is not consulted.
UnseenAll(e) == Subscribed[e]
Unseen(e) == {h \in Subscribed[e] : <<h, e>> \notin seen}

\* The next row of the batch, or the end of the drain.
NextRow(c) ==
  /\ At(c, "next")
  /\ \/ /\ call[c].batch # <<>>
        /\ call' = [call EXCEPT ![c].pc = "dispatch", ![c].ok = TRUE,
                                ![c].todo = Unseen(Row(c))]
        /\ UNCHANGED draining
     \/ /\ call[c].batch = <<>>
        /\ draining' = FALSE /\ call' = [call EXCEPT ![c] = Quiet]
  /\ UNCHANGED <<status, attempts, pending, seen, runs>>

\* One handler runs to its end, or throws; the others still get the event.
Handle(c, h, done) ==
  /\ At(c, "dispatch") /\ h \in call[c].todo
  /\ call' = [call EXCEPT ![c].todo = @ \ {h}, ![c].ok = @ /\ done]
  /\ seen' = IF done THEN seen \cup {<<h, Row(c)>>} ELSE seen
  /\ runs' = IF done THEN [runs EXCEPT ![<<h, Row(c)>>] = @ + 1] ELSE runs
  /\ UNCHANGED <<status, attempts, pending, draining>>

Settle(e, st) ==
  /\ status' = [status EXCEPT ![e] = st]
  /\ pending' = SelectSeq(pending, LAMBDA p : p # e)

\* Mutation of AllSucceeded: one handler is enough.
AllSucceededOne(c) == call[c].ok \/ \E h \in Handlers : <<h, Row(c)>> \in seen
AllSucceeded(c) == call[c].ok

Dead(n) == n >= MaxAttempts

\* Mutation of Rest: a row that failed ends the drain.
RestOnSuccess(c) == IF call[c].ok THEN Tail(call[c].batch) ELSE <<>>
Rest(c) == Tail(call[c].batch)

\* Every handler has run: the row is processed, or its attempts go up and the
\* last one sends it to the dead letters.
Finish(c) ==
  LET e == Row(c)
      n == attempts[e] + 1 IN
  /\ At(c, "dispatch") /\ call[c].todo = {}
  /\ call' = [call EXCEPT ![c].pc = "next", ![c].batch = Rest(c)]
  /\ \/ AllSucceeded(c) /\ Settle(e, "processed") /\ UNCHANGED attempts
     \/ /\ ~AllSucceeded(c)
        /\ attempts' = [attempts EXCEPT ![e] = n]
        /\ \/ Dead(n) /\ Settle(e, "failed")
           \/ ~Dead(n) /\ UNCHANGED <<status, pending>>
  /\ UNCHANGED <<seen, runs, draining>>

Init ==
  /\ status = [e \in Events |-> "none"] /\ attempts = [e \in Events |-> 0]
  /\ pending = <<>> /\ seen = {} /\ draining = FALSE
  /\ runs = [p \in Handlers \X Events |-> 0]
  /\ call = [e \in Events |-> Quiet]

Step(c) ==
  \/ Drain(c) \/ List(c) \/ NextRow(c) \/ Finish(c)
  \/ \E h \in Handlers, done \in BOOLEAN : Handle(c, h, done)

Next == \E c \in Events : Emit(c) \/ Step(c)

Spec == Init /\ [][Next]_vars

\* A call that has begun runs on; nobody has to append another event.
FairSpec == Spec /\ \A c \in Events : WF_vars(Step(c))

---------------------------------------------------------------------------
(* Properties.                                                             *)

\* "a handler that already saw an event id never sees it again even across
\* retries", however appends and drains interleave.
HandledOnce == \A p \in Handlers \X Events : runs[p] <= 1

\* A row is processed only when each of its handlers has finished the event:
\* "failed attempts never silently dropped".
ProcessedIsHandled ==
  \A e \in Events : status[e] = "processed" => \A h \in Subscribed[e] : <<h, e>> \in seen

\* A row that has been settled is never dispatched again.
SettledStays ==
  [][\A e \in Events \ Traffic :
       status[e] \in {"processed", "failed"} => /\ status'[e] = status[e]
                                                /\ \A h \in Handlers : runs'[<<h, e>>] = runs[<<h, e>>]]_vars

\* A drain reaches every row it listed, whatever the handlers of the rows before
\* it throw and whoever appends meanwhile: the row is processed or one more failed
\* attempt is counted.  And while drains keep coming no row is passed over for
\* ever, however many are pending: its attempts run out.
DrainsMakeProgress ==
  /\ \A e \in Events, n \in 0..MaxAttempts :
       ((\E c \in Events : e \in ToSet(call[c].batch)) /\ attempts[e] = n)
         ~> (status[e] # "pending" \/ attempts[e] > n)
  /\ []<>(\E c \in Events : At(c, "list")) =>
       \A e \in Events : status[e] = "pending" ~> status[e] \in {"processed", "failed"}

\* "The EventBus polls pending rows": a row does not stay pending for ever.
EveryRowSettles ==
  \A e \in Events : status[e] = "pending" ~> status[e] \in {"processed", "failed"}
=============================================================================
