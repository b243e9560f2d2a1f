---------------------------- MODULE Idempotency ----------------------------
(***************************************************************************)
(* Idempotent command execution: IdempotencyService.executeOnce over the   *)
(* memory and the firestore store, for one key.  A caller is one client    *)
(* request with that key; its body is hashed into HashOf[c].               *)
(*                                                                         *)
(* Every store call that awaits the network is a step.  A record lives 24  *)
(* hours, far longer than any handler, so it only expires while no request *)
(* with the key is in flight.                                              *)
(***************************************************************************)
EXTENDS Naturals, FiniteSets

CONSTANTS
  Callers,    \* client requests that carry the key
  Hashes,     \* request digests
  HashOf,     \* the digest of each request
  Driver,     \* "memory" or "firestore"
  Faults,     \* what may go wrong: see FaultKinds
  MaxCalls,   \* bound: calls made in one behaviour
  None

\* The work throws; a store write throws; the process dies; 24 hours pass.
FaultKinds == {"workFails", "storeFails", "crash", "expiry"}

ASSUME IdempotencyAssumption ==
  /\ Driver \in {"memory", "firestore"}
  /\ Faults \subseteq FaultKinds
  \* The memory store's writes cannot fail, and it dies with its process.
  /\ Driver = "memory" => Faults \subseteq {"workFails", "expiry"}
  /\ HashOf \in [Callers -> Hashes]
  /\ MaxCalls \in Nat
  /\ None \notin Callers /\ None \notin Hashes

VARIABLES
  record,     \* the stored record of the key
  inFlight,   \* the memory store's slot set holds the key
  pc,         \* where each caller is
  told,       \* what each caller was last answered
  calls,      \* calls made so far
  effects,    \* times the work took effect since the last expiry
  ran         \* callers whose work took effect

vars == <<record, inFlight, pc, told, calls, effects, ran>>

---------------------------------------------------------------------------
Statuses == {"absent", "IN_PROGRESS", "COMPLETED"}

\* `body` is the caller whose response is stored.  A document that `complete`
\* recreates by merging has neither digest nor expiry: it reads as expired.
Record == [status : Statuses, hash : Hashes \cup {None},
           body : Callers \cup {None}, live : BOOLEAN]
NoRecord == [status |-> "absent", hash |-> None, body |-> None, live |-> FALSE]
Claimed(c) == [status |-> "IN_PROGRESS", hash |-> HashOf[c], body |-> None, live |-> TRUE]

Answer == [kind : {"none", "ok", "failed", "conflict", "inFlight", "replay"},
           body : Callers \cup {None}]
NoAnswer == [kind |-> "none", body |-> None]

Running == {"work", "complete", "release"}
Holders == {c \in Callers : pc[c] \in Running}

Goto(c, l) == pc' = [pc EXCEPT ![c] = l]
Tell(c, kind, body) ==
  /\ told' = [told EXCEPT ![c] = [kind |-> kind, body |-> body]]
  /\ Goto(c, "idle")

\* Mutation of Respond: the digest is not compared.
RespondUnchecked(c, r) ==
  IF r.status = "IN_PROGRESS" THEN Tell(c, "inFlight", None) ELSE Tell(c, "replay", r.body)

\* executeOnce, given a record somebody else holds.
Respond(c, r) ==
  IF r.hash # HashOf[c] THEN Tell(c, "conflict", None)
  ELSE IF r.status = "IN_PROGRESS" THEN Tell(c, "inFlight", None)
  ELSE Tell(c, "replay", r.body)

---------------------------------------------------------------------------
Init ==
  /\ record = NoRecord
  /\ inFlight = FALSE
  /\ pc = [c \in Callers |-> "idle"]
  /\ told = [c \in Callers |-> NoAnswer]
  /\ calls = 0
  /\ effects = 0
  /\ ran = {}

Call(c) ==
  /\ pc[c] = "idle" /\ calls < MaxCalls
  /\ calls' = calls + 1
  /\ Goto(c, "claim")
  /\ UNCHANGED <<record, inFlight, told, effects, ran>>

\* Mutation of MemoryClaim: only a completed record answers.
MemoryClaimCompletedOnly(c) ==
  /\ Driver = "memory" /\ pc[c] = "claim"
  /\ IF record.live /\ record.status = "COMPLETED"
     THEN Respond(c, record) /\ UNCHANGED <<record, inFlight>>
     ELSE record' = Claimed(c) /\ inFlight' = TRUE /\ Goto(c, "work") /\ UNCHANGED told
  /\ UNCHANGED <<calls, effects, ran>>

\* The memory store claims in one synchronous step: an expired record is swept
\* with its slot, a record answers, otherwise the caller wins.  (A taken slot
\* without a record would answer too: ClaimInv shows there is none.)
MemoryClaim(c) ==
  /\ Driver = "memory" /\ pc[c] = "claim"
  /\ IF record.live THEN Respond(c, record) /\ UNCHANGED <<record, inFlight>>
     ELSE IF inFlight /\ record.status = "absent"
     THEN Tell(c, "inFlight", None) /\ UNCHANGED <<record, inFlight>>
     ELSE /\ record' = Claimed(c) /\ inFlight' = TRUE
          /\ Goto(c, "work") /\ UNCHANGED told
  /\ UNCHANGED <<calls, effects, ran>>

\* Firestore: read first; a live record answers, an expired one is deleted in
\* a step of its own.
ClaimRead(c) ==
  /\ Driver = "firestore" /\ pc[c] = "claim"
  /\ \/ record.status # "absent" /\ record.live /\ Respond(c, record)
     \/ record.status # "absent" /\ ~record.live /\ Goto(c, "takeOver") /\ UNCHANGED told
     \/ record.status = "absent" /\ Goto(c, "create") /\ UNCHANGED told
  /\ UNCHANGED <<record, inFlight, calls, effects, ran>>

\* The delete removes whatever is stored by now; its errors are swallowed.
TakeOver(c) ==
  /\ pc[c] = "takeOver"
  /\ \/ record' = NoRecord
     \/ "storeFails" \in Faults /\ UNCHANGED record
  /\ Goto(c, "create")
  /\ UNCHANGED <<inFlight, told, calls, effects, ran>>

\* `create` fails when the document exists (or the store does).
ClaimCreate(c) ==
  /\ pc[c] = "create"
  /\ \/ record.status = "absent" /\ record' = Claimed(c) /\ Goto(c, "work")
     \/ /\ record.status # "absent" \/ "storeFails" \in Faults
        /\ Goto(c, "reread") /\ UNCHANGED record
  /\ UNCHANGED <<inFlight, told, calls, effects, ran>>

\* A loser re-reads what won.  A record that is gone by now counts as won.
ClaimReread(c) ==
  /\ pc[c] = "reread"
  /\ IF record.status = "absent" THEN Goto(c, "work") /\ UNCHANGED told
     ELSE Respond(c, record)
  /\ UNCHANGED <<record, inFlight, calls, effects, ran>>

\* Mutation of Work: a failure of the work is swallowed.
WorkSwallows(c) ==
  /\ pc[c] = "work"
  /\ \/ effects' = effects + 1 /\ ran' = ran \cup {c}
     \/ "workFails" \in Faults /\ UNCHANGED <<effects, ran>>
  /\ Goto(c, "complete")
  /\ UNCHANGED <<record, inFlight, told, calls>>

Work(c) ==
  /\ pc[c] = "work"
  /\ \/ effects' = effects + 1 /\ ran' = ran \cup {c} /\ Goto(c, "complete")
     \/ "workFails" \in Faults /\ Goto(c, "release") /\ UNCHANGED <<effects, ran>>
  /\ UNCHANGED <<record, inFlight, told, calls>>

\* Mutation of CompletedBy: a store spells the status its own way.
CompletedByRenamed(c) ==
  [record EXCEPT !.status = "completed", !.body = c]

\* The record after a successful `complete`: memory rewrites an existing one,
\* firestore merges into whatever is there.
CompletedBy(c) ==
  IF Driver = "memory" /\ record.status = "absent" THEN record
  ELSE [record EXCEPT !.status = "COMPLETED", !.body = c,
                      !.live = IF Driver = "memory" THEN TRUE ELSE @]

Complete(c) ==
  /\ pc[c] = "complete"
  /\ \/ /\ record' = CompletedBy(c)
        /\ inFlight' = (inFlight /\ record.status = "absent")
        /\ Tell(c, "ok", None)
     \/ "storeFails" \in Faults /\ Goto(c, "release") /\ UNCHANGED <<record, inFlight, told>>
  /\ UNCHANGED <<calls, effects, ran>>

\* Mutation of Release: a failed run leaves its claim behind.
ReleaseNothing(c) ==
  /\ pc[c] = "release"
  /\ Tell(c, "failed", None)
  /\ UNCHANGED <<record, inFlight, calls, effects, ran>>

\* The claim is deleted whoever holds it; errors of the delete are swallowed.
Release(c) ==
  /\ pc[c] = "release"
  /\ \/ record' = NoRecord /\ inFlight' = FALSE
     \/ "storeFails" \in Faults /\ UNCHANGED <<record, inFlight>>
  /\ Tell(c, "failed", None)
  /\ UNCHANGED <<calls, effects, ran>>

\* The process dies: the record stays, the caller is told nothing.
Crash(c) ==
  /\ "crash" \in Faults /\ pc[c] # "idle"
  /\ Goto(c, "idle")
  /\ UNCHANGED <<record, inFlight, told, calls, effects, ran>>

Expire ==
  /\ "expiry" \in Faults /\ record.live
  /\ \A c \in Callers : pc[c] = "idle"
  /\ record' = [record EXCEPT !.live = FALSE]
  /\ effects' = 0
  /\ UNCHANGED <<inFlight, pc, told, calls, ran>>

Execute(c) ==
  \/ MemoryClaim(c) \/ ClaimRead(c) \/ TakeOver(c) \/ ClaimCreate(c) \/ ClaimReread(c)
  \/ Work(c) \/ Complete(c) \/ Release(c)

Next ==
  \/ \E c \in Callers : Call(c) \/ Execute(c) \/ Crash(c)
  \/ Expire

Spec == Init /\ [][Next]_vars
FairSpec == Spec /\ \A c \in Callers : WF_vars(Execute(c))

---------------------------------------------------------------------------
PCs == {"idle", "claim", "takeOver", "create", "reread"} \cup Running

\* Types of the record and of the callers.
TypeOK ==
  /\ record \in Record
  /\ inFlight \in BOOLEAN
  /\ pc \in [Callers -> PCs]
  /\ told \in [Callers -> Answer]
  /\ calls \in 0..MaxCalls
  /\ effects \in Nat
  /\ ran \subseteq Callers

\* Of the concurrent callers with one key, one at most runs the command.
OneWinner == \A c, d \in Holders : c = d

\* The command takes effect at most once while the key's record lasts.
EffectOnce == effects <= 1

\* A replayed response is the response to the same request body.
ReplayFaithful ==
  \A c \in Callers : told[c].kind = "replay" =>
    told[c].body # None /\ HashOf[told[c].body] = HashOf[c]

\* Nothing is replayed that did not happen: a replayed response belongs to a
\* run that took effect, whatever fails and whoever races.
ReplayIsReal ==
  \A c \in Callers : told[c].kind = "replay" => told[c].body \in ran

\* A failed run frees its key: the record does not stay in progress with
\* nobody running, whatever the other callers do.
KeyIsFreed == record.status = "IN_PROGRESS" ~> record.status # "IN_PROGRESS"

\* The holder and the stored response, as OnceOnly sees them.
HolderNow == IF Holders = {} THEN None ELSE CHOOSE c \in Holders : TRUE
ResponseNow == IF record.live THEN record.body ELSE None
Once == INSTANCE OnceOnly WITH holder <- HolderNow, response <- ResponseNow

\* Execution behaves like OnceOnly.
ImplementsOnceOnly == Once!Spec

\* Where the promise is kept: over memory, and over a firestore whose only
\* fault is that processes die.
Sound == Driver = "memory" \/ Faults \subseteq {"crash"}

\* The record and the callers agree: whoever runs the command holds a live
\* claim of its own digest, a loser re-reads a record that is still there, and
\* a command that took effect keeps its record.
ClaimInv ==
  /\ OneWinner
  /\ \A c \in Callers :
       /\ pc[c] \in Running => /\ record.status = "IN_PROGRESS" /\ record.live
                               /\ record.hash = HashOf[c]
       /\ pc[c] \in {"work", "release"} => effects = 0
       /\ pc[c] = "reread" => record.status # "absent"
       /\ pc[c] # "takeOver"
  /\ record.status = "absent" \/ ~record.live => effects = 0
  /\ record.status = "COMPLETED" => record.body # None /\ HashOf[record.body] = record.hash
  /\ record.status # "COMPLETED" => record.body = None
  /\ record.live => record.status # "absent"
  /\ EffectOnce
  /\ Driver = "firestore" => /\ record.live = (record.status # "absent")
                             /\ \A c \in Callers : pc[c] # "release"
  /\ Driver = "memory" => \A c \in Callers : pc[c] \notin {"create", "reread"}
  /\ inFlight => record.status = "IN_PROGRESS"
  /\ ReplayFaithful

\* Whatever fails, a response is stored or replayed only for a run that took
\* effect.
RealInv ==
  /\ \A c \in Callers : pc[c] = "complete" => c \in ran
  /\ record.body # None => record.body \in ran
  /\ record.status = "COMPLETED" => record.body # None
  /\ record.live => record.status # "absent"
  /\ ReplayIsReal
=============================================================================
