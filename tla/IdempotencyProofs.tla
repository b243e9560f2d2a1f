------------------------- MODULE IdempotencyProofs -------------------------
(***************************************************************************)
(* Theorems about idempotent command execution, for any callers, bodies,   *)
(* bound on calls, and both stores.  TypeCorrect and RealCorrect hold      *)
(* under every fault; the others assume Sound.  A failing work, a failing  *)
(* write and an expiry of the firestore store each break one of them.      *)
(* Then about the event bus, for any events, subscribers and traffic.      *)
(***************************************************************************)
EXTENDS MCIdempotency, Sequences, TLAPS

LEMMA NoRecordTyped == NoRecord \in Record
BY DEF NoRecord, Record, Statuses

LEMMA ClaimedTyped == \A c \in Callers : Claimed(c) \in Record
BY IdempotencyAssumption DEF IdempotencyAssumption, Claimed, Record, Statuses

LEMMA AnswerTyped ==
  ASSUME NEW kind \in {"none", "ok", "failed", "conflict", "inFlight", "replay"},
         NEW body \in Callers \cup {None}
  PROVE  [kind |-> kind, body |-> body] \in Answer
BY DEF Answer

LEMMA InitTyped == Init => TypeOK
<1> SUFFICES ASSUME Init PROVE TypeOK
  OBVIOUS
<1>1. NoAnswer \in Answer
  BY DEF NoAnswer, Answer
<1>2. told \in [Callers -> Answer]
  BY <1>1 DEF Init
<1>3. pc \in [Callers -> PCs]
  BY DEF Init, PCs
<1>4. calls \in 0..MaxCalls
  BY IdempotencyAssumption DEF Init, IdempotencyAssumption
<1>5. QED
  BY <1>2, <1>3, <1>4, NoRecordTyped DEF Init, TypeOK

\* Telling a caller something keeps the types.
LEMMA TellTyped ==
  ASSUME TypeOK, NEW c \in Callers, NEW body \in Callers \cup {None},
         NEW kind \in {"none", "ok", "failed", "conflict", "inFlight", "replay"},
         Tell(c, kind, body)
  PROVE  pc' \in [Callers -> PCs] /\ told' \in [Callers -> Answer]
<1>1. pc' \in [Callers -> PCs]
  BY DEF TypeOK, Tell, Goto, PCs
<1>2. told' \in [Callers -> Answer]
  BY AnswerTyped DEF TypeOK, Tell
<1>3. QED
  BY <1>1, <1>2

LEMMA RespondTyped ==
  ASSUME TypeOK, NEW c \in Callers, Respond(c, record)
  PROVE  pc' \in [Callers -> PCs] /\ told' \in [Callers -> Answer]
<1>1. record.body \in Callers \cup {None}
  BY DEF TypeOK, Record
<1>2. QED
  BY <1>1, TellTyped DEF Respond

LEMMA GotoTyped ==
  ASSUME TypeOK, NEW c \in Callers, NEW l \in PCs, Goto(c, l)
  PROVE  pc' \in [Callers -> PCs]
BY DEF TypeOK, Goto

LEMMA TypeStep == TypeOK /\ [Next]_vars => TypeOK'
<1> SUFFICES ASSUME TypeOK, [Next]_vars PROVE TypeOK'
  OBVIOUS
<1> USE DEF TypeOK
<1>1. ASSUME NEW c \in Callers, Call(c) PROVE TypeOK'
  BY <1>1, GotoTyped, IdempotencyAssumption DEF Call, PCs, IdempotencyAssumption
<1>2. ASSUME NEW c \in Callers, MemoryClaim(c) PROVE TypeOK'
  BY <1>2, RespondTyped, ClaimedTyped, TellTyped, GotoTyped DEF MemoryClaim, PCs, Running
<1>3. ASSUME NEW c \in Callers, ClaimRead(c) PROVE TypeOK'
  BY <1>3, RespondTyped, GotoTyped DEF ClaimRead, PCs
<1>4. ASSUME NEW c \in Callers, TakeOver(c) PROVE TypeOK'
  BY <1>4, GotoTyped, NoRecordTyped DEF TakeOver, PCs
<1>5. ASSUME NEW c \in Callers, ClaimCreate(c) PROVE TypeOK'
  BY <1>5, ClaimedTyped, GotoTyped DEF ClaimCreate, PCs, Running
<1>6. ASSUME NEW c \in Callers, ClaimReread(c) PROVE TypeOK'
  BY <1>6, RespondTyped, GotoTyped DEF ClaimReread, PCs, Running
<1>7. ASSUME NEW c \in Callers, Work(c) PROVE TypeOK'
  BY <1>7, GotoTyped DEF Work, PCs, Running
<1>8. ASSUME NEW c \in Callers, Complete(c) PROVE TypeOK'
  <2>1. CompletedBy(c) \in Record
    BY DEF CompletedBy, Record, Statuses
  <2>2. QED
    BY <1>8, <2>1, GotoTyped, TellTyped DEF Complete, PCs, Running
<1>9. ASSUME NEW c \in Callers, Release(c) PROVE TypeOK'
  BY <1>9, TellTyped, NoRecordTyped DEF Release
<1>10. ASSUME NEW c \in Callers, Crash(c) PROVE TypeOK'
  BY <1>10, GotoTyped DEF Crash, PCs
<1>11. ASSUME Expire PROVE TypeOK'
  BY <1>11 DEF Expire, Record
<1>12. CASE UNCHANGED vars
  BY <1>12 DEF vars
<1>13. QED
  BY <1>1, <1>2, <1>3, <1>4, <1>5, <1>6, <1>7, <1>8, <1>9, <1>10, <1>11, <1>12
  DEF Next, Execute

\* Every reachable state is well-typed, under every fault.
THEOREM TypeCorrect == Spec => []TypeOK
BY InitTyped, TypeStep, PTL DEF Spec

---------------------------------------------------------------------------
\* Answering a caller from a record that RealInv speaks of.
LEMMA RespondReal ==
  ASSUME TypeOK, RealInv, NEW c \in Callers, Respond(c, record),
         record.status # "absent", UNCHANGED <<record, ran>>
  PROVE  RealInv'
<1>1. record.status = "COMPLETED" \/ record.status = "IN_PROGRESS"
  BY DEF TypeOK, Record, Statuses
<1>2. \A d \in Callers : told'[d].kind = "replay" => told'[d].body \in ran
  BY <1>1 DEF RealInv, ReplayIsReal, TypeOK, Respond, Tell, Goto
<1>3. \A d \in Callers : pc'[d] = "complete" => d \in ran
  BY DEF RealInv, TypeOK, Respond, Tell, Goto
<1>4. QED
  BY <1>2, <1>3 DEF RealInv, ReplayIsReal

LEMMA RealStep == TypeOK /\ RealInv /\ [Next]_vars => RealInv'
<1> SUFFICES ASSUME TypeOK, RealInv, [Next]_vars PROVE RealInv'
  OBVIOUS
<1> USE DEF TypeOK, RealInv, ReplayIsReal
<1>1. ASSUME NEW c \in Callers, Call(c) PROVE RealInv'
  BY <1>1 DEF Call, Goto
<1>2. ASSUME NEW c \in Callers, MemoryClaim(c) PROVE RealInv'
  <2>1. CASE record.live
    BY <1>2, <2>1, RespondReal DEF MemoryClaim
  <2>2. CASE ~record.live
    BY <1>2, <2>2 DEF MemoryClaim, Tell, Goto, Claimed
  <2>3. QED
    BY <2>1, <2>2
<1>3. ASSUME NEW c \in Callers, ClaimRead(c) PROVE RealInv'
  <2>1. CASE record.status # "absent" /\ record.live
    BY <1>3, <2>1, RespondReal DEF ClaimRead
  <2>2. CASE ~(record.status # "absent" /\ record.live)
    BY <1>3, <2>2 DEF ClaimRead, Goto
  <2>3. QED
    BY <2>1, <2>2
<1>4. ASSUME NEW c \in Callers, TakeOver(c) PROVE RealInv'
  BY <1>4 DEF TakeOver, Goto, NoRecord
<1>5. ASSUME NEW c \in Callers, ClaimCreate(c) PROVE RealInv'
  BY <1>5 DEF ClaimCreate, Goto, Claimed
<1>6. ASSUME NEW c \in Callers, ClaimReread(c) PROVE RealInv'
  <2>1. CASE record.status # "absent"
    BY <1>6, <2>1, RespondReal DEF ClaimReread
  <2>2. CASE record.status = "absent"
    BY <1>6, <2>2 DEF ClaimReread, Goto
  <2>3. QED
    BY <2>1, <2>2
<1>7. ASSUME NEW c \in Callers, Work(c) PROVE RealInv'
  BY <1>7 DEF Work, Goto
<1>8. ASSUME NEW c \in Callers, Complete(c) PROVE RealInv'
  <2>1. c \in ran /\ c # None
    BY <1>8, IdempotencyAssumption DEF Complete, IdempotencyAssumption
  <2>2. CompletedBy(c) = record
        \/ /\ CompletedBy(c).body = c
           /\ CompletedBy(c).status = "COMPLETED"
    BY DEF CompletedBy, Record
  <2>3. \A d \in Callers : pc'[d] = "complete" => d \in ran
    BY <1>8 DEF Complete, Tell, Goto
  <2>4. \A d \in Callers : told'[d].kind = "replay" => told'[d].body \in ran
    BY <1>8 DEF Complete, Tell, Goto
  <2>5. record' = record \/ (record'.body = c /\ record'.status = "COMPLETED")
    BY <1>8, <2>2 DEF Complete
  <2>6. ran' = ran
    BY <1>8 DEF Complete
  <2>7. QED
    BY <2>1, <2>3, <2>4, <2>5, <2>6
<1>9. ASSUME NEW c \in Callers, Release(c) PROVE RealInv'
  BY <1>9 DEF Release, Tell, Goto, NoRecord
<1>10. ASSUME NEW c \in Callers, Crash(c) PROVE RealInv'
  BY <1>10 DEF Crash, Goto
<1>11. ASSUME Expire PROVE RealInv'
  BY <1>11 DEF Expire, Record
<1>12. CASE UNCHANGED vars
  BY <1>12 DEF vars
<1>13. QED
  BY <1>1, <1>2, <1>3, <1>4, <1>5, <1>6, <1>7, <1>8, <1>9, <1>10, <1>11, <1>12
  DEF Next, Execute

\* Nothing is replayed that did not happen: whatever store, faults and races,
\* a replayed response belongs to a run that took effect.
THEOREM ReplayCorrect == Spec => []ReplayIsReal
<1>1. Init => RealInv
  BY DEF Init, RealInv, ReplayIsReal, NoRecord, NoAnswer
<1>2. RealInv => ReplayIsReal
  BY DEF RealInv
<1>3. QED
  BY <1>1, <1>2, TypeCorrect, RealStep, PTL DEF Spec

---------------------------------------------------------------------------
\* What Sound leaves of the faults.
LEMMA SoundFaults ==
  ASSUME Sound
  PROVE  /\ Driver = "memory" \/ Driver = "firestore"
         /\ Driver = "firestore" => /\ "workFails" \notin Faults
                                    /\ "storeFails" \notin Faults
                                    /\ "expiry" \notin Faults
         /\ Driver = "memory" => "storeFails" \notin Faults /\ "crash" \notin Faults
BY IdempotencyAssumption DEF Sound, IdempotencyAssumption

\* Answering a caller from a live record keeps ClaimInv.
LEMMA RespondClaim ==
  ASSUME TypeOK, ClaimInv, NEW c \in Callers, Respond(c, record), pc[c] \notin Running,
         record.status # "absent", UNCHANGED <<record, inFlight, effects>>
  PROVE  ClaimInv'
<1>1. record.status = "COMPLETED" \/ record.status = "IN_PROGRESS"
  BY DEF TypeOK, Record, Statuses
<1>2. \A d \in Callers : pc'[d] = IF d = c THEN "idle" ELSE pc[d]
  BY DEF TypeOK, Respond, Tell, Goto
<1>3. Holders' = Holders
  BY <1>2 DEF Holders, Running
<1>4. ReplayFaithful'
  BY <1>1 DEF ClaimInv, ReplayFaithful, TypeOK, Respond, Tell, Goto
<1>5. QED
  BY <1>2, <1>3, <1>4 DEF ClaimInv, OneWinner, EffectOnce, Running

\* Taking the key when no live record is stored keeps ClaimInv.
LEMMA TakeClaim ==
  ASSUME TypeOK, ClaimInv, NEW c \in Callers, record.status = "absent" \/ ~record.live,
         record' = Claimed(c), Goto(c, "work"), UNCHANGED <<told, effects>>,
         inFlight' \in BOOLEAN
  PROVE  ClaimInv'
<1>1. \A d \in Callers : pc[d] \notin Running
  BY DEF ClaimInv
<1>2. \A d \in Callers : pc'[d] = IF d = c THEN "work" ELSE pc[d]
  BY DEF TypeOK, Goto
<1>3. Holders' = {c}
  BY <1>1, <1>2 DEF Holders, Running
<1>4. effects = 0
  BY DEF ClaimInv
<1>5. QED
  BY <1>1, <1>2, <1>3, <1>4 DEF ClaimInv, OneWinner, EffectOnce, Running, Claimed, ReplayFaithful

LEMMA ClaimStep == ASSUME Sound PROVE TypeOK /\ ClaimInv /\ [Next]_vars => ClaimInv'
<1> SUFFICES ASSUME TypeOK, ClaimInv, [Next]_vars PROVE ClaimInv'
  OBVIOUS
<1>1. ASSUME NEW c \in Callers, Call(c) PROVE ClaimInv'
  <2>1. \A d \in Callers : pc'[d] = IF d = c THEN "claim" ELSE pc[d]
    BY <1>1 DEF TypeOK, Call, Goto
  <2>2. Holders' = Holders
    BY <1>1, <2>1 DEF Call, Holders, Running
  <2>3. QED
    BY <1>1, <2>1, <2>2 DEF Call, ClaimInv, OneWinner, EffectOnce, Running, ReplayFaithful
<1>2. ASSUME NEW c \in Callers, MemoryClaim(c) PROVE ClaimInv'
  <2>1. CASE record.live
    BY <1>2, <2>1, RespondClaim DEF MemoryClaim, ClaimInv, Running
  <2>2. CASE ~record.live
    <3>1. ~inFlight \/ record.status # "absent"
      BY DEF ClaimInv
    <3>2. QED
      BY <1>2, <2>2, <3>1, TakeClaim DEF MemoryClaim
  <2>3. QED
    BY <2>1, <2>2
<1>3. ASSUME NEW c \in Callers, ClaimRead(c) PROVE ClaimInv'
  <2>1. CASE record.status # "absent"
    BY <1>3, <2>1, RespondClaim DEF ClaimRead, ClaimInv, Running
  <2>2. CASE record.status = "absent"
    <3>1. Goto(c, "create") /\ UNCHANGED <<record, inFlight, told, effects>>
      BY <1>3, <2>2 DEF ClaimRead
    <3>2. \A d \in Callers : pc'[d] = IF d = c THEN "create" ELSE pc[d]
      BY <3>1 DEF TypeOK, Goto
    <3>3. Holders' = Holders
      BY <1>3, <3>2 DEF ClaimRead, Holders, Running
    <3>4. QED
      BY <1>3, <3>1, <3>2, <3>3
      DEF ClaimRead, ClaimInv, OneWinner, EffectOnce, Running, ReplayFaithful
  <2>3. QED
    BY <2>1, <2>2
<1>4. ASSUME NEW c \in Callers, TakeOver(c) PROVE ClaimInv'
  BY <1>4 DEF TakeOver, ClaimInv
<1>5. ASSUME NEW c \in Callers, ClaimCreate(c) PROVE ClaimInv'
  <2>1. CASE record.status = "absent" /\ record' = Claimed(c) /\ Goto(c, "work")
    BY <1>5, <2>1, TakeClaim DEF ClaimCreate, TypeOK
  <2>2. CASE record.status # "absent" /\ Goto(c, "reread") /\ UNCHANGED record
    <3>1. \A d \in Callers : pc'[d] = IF d = c THEN "reread" ELSE pc[d]
      BY <2>2 DEF TypeOK, Goto
    <3>2. Holders' = Holders
      BY <1>5, <3>1 DEF ClaimCreate, Holders, Running
    <3>3. QED
      BY <1>5, <2>2, <3>1, <3>2
      DEF ClaimCreate, ClaimInv, OneWinner, EffectOnce, Running, ReplayFaithful
  <2>3. Driver = "firestore"
    BY <1>5, SoundFaults DEF ClaimCreate, ClaimInv
  <2>4. QED
    BY <1>5, <2>1, <2>2, <2>3, SoundFaults DEF ClaimCreate
<1>6. ASSUME NEW c \in Callers, ClaimReread(c) PROVE ClaimInv'
  <2>1. record.status # "absent"
    BY <1>6 DEF ClaimReread, ClaimInv
  <2>2. QED
    BY <1>6, <2>1, RespondClaim DEF ClaimReread, Running
<1>7. ASSUME NEW c \in Callers, Work(c) PROVE ClaimInv'
  <2>1. \A d \in Callers : pc[d] \in Running => d = c
    BY <1>7 DEF Work, ClaimInv, OneWinner, Holders, Running
  <2>2. PICK l \in {"complete", "release"} :
          /\ \A d \in Callers : pc'[d] = IF d = c THEN l ELSE pc[d]
          /\ l = "complete" => effects' = effects + 1
          /\ l = "release" => effects' = effects /\ "workFails" \in Faults
    BY <1>7 DEF Work, Goto, TypeOK
  <2>3. Holders' = Holders
    BY <1>7, <2>2 DEF Work, Holders, Running
  <2>4. effects = 0
    BY <1>7 DEF Work, ClaimInv
  <2>5. record.status = "IN_PROGRESS" /\ record.live /\ record.hash = HashOf[c]
    BY <1>7 DEF Work, ClaimInv, Running
  <2>6. effects' = IF l = "complete" THEN 1 ELSE 0
    BY <2>2, <2>4
  <2>7. UNCHANGED <<record, inFlight, told>>
    BY <1>7 DEF Work
  <2>8. \A d \in Callers : d # c => pc'[d] \notin Running
    BY <2>1, <2>2
  <2>9. l = "release" => Driver = "memory" /\ effects' = 0
    BY <2>2, <2>6, SoundFaults
  <2>10. effects' <= 1
    BY <2>6
  <2>11. pc'[c] = l /\ l \in Running
    BY <2>2 DEF Running
  <2>12. OneWinner' /\ ReplayFaithful'
    BY <2>3, <2>7 DEF ClaimInv, OneWinner, ReplayFaithful
  <2>13. \A d \in Callers :
           /\ pc'[d] \in Running => /\ record'.status = "IN_PROGRESS" /\ record'.live
                                    /\ record'.hash = HashOf[d]
           /\ pc'[d] \in {"work", "release"} => effects' = 0
           /\ pc'[d] = "reread" => record'.status # "absent"
           /\ pc'[d] # "takeOver"
    BY <2>2, <2>5, <2>7, <2>8, <2>9, <2>11 DEF ClaimInv, Running
  <2>14. /\ Driver = "firestore" => \A d \in Callers : pc'[d] # "release"
         /\ Driver = "memory" => \A d \in Callers : pc'[d] \notin {"create", "reread"}
    BY <2>2, <2>9 DEF ClaimInv
  <2>15. QED
    BY <2>5, <2>7, <2>10, <2>12, <2>13, <2>14 DEF ClaimInv, EffectOnce
<1>8. ASSUME NEW c \in Callers, Complete(c) PROVE ClaimInv'
  <2>1. record.status = "IN_PROGRESS" /\ record.live /\ record.hash = HashOf[c]
    BY <1>8 DEF Complete, ClaimInv, Running
  <2>2. /\ record' = CompletedBy(c)
        /\ inFlight' = FALSE
        /\ Tell(c, "ok", None)
        /\ UNCHANGED effects
    BY <1>8, <2>1, SoundFaults DEF Complete
  <2>3. /\ record'.status = "COMPLETED"
        /\ record'.body = c
        /\ record'.live = TRUE
        /\ record'.hash = HashOf[c]
    BY <2>1, <2>2 DEF CompletedBy, TypeOK, Record
  <2>4. \A d \in Callers : pc[d] \in Running => d = c
    BY <1>8 DEF Complete, ClaimInv, OneWinner, Holders, Running
  <2>5. \A d \in Callers : pc'[d] = IF d = c THEN "idle" ELSE pc[d]
    BY <2>2 DEF Tell, Goto, TypeOK
  <2>6. Holders' = {}
    BY <2>4, <2>5 DEF Holders, Running
  <2>7. c # None
    BY IdempotencyAssumption DEF IdempotencyAssumption
  <2>8. ReplayFaithful'
    BY <2>2 DEF Tell, ClaimInv, ReplayFaithful, TypeOK
  <2>9. \A d \in Callers : pc'[d] \notin Running
    BY <2>4, <2>5 DEF Running
  <2>10. QED
    BY <2>2, <2>3, <2>5, <2>6, <2>7, <2>8, <2>9
    DEF ClaimInv, OneWinner, EffectOnce, Running
<1>9. ASSUME NEW c \in Callers, Release(c) PROVE ClaimInv'
  <2>1. Driver = "memory"
    BY <1>9, SoundFaults DEF Release, ClaimInv
  <2>2. record' = NoRecord /\ inFlight' = FALSE /\ Tell(c, "failed", None) /\ UNCHANGED effects
    BY <1>9, <2>1, SoundFaults DEF Release
  <2>3. \A d \in Callers : pc[d] \in Running => d = c
    BY <1>9 DEF Release, ClaimInv, OneWinner, Holders, Running
  <2>4. \A d \in Callers : pc'[d] = IF d = c THEN "idle" ELSE pc[d]
    BY <2>2 DEF Tell, Goto, TypeOK
  <2>5. Holders' = {} /\ \A d \in Callers : pc'[d] \notin Running
    BY <2>3, <2>4 DEF Holders, Running
  <2>6. effects = 0
    BY <1>9 DEF Release, ClaimInv
  <2>7. ReplayFaithful'
    BY <2>2 DEF Tell, ClaimInv, ReplayFaithful, TypeOK
  <2>8. QED
    BY <2>1, <2>2, <2>4, <2>5, <2>6, <2>7
    DEF ClaimInv, OneWinner, EffectOnce, Running, NoRecord
<1>10. ASSUME NEW c \in Callers, Crash(c) PROVE ClaimInv'
  <2>1. \A d \in Callers : pc'[d] = IF d = c THEN "idle" ELSE pc[d]
    BY <1>10 DEF Crash, Goto, TypeOK
  <2>2. Holders' \subseteq Holders
    BY <1>10, <2>1 DEF Crash, Holders, Running
  <2>3. QED
    BY <1>10, <2>1, <2>2 DEF Crash, ClaimInv, OneWinner, EffectOnce, Running, ReplayFaithful
<1>11. ASSUME Expire PROVE ClaimInv'
  <2>1. Driver = "memory"
    BY <1>11, SoundFaults DEF Expire
  <2>2. /\ record'.status = record.status
        /\ record'.body = record.body
        /\ record'.hash = record.hash
        /\ record'.live = FALSE
    BY <1>11 DEF Expire, TypeOK, Record
  <2>3. QED
    BY <1>11, <2>1, <2>2
    DEF Expire, ClaimInv, OneWinner, EffectOnce, Running, ReplayFaithful, Holders
<1>12. CASE UNCHANGED vars
  BY <1>12 DEF vars, ClaimInv, OneWinner, EffectOnce, Running, ReplayFaithful, Holders
<1>13. QED
  BY <1>1, <1>2, <1>3, <1>4, <1>5, <1>6, <1>7, <1>8, <1>9, <1>10, <1>11, <1>12
  DEF Next, Execute

\* The invariant behind the promise is inductive wherever the promise is made.
THEOREM ClaimCorrect == ASSUME Sound PROVE Spec => []ClaimInv
<1>1. ASSUME Init PROVE ClaimInv
  <2>1. \A c \in Callers : pc[c] = "idle" /\ told[c].kind = "none"
    BY <1>1 DEF Init, NoAnswer
  <2>2. /\ record.status = "absent" /\ record.live = FALSE /\ record.body = None
        /\ ~inFlight /\ effects = 0
    BY <1>1 DEF Init, NoRecord
  <2>3. OneWinner /\ ReplayFaithful /\ EffectOnce
    BY <2>1, <2>2 DEF OneWinner, ReplayFaithful, EffectOnce, Holders, Running
  <2>4. QED
    BY <2>1, <2>2, <2>3 DEF ClaimInv, Running
<1>2. TypeOK /\ ClaimInv /\ [Next]_vars => ClaimInv'
  BY ClaimStep
<1>3. QED
  BY <1>1, <1>2, TypeCorrect, PTL DEF Spec

\* Where the store keeps its promise, one caller at a time runs the command.
THEOREM OneWinnerCorrect == ASSUME Sound PROVE Spec => []OneWinner
<1>1. ClaimInv => OneWinner
  BY DEF ClaimInv
<1>2. QED
  BY <1>1, ClaimCorrect, PTL

\* Where the store keeps its promise, the command takes effect once per key.
THEOREM EffectOnceCorrect == ASSUME Sound PROVE Spec => []EffectOnce
<1>1. ClaimInv => EffectOnce
  BY DEF ClaimInv
<1>2. QED
  BY <1>1, ClaimCorrect, PTL

\* Where the store keeps its promise, only the same body is replayed.
THEOREM ReplayFaithfulCorrect == ASSUME Sound PROVE Spec => []ReplayFaithful
<1>1. ClaimInv => ReplayFaithful
  BY DEF ClaimInv
<1>2. QED
  BY <1>1, ClaimCorrect, PTL

---------------------------------------------------------------------------
\* The one caller that runs is the holder OnceOnly sees.
LEMMA HolderIs ==
  ASSUME OneWinner, NEW c \in Callers, pc[c] \in Running
  PROVE  HolderNow = c
<1>1. Holders = {c}
  BY DEF OneWinner, Holders
<1>2. QED
  BY <1>1 DEF HolderNow

LEMMA HolderNone ==
  ASSUME \A d \in Callers : pc[d] \notin Running
  PROVE  HolderNow = None
BY DEF HolderNow, Holders

LEMMA HolderSame == Holders' = Holders => HolderNow' = HolderNow
BY DEF HolderNow

\* Winning the key is Take.
LEMMA TakeRefines ==
  ASSUME TypeOK, ClaimInv, ClaimInv', NEW c \in Callers,
         record.status = "absent" \/ ~record.live,
         record' = Claimed(c), Goto(c, "work")
  PROVE  Once!Take(c)
<1>1. HolderNow = None
  BY HolderNone DEF ClaimInv
<1>2. pc'[c] = "work"
  BY DEF TypeOK, Goto
<1>3. HolderNow' = c
  <2>1. Holders' = {c}
    BY <1>2 DEF ClaimInv, OneWinner, Holders, Running
  <2>2. QED
    BY <2>1 DEF HolderNow
<1>4. ResponseNow = None /\ ResponseNow' = None
  BY DEF ResponseNow, ClaimInv, Claimed
<1>5. QED
  BY <1>1, <1>3, <1>4 DEF Once!Take

\* A step that moves nobody into or out of the command and leaves the record
\* is a stutter.
LEMMA StutterRefines ==
  ASSUME Holders' = Holders, record' = record
  PROVE  UNCHANGED Once!vars
BY HolderSame DEF ResponseNow, Once!vars

LEMMA RespondStutters ==
  ASSUME TypeOK, NEW c \in Callers, Respond(c, record), pc[c] \notin Running, record' = record
  PROVE  UNCHANGED Once!vars
<1>1. \A d \in Callers : pc'[d] = IF d = c THEN "idle" ELSE pc[d]
  BY DEF TypeOK, Respond, Tell, Goto
<1>2. Holders' = Holders
  BY <1>1 DEF Holders, Running
<1>3. QED
  BY <1>2, StutterRefines

LEMMA RefineStep ==
  ASSUME Sound, TypeOK, ClaimInv, ClaimInv', [Next]_vars
  PROVE  [Once!Next]_(Once!vars)
<1>1. ASSUME NEW c \in Callers, Call(c) PROVE UNCHANGED Once!vars
  <2>1. Holders' = Holders
    BY <1>1 DEF TypeOK, Call, Goto, Holders, Running
  <2>2. QED
    BY <1>1, <2>1, StutterRefines DEF Call
<1>2. ASSUME NEW c \in Callers, MemoryClaim(c) PROVE Once!Take(c) \/ UNCHANGED Once!vars
  <2>1. CASE record.live
    BY <1>2, <2>1, RespondStutters DEF MemoryClaim, Running
  <2>2. CASE ~record.live
    <3>1. ~inFlight \/ record.status # "absent"
      BY DEF ClaimInv
    <3>2. QED
      BY <1>2, <2>2, <3>1, TakeRefines DEF MemoryClaim
  <2>3. QED
    BY <2>1, <2>2
<1>3. ASSUME NEW c \in Callers, ClaimRead(c) PROVE UNCHANGED Once!vars
  <2>1. CASE Respond(c, record)
    BY <1>3, <2>1, RespondStutters DEF ClaimRead, Running
  <2>2. CASE Goto(c, "create") \/ Goto(c, "takeOver")
    <3>1. Holders' = Holders
      BY <1>3, <2>2 DEF TypeOK, ClaimRead, Goto, Holders, Running
    <3>2. QED
      BY <1>3, <3>1, StutterRefines DEF ClaimRead
  <2>3. QED
    BY <1>3, <2>1, <2>2 DEF ClaimRead
<1>4. ASSUME NEW c \in Callers, TakeOver(c) PROVE FALSE
  BY <1>4 DEF TakeOver, ClaimInv
<1>5. ASSUME NEW c \in Callers, ClaimCreate(c) PROVE Once!Take(c) \/ UNCHANGED Once!vars
  <2>1. CASE record.status = "absent" /\ record' = Claimed(c) /\ Goto(c, "work")
    BY <2>1, TakeRefines
  <2>2. CASE Goto(c, "reread") /\ UNCHANGED record
    <3>1. Holders' = Holders
      BY <1>5, <2>2 DEF TypeOK, ClaimCreate, Goto, Holders, Running
    <3>2. QED
      BY <2>2, <3>1, StutterRefines
  <2>3. QED
    BY <1>5, <2>1, <2>2 DEF ClaimCreate
<1>6. ASSUME NEW c \in Callers, ClaimReread(c) PROVE UNCHANGED Once!vars
  BY <1>6, RespondStutters DEF ClaimReread, ClaimInv, Running
<1>7. ASSUME NEW c \in Callers, Work(c) PROVE UNCHANGED Once!vars
  <2>1. Holders' = Holders
    BY <1>7 DEF TypeOK, Work, Goto, Holders, Running
  <2>2. QED
    BY <1>7, <2>1, StutterRefines DEF Work
<1>8. ASSUME NEW c \in Callers, Complete(c) PROVE Once!Finish(c)
  <2>1. record.status = "IN_PROGRESS" /\ record.live
    BY <1>8 DEF Complete, ClaimInv, Running
  <2>2. record' = CompletedBy(c) /\ Tell(c, "ok", None)
    BY <1>8, <2>1, SoundFaults DEF Complete
  <2>3. ResponseNow' = c
    BY <2>1, <2>2 DEF CompletedBy, ResponseNow, TypeOK, Record
  <2>4. HolderNow = c
    BY <1>8, HolderIs DEF Complete, ClaimInv, Running
  <2>5. \A d \in Callers : pc'[d] \notin Running
    BY <1>8, <2>2 DEF Complete, Tell, Goto, TypeOK, ClaimInv, OneWinner, Holders, Running
  <2>6. HolderNow' = None
    BY <2>5 DEF HolderNow, Holders
  <2>7. QED
    BY <2>3, <2>4, <2>6 DEF Once!Finish
<1>9. ASSUME NEW c \in Callers, Release(c) PROVE Once!GiveUp(c)
  <2>1. Driver = "memory"
    BY <1>9, SoundFaults DEF Release, ClaimInv
  <2>2. record' = NoRecord /\ Tell(c, "failed", None)
    BY <1>9, <2>1, SoundFaults DEF Release
  <2>3. ResponseNow = None /\ ResponseNow' = None
    BY <1>9, <2>2 DEF Release, NoRecord, ResponseNow, ClaimInv, Running
  <2>4. HolderNow = c
    BY <1>9, HolderIs DEF Release, ClaimInv, Running
  <2>5. \A d \in Callers : pc'[d] \notin Running
    BY <1>9, <2>2 DEF Release, Tell, Goto, TypeOK, ClaimInv, OneWinner, Holders, Running
  <2>6. HolderNow' = None
    BY <2>5 DEF HolderNow, Holders
  <2>7. QED
    BY <2>3, <2>4, <2>6 DEF Once!GiveUp
<1>10. ASSUME NEW c \in Callers, Crash(c) PROVE Once!GiveUp(c) \/ UNCHANGED Once!vars
  <2>1. \A d \in Callers : pc'[d] = IF d = c THEN "idle" ELSE pc[d]
    BY <1>10 DEF Crash, Goto, TypeOK
  <2>2. CASE pc[c] \in Running
    <3>1. HolderNow = c
      BY <2>2, HolderIs DEF ClaimInv
    <3>2. \A d \in Callers : pc'[d] \notin Running
      BY <2>1, <2>2 DEF ClaimInv, OneWinner, Holders, Running
    <3>3. HolderNow' = None
      BY <3>2 DEF HolderNow, Holders
    <3>4. ResponseNow' = ResponseNow
      BY <1>10 DEF Crash, ResponseNow
    <3>5. QED
      BY <3>1, <3>3, <3>4 DEF Once!GiveUp
  <2>3. CASE pc[c] \notin Running
    <3>1. Holders' = Holders
      BY <2>1, <2>3 DEF Holders, Running
    <3>2. QED
      BY <1>10, <3>1, StutterRefines DEF Crash
  <2>4. QED
    BY <2>2, <2>3
<1>11. ASSUME Expire PROVE Once!Expire \/ UNCHANGED Once!vars
  <2>1. Holders' = Holders
    BY <1>11 DEF Expire, Holders
  <2>2. HolderNow' = HolderNow
    BY <2>1, HolderSame
  <2>3. ResponseNow' = None
    BY <1>11 DEF Expire, ResponseNow, TypeOK, Record
  <2>4. QED
    BY <2>2, <2>3 DEF Once!Expire, Once!vars
<1>12. CASE UNCHANGED vars
  BY <1>12, StutterRefines DEF vars, Holders
<1>13. QED
  BY <1>1, <1>2, <1>3, <1>4, <1>5, <1>6, <1>7, <1>8, <1>9, <1>10, <1>11, <1>12
  DEF Next, Execute, Once!Next

\* Where the store keeps its promise, every execution is one of OnceOnly.
THEOREM OnceOnlyCorrect == ASSUME Sound PROVE Spec => ImplementsOnceOnly
<1>1. Init => Once!Init
  BY DEF Init, Once!Init, HolderNow, ResponseNow, Holders, Running, NoRecord
<1>2. QED
  BY <1>1, TypeCorrect, ClaimCorrect, RefineStep, PTL DEF Spec, Once!Spec, ImplementsOnceOnly

---------------------------------------------------------------------------
(* Events.  One drain at a time, a handler is handed an event only until it *)
(* has finished it, and a row is settled when its last handler is done.     *)

Draining(c) == call[c].pc \in {"list", "next", "dispatch"}

\* A call is a record, whatever its batch is.
BusShaped ==
  /\ call = [c \in Events |-> call[c]]
  /\ \A c \in Events : /\ call[c] = [pc |-> call[c].pc, batch |-> call[c].batch,
                                     todo |-> call[c].todo, ok |-> call[c].ok]
                       /\ call[c].ok \in BOOLEAN

\* The flag has one owner.
OneDrain ==
  \A c \in Events : Draining(c) => draining /\ \A d \in Events : Draining(d) => d = c

\* The dedupe set counts the runs.
SeenOnce ==
  /\ runs \in [Handlers \X Events -> {0, 1}]
  /\ \A p \in Handlers \X Events : runs[p] = 1 => p \in seen

\* What a drain knows of the row it dispatches: the handlers left have not finished it, and if
\* none has thrown the others have.
Dispatching ==
  \A c \in Events : call[c].pc = "dispatch" =>
    LET e == Head(call[c].batch) IN
    /\ \A h \in call[c].todo : <<h, e>> \notin seen
    /\ e \in Events /\ call[c].ok = TRUE =>
         \A h \in Subscribed[e] : h \in call[c].todo \/ <<h, e>> \in seen

BusInv ==
  /\ status \in [Events -> {"none", "pending", "processed", "failed"}]
  /\ BusShaped /\ OneDrain /\ SeenOnce /\ Dispatching /\ Bus!ProcessedIsHandled

\* c's call becomes q, the others stay.
BusBecomes(c, q) ==
  /\ BusShaped' /\ call'[c] = q
  /\ \A d \in Events : d # c => call'[d] = call[d]

LEMMA BusSets ==
  ASSUME BusShaped, NEW c \in Events, NEW to, NEW batch, NEW todo, NEW ok \in BOOLEAN
  PROVE  LET q == call[c] IN
         /\ call' = [call EXCEPT ![c].pc = to] =>
              BusBecomes(c, [pc |-> to, batch |-> q.batch, todo |-> q.todo, ok |-> q.ok])
         /\ call' = [call EXCEPT ![c].pc = to, ![c].batch = batch] =>
              BusBecomes(c, [pc |-> to, batch |-> batch, todo |-> q.todo, ok |-> q.ok])
         /\ call' = [call EXCEPT ![c].pc = to, ![c].ok = ok, ![c].todo = todo] =>
              BusBecomes(c, [pc |-> to, batch |-> q.batch, todo |-> todo, ok |-> ok])
         /\ call' = [call EXCEPT ![c].todo = todo, ![c].ok = ok] =>
              BusBecomes(c, [pc |-> q.pc, batch |-> q.batch, todo |-> todo, ok |-> ok])
<1> DEFINE Typed == [Events -> [pc : {call[d].pc : d \in Events}, batch : {call[d].batch : d \in Events},
                                todo : {call[d].todo : d \in Events}, ok : {call[d].ok : d \in Events}]]
           q == call[c]
<1>1. call \in Typed
  BY DEF BusShaped
<1>2. ASSUME call' = [call EXCEPT ![c].pc = to]
      PROVE  BusBecomes(c, [pc |-> to, batch |-> q.batch, todo |-> q.todo, ok |-> q.ok])
  <2>1. /\ call' = [d \in Events |-> call'[d]]
        /\ \A d \in Events : d # c => call'[d] = call[d]
        /\ call'[c] = [pc |-> to, batch |-> q.batch, todo |-> q.todo, ok |-> q.ok]
    BY <1>1, <1>2
  <2> QED
    BY <2>1 DEF BusShaped, BusBecomes
<1>3. ASSUME call' = [call EXCEPT ![c].pc = to, ![c].batch = batch]
      PROVE  BusBecomes(c, [pc |-> to, batch |-> batch, todo |-> q.todo, ok |-> q.ok])
  <2>1. /\ call' = [d \in Events |-> call'[d]]
        /\ \A d \in Events : d # c => call'[d] = call[d]
        /\ call'[c] = [pc |-> to, batch |-> batch, todo |-> q.todo, ok |-> q.ok]
    BY <1>1, <1>3
  <2> QED
    BY <2>1 DEF BusShaped, BusBecomes
<1>4. ASSUME call' = [call EXCEPT ![c].pc = to, ![c].ok = ok, ![c].todo = todo]
      PROVE  BusBecomes(c, [pc |-> to, batch |-> q.batch, todo |-> todo, ok |-> ok])
  <2>1. /\ call' = [d \in Events |-> call'[d]]
        /\ \A d \in Events : d # c => call'[d] = call[d]
        /\ call'[c] = [pc |-> to, batch |-> q.batch, todo |-> todo, ok |-> ok]
    BY <1>1, <1>4
  <2> QED
    BY <2>1 DEF BusShaped, BusBecomes
<1>5. ASSUME call' = [call EXCEPT ![c].todo = todo, ![c].ok = ok]
      PROVE  BusBecomes(c, [pc |-> q.pc, batch |-> q.batch, todo |-> todo, ok |-> ok])
  <2>1. /\ call' = [d \in Events |-> call'[d]]
        /\ \A d \in Events : d # c => call'[d] = call[d]
        /\ call'[c] = [pc |-> q.pc, batch |-> q.batch, todo |-> todo, ok |-> ok]
    BY <1>1, <1>5
  <2> QED
    BY <2>1 DEF BusShaped, BusBecomes
<1> QED
  BY <1>2, <1>3, <1>4, <1>5

LEMMA BusInit0 == Bus!Init => BusInv
<1> SUFFICES ASSUME Bus!Init PROVE BusInv
  OBVIOUS
<1>1. call = [e \in Events |-> Bus!Quiet] /\ \A e \in Events : call[e] = Bus!Quiet
  BY DEF Bus!Init
<1>2. BusShaped /\ OneDrain /\ Dispatching
  BY <1>1 DEF BusShaped, OneDrain, Draining, Dispatching, Bus!Quiet
<1>3. SeenOnce /\ Bus!ProcessedIsHandled /\ status \in [Events -> {"none", "pending", "processed", "failed"}]
  BY DEF Bus!Init, SeenOnce, Bus!ProcessedIsHandled
<1> QED
  BY <1>2, <1>3 DEF BusInv

\* A drain that works on its own row, the dedupe set and the rows as they were.
LEMMA BusWorks ==
  ASSUME BusInv, NEW c \in Events, NEW q, BusBecomes(c, q),
         q.pc \in {"list", "next", "dispatch"} =>
           draining' /\ \A d \in Events : d # c => ~Draining(d),
         \A d \in Events : Draining(d) /\ d # c => draining',
         UNCHANGED <<seen, runs>>,
         status' \in [Events -> {"none", "pending", "processed", "failed"}],
         \A e \in Events :
           status'[e] = "processed" =>
             status[e] = "processed" \/ \A h \in Subscribed[e] : <<h, e>> \in seen,
         q.pc = "dispatch" =>
           LET e == Head(q.batch) IN
           /\ \A h \in q.todo : <<h, e>> \notin seen
           /\ e \in Events /\ q.ok = TRUE => \A h \in Subscribed[e] : h \in q.todo \/ <<h, e>> \in seen
  PROVE  BusInv'
<1>1. BusShaped' /\ call'[c] = q /\ \A d \in Events : d # c => call'[d] = call[d]
  BY DEF BusBecomes
<1>2. OneDrain'
  BY <1>1 DEF BusInv, OneDrain, Draining
<1>3. Dispatching'
  BY <1>1 DEF BusInv, Dispatching
<1>4. Bus!ProcessedIsHandled'
  BY DEF BusInv, Bus!ProcessedIsHandled
<1> QED
  BY <1>1, <1>2, <1>3, <1>4 DEF BusInv, SeenOnce

LEMMA BusQuiets ==
  ASSUME BusShaped, NEW c \in Events, call' = [call EXCEPT ![c] = Bus!Quiet]
  PROVE  BusBecomes(c, Bus!Quiet) /\ Bus!Quiet.pc = "idle"
BY DEF BusShaped, BusBecomes, Bus!Quiet

LEMMA BusStep == BusInv /\ Bus!Next => BusInv'
<1> SUFFICES ASSUME BusInv, NEW c \in Events, Bus!Emit(c) \/ Bus!Step(c) PROVE BusInv'
  BY DEF Bus!Next
<1> DEFINE q == call[c]
<1>0. /\ BusShaped /\ OneDrain /\ SeenOnce /\ Dispatching /\ Bus!ProcessedIsHandled
      /\ status \in [Events -> {"none", "pending", "processed", "failed"}]
  BY DEF BusInv
<1>1. CASE Bus!Emit(c)
  <2>1. BusBecomes(c, [pc |-> "drain", batch |-> q.batch, todo |-> q.todo, ok |-> q.ok])
    BY <1>0, <1>1, BusSets DEF Bus!Emit
  <2>2. UNCHANGED <<seen, runs, draining>> /\ status' = [status EXCEPT ![c] = "pending"]
    BY <1>1 DEF Bus!Emit
  <2> QED
    BY <1>0, <2>1, <2>2, BusWorks DEF OneDrain
<1>2. CASE Bus!Drain(c)
  <2>0. UNCHANGED <<status, seen, runs>>
    BY <1>2 DEF Bus!Drain
  <2>1. CASE ~draining /\ draining' = TRUE /\ call' = [call EXCEPT ![c].pc = "list"]
    <3>1. BusBecomes(c, [pc |-> "list", batch |-> q.batch, todo |-> q.todo, ok |-> q.ok])
      BY <1>0, <2>1, BusSets
    <3> QED
      BY <1>0, <2>0, <2>1, <3>1, BusWorks DEF OneDrain
  <2>2. CASE call' = [call EXCEPT ![c] = Bus!Quiet] /\ UNCHANGED draining
    <3>1. BusBecomes(c, Bus!Quiet) /\ Bus!Quiet.pc = "idle"
      BY <1>0, <2>2, BusQuiets
    <3> QED
      BY <1>0, <2>0, <2>2, <3>1, BusWorks DEF OneDrain
  <2> QED
    BY <1>2, <2>1, <2>2 DEF Bus!Drain, Bus!Free
<1>3. CASE Bus!List(c)
  <2>1. BusBecomes(c, [pc |-> "next", batch |-> Bus!Listed, todo |-> q.todo, ok |-> q.ok])
    BY <1>0, <1>3, BusSets DEF Bus!List
  <2>2. UNCHANGED <<status, seen, runs, draining>> /\ Draining(c)
    BY <1>3 DEF Bus!List, Bus!At, Draining
  <2> QED
    BY <1>0, <2>1, <2>2, BusWorks DEF OneDrain
<1>4. CASE Bus!NextRow(c)
  <2>0. UNCHANGED <<status, seen, runs>> /\ Draining(c)
    BY <1>4 DEF Bus!NextRow, Bus!At, Draining
  <2>1. CASE UNCHANGED draining /\ call' = [call EXCEPT ![c].pc = "dispatch", ![c].ok = TRUE,
                                                       ![c].todo = Bus!Unseen(Bus!Row(c))]
    <3> DEFINE e == Head(q.batch)
    <3>1. BusBecomes(c, [pc |-> "dispatch", batch |-> q.batch, todo |-> Bus!Unseen(e), ok |-> TRUE])
      BY <1>0, <2>1, BusSets DEF Bus!Row
    <3>2. /\ \A h \in Bus!Unseen(e) : <<h, e>> \notin seen
          /\ \A h \in Subscribed[e] : h \in Bus!Unseen(e) \/ <<h, e>> \in seen
      BY DEF Bus!Unseen
    <3> QED
      BY <1>0, <2>0, <2>1, <3>1, <3>2, BusWorks DEF OneDrain
  <2>2. CASE draining' = FALSE /\ call' = [call EXCEPT ![c] = Bus!Quiet]
    <3>1. BusBecomes(c, Bus!Quiet) /\ Bus!Quiet.pc = "idle"
      BY <1>0, <2>2, BusQuiets
    <3> QED
      BY <1>0, <2>0, <2>2, <3>1, BusWorks DEF OneDrain
  <2> QED
    BY <1>4, <2>1, <2>2 DEF Bus!NextRow
<1>5. ASSUME NEW h \in Handlers, NEW fine \in BOOLEAN, Bus!Handle(c, h, fine) PROVE BusInv'
  <2> DEFINE e == Head(q.batch)
             next == [pc |-> q.pc, batch |-> q.batch, todo |-> q.todo \ {h}, ok |-> q.ok /\ fine]
  <2>1. /\ q.pc = "dispatch" /\ h \in q.todo /\ UNCHANGED <<status, draining>>
        /\ seen' = IF fine THEN seen \cup {<<h, e>>} ELSE seen
        /\ runs' = IF fine THEN [runs EXCEPT ![<<h, e>>] = @ + 1] ELSE runs
    BY <1>5 DEF Bus!Handle, Bus!At, Bus!Row
  <2>2. BusBecomes(c, next)
    BY <1>0, <1>5, BusSets DEF Bus!Handle
  <2>3. BusShaped' /\ call'[c] = next /\ \A d \in Events : d # c => call'[d] = call[d]
    BY <2>2 DEF BusBecomes
  <2>4. OneDrain'
    BY <1>0, <2>1, <2>3 DEF OneDrain, Draining
  <2>5. <<h, e>> \notin seen
    BY <1>0, <2>1 DEF Dispatching
  <2>6. SeenOnce'
    <3>1. CASE ~fine
      BY <1>0, <2>1, <3>1 DEF SeenOnce
    <3>2. CASE fine
      <4>1. ASSUME NEW p \in Handlers \X Events, p # <<h, e>> PROVE runs'[p] = runs[p]
        BY <1>0, <2>1, <3>2, <4>1 DEF SeenOnce
      <4>2. <<h, e>> \in Handlers \X Events => runs[<<h, e>>] = 0 /\ runs'[<<h, e>>] = 1
        BY <1>0, <2>1, <2>5, <3>2 DEF SeenOnce
      <4>3. runs' = [p \in Handlers \X Events |-> runs'[p]]
        BY <1>0, <2>1, <3>2 DEF SeenOnce
      <4>4. runs' \in [Handlers \X Events -> {0, 1}]
        BY <1>0, <4>1, <4>2, <4>3 DEF SeenOnce
      <4> QED
        BY <1>0, <2>1, <3>2, <4>1, <4>4 DEF SeenOnce
    <3> QED
      BY <3>1, <3>2
  <2>7. Dispatching'
    <3>1. ASSUME NEW d \in Events, call'[d].pc = "dispatch" PROVE d = c
      BY <1>0, <2>1, <2>3, <3>1 DEF OneDrain, Draining
    <3>5. call'[c].batch = q.batch /\ call'[c].todo = q.todo \ {h} /\ call'[c].ok = (q.ok /\ fine)
      BY <2>3
    <3>6. q.ok \in BOOLEAN
      BY <1>0 DEF BusShaped
    <3>2. /\ call'[c].batch = q.batch /\ call'[c].todo = q.todo \ {h}
          /\ call'[c].ok = TRUE => q.ok = TRUE /\ fine
      <4>1. (q.ok /\ fine) = TRUE => q.ok = TRUE /\ fine
        BY <3>6, Zenon
      <4> QED
        BY <3>5, <4>1
    <3>3. /\ \A g \in call'[c].todo : <<g, e>> \notin seen'
      BY <1>0, <2>1, <3>2 DEF Dispatching
    <3>4. e \in Events /\ call'[c].ok = TRUE =>
            \A g \in Subscribed[e] : g \in call'[c].todo \/ <<g, e>> \in seen'
      BY <1>0, <2>1, <3>2 DEF Dispatching
    <3> QED
      BY <3>1, <3>2, <3>3, <3>4 DEF Dispatching
  <2>8. Bus!ProcessedIsHandled'
    BY <1>0, <2>1 DEF Bus!ProcessedIsHandled
  <2> QED
    BY <1>0, <2>1, <2>3, <2>4, <2>6, <2>7, <2>8 DEF BusInv
<1>6. CASE Bus!Finish(c)
  <2> DEFINE e == Head(q.batch)
  <2>1. q.pc = "dispatch" /\ q.todo = {} /\ UNCHANGED <<seen, runs, draining>> /\ Draining(c)
    BY <1>6 DEF Bus!Finish, Bus!At, Draining
  <2>2. BusBecomes(c, [pc |-> "next", batch |-> Tail(q.batch), todo |-> q.todo, ok |-> q.ok])
    BY <1>0, <1>6, BusSets DEF Bus!Finish, Bus!Rest
  <2>3. status' \in [Events -> {"none", "pending", "processed", "failed"}]
    BY <1>0, <1>6 DEF Bus!Finish, Bus!Settle
  <2>4. ASSUME NEW f \in Events, status'[f] = "processed"
        PROVE  status[f] = "processed" \/ \A h \in Subscribed[f] : <<h, f>> \in seen
    <3>1. CASE status'[f] = status[f]
      BY <2>4, <3>1
    <3>2. CASE status'[f] # status[f]
      <4>1. f = e /\ q.ok
        BY <1>0, <1>6, <2>4, <3>2 DEF Bus!Finish, Bus!Settle, Bus!AllSucceeded, Bus!Row
      <4> QED
        BY <1>0, <2>1, <4>1 DEF Dispatching
    <3> QED
      BY <3>1, <3>2
  <2> QED
    BY <1>0, <2>1, <2>2, <2>3, <2>4, BusWorks DEF OneDrain
<1> QED
  BY <1>1, <1>2, <1>3, <1>4, <1>5, <1>6 DEF Bus!Step

LEMMA BusNext == BusInv /\ [Commands \/ FaultyCommands \/ Deliveries]_onceVars => BusInv'
<1> SUFFICES ASSUME BusInv, [Commands \/ FaultyCommands \/ Deliveries]_onceVars PROVE BusInv'
  OBVIOUS
<1>1. CASE UNCHANGED busVars
  BY <1>1 DEF BusInv, BusShaped, OneDrain, Draining, SeenOnce, Dispatching, Bus!ProcessedIsHandled, busVars
<1>2. CASE Deliveries
  BY <1>2, BusStep DEF Deliveries
<1> QED
  BY <1>1, <1>2 DEF Commands, FaultyCommands, onceVars

\* However appends and drains interleave and handlers throw, a handler finishes an event at
\* most once, and a processed row was finished by all its handlers: for any number of events,
\* handlers and attempts, and whatever a drain lists.
THEOREM HandledAtMostOnce == OnceSpec => []HandledOnce
<1>1. BusInv => HandledOnce
  BY DEF BusInv, SeenOnce, HandledOnce, Bus!HandledOnce
<1>2. OnceInit => BusInv
  BY BusInit0 DEF OnceInit
<1> QED
  BY <1>1, <1>2, BusNext, PTL DEF OnceSpec

\* A row is processed when all its handlers have finished it: see HandledAtMostOnce.
THEOREM ProcessedRowsAreHandled == OnceSpec => []ProcessedIsHandled
<1>1. BusInv => ProcessedIsHandled
  BY DEF BusInv, ProcessedIsHandled
<1>2. OnceInit => BusInv
  BY BusInit0 DEF OnceInit
<1> QED
  BY <1>1, <1>2, BusNext, PTL DEF OnceSpec

---------------------------------------------------------------------------
(* The commands over the firestore whose every call may fail: the same     *)
(* argument about the rows of MCIdempotency's Store.                       *)

LEMMA StoreNoRecordTyped == Store!NoRecord \in Store!Record
BY DEF Store!NoRecord, Store!Record, Store!Statuses

LEMMA StoreClaimedTyped == \A c \in Callers : Store!Claimed(c) \in Store!Record
BY IdempotencyAssumption DEF IdempotencyAssumption, Store!Claimed, Store!Record, Store!Statuses

LEMMA StoreAnswerTyped ==
  ASSUME NEW kind \in {"none", "ok", "failed", "conflict", "inFlight", "replay"},
         NEW body \in Callers \cup {None}
  PROVE  [kind |-> kind, body |-> body] \in Store!Answer
BY DEF Store!Answer

LEMMA StoreInitTyped == Store!Init => Store!TypeOK
<1> SUFFICES ASSUME Store!Init PROVE Store!TypeOK
  OBVIOUS
<1>1. Store!NoAnswer \in Store!Answer
  BY DEF Store!NoAnswer, Store!Answer
<1>2. answered \in [Callers -> Store!Answer]
  BY <1>1 DEF Store!Init
<1>3. at \in [Callers -> Store!PCs]
  BY DEF Store!Init, Store!PCs
<1>4. asked \in 0..MaxCalls
  BY IdempotencyAssumption DEF Store!Init, IdempotencyAssumption
<1>5. QED
  BY <1>2, <1>3, <1>4, StoreNoRecordTyped DEF Store!Init, Store!TypeOK

\* Telling a caller something keeps the types.
LEMMA StoreTellTyped ==
  ASSUME Store!TypeOK, NEW c \in Callers, NEW body \in Callers \cup {None},
         NEW kind \in {"none", "ok", "failed", "conflict", "inFlight", "replay"},
         Store!Tell(c, kind, body)
  PROVE  at' \in [Callers -> Store!PCs] /\ answered' \in [Callers -> Store!Answer]
<1>1. at' \in [Callers -> Store!PCs]
  BY DEF Store!TypeOK, Store!Tell, Store!Goto, Store!PCs
<1>2. answered' \in [Callers -> Store!Answer]
  BY StoreAnswerTyped DEF Store!TypeOK, Store!Tell
<1>3. QED
  BY <1>1, <1>2

LEMMA StoreRespondTyped ==
  ASSUME Store!TypeOK, NEW c \in Callers, Store!Respond(c, document)
  PROVE  at' \in [Callers -> Store!PCs] /\ answered' \in [Callers -> Store!Answer]
<1>1. document.body \in Callers \cup {None}
  BY DEF Store!TypeOK, Store!Record
<1>2. QED
  BY <1>1, StoreTellTyped DEF Store!Respond

LEMMA StoreGotoTyped ==
  ASSUME Store!TypeOK, NEW c \in Callers, NEW l \in Store!PCs, Store!Goto(c, l)
  PROVE  at' \in [Callers -> Store!PCs]
BY DEF Store!TypeOK, Store!Goto

LEMMA StoreTypeStep == Store!TypeOK /\ [Store!Next]_storeVars => Store!TypeOK'
<1> SUFFICES ASSUME Store!TypeOK, [Store!Next]_storeVars PROVE Store!TypeOK'
  OBVIOUS
<1> USE DEF Store!TypeOK
<1>1. ASSUME NEW c \in Callers, Store!Call(c) PROVE Store!TypeOK'
  BY <1>1, StoreGotoTyped, IdempotencyAssumption DEF Store!Call, Store!PCs, IdempotencyAssumption
<1>2. ASSUME NEW c \in Callers, Store!MemoryClaim(c) PROVE Store!TypeOK'
  BY <1>2, StoreRespondTyped, StoreClaimedTyped, StoreTellTyped, StoreGotoTyped
  DEF Store!MemoryClaim, Store!PCs, Store!Running
<1>3. ASSUME NEW c \in Callers, Store!ClaimRead(c) PROVE Store!TypeOK'
  BY <1>3, StoreRespondTyped, StoreGotoTyped DEF Store!ClaimRead, Store!PCs
<1>4. ASSUME NEW c \in Callers, Store!TakeOver(c) PROVE Store!TypeOK'
  BY <1>4, StoreGotoTyped, StoreNoRecordTyped DEF Store!TakeOver, Store!PCs
<1>5. ASSUME NEW c \in Callers, Store!ClaimCreate(c) PROVE Store!TypeOK'
  BY <1>5, StoreClaimedTyped, StoreGotoTyped DEF Store!ClaimCreate, Store!PCs, Store!Running
<1>6. ASSUME NEW c \in Callers, Store!ClaimReread(c) PROVE Store!TypeOK'
  BY <1>6, StoreRespondTyped, StoreGotoTyped DEF Store!ClaimReread, Store!PCs, Store!Running
<1>7. ASSUME NEW c \in Callers, Store!Work(c) PROVE Store!TypeOK'
  BY <1>7, StoreGotoTyped DEF Store!Work, Store!PCs, Store!Running
<1>8. ASSUME NEW c \in Callers, Store!Complete(c) PROVE Store!TypeOK'
  <2>1. Store!CompletedBy(c) \in Store!Record
    BY DEF Store!CompletedBy, Store!Record, Store!Statuses
  <2>2. QED
    BY <1>8, <2>1, StoreGotoTyped, StoreTellTyped DEF Store!Complete, Store!PCs, Store!Running
<1>9. ASSUME NEW c \in Callers, Store!Release(c) PROVE Store!TypeOK'
  BY <1>9, StoreTellTyped, StoreNoRecordTyped DEF Store!Release
<1>10. ASSUME NEW c \in Callers, Store!Crash(c) PROVE Store!TypeOK'
  BY <1>10, StoreGotoTyped DEF Store!Crash, Store!PCs
<1>11. ASSUME Store!Expire PROVE Store!TypeOK'
  BY <1>11 DEF Store!Expire, Store!Record
<1>12. CASE UNCHANGED storeVars
  BY <1>12 DEF storeVars
<1> HIDE DEF Store!TypeOK
<1>13. ASSUME NEW c \in Callers, Store!Execute(c) PROVE Store!TypeOK'
  BY <1>2, <1>3, <1>4, <1>5, <1>6, <1>7, <1>8, <1>9, <1>13 DEF Store!Execute
<1>14. QED
  BY <1>1, <1>10, <1>11, <1>12, <1>13 DEF Store!Next

\* Answering a caller from a document that Store!RealInv speaks of.
LEMMA StoreRespondReal ==
  ASSUME Store!TypeOK, Store!RealInv, NEW c \in Callers, Store!Respond(c, document),
         document.status # "absent", UNCHANGED <<document, done>>
  PROVE  Store!RealInv'
<1>1. document.status = "COMPLETED" \/ document.status = "IN_PROGRESS"
  BY DEF Store!TypeOK, Store!Record, Store!Statuses
<1>2. \A d \in Callers : answered'[d].kind = "replay" => answered'[d].body \in done
  BY <1>1 DEF Store!RealInv, Store!ReplayIsReal, Store!TypeOK, Store!Respond, Store!Tell, Store!Goto
<1>3. \A d \in Callers : at'[d] = "complete" => d \in done
  BY DEF Store!RealInv, Store!TypeOK, Store!Respond, Store!Tell, Store!Goto
<1>4. QED
  BY <1>2, <1>3 DEF Store!RealInv, Store!ReplayIsReal

LEMMA StoreRealStep == Store!TypeOK /\ Store!RealInv /\ [Store!Next]_storeVars => Store!RealInv'
<1> SUFFICES ASSUME Store!TypeOK, Store!RealInv, [Store!Next]_storeVars PROVE Store!RealInv'
  OBVIOUS
<1> USE DEF Store!TypeOK, Store!RealInv, Store!ReplayIsReal
<1>1. ASSUME NEW c \in Callers, Store!Call(c) PROVE Store!RealInv'
  BY <1>1 DEF Store!Call, Store!Goto
<1>2. ASSUME NEW c \in Callers, Store!MemoryClaim(c) PROVE Store!RealInv'
  <2>1. CASE document.live
    BY <1>2, <2>1, StoreRespondReal DEF Store!MemoryClaim
  <2>2. CASE ~document.live
    BY <1>2, <2>2 DEF Store!MemoryClaim, Store!Tell, Store!Goto, Store!Claimed
  <2>3. QED
    BY <2>1, <2>2
<1>3. ASSUME NEW c \in Callers, Store!ClaimRead(c) PROVE Store!RealInv'
  <2>1. CASE document.status # "absent" /\ document.live
    BY <1>3, <2>1, StoreRespondReal DEF Store!ClaimRead
  <2>2. CASE ~(document.status # "absent" /\ document.live)
    BY <1>3, <2>2 DEF Store!ClaimRead, Store!Goto
  <2>3. QED
    BY <2>1, <2>2
<1>4. ASSUME NEW c \in Callers, Store!TakeOver(c) PROVE Store!RealInv'
  BY <1>4 DEF Store!TakeOver, Store!Goto, Store!NoRecord
<1>5. ASSUME NEW c \in Callers, Store!ClaimCreate(c) PROVE Store!RealInv'
  BY <1>5 DEF Store!ClaimCreate, Store!Goto, Store!Claimed
<1>6. ASSUME NEW c \in Callers, Store!ClaimReread(c) PROVE Store!RealInv'
  <2>1. CASE document.status # "absent"
    BY <1>6, <2>1, StoreRespondReal DEF Store!ClaimReread
  <2>2. CASE document.status = "absent"
    BY <1>6, <2>2 DEF Store!ClaimReread, Store!Goto
  <2>3. QED
    BY <2>1, <2>2
<1>7. ASSUME NEW c \in Callers, Store!Work(c) PROVE Store!RealInv'
  BY <1>7 DEF Store!Work, Store!Goto
<1>8. ASSUME NEW c \in Callers, Store!Complete(c) PROVE Store!RealInv'
  <2>1. c \in done /\ c # None
    BY <1>8, IdempotencyAssumption DEF Store!Complete, IdempotencyAssumption
  <2>2. Store!CompletedBy(c) = document
        \/ /\ Store!CompletedBy(c).body = c
           /\ Store!CompletedBy(c).status = "COMPLETED"
    BY DEF Store!CompletedBy, Store!Record
  <2>3. \A d \in Callers : at'[d] = "complete" => d \in done
    BY <1>8 DEF Store!Complete, Store!Tell, Store!Goto
  <2>4. \A d \in Callers : answered'[d].kind = "replay" => answered'[d].body \in done
    BY <1>8 DEF Store!Complete, Store!Tell, Store!Goto
  <2>5. document' = document \/ (document'.body = c /\ document'.status = "COMPLETED")
    BY <1>8, <2>2 DEF Store!Complete
  <2>6. done' = done
    BY <1>8 DEF Store!Complete
  <2>7. QED
    BY <2>1, <2>3, <2>4, <2>5, <2>6
<1>9. ASSUME NEW c \in Callers, Store!Release(c) PROVE Store!RealInv'
  BY <1>9 DEF Store!Release, Store!Tell, Store!Goto, Store!NoRecord
<1>10. ASSUME NEW c \in Callers, Store!Crash(c) PROVE Store!RealInv'
  BY <1>10 DEF Store!Crash, Store!Goto
<1>11. ASSUME Store!Expire PROVE Store!RealInv'
  BY <1>11 DEF Store!Expire, Store!Record
<1>12. CASE UNCHANGED storeVars
  BY <1>12 DEF storeVars
<1> HIDE DEF Store!TypeOK, Store!RealInv, Store!ReplayIsReal
<1>13. ASSUME NEW c \in Callers, Store!Execute(c) PROVE Store!RealInv'
  BY <1>2, <1>3, <1>4, <1>5, <1>6, <1>7, <1>8, <1>9, <1>13 DEF Store!Execute
<1>14. QED
  BY <1>1, <1>10, <1>11, <1>12, <1>13 DEF Store!Next

\* Nothing is replayed that did not happen, over the memory store and over a firestore
\* whose writes fail, whose processes die and whose records expire (MCIdempotency's
\* NothingInvented), for any callers and bodies.
THEOREM NothingIsInvented == OnceSpec => []NothingInvented
<1> DEFINE Inv == TypeOK /\ RealInv /\ Store!TypeOK /\ Store!RealInv
<1>1. OnceInit => Inv
  <2>1. Init => RealInv
    BY DEF Init, RealInv, ReplayIsReal, NoRecord, NoAnswer
  <2>2. Store!Init => Store!RealInv
    BY DEF Store!Init, Store!RealInv, Store!ReplayIsReal, Store!NoRecord, Store!NoAnswer
  <2> QED
    BY <2>1, <2>2, InitTyped, StoreInitTyped DEF OnceInit
<1>2. Inv /\ [Commands \/ FaultyCommands \/ Deliveries]_onceVars => Inv'
  <2> SUFFICES ASSUME Inv, [Commands \/ FaultyCommands \/ Deliveries]_onceVars PROVE Inv'
    OBVIOUS
  <2>1. [Next]_vars /\ [Store!Next]_storeVars
    BY DEF Commands, FaultyCommands, Deliveries, onceVars
  <2>2. TypeOK' /\ RealInv'
    BY <2>1, TypeStep, RealStep
  <2>3. Store!TypeOK' /\ Store!RealInv'
    BY <2>1, StoreTypeStep, StoreRealStep
  <2> QED
    BY <2>2, <2>3
<1>3. Inv => NothingInvented
  BY DEF NothingInvented, RealInv, Store!RealInv
<1> QED
  BY <1>1, <1>2, <1>3, PTL DEF OnceSpec
=============================================================================
