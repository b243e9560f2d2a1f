--------------------------- MODULE PayoutsProofs ---------------------------
(***************************************************************************)
(* Theorems about the moves of a payout, for any calls, amounts and        *)
(* batches, when no two requests are decided in one millisecond.           *)
(***************************************************************************)
EXTENDS Payouts, FiniteSetTheorems, WellFoundedInduction, TLAPS

LEMMA Constant == Ids \subseteq Nat /\ 0 \notin Ids /\ Amounts \subseteq Nat /\ Batches \subseteq Seq(Ids)
BY PayoutsAssumption DEF Ids

LEMMA NoPayoutTyped == NoPayout \in Payout
BY DEF NoPayout, Payout, Statuses

LEMMA NewPayoutTyped == \A a \in Nat : NewPayout(a) \in Payout
BY DEF NewPayout, Payout, Statuses

LEMMA IdleTyped == Idle \in Call
<1>1. Uncounted \in Counted
  BY DEF Uncounted, Counted
<1>2. <<>> \in Seq(Ids)
  OBVIOUS
<1>3. QED
  BY <1>1, <1>2, NoPayoutTyped DEF Idle, Call, AllOps

\* Replacing a call by a typed one keeps the calls' type, and the others.
LEMMA SetEffect ==
  ASSUME call \in [Calls -> Call], NEW k \in Calls, NEW c \in Call, Set(k, c)
  PROVE  /\ call' \in [Calls -> Call]
         /\ call'[k] = c
         /\ \A j \in Calls : j # k => call'[j] = call[j]
BY DEF Set

\* Answering a call leaves its type.
LEMMA ReplyTyped ==
  ASSUME NEW c \in Call, NEW r \in {"none", "ok", "refused", "conflict"}
  PROVE  [c EXCEPT !.pc = "done", !.reply = r] \in Call
BY DEF Call

LEMMA ReplyEffect ==
  ASSUME call \in [Calls -> Call], NEW k \in Calls,
         NEW r \in {"none", "ok", "refused", "conflict"}, Reply(k, r)
  PROVE  /\ call' \in [Calls -> Call]
         /\ call'[k].pc = "done" /\ call'[k].op = call[k].op
         /\ \A j \in Calls : j # k => call'[j] = call[j]
<1>1. [call[k] EXCEPT !.pc = "done", !.reply = r] \in Call
  BY ReplyTyped
<1>2. PICK c \in Call : c = [call[k] EXCEPT !.pc = "done", !.reply = r]
  BY <1>1
<1>3. c.pc = "done" /\ c.op = call[k].op
  BY <1>2 DEF Call
<1>4. Set(k, c)
  BY <1>2 DEF Reply
<1>5. QED
  BY <1>3, <1>4, SetEffect

\* The moves one by one.
LEMMA FromIs ==
  /\ From("begin") = {"requested"} /\ From("batch") = {"requested"}
  /\ From("complete") = {"processing"} /\ From("fail") = {"requested", "processing"}
  /\ From("freeze") = {"requested", "processing", "frozen"} /\ From("release") = {"frozen"}
BY DEF From

LEMMA ToIs ==
  ASSUME NEW p
  PROVE  /\ To("begin", p) = "processing" /\ To("batch", p) = "processing"
         /\ To("complete", p) = "paid" /\ To("fail", p) = "failed"
         /\ To("freeze", p) = "frozen" /\ To("release", p) = p.previousStatus
BY DEF To

LEMMA RememberedIs ==
  ASSUME NEW p
  PROVE  /\ Remembered("begin", p) = p.previousStatus /\ Remembered("batch", p) = p.previousStatus
         /\ Remembered("complete", p) = p.previousStatus /\ Remembered("fail", p) = p.previousStatus
         /\ Remembered("freeze", p) = p.status /\ Remembered("release", p) = "none"
BY DEF Remembered

\* What a move makes of a payout it may start from.
LEMMA MovedIs ==
  ASSUME NEW op \in AllOps \ {"request"}, NEW p \in Payout,
         p.status \in From(op), p.status # "none",
         p.status = "frozen" <=> p.previousStatus # "none"
  PROVE  /\ Moved(op, p) \in Payout
         /\ Moved(op, p).amount = p.amount
         /\ Moved(op, p).status # "none"
         /\ Moved(op, p).version = p.version + 1 \/ Moved(op, p) = p
         /\ Moved(op, p).status = "frozen" <=> Moved(op, p).previousStatus # "none"
         /\ p.status \notin {"paid", "failed"}
         /\ p.status = "frozen" /\ Moved(op, p) # p =>
              op = "release" /\ Moved(op, p).status = p.previousStatus
<1> DEFINE q == [status |-> To(op, p), previousStatus |-> Remembered(op, p),
                 amount |-> p.amount, version |-> p.version + 1]
<1>1. CASE op = "freeze" /\ p.status = "frozen"
  BY <1>1 DEF Moved
<1>2. CASE ~(op = "freeze" /\ p.status = "frozen")
  <2>1. Moved(op, p) = q
    BY <1>2 DEF Moved
  <2>2. op \in {"begin", "batch", "complete", "fail", "freeze", "release"}
    BY DEF AllOps
  <2>3. p.version + 1 \in Nat /\ p.amount \in Nat
    BY DEF Payout
  <2>4. p.previousStatus \in {"none", "requested", "processing"}
    BY DEF Payout
  <2>5. /\ To(op, p) \in Statuses \ {"none"}
        /\ Remembered(op, p) \in {"none", "requested", "processing"}
        /\ To(op, p) = "frozen" <=> Remembered(op, p) # "none"
        /\ p.status \notin {"paid", "failed"}
        /\ p.status = "frozen" => op = "release" /\ To(op, p) = p.previousStatus
    BY <1>2, <2>2, <2>4, FromIs, ToIs, RememberedIs DEF Statuses
  <2>6. q \in Payout
    BY <2>3, <2>5 DEF Payout
  <2>7. QED
    BY <2>1, <2>5, <2>6
<1>3. QED
  BY <1>1, <1>2

---------------------------------------------------------------------------
\* The state with its types and the invariant.
IInv == TypeOK /\ PayoutInv

LEMMA InitInv == Init => IInv
<1> SUFFICES ASSUME Init PROVE IInv
  OBVIOUS
<1>1. \A i \in Ids : payout[i] = NoPayout
  BY DEF Init
<1>2. \A k \in Calls : call[k] = Idle
  BY DEF Init
<1>3. TypeOK
  BY IdleTyped, NoPayoutTyped DEF Init, TypeOK
<1>4. \A k \in Calls : call[k].pc = "idle"
  BY <1>2 DEF Idle
<1>5. PayoutInv
  BY <1>1, <1>4 DEF PayoutInv, FrozenRemembers, VersionsCount, ReadsAreOld, CreatesAreFresh, NoPayout
<1>6. QED
  BY <1>3, <1>5 DEF IInv

\* A step that moves one call to where it neither creates nor saves.
LEMMA QuietStep ==
  ASSUME IInv, NEW k \in Calls, UNCHANGED <<payout, last>>,
         call' \in [Calls -> Call],
         call'[k].pc \notin {"create", "save"},
         call'[k].pc = "read" => call'[k].op = "batch",
         \A j \in Calls : j # k => call'[j] = call[j]
  PROVE  IInv'
<1>1. TypeOK'
  BY DEF IInv, TypeOK
<1>2. FrozenRemembers' /\ VersionsCount'
  BY DEF IInv, PayoutInv, FrozenRemembers, VersionsCount
<1>3. ReadsAreOld'
  BY DEF IInv, PayoutInv, ReadsAreOld
<1>4. CreatesAreFresh'
  BY DEF IInv, PayoutInv, CreatesAreFresh
<1>5. QED
  BY <1>1, <1>2, <1>3, <1>4 DEF IInv, PayoutInv

\* A step that sends one call to save the stored row it has just read.
LEMMA ReadStep ==
  ASSUME IInv, NEW k \in Calls, UNCHANGED <<payout, last>>,
         call' \in [Calls -> Call],
         call'[k].pc = "save", call'[k].id \in Ids, call'[k].op # "request",
         call'[k].read = payout[call'[k].id],
         call'[k].read.status \in From(call'[k].op),
         call'[k].read.status # "none",
         \A j \in Calls : j # k => call'[j] = call[j]
  PROVE  IInv'
<1>1. TypeOK'
  BY DEF IInv, TypeOK
<1>2. FrozenRemembers' /\ VersionsCount'
  BY DEF IInv, PayoutInv, FrozenRemembers, VersionsCount
<1>3. ReadsAreOld'
  <2>1. ReadOf(call'[k].read, payout[call'[k].id])
    BY DEF IInv, TypeOK, Payout, ReadOf
  <2>2. QED
    BY <2>1 DEF IInv, PayoutInv, ReadsAreOld, ReadOf
<1>4. CreatesAreFresh'
  BY DEF IInv, PayoutInv, CreatesAreFresh
<1>5. QED
  BY <1>1, <1>2, <1>3, <1>4 DEF IInv, PayoutInv

\* A call that creates a payout holds an id that is not stored.
LEMMA CreateEffect ==
  ASSUME IInv, NEW k \in Calls, Create(k)
  PROVE  IInv' /\ payout[call[k].id].status = "none"
               /\ \A i \in Ids : i # call[k].id => payout'[i] = payout[i]
<1>1. call[k].pc = "create" /\ call[k].id \in Ids /\ call[k].id <= last
      /\ payout[call[k].id].status = "none"
  BY DEF Create, IInv, PayoutInv, CreatesAreFresh
<1>2. PICK i \in Ids : i = call[k].id
  BY <1>1
<1>3. PICK p \in Payout : p = NewPayout(call[k].amount)
  BY NewPayoutTyped DEF IInv, TypeOK, Call
<1>4. p.status = "requested" /\ p.previousStatus = "none" /\ p.version = 1
  BY <1>3 DEF NewPayout
<1>5. payout' = [payout EXCEPT ![i] = p] /\ last' = last
  BY <1>2, <1>3 DEF Create
<1>6. /\ call' \in [Calls -> Call] /\ call'[k].pc = "done"
      /\ \A j \in Calls : j # k => call'[j] = call[j]
  BY ReplyEffect DEF Create, IInv, TypeOK
<1>7. /\ payout' \in [Ids -> Payout] /\ payout'[i] = p
      /\ \A j \in Ids : j # i => payout'[j] = payout[j]
  BY <1>5 DEF IInv, TypeOK
<1>8. TypeOK'
  BY <1>5, <1>6, <1>7 DEF IInv, TypeOK
<1>9. FrozenRemembers'
  BY <1>4, <1>7 DEF IInv, PayoutInv, FrozenRemembers
<1>10. VersionsCount'
  BY <1>4, <1>7 DEF IInv, PayoutInv, VersionsCount
<1>11. ReadsAreOld'
  <2>1. ASSUME NEW j \in Calls, call'[j].pc = "save" PROVE call[j] = call'[j] /\ call[j].id # i
    <3>1. call[j] = call'[j]
      BY <1>6, <2>1
    <3>2. ReadOf(call[j].read, payout[call[j].id]) /\ call[j].read.status # "none"
      BY <2>1, <3>1 DEF IInv, PayoutInv, ReadsAreOld
    <3>3. payout[i].version = 0
      BY <1>1, <1>2 DEF IInv, PayoutInv, VersionsCount
    <3>4. call[j].read.version \in Nat
      BY DEF IInv, TypeOK, Call, Payout
    <3>5. QED
      BY <1>1, <1>2, <3>1, <3>2, <3>3, <3>4 DEF ReadOf
  <2>2. \A j \in Calls : call'[j].pc = "read" => call'[j].op = "batch"
    BY <1>6 DEF IInv, PayoutInv, ReadsAreOld
  <2>3. ASSUME NEW j \in Calls, call'[j].pc = "save"
        PROVE  /\ call[j].id \in Ids /\ call[j].op # "request"
               /\ call[j].read.status \in From(call[j].op) /\ call[j].read.status # "none"
               /\ ReadOf(call[j].read, payout'[call[j].id])
    <3>1. call[j].pc = "save" /\ call[j].id # i
      BY <2>1, <2>3
    <3>2. /\ call[j].id \in Ids /\ call[j].op # "request"
          /\ call[j].read.status \in From(call[j].op) /\ call[j].read.status # "none"
          /\ ReadOf(call[j].read, payout[call[j].id])
      BY <3>1 DEF IInv, PayoutInv, ReadsAreOld
    <3>3. QED
      BY <1>7, <3>1, <3>2
  <2>4. QED
    BY <2>1, <2>2, <2>3 DEF ReadsAreOld, ReadOf
<1>12. CreatesAreFresh'
  <2>1. ASSUME NEW j \in Calls, call'[j].pc = "create"
        PROVE  call[j] = call'[j] /\ call[j].id # i
    BY <1>1, <1>2, <1>6, <2>1 DEF IInv, PayoutInv, CreatesAreFresh
  <2>2. \A j \in Ids : j > last => payout'[j].status = "none"
    BY <1>1, <1>2, <1>7, Constant DEF IInv, PayoutInv, CreatesAreFresh, TypeOK
  <2>3. QED
    BY <1>5, <1>7, <2>1, <2>2 DEF IInv, PayoutInv, CreatesAreFresh
<1>13. QED
  BY <1>1, <1>2, <1>7, <1>8, <1>9, <1>10, <1>11, <1>12 DEF IInv, PayoutInv

\* A save either fails or moves the row exactly as the call has read it.
LEMMA SaveEffect ==
  ASSUME IInv, NEW k \in Calls, SavePayout(k), payout' # payout
  PROVE  /\ call[k].pc = "save" /\ call[k].id \in Ids /\ call[k].op \in AllOps \ {"request"}
         /\ payout[call[k].id] = call[k].read
         /\ call[k].read.status \in From(call[k].op) /\ call[k].read.status # "none"
         /\ call[k].read \in Payout
         /\ call[k].read.status = "frozen" <=> call[k].read.previousStatus # "none"
         /\ Moved(call[k].op, call[k].read).version = call[k].read.version + 1
         /\ payout' = [payout EXCEPT ![call[k].id] = Moved(call[k].op, call[k].read)]
<1>1. PICK c \in Call : c = call[k]
  BY DEF IInv, TypeOK
<1>2. /\ c.pc = "save" /\ c.id \in Ids /\ c.op # "request"
      /\ c.read.status \in From(c.op) /\ c.read.status # "none"
      /\ ReadOf(c.read, payout[c.id])
  BY <1>1 DEF SavePayout, IInv, PayoutInv, ReadsAreOld
<1>3. c.read \in Payout /\ c.op \in AllOps /\ payout[c.id] \in Payout
  BY <1>2 DEF Call, IInv, TypeOK
<1>4. /\ CasHolds(payout[c.id], Moved(c.op, c.read))
      /\ payout' = [payout EXCEPT ![c.id] = Moved(c.op, c.read)]
  BY <1>1 DEF SavePayout
<1>5. c.read.version \in Nat /\ payout[c.id].version \in Nat
  BY <1>3 DEF Payout
<1>6. c.read.version <= payout[c.id].version
  BY <1>2 DEF ReadOf
<1>7. Moved(c.op, c.read).version - 1 = payout[c.id].version
  BY <1>4 DEF CasHolds
<1>8. Moved(c.op, c.read).version \in Nat
  <2>1. CASE c.op = "freeze" /\ c.read.status = "frozen"
    BY <1>5, <2>1 DEF Moved
  <2>2. CASE ~(c.op = "freeze" /\ c.read.status = "frozen")
    BY <1>5, <2>2 DEF Moved
  <2>3. QED
    BY <2>1, <2>2
<1>9. Moved(c.op, c.read).version = c.read.version + 1
  <2>1. CASE c.op = "freeze" /\ c.read.status = "frozen"
    BY <1>5, <1>6, <1>7, <2>1 DEF Moved
  <2>2. CASE ~(c.op = "freeze" /\ c.read.status = "frozen")
    BY <1>5, <2>2 DEF Moved
  <2>3. QED
    BY <2>1, <2>2
<1>10. c.read.version = payout[c.id].version
  BY <1>5, <1>7, <1>9
<1>11. payout[c.id] = c.read
  BY <1>2, <1>10 DEF ReadOf
<1>12. c.read.status = "frozen" <=> c.read.previousStatus # "none"
  BY <1>2, <1>11 DEF IInv, PayoutInv, FrozenRemembers
<1>13. QED
  BY <1>1, <1>2, <1>3, <1>4, <1>9, <1>11, <1>12

\* Where a successful save leaves its call.
SavedCall(c) ==
  [c EXCEPT !.moved = TRUE,
            !.pc = IF c.op = "batch" THEN "read" ELSE IF Audited(c.op) THEN "record" ELSE "done",
            !.reply = IF Audited(c.op) THEN "none" ELSE "ok"]

LEMMA SavedCallTyped ==
  ASSUME NEW c \in Call
  PROVE  /\ SavedCall(c) \in Call /\ SavedCall(c).pc \notin {"create", "save"}
         /\ SavedCall(c).pc = "read" => SavedCall(c).op = "batch"
         /\ SavedCall(c).pc \notin {"idle", "sums"} /\ SavedCall(c).op = c.op
BY DEF SavedCall, Call

LEMMA SaveStep ==
  ASSUME IInv, NEW k \in Calls, SavePayout(k)
  PROVE  IInv'
<1>1. /\ call' \in [Calls -> Call] /\ call'[k].pc \notin {"create", "save"}
      /\ call'[k].pc = "read" => call'[k].op = "batch"
      /\ \A j \in Calls : j # k => call'[j] = call[j]
  <2>1. call \in [Calls -> Call]
    BY DEF IInv, TypeOK
  <2>2. CASE Reply(k, "conflict")
    BY <2>1, <2>2, ReplyEffect
  <2>3. CASE Set(k, SavedCall(call[k]))
    <3>1. PICK c \in Call : /\ c = SavedCall(call[k]) /\ c.pc \notin {"create", "save"}
                            /\ c.pc = "read" => c.op = "batch"
      BY <2>1, SavedCallTyped
    <3>2. QED
      BY <2>1, <2>3, <3>1, SetEffect
  <2>4. QED
    BY <2>2, <2>3 DEF SavePayout, SavedCall
<1>2. last' = last
  BY DEF SavePayout
<1>3. CASE payout' = payout
  BY <1>1, <1>2, <1>3, QuietStep
<1>4. CASE payout' # payout
  <2>1. PICK i \in Ids, op \in AllOps \ {"request"}, p \in Payout :
          /\ i = call[k].id /\ op = call[k].op /\ p = call[k].read
          /\ payout[i] = p /\ p.status \in From(op) /\ p.status # "none"
          /\ p.status = "frozen" <=> p.previousStatus # "none"
          /\ Moved(op, p).version = p.version + 1
          /\ payout' = [payout EXCEPT ![i] = Moved(op, p)]
    BY <1>4, SaveEffect
  <2>2. PICK q \in Payout :
          /\ q = Moved(op, p) /\ q.version = p.version + 1 /\ q.status # "none"
          /\ q.status = "frozen" <=> q.previousStatus # "none"
    BY <2>1, MovedIs
  <2>3. /\ payout' \in [Ids -> Payout] /\ payout'[i] = q
        /\ \A j \in Ids : j # i => payout'[j] = payout[j]
    BY <2>1, <2>2 DEF IInv, TypeOK
  <2>4. p.version \in Nat
    BY DEF Payout
  <2>5. TypeOK'
    BY <1>1, <1>2, <2>3 DEF IInv, TypeOK
  <2>6. FrozenRemembers'
    BY <2>2, <2>3 DEF IInv, PayoutInv, FrozenRemembers
  <2>7. VersionsCount'
    BY <2>2, <2>3, <2>4 DEF IInv, PayoutInv, VersionsCount
  <2>8. ReadsAreOld'
    <3>1. ASSUME NEW j \in Calls, call'[j].pc = "save"
          PROVE  /\ call'[j].id \in Ids /\ call'[j].op # "request"
                 /\ call'[j].read.status \in From(call'[j].op) /\ call'[j].read.status # "none"
                 /\ ReadOf(call'[j].read, payout'[call'[j].id])
      <4>1. call'[j] = call[j]
        BY <1>1, <3>1
      <4>2. /\ call[j].id \in Ids /\ call[j].op # "request"
            /\ call[j].read.status \in From(call[j].op) /\ call[j].read.status # "none"
            /\ ReadOf(call[j].read, payout[call[j].id])
        BY <3>1, <4>1 DEF IInv, PayoutInv, ReadsAreOld
      <4>3. call[j].read.version \in Nat
        BY DEF IInv, TypeOK, Call, Payout
      <4>4. CASE call[j].id = i
        BY <2>1, <2>2, <2>3, <2>4, <4>1, <4>2, <4>3, <4>4 DEF ReadOf
      <4>5. CASE call[j].id # i
        BY <2>3, <4>1, <4>2, <4>5
      <4>6. QED
        BY <4>4, <4>5
    <3>2. \A j \in Calls : call'[j].pc = "read" => call'[j].op = "batch"
      BY <1>1 DEF IInv, PayoutInv, ReadsAreOld
    <3>3. QED
      BY <3>1, <3>2 DEF ReadsAreOld, ReadOf
  <2>9. CreatesAreFresh'
    <3>1. \A j \in Calls : call'[j].pc = "create" => call[j] = call'[j]
      BY <1>1
    <3>2. \A j \in Calls : call[j].pc = "create" =>
            call[j].id \in Ids /\ call[j].id # i /\ call[j].id <= last
            /\ payout'[call[j].id].status = "none"
      BY <2>1, <2>3 DEF IInv, PayoutInv, CreatesAreFresh
    <3>3. \A j \in Ids : j > last => payout'[j].status = "none"
      BY <2>1, <2>3 DEF IInv, PayoutInv, CreatesAreFresh
    <3>4. QED
      BY <1>2, <3>1, <3>2, <3>3 DEF IInv, PayoutInv, CreatesAreFresh
  <2>10. QED
    BY <2>5, <2>6, <2>7, <2>8, <2>9 DEF IInv, PayoutInv
<1>5. QED
  BY <1>3, <1>4

\* A payout id that is decided on is newer than every other.
LEMMA DecideStep ==
  ASSUME ~SameMillisecond, IInv, NEW k \in Calls, Decide(k)
  PROVE  IInv'
<1>1. call \in [Calls -> Call] /\ call[k] \in Call /\ last \in Nat
  BY Constant DEF IInv, TypeOK
<1>2. CASE Reply(k, "refused") /\ UNCHANGED last
  <2>1. UNCHANGED <<payout, last>>
    BY <1>2 DEF Decide
  <2>2. QED
    BY <1>1, <1>2, <2>1, ReplyEffect, QuietStep
<1>3. CASE \E i \in Ids : /\ NewId(i) /\ last' = i
                          /\ Set(k, [call[k] EXCEPT !.pc = "create", !.id = i])
  <2>1. PICK i \in Ids : /\ NewId(i) /\ last' = i
                         /\ Set(k, [call[k] EXCEPT !.pc = "create", !.id = i])
    BY <1>3
  <2>2. i = last + 1
    BY <2>1 DEF NewId
  <2>3. PICK c \in Call : c = [call[k] EXCEPT !.pc = "create", !.id = i]
    BY <1>1 DEF Call
  <2>4. c.pc = "create" /\ c.id = i
    BY <1>1, <2>3 DEF Call
  <2>5. /\ call' \in [Calls -> Call] /\ call'[k] = c
        /\ \A j \in Calls : j # k => call'[j] = call[j]
    BY <1>1, <2>1, <2>3, SetEffect
  <2>6. payout' = payout
    BY DEF Decide
  <2>7. TypeOK'
    BY <2>1, <2>5, <2>6 DEF IInv, TypeOK
  <2>8. FrozenRemembers' /\ VersionsCount'
    BY <2>6 DEF IInv, PayoutInv, FrozenRemembers, VersionsCount
  <2>9. ReadsAreOld'
    BY <2>4, <2>5, <2>6 DEF IInv, PayoutInv, ReadsAreOld, ReadOf
  <2>10. CreatesAreFresh'
    <3>1. \A j \in Calls : j # k /\ call'[j].pc = "create" =>
            call'[j].id \in Ids /\ call'[j].id <= last /\ payout[call'[j].id].status = "none"
      BY <2>5 DEF IInv, PayoutInv, CreatesAreFresh
    <3>2. \A j \in Ids : j \in Nat
      BY Constant
    <3>3. i > last /\ payout[i].status = "none"
      BY <1>1, <2>2 DEF IInv, PayoutInv, CreatesAreFresh
    <3>4. \A j \in Calls : call'[j].pc = "create" =>
            call'[j].id \in Ids /\ call'[j].id <= i /\ payout[call'[j].id].status = "none"
      BY <1>1, <2>4, <2>5, <3>1, <3>2, <3>3
    <3>5. \A j \in Calls : j # k /\ call'[j].pc = "create" => call'[j].id # i
      BY <1>1, <3>1, <3>2, <3>3
    <3>6. \A j, l \in Calls :
            call'[j].pc = "create" /\ call'[l].pc = "create" /\ call'[j].id = call'[l].id => j = l
      BY <2>4, <2>5, <3>5 DEF IInv, PayoutInv, CreatesAreFresh
    <3>7. \A j \in Ids : j > i => payout[j].status = "none"
      BY <1>1, <2>2, <3>2 DEF IInv, PayoutInv, CreatesAreFresh
    <3>8. QED
      BY <2>1, <2>6, <3>4, <3>6, <3>7 DEF CreatesAreFresh
  <2>11. QED
    BY <2>7, <2>8, <2>9, <2>10 DEF IInv, PayoutInv
<1>4. QED
  BY <1>2, <1>3 DEF Decide

\* The calls the actions set, with the fields their steps are told by.
Summing(d, a) == [d EXCEPT !.pc = "sums", !.amount = a, !.unread = {"paid", "reserved"}]
SummedPaid(d, n) == [d EXCEPT !.unread = @ \ {"paid"}, !.paid = n]
SummedReserved(d, n) == [d EXCEPT !.unread = @ \ {"reserved"}, !.reserved = n]
Saving(d, op, i, p) == [d EXCEPT !.pc = "save", !.op = op, !.id = i, !.read = p]
Refused(d, op, i) == [d EXCEPT !.pc = "done", !.op = op, !.id = i, !.reply = "refused"]
Batching(d, ids) == [d EXCEPT !.pc = "read", !.op = "batch", !.todo = ids]
Recorded(d) == [d EXCEPT !.pc = "done", !.recorded = TRUE, !.reply = "ok"]
Recording(d) == [d EXCEPT !.pc = "record"]
ReadingNext(d, t, i, p, l) == [d EXCEPT !.todo = t, !.id = i, !.read = p, !.pc = l]

LEMMA SummingIs ==
  ASSUME NEW d \in Call, NEW a \in Nat
  PROVE  /\ Summing(d, a) \in Call /\ Summing(d, a).pc = "sums"
         /\ Summing(d, a).op = d.op /\ Summing(d, a).unread = {"paid", "reserved"}
BY DEF Summing, Call

LEMMA SummedPaidIs ==
  ASSUME NEW d \in Call, NEW n \in Counted
  PROVE  /\ SummedPaid(d, n) \in Call /\ SummedPaid(d, n).pc = d.pc
         /\ SummedPaid(d, n).op = d.op /\ SummedPaid(d, n).unread = d.unread \ {"paid"}
         /\ SummedPaid(d, n).paid = n /\ SummedPaid(d, n).reserved = d.reserved
BY DEF SummedPaid, Call

LEMMA SummedReservedIs ==
  ASSUME NEW d \in Call, NEW n \in Counted
  PROVE  /\ SummedReserved(d, n) \in Call /\ SummedReserved(d, n).pc = d.pc
         /\ SummedReserved(d, n).op = d.op /\ SummedReserved(d, n).unread = d.unread \ {"reserved"}
         /\ SummedReserved(d, n).paid = d.paid /\ SummedReserved(d, n).reserved = n
BY DEF SummedReserved, Call

LEMMA SavingIs ==
  ASSUME NEW d \in Call, NEW op \in AllOps, NEW i \in Ids, NEW p \in Payout
  PROVE  /\ Saving(d, op, i, p) \in Call
         /\ Saving(d, op, i, p).pc = "save" /\ Saving(d, op, i, p).op = op
         /\ Saving(d, op, i, p).id = i /\ Saving(d, op, i, p).read = p
BY DEF Saving, Call

LEMMA RefusedIs ==
  ASSUME NEW d \in Call, NEW op \in AllOps, NEW i \in Ids
  PROVE  Refused(d, op, i) \in Call /\ Refused(d, op, i).pc = "done" /\ Refused(d, op, i).op = op
BY DEF Refused, Call

LEMMA BatchingIs ==
  ASSUME NEW d \in Call, NEW ids \in Seq(Ids)
  PROVE  /\ Batching(d, ids) \in Call
         /\ Batching(d, ids).pc = "read" /\ Batching(d, ids).op = "batch"
BY DEF Batching, Call, AllOps

LEMMA RecordIs ==
  ASSUME NEW d \in Call
  PROVE  /\ Recorded(d) \in Call /\ Recorded(d).pc = "done"
         /\ Recording(d) \in Call /\ Recording(d).pc = "record"
         /\ Recorded(d).op = d.op /\ Recording(d).op = d.op
BY DEF Recorded, Recording, Call

LEMMA ReadingNextIs ==
  ASSUME NEW d \in Call, NEW t \in Seq(Ids), NEW i \in Ids, NEW p \in Payout,
         NEW l \in {"read", "save"}
  PROVE  /\ ReadingNext(d, t, i, p, l) \in Call
         /\ ReadingNext(d, t, i, p, l).pc = l /\ ReadingNext(d, t, i, p, l).op = d.op
         /\ ReadingNext(d, t, i, p, l).id = i /\ ReadingNext(d, t, i, p, l).read = p
BY DEF ReadingNext, Call

LEMMA InvStep == ASSUME ~SameMillisecond PROVE IInv /\ [Next]_vars => IInv'
<1> SUFFICES ASSUME IInv, [Next]_vars PROVE IInv'
  OBVIOUS
<1>0. call \in [Calls -> Call] /\ payout \in [Ids -> Payout]
  BY DEF IInv, TypeOK
<1>1. ASSUME NEW k \in Calls, NEW a \in Amounts, RequestPayout(k, a) PROVE IInv'
  <2>1. PICK c \in Call : c = Summing(Idle, a) /\ c.pc = "sums"
    BY IdleTyped, Constant, SummingIs
  <2>2. Set(k, c) /\ UNCHANGED <<payout, last>>
    BY <1>1, <2>1 DEF RequestPayout, Summing
  <2>3. QED
    BY <1>0, <2>1, <2>2, SetEffect, QuietStep
<1>2. ASSUME NEW k \in Calls, SumPaid(k) PROVE IInv'
  <2>1. Amount({"paid"}) \in Counted
    BY <1>0 DEF Amount, Counted, Payout
  <2>2. PICK c \in Call : c = SummedPaid(call[k], Amount({"paid"})) /\ c.pc = call[k].pc
    BY <1>0, <2>1, SummedPaidIs
  <2>3. Set(k, c) /\ call[k].pc = "sums" /\ UNCHANGED <<payout, last>>
    BY <1>2, <2>2 DEF SumPaid, SummedPaid
  <2>4. QED
    BY <1>0, <2>2, <2>3, SetEffect, QuietStep
<1>3. ASSUME NEW k \in Calls, SumReserved(k) PROVE IInv'
  <2>1. Amount(Reserving) \in Counted
    BY <1>0 DEF Amount, Counted, Payout
  <2>2. PICK c \in Call : c = SummedReserved(call[k], Amount(Reserving)) /\ c.pc = call[k].pc
    BY <1>0, <2>1, SummedReservedIs
  <2>3. Set(k, c) /\ call[k].pc = "sums" /\ UNCHANGED <<payout, last>>
    BY <1>3, <2>2 DEF SumReserved, SummedReserved
  <2>4. QED
    BY <1>0, <2>2, <2>3, SetEffect, QuietStep
<1>4. ASSUME NEW k \in Calls, Decide(k) PROVE IInv'
  BY <1>4, DecideStep
<1>5. ASSUME NEW k \in Calls, Create(k) PROVE IInv'
  BY <1>5, CreateEffect
<1>6. ASSUME NEW k \in Calls, NEW op \in Single, NEW i \in Ids, ReadPayout(k, op, i) PROVE IInv'
  <2>1. op \in AllOps /\ op # "request"
    BY DEF Single
  <2>2. UNCHANGED <<payout, last>> /\ payout[i].status # "none" /\ payout[i] \in Payout
    BY <1>0, <1>6 DEF ReadPayout
  <2>3. CASE payout[i].status \in From(op)
    <3>1. PICK c \in Call : /\ c = Saving(Idle, op, i, payout[i])
                            /\ c.pc = "save" /\ c.op = op /\ c.id = i /\ c.read = payout[i]
      BY IdleTyped, SavingIs, <2>1, <2>2
    <3>2. Set(k, c)
      BY <1>6, <2>3, <3>1 DEF ReadPayout, Saving
    <3>3. QED
      BY <1>0, <2>1, <2>2, <2>3, <3>1, <3>2, SetEffect, ReadStep
  <2>4. CASE payout[i].status \notin From(op)
    <3>1. PICK c \in Call : c = Refused(Idle, op, i) /\ c.pc = "done"
      BY IdleTyped, RefusedIs, <2>1
    <3>2. Set(k, c)
      BY <1>6, <2>4, <3>1 DEF ReadPayout, Refused
    <3>3. QED
      BY <1>0, <2>2, <3>1, <3>2, SetEffect, QuietStep
  <2>5. QED
    BY <2>3, <2>4
<1>7. ASSUME NEW k \in Calls, NEW ids \in Batches, RunBatch(k, ids) PROVE IInv'
  <2>1. PICK c \in Call : c = Batching(Idle, ids) /\ c.pc = "read" /\ c.op = "batch"
    BY IdleTyped, Constant, BatchingIs
  <2>2. Set(k, c) /\ UNCHANGED <<payout, last>>
    BY <1>7, <2>1 DEF RunBatch, Batching
  <2>3. QED
    BY <1>0, <2>1, <2>2, SetEffect, QuietStep
<1>8. ASSUME NEW k \in Calls, SavePayout(k) PROVE IInv'
  BY <1>8, SaveStep
<1>9. ASSUME NEW k \in Calls, ReadNext(k) PROVE IInv'
  <2>1. PICK d \in Call : d = call[k]
    BY <1>0
  <2>2. d.pc = "read" /\ d.op = "batch" /\ d.todo \in Seq(Ids) /\ UNCHANGED <<payout, last>>
    BY <1>9, <2>1 DEF ReadNext, Call, IInv, PayoutInv, ReadsAreOld
  <2>3. CASE d.todo = <<>>
    <3>1. PICK c \in Call : c = Recording(d) /\ c.pc = "record"
      BY RecordIs
    <3>2. Set(k, c)
      BY <1>9, <2>1, <2>3, <3>1 DEF ReadNext, Recording
    <3>3. QED
      BY <1>0, <2>2, <3>1, <3>2, SetEffect, QuietStep
  <2>4. CASE d.todo # <<>>
    <3>0. ASSUME NEW q \in Seq(Ids), q # <<>> PROVE Head(q) \in Ids /\ Tail(q) \in Seq(Ids)
      BY <3>0
    <3>1. PICK i \in Ids, t \in Seq(Ids) : i = Head(d.todo) /\ t = Tail(d.todo)
      BY <2>2, <2>4, <3>0
    <3>2. PICK l \in {"read", "save"} :
            l = IF payout[i].status \in From("batch") THEN "save" ELSE "read"
      OBVIOUS
    <3>3. PICK c \in Call : /\ c = ReadingNext(d, t, i, payout[i], l)
                            /\ c.pc = l /\ c.op = "batch" /\ c.id = i /\ c.read = payout[i]
      BY <1>0, <2>2, ReadingNextIs
    <3>4. Set(k, c)
      BY <1>9, <2>1, <2>4, <3>1, <3>2, <3>3 DEF ReadNext, ReadingNext
    <3>5. CASE l = "read"
      BY <1>0, <2>2, <3>3, <3>4, <3>5, SetEffect, QuietStep
    <3>6. CASE l = "save"
      <4>1. payout[i].status = "requested"
        BY <3>2, <3>6, FromIs
      <4>2. QED
        BY <1>0, <2>2, <3>2, <3>3, <3>4, <3>6, <4>1, SetEffect, ReadStep
    <3>7. QED
      BY <3>5, <3>6
  <2>5. QED
    BY <2>3, <2>4
<1>10. ASSUME NEW k \in Calls, Record(k) PROVE IInv'
  <2>1. PICK c \in Call : c = Recorded(call[k]) /\ c.pc = "done"
    BY <1>0, RecordIs
  <2>2. Set(k, c) /\ UNCHANGED <<payout, last>>
    BY <1>10, <2>1 DEF Record, Recorded
  <2>3. QED
    BY <1>0, <2>1, <2>2, SetEffect, QuietStep
<1>11. CASE UNCHANGED vars
  BY <1>11 DEF vars, IInv, TypeOK, PayoutInv, FrozenRemembers, VersionsCount, ReadsAreOld,
               CreatesAreFresh, ReadOf
<1>12. QED
  BY <1>1, <1>2, <1>3, <1>4, <1>5, <1>6, <1>7, <1>8, <1>9, <1>10, <1>11 DEF Next

---------------------------------------------------------------------------
\* What a step makes of one stored payout.
LEMMA StepEffect ==
  ASSUME IInv, [Next]_vars, NEW i \in Ids, payout[i].status # "none", payout'[i] # payout[i]
  PROVE  /\ payout'[i].version = payout[i].version + 1
         /\ payout'[i].amount = payout[i].amount
         /\ payout[i].status \notin {"paid", "failed"}
         /\ payout[i].status = "frozen" =>
              /\ payout'[i].status = payout[i].previousStatus
              /\ \E k \in Calls : call[k].op = "release" /\ call[k].pc = "save" /\ call[k].id = i
<1>1. CASE \E k \in Calls : SavePayout(k)
  <2>1. PICK k \in Calls : SavePayout(k)
    BY <1>1
  <2>2. PICK j \in Ids, op \in AllOps \ {"request"}, p \in Payout :
          /\ j = call[k].id /\ op = call[k].op /\ p = call[k].read /\ call[k].pc = "save"
          /\ payout[j] = p /\ p.status \in From(op) /\ p.status # "none"
          /\ p.status = "frozen" <=> p.previousStatus # "none"
          /\ Moved(op, p).version = p.version + 1
          /\ payout' = [payout EXCEPT ![j] = Moved(op, p)]
    BY <2>1, SaveEffect
  <2>3. PICK q : q = Moved(op, p)
    OBVIOUS
  <2>4. payout \in [Ids -> Payout]
    BY DEF IInv, TypeOK
  <2>5. i = j /\ payout'[i] = q /\ q # p
    BY <2>2, <2>3, <2>4
  <2>6. /\ q.amount = p.amount /\ p.status \notin {"paid", "failed"}
        /\ p.status = "frozen" => op = "release" /\ q.status = p.previousStatus
    BY <2>2, <2>3, <2>5, MovedIs
  <2>7. QED
    BY <2>2, <2>3, <2>5, <2>6
<1>2. CASE \E k \in Calls : Create(k)
  BY <1>2, CreateEffect
<1>3. CASE payout' = payout
  BY <1>3
<1>4. QED
  BY <1>1, <1>2, <1>3
  DEF Next, vars, RequestPayout, SumPaid, SumReserved, Decide, ReadPayout, RunBatch, ReadNext, Record

\* Types are kept, for any calls and batches.
THEOREM TypeCorrect == ASSUME ~SameMillisecond PROVE Spec => []TypeOK
<1>1. ~SameMillisecond => (IInv /\ [Next]_vars => IInv')
  BY InvStep
<1>2. ~SameMillisecond
  OBVIOUS
<1>3. IInv => TypeOK
  BY DEF IInv
<1>4. QED
  BY <1>1, <1>2, <1>3, InitInv, PTL DEF Spec

\* The invariant behind the moves of a payout is inductive.
THEOREM PayoutCorrect == ASSUME ~SameMillisecond PROVE Spec => []PayoutInv
<1>1. ~SameMillisecond => (IInv /\ [Next]_vars => IInv')
  BY InvStep
<1>2. ~SameMillisecond
  OBVIOUS
<1>3. IInv => PayoutInv
  BY DEF IInv
<1>4. QED
  BY <1>1, <1>2, <1>3, InitInv, PTL DEF Spec

\* No call that read a payout earlier gets past what has been decided since.
THEOREM TerminalCorrect == ASSUME ~SameMillisecond PROVE Spec => TerminalIsFinal
<1>1. ~SameMillisecond => (IInv /\ [Next]_vars => IInv')
  BY InvStep
<1>2. ~SameMillisecond
  OBVIOUS
<1>3. IInv /\ [Next]_vars =>
        [\A i \in Ids : payout[i].status \in {"paid", "failed"} => payout'[i] = payout[i]]_vars
  BY StepEffect
<1>4. QED
  BY <1>1, <1>2, <1>3, InitInv, PTL DEF Spec, TerminalIsFinal

\* A freeze holds until a release, which restores the payout.
THEOREM FreezeCorrect == ASSUME ~SameMillisecond PROVE Spec => FreezeHolds
<1>1. ~SameMillisecond => (IInv /\ [Next]_vars => IInv')
  BY InvStep
<1>2. ~SameMillisecond
  OBVIOUS
<1>3. IInv /\ [Next]_vars =>
        [\A i \in Ids :
           payout[i].status = "frozen" /\ payout'[i] # payout[i] =>
             /\ payout'[i].status = payout[i].previousStatus
             /\ \E k \in Calls : call[k].op = "release" /\ call[k].pc = "save" /\ call[k].id = i]_vars
  BY StepEffect
<1>4. QED
  BY <1>1, <1>2, <1>3, InitInv, PTL DEF Spec, FreezeHolds

\* No request is lost under another.
THEOREM RequestsCorrect == ASSUME ~SameMillisecond PROVE Spec => RequestsAreKept
<1>1. ~SameMillisecond => (IInv /\ [Next]_vars => IInv')
  BY InvStep
<1>2. ~SameMillisecond
  OBVIOUS
<1>3. IInv /\ [Next]_vars =>
        [\A i \in Ids :
           payout[i].status # "none" /\ payout'[i] # payout[i] =>
             /\ payout'[i].version = payout[i].version + 1
             /\ payout'[i].amount = payout[i].amount]_vars
  BY StepEffect
<1>4. QED
  BY <1>1, <1>2, <1>3, InitInv, PTL DEF Spec, RequestsAreKept

---------------------------------------------------------------------------
(* Sums over finite sets.                                                  *)

\* Induction over the subsets of a finite set: a set of them that every set belongs
\* to whose proper subsets do.
LEMMA SubsetsAllIn ==
  ASSUME NEW S, IsFiniteSet(S), NEW good,
         \A T \in SUBSET S : (\A R \in SUBSET T : R # T => R \in good) => T \in good
  PROVE  \A T \in SUBSET S : T \in good
<1> DEFINE bad == (SUBSET S) \ good
<1>1. IsWellFoundedOn(StrictSubsetOrdering(S), SUBSET S)
  BY FS_StrictSubsetOrderingWellFounded, FS_FiniteSubsetsOfFinite
<1>2. SUFFICES ASSUME bad # {} PROVE FALSE
  OBVIOUS
<1>3. PICK T \in bad : \A R \in bad : ~(<<R, T>> \in StrictSubsetOrdering(S))
  <2>1. bad \subseteq SUBSET S
    OBVIOUS
  <2> HIDE DEF bad
  <2> QED
    BY <1>1, <1>2, <2>1, WFMin
<1>4. \A R \in SUBSET T : R # T => R \in good
  BY <1>3 DEF StrictSubsetOrdering
<1>5. T \in SUBSET S /\ T \notin good
  BY <1>3
<1> QED
  BY <1>4, <1>5

Pick(s) == CHOOSE x \in s : TRUE

\* g maps the subsets of S to the sums of w over them.
Sums(g, w, S) ==
  g = [s \in SUBSET S |-> IF s = {} THEN 0 ELSE w[Pick(s)] + g[s \ {Pick(s)}]]

Sum(w, S) == (CHOOSE g : Sums(g, w, S))[S]

LEMMA SumsAgree ==
  ASSUME NEW S, IsFiniteSet(S), NEW T \in SUBSET S, NEW w, NEW v, NEW g, NEW h,
         Sums(g, w, S), Sums(h, v, T), \A x \in T : w[x] = v[x]
  PROVE  \A s \in SUBSET T : g[s] = h[s]
<1> DEFINE good == {s \in SUBSET T : g[s] = h[s]}
<1>1. ASSUME NEW s \in SUBSET T, \A r \in SUBSET s : r # s => r \in good PROVE g[s] = h[s]
  <2>1. s \in SUBSET S
    OBVIOUS
  <2>2. CASE s = {}
    BY <2>1, <2>2 DEF Sums
  <2>3. CASE s # {}
    <3>1. Pick(s) \in s
      BY <2>3 DEF Pick
    <3>2. g[s \ {Pick(s)}] = h[s \ {Pick(s)}]
      BY <1>1, <3>1
    <3>3. g[s] = w[Pick(s)] + g[s \ {Pick(s)}]
      BY <2>1, <2>3 DEF Sums
    <3>4. h[s] = v[Pick(s)] + h[s \ {Pick(s)}]
      BY <2>3 DEF Sums
    <3> QED
      BY <3>1, <3>2, <3>3, <3>4
  <2> QED
    BY <2>2, <2>3
<1>2. IsFiniteSet(T)
  <2> HIDE DEF good
  <2> QED
    BY FS_Subset
<1>3. \A s \in SUBSET T : s \in good
  <2>1. \A s \in SUBSET T : (\A r \in SUBSET s : r # s => r \in good) => s \in good
    BY <1>1
  <2> HIDE DEF good
  <2> QED
    BY <1>2, <2>1, SubsetsAllIn
<1> QED
  BY <1>3

LEMMA SumsExist ==
  ASSUME NEW S, IsFiniteSet(S), NEW w
  PROVE  \E g : Sums(g, w, S)
<1> DEFINE good == {T \in SUBSET S : \E g : Sums(g, w, T)}
           on(T) == CHOOSE g : Sums(g, w, T)
<1>1. ASSUME NEW T \in SUBSET S, \A R \in SUBSET T : R # T => R \in good
      PROVE  \E g : Sums(g, w, T)
  <2> DEFINE all == [s \in SUBSET T |->
                       IF s = T THEN (IF T = {} THEN 0 ELSE w[Pick(T)] + on(T \ {Pick(T)})[T \ {Pick(T)}])
                       ELSE on(s)[s]]
  <2>1. \A R \in SUBSET T : R # T => Sums(on(R), w, R)
    BY <1>1
  <2> HIDE DEF on
  <2>2. ASSUME NEW s \in SUBSET T
        PROVE  all[s] = IF s = {} THEN 0 ELSE w[Pick(s)] + all[s \ {Pick(s)}]
    <3>1. CASE s = {}
      <4>1. T # {} => on({})[{}] = 0
        BY <2>1 DEF Sums
      <4> QED
        BY <3>1, <4>1
    <3>2. CASE s # {} /\ s = T
      <4>1. Pick(s) \in s
        BY <3>2 DEF Pick
      <4> QED
        BY <3>2, <4>1
    <3>3. CASE s # {} /\ s # T
      <4>1. Pick(s) \in s
        BY <3>3 DEF Pick
      <4> DEFINE r == s \ {Pick(s)}
      <4>2. r \in SUBSET s /\ r \in SUBSET T /\ r # T /\ IsFiniteSet(s)
        BY <3>3, <4>1, FS_Subset
      <4>3. Sums(on(s), w, s) /\ Sums(on(r), w, r)
        BY <2>1, <3>3, <4>2
      <4>4. on(s)[r] = on(r)[r]
        <5>1. r \in SUBSET r
          OBVIOUS
        <5> HIDE DEF r
        <5> QED
          BY <4>2, <4>3, <5>1, SumsAgree
      <4>5. on(s)[s] = w[Pick(s)] + on(s)[r]
        BY <3>3, <4>3 DEF Sums
      <4> QED
        BY <3>3, <4>2, <4>4, <4>5
    <3> QED
      BY <3>1, <3>2, <3>3
  <2>3. all = [s \in SUBSET T |-> all[s]]
    OBVIOUS
  <2> HIDE DEF all
  <2>4. Sums(all, w, T)
    BY <2>2, <2>3 DEF Sums
  <2> QED
    BY <2>4
<1>2. \A T \in SUBSET S : T \in good
  <2>1. \A T \in SUBSET S : (\A R \in SUBSET T : R # T => R \in good) => T \in good
    BY <1>1
  <2> HIDE DEF good
  <2> QED
    BY <2>1, SubsetsAllIn
<1> QED
  BY <1>2

\* What maps the subsets of S to their sums maps S to its own.
LEMMA SumOf ==
  ASSUME NEW S, IsFiniteSet(S), NEW w, NEW g, Sums(g, w, S)
  PROVE  g[S] = Sum(w, S)
<1> DEFINE h == CHOOSE h : Sums(h, w, S)
<1>1. Sums(h, w, S)
  OBVIOUS
<1> HIDE DEF h
<1>2. g[S] = h[S]
  BY <1>1, SumsAgree
<1> QED
  BY <1>2 DEF Sum, h

\* A sum takes one of the set's members, and the sum of the others.
LEMMA SumTakes ==
  ASSUME NEW S, IsFiniteSet(S), NEW w
  PROVE  /\ Sum(w, {}) = 0
         /\ S # {} => Pick(S) \in S /\ Sum(w, S) = w[Pick(S)] + Sum(w, S \ {Pick(S)})
<1>1. Sum(w, {}) = 0
  BY SumsExist, FS_EmptySet DEF Sum, Sums
<1>2. ASSUME S # {}
      PROVE  Pick(S) \in S /\ Sum(w, S) = w[Pick(S)] + Sum(w, S \ {Pick(S)})
  <2> DEFINE r == S \ {Pick(S)}
             g == CHOOSE g : Sums(g, w, S)
             h == CHOOSE h : Sums(h, w, r)
  <2>1. Pick(S) \in S
    BY <1>2 DEF Pick
  <2>2. r \in SUBSET S /\ IsFiniteSet(r)
    BY FS_Subset
  <2>3. Sums(g, w, S) /\ Sums(h, w, r)
    BY <2>2, SumsExist
  <2>4. Sum(w, S) = g[S] /\ Sum(w, r) = h[r]
    BY DEF Sum
  <2>5. g[S] = w[Pick(S)] + g[r]
    <3> HIDE DEF g
    <3> QED
      BY <1>2, <2>3 DEF Sums
  <2>6. g[r] = h[r]
    <3> HIDE DEF g, h, r
    <3> QED
      BY <2>2, <2>3, SumsAgree
  <2> QED
    BY <2>1, <2>4, <2>5, <2>6
<1> QED
  BY <1>1, <1>2

\* Sums agree when their terms do.
LEMMA SumSame ==
  ASSUME NEW S, IsFiniteSet(S), NEW w, NEW v, \A x \in S : w[x] = v[x]
  PROVE  Sum(w, S) = Sum(v, S)
<1>1. PICK g, h : Sums(g, w, S) /\ Sums(h, v, S)
  BY SumsExist
<1>2. \A s \in SUBSET S : g[s] = h[s]
  BY <1>1, SumsAgree
<1>3. g[S] = h[S]
  BY <1>2
<1> QED
  BY <1>1, <1>3, SumOf

\* A sum of integers is one, and any of its terms may be taken out first.
LEMMA SumSplits ==
  ASSUME NEW S, IsFiniteSet(S), NEW w, \A x \in S : w[x] \in Int
  PROVE  /\ Sum(w, S) \in Int
         /\ \A x \in S : Sum(w, S \ {x}) \in Int /\ Sum(w, S) = w[x] + Sum(w, S \ {x})
<1> DEFINE good == {T \in SUBSET S :
                      /\ Sum(w, T) \in Int
                      /\ \A x \in T : Sum(w, T) = w[x] + Sum(w, T \ {x})}
<1>1. ASSUME NEW T \in SUBSET S, \A R \in SUBSET T : R # T => R \in good
      PROVE  T \in good
  <2>0. IsFiniteSet(T)
    <3> HIDE DEF good
    <3> QED
      BY FS_Subset
  <2>1. CASE T = {}
    <3>1. Sum(w, {}) = 0
      BY <2>0, SumTakes
    <3> QED
      BY <2>1, <3>1
  <2>2. CASE T # {}
    <3>1. PICK p \in T : Sum(w, T) = w[p] + Sum(w, T \ {p})
      BY <2>0, <2>2, SumTakes
    <3>2. T \ {p} \in good
      BY <1>1
    <3>3. ASSUME NEW x \in T, x # p PROVE Sum(w, T) = w[x] + Sum(w, T \ {x})
      <4>1. T \ {x} \in good
        BY <1>1
      <4>2. Sum(w, T \ {p}) = w[x] + Sum(w, (T \ {p}) \ {x})
        BY <3>2, <3>3
      <4>3. Sum(w, T \ {x}) = w[p] + Sum(w, (T \ {x}) \ {p})
        BY <3>3, <4>1
      <4>4. (T \ {p}) \ {x} = (T \ {x}) \ {p}
        OBVIOUS
      <4>5. (T \ {p}) \ {x} \in good
        <5>1. (T \ {p}) \ {x} \in SUBSET T /\ (T \ {p}) \ {x} # T
          OBVIOUS
        <5> HIDE DEF good
        <5> QED
          BY <1>1, <5>1
      <4>6. PICK rest \in Int : rest = Sum(w, (T \ {p}) \ {x})
        BY <4>5
      <4>7. PICK a \in Int, b \in Int : a = w[p] /\ b = w[x]
        OBVIOUS
      <4>8. Sum(w, T) = a + (b + rest) /\ Sum(w, T \ {x}) = a + rest
        BY <3>1, <4>2, <4>3, <4>4, <4>6, <4>7
      <4> QED
        BY <4>7, <4>8
    <3>4. \A x \in T : Sum(w, T) = w[x] + Sum(w, T \ {x})
      BY <3>1, <3>3
    <3>5. Sum(w, T) \in Int
      BY <3>1, <3>2
    <3> QED
      BY <3>4, <3>5
  <2> QED
    BY <2>1, <2>2
<1>2. \A T \in SUBSET S : T \in good
  <2>1. \A T \in SUBSET S : (\A R \in SUBSET T : R # T => R \in good) => T \in good
    BY <1>1
  <2> HIDE DEF good
  <2> QED
    BY <2>1, SubsetsAllIn
<1>3. ASSUME NEW x \in S PROVE S \ {x} \in good
  BY <1>2
<1> QED
  BY <1>2, <1>3

\* One term changes.
LEMMA SumMoves ==
  ASSUME NEW S, IsFiniteSet(S), NEW w, NEW v, NEW x \in S,
         \A y \in S : w[y] \in Int /\ v[y] \in Int, \A y \in S : y # x => v[y] = w[y]
  PROVE  Sum(v, S) = Sum(w, S) - w[x] + v[x]
<1> DEFINE r == S \ {x}
<1>1. IsFiniteSet(r)
  BY FS_Subset
<1>2. \A y \in r : w[y] = v[y]
  OBVIOUS
<1> HIDE DEF r
<1>3. Sum(w, r) = Sum(v, r)
  BY <1>1, <1>2, SumSame
<1>4. Sum(w, r) \in Int /\ Sum(w, S) = w[x] + Sum(w, r) /\ Sum(v, S) = v[x] + Sum(v, r)
  BY SumSplits DEF r
<1> QED
  BY <1>3, <1>4

\* A sum of sums, and of terms that are no greater.
LEMMA SumsAdd ==
  ASSUME NEW S, IsFiniteSet(S), NEW w, NEW v, NEW u,
         \A x \in S : w[x] \in Int /\ v[x] \in Int /\ u[x] \in Int
  PROVE  /\ (\A x \in S : u[x] = w[x] + v[x]) => Sum(u, S) = Sum(w, S) + Sum(v, S)
         /\ (\A x \in S : w[x] <= v[x]) => Sum(w, S) <= Sum(v, S)
<1> DEFINE good == {T \in SUBSET S :
                     /\ (\A x \in T : u[x] = w[x] + v[x]) => Sum(u, T) = Sum(w, T) + Sum(v, T)
                     /\ (\A x \in T : w[x] <= v[x]) => Sum(w, T) <= Sum(v, T)}
<1>1. ASSUME NEW T \in SUBSET S, \A R \in SUBSET T : R # T => R \in good
      PROVE  T \in good
  <2>0. IsFiniteSet(T)
    <3> HIDE DEF good
    <3> QED
      BY FS_Subset
  <2>1. CASE T = {}
    <3>1. Sum(w, {}) = 0 /\ Sum(v, {}) = 0 /\ Sum(u, {}) = 0
      BY <2>0, SumTakes
    <3> QED
      BY <2>1, <3>1
  <2>2. CASE T # {}
    <3>1. PICK x : x \in T
      BY <2>2
    <3>2. T \ {x} \in good
      BY <1>1, <3>1
    <3>3. /\ Sum(w, T \ {x}) \in Int /\ Sum(w, T) = w[x] + Sum(w, T \ {x})
          /\ Sum(v, T \ {x}) \in Int /\ Sum(v, T) = v[x] + Sum(v, T \ {x})
          /\ Sum(u, T \ {x}) \in Int /\ Sum(u, T) = u[x] + Sum(u, T \ {x})
      <4> HIDE DEF good
      <4> QED
        BY <2>0, <3>1, SumSplits
    <3>4. PICK a \in Int, b \in Int, c \in Int, d \in Int, e \in Int, f \in Int :
            /\ a = w[x] /\ b = v[x] /\ c = u[x]
            /\ d = Sum(w, T \ {x}) /\ e = Sum(v, T \ {x}) /\ f = Sum(u, T \ {x})
      BY <3>1, <3>3
    <3>5. (\A y \in T : u[y] = w[y] + v[y]) => c = a + b /\ f = d + e
      BY <3>1, <3>2, <3>4
    <3>6. (\A y \in T : w[y] <= v[y]) => a <= b /\ d <= e
      BY <3>1, <3>2, <3>4
    <3>7. Sum(w, T) = a + d /\ Sum(v, T) = b + e /\ Sum(u, T) = c + f
      BY <3>3, <3>4
    <3>8. (\A y \in T : u[y] = w[y] + v[y]) => Sum(u, T) = Sum(w, T) + Sum(v, T)
      BY <3>4, <3>5, <3>7
    <3>9. (\A y \in T : w[y] <= v[y]) => Sum(w, T) <= Sum(v, T)
      BY <3>4, <3>6, <3>7
    <3> QED
      BY <3>8, <3>9
  <2> QED
    BY <2>1, <2>2
<1>2. \A T \in SUBSET S : T \in good
  <2>1. \A T \in SUBSET S : (\A R \in SUBSET T : R # T => R \in good) => T \in good
    BY <1>1
  <2> HIDE DEF good
  <2> QED
    BY <2>1, SubsetsAllIn
<1> QED
  BY <1>2

---------------------------------------------------------------------------
(* One call at a time, and no freeze.                                      *)

\* The payouts that count against the balance, among the payouts `p`.
Committed == {"requested", "processing", "paid"}
AmountIn(p, statuses) == [i \in Ids |-> IF p[i].status \in statuses THEN p[i].amount ELSE 0]

Covered(p) == Total(AmountIn(p, Committed)) <= Settled

OneInFlight == \A j, k \in InFlight : j = k
NeverFrozen == \A k \in Calls : call[k].op \notin {"freeze", "release"}

\* A request decides on sums that are still right.
Current(c, p) ==
  /\ c.pc = "sums" =>
       /\ "paid" \notin c.unread => c.paid = AmountIn(p, {"paid"})
       /\ "reserved" \notin c.unread => c.reserved = AmountIn(p, Reserving)
  /\ c.pc = "create" => c.amount + Total(AmountIn(p, Committed)) <= Settled

SerialInv ==
  Covered(payout) /\ OneInFlight /\ NeverFrozen /\ \A k \in Calls : Current(call[k], payout)

LEMMA IdsFinite == IsFiniteSet(Ids)
BY PayoutsAssumption, FS_Interval DEF Ids

LEMMA TotalIsSum == ASSUME NEW n PROVE Total(n) = Sum(n, Ids)
BY DEF Total, MapThenSumSet, MapThenFoldSet, Sum, Sums, Pick

LEMMA AmountIs ==
  ASSUME NEW p \in [Ids -> Payout], NEW statuses
  PROVE  /\ AmountIn(p, statuses) \in Counted
         /\ \A i \in Ids : /\ AmountIn(p, statuses)[i] \in Int
                           /\ AmountIn(p, statuses)[i] =
                                IF p[i].status \in statuses THEN p[i].amount ELSE 0
BY DEF AmountIn, Counted, Payout

LEMMA TotalTyped == ASSUME NEW n \in Counted PROVE Total(n) \in Int
<1>1. \A i \in Ids : n[i] \in Int
  BY DEF Counted
<1>2. QED
  BY <1>1, IdsFinite, SumSplits, TotalIsSum

\* The two sums of availableBalance come to what is committed.
LEMMA CommittedTotal ==
  ASSUME NEW p \in [Ids -> Payout]
  PROVE  Total(AmountIn(p, Committed)) =
           Total(AmountIn(p, {"paid"})) + Total(AmountIn(p, Reserving))
<1>1. PICK w, v, u : /\ w = AmountIn(p, {"paid"}) /\ v = AmountIn(p, Reserving)
                     /\ u = AmountIn(p, Committed)
  OBVIOUS
<1>2. \A i \in Ids : w[i] \in Int /\ v[i] \in Int /\ u[i] \in Int
  BY <1>1, AmountIs
<1>3. ASSUME NEW i \in Ids PROVE u[i] = w[i] + v[i]
  <2>1. p[i].amount \in Int
    BY DEF Payout
  <2>2. QED
    BY <1>1, <2>1, AmountIs DEF Committed, Reserving
<1>4. Sum(u, Ids) = Sum(w, Ids) + Sum(v, Ids)
  BY <1>2, <1>3, IdsFinite, SumsAdd
<1>5. QED
  BY <1>1, <1>4, TotalIsSum

\* A move that takes no more of the balance.
LEMMA StillCovered ==
  ASSUME NEW p \in [Ids -> Payout], NEW q \in [Ids -> Payout], Covered(p),
         \A i \in Ids : AmountIn(q, Committed)[i] <= AmountIn(p, Committed)[i]
  PROVE  Covered(q)
<1>1. PICK w, v : w = AmountIn(q, Committed) /\ v = AmountIn(p, Committed)
  OBVIOUS
<1>2. \A i \in Ids : w[i] \in Int /\ v[i] \in Int /\ w[i] <= v[i]
  BY <1>1, AmountIs
<1>3. Sum(w, Ids) <= Sum(v, Ids)
  BY <1>2, IdsFinite, SumsAdd
<1>4. Total(w) <= Total(v) /\ Total(w) \in Int /\ Total(v) \in Int
  BY <1>1, <1>3, AmountIs, TotalTyped, TotalIsSum
<1>5. QED
  BY <1>1, <1>4, PayoutsAssumption DEF Covered

\* A new payout adds its own amount.
LEMMA CreatedTotal ==
  ASSUME NEW p \in [Ids -> Payout], NEW q \in [Ids -> Payout], NEW i \in Ids,
         p[i].status = "none", q[i].status = "requested",
         \A j \in Ids : j # i => q[j] = p[j]
  PROVE  Total(AmountIn(q, Committed)) = Total(AmountIn(p, Committed)) + q[i].amount
<1>1. PICK w, v : w = AmountIn(p, Committed) /\ v = AmountIn(q, Committed)
  OBVIOUS
<1>2. \A j \in Ids : w[j] \in Int /\ v[j] \in Int
  BY <1>1, AmountIs
<1>3. \A j \in Ids : j # i => v[j] = w[j]
  BY <1>1, AmountIs
<1>4. w[i] = 0 /\ v[i] = q[i].amount
  BY <1>1, AmountIs DEF Committed
<1>5. Sum(v, Ids) = Sum(w, Ids) - w[i] + v[i]
  BY <1>2, <1>3, IdsFinite, SumMoves
<1>6. Sum(w, Ids) \in Int /\ v[i] \in Int
  BY <1>2, IdsFinite, SumSplits
<1>7. QED
  BY <1>1, <1>4, <1>5, <1>6, TotalIsSum

---------------------------------------------------------------------------
\* A step that leaves the payouts to one call, which begins alone or goes on.
LEMMA SerialQuiet ==
  ASSUME SerialInv, NEW k \in Calls, UNCHANGED payout,
         \A j \in Calls : j # k => call'[j] = call[j],
         call'[k].op \notin {"freeze", "release"},
         call'[k].pc \notin {"idle", "done"} => k \in InFlight \/ InFlight = {},
         Current(call'[k], payout)
  PROVE  SerialInv'
<1>1. Covered(payout)'
  BY DEF SerialInv
<1>2. OneInFlight'
  BY DEF SerialInv, OneInFlight, InFlight
<1>3. NeverFrozen'
  BY DEF SerialInv, NeverFrozen
<1>4. \A j \in Calls : Current(call'[j], payout')
  BY DEF SerialInv
<1>5. QED
  BY <1>1, <1>2, <1>3, <1>4 DEF SerialInv

\* A step of one call that leaves the payouts covered, and the call past its decision.
LEMMA SerialMove ==
  ASSUME SerialInv, NEW k \in InFlight, Covered(payout'),
         \A j \in Calls : j # k => call'[j] = call[j],
         call'[k].op = call[k].op, call'[k].pc \notin {"sums", "create"}
  PROVE  SerialInv'
<1>1. OneInFlight'
  BY DEF SerialInv, OneInFlight, InFlight
<1>2. NeverFrozen'
  BY DEF SerialInv, NeverFrozen
<1>3. ASSUME NEW j \in Calls PROVE Current(call'[j], payout')
  <2>1. CASE j = k
    BY <2>1 DEF Current
  <2>2. CASE j # k
    BY <2>2 DEF SerialInv, OneInFlight, InFlight, Current
  <2>3. QED
    BY <2>1, <2>2
<1>4. QED
  BY <1>1, <1>2, <1>3 DEF SerialInv

LEMMA SerialInit == Init => SerialInv
<1> SUFFICES ASSUME Init PROVE SerialInv
  OBVIOUS
<1>1. \A k \in Calls : call[k].pc = "idle" /\ call[k].op = "request"
  BY DEF Init, Idle
<1>2. payout \in [Ids -> Payout] /\ \A i \in Ids : payout[i].status = "none"
  BY NoPayoutTyped DEF Init, NoPayout
<1>3. PICK w : w = AmountIn(payout, Committed)
  OBVIOUS
<1>4. \A i \in Ids : w[i] = 0
  BY <1>2, <1>3, AmountIs DEF Committed
<1>5. Sum(w, Ids) = Sum(w, Ids) + Sum(w, Ids) /\ Sum(w, Ids) \in Int
  BY <1>4, IdsFinite, SumsAdd, SumSplits
<1>6. Covered(payout)
  BY <1>3, <1>5, TotalIsSum, PayoutsAssumption DEF Covered
<1>7. QED
  BY <1>1, <1>6 DEF SerialInv, OneInFlight, InFlight, NeverFrozen, Current

\* A request that both sums allow leaves room for itself.
LEMMA SerialDecide ==
  ASSUME IInv, SerialInv, NEW k \in Calls, Decide(k)
  PROVE  SerialInv'
<1>1. call \in [Calls -> Call] /\ payout \in [Ids -> Payout] /\ payout' = payout
  BY DEF IInv, TypeOK, Decide
<1>2. PICK d \in Call : d = call[k]
  BY <1>1
<1>3. d.pc = "sums" /\ d.unread = {} /\ k \in InFlight
  BY <1>2 DEF Decide, InFlight
<1>4. d.op \notin {"freeze", "release"}
  BY <1>2 DEF SerialInv, NeverFrozen
<1>5. CASE Reply(k, "refused")
  <2>1. call'[k].pc = "done" /\ call'[k].op = d.op /\ \A j \in Calls : j # k => call'[j] = call[j]
    BY <1>1, <1>2, <1>5, ReplyEffect
  <2>2. Current(call'[k], payout)
    BY <2>1 DEF Current
  <2>3. QED
    BY <1>1, <1>3, <1>4, <2>1, <2>2, SerialQuiet
<1>6. CASE Affordable(d) /\ \E i \in Ids : Set(k, [call[k] EXCEPT !.pc = "create", !.id = i])
  <2>1. PICK i \in Ids : Set(k, [call[k] EXCEPT !.pc = "create", !.id = i])
    BY <1>6
  <2>2. PICK c \in Call : c = [d EXCEPT !.pc = "create", !.id = i]
    BY DEF Call
  <2>3. c.pc = "create" /\ c.op = d.op /\ c.amount = d.amount
    BY <2>2 DEF Call
  <2>4. call'[k] = c /\ \A j \in Calls : j # k => call'[j] = call[j]
    BY <1>1, <1>2, <2>1, <2>2, SetEffect
  <2>5. d.paid = AmountIn(payout, {"paid"}) /\ d.reserved = AmountIn(payout, Reserving)
    BY <1>2, <1>3 DEF SerialInv, Current
  <2>6. PICK m \in Int, n \in Int : m = Total(d.paid) /\ n = Total(d.reserved)
    BY TotalTyped DEF Call
  <2>7. d.amount \in Nat /\ d.amount <= Settled - m - n
    BY <1>6, <2>6 DEF Affordable, Call
  <2>8. Total(AmountIn(payout, Committed)) = m + n
    BY <1>1, <2>5, <2>6, CommittedTotal
  <2>9. d.amount + Total(AmountIn(payout, Committed)) <= Settled
    BY <2>7, <2>8, PayoutsAssumption
  <2>10. Current(c, payout)
    BY <2>3, <2>9 DEF Current
  <2>11. QED
    BY <1>1, <1>3, <1>4, <2>3, <2>4, <2>10, SerialQuiet
<1>7. QED
  BY <1>2, <1>5, <1>6 DEF Decide

LEMMA SerialCreate ==
  ASSUME IInv, SerialInv, NEW k \in Calls, Create(k)
  PROVE  SerialInv'
<1>1. /\ call \in [Calls -> Call] /\ payout \in [Ids -> Payout]
      /\ payout' \in [Ids -> Payout]
      /\ \A j \in Ids : j # call[k].id => payout'[j] = payout[j]
      /\ payout[call[k].id].status = "none"
  BY CreateEffect DEF IInv, TypeOK
<1>2. call[k].pc = "create" /\ call[k].id \in Ids /\ k \in InFlight /\ call[k].amount \in Nat
  BY <1>1 DEF Create, IInv, PayoutInv, CreatesAreFresh, InFlight, Call
<1>3. PICK p \in [Ids -> Payout], q \in [Ids -> Payout], i \in Ids :
        p = payout /\ q = payout' /\ i = call[k].id
  BY <1>1, <1>2
<1>4. q[i].status = "requested" /\ q[i].amount = call[k].amount
  BY <1>1, <1>3 DEF Create, NewPayout
<1>5. Total(AmountIn(q, Committed)) = Total(AmountIn(p, Committed)) + call[k].amount
  BY <1>1, <1>3, <1>4, CreatedTotal
<1>6. call[k].amount + Total(AmountIn(p, Committed)) <= Settled
  BY <1>2, <1>3 DEF SerialInv, Current
<1>7. Total(AmountIn(p, Committed)) \in Int
  BY <1>1, <1>3, AmountIs, TotalTyped
<1>8. Covered(payout')
  BY <1>2, <1>3, <1>5, <1>6, <1>7 DEF Covered
<1>9. call'[k].pc = "done" /\ call'[k].op = call[k].op /\ \A j \in Calls : j # k => call'[j] = call[j]
  BY <1>1, ReplyEffect DEF Create
<1>10. QED
  BY <1>2, <1>8, <1>9, SerialMove

\* A move keeps the amount and starts from a payout that is already committed.
LEMMA SerialSave ==
  ASSUME IInv, SerialInv, NEW k \in Calls, SavePayout(k)
  PROVE  SerialInv'
<1>1. call \in [Calls -> Call] /\ payout \in [Ids -> Payout]
  BY DEF IInv, TypeOK
<1>2. k \in InFlight
  BY DEF SavePayout, InFlight
<1>3. /\ call'[k].op = call[k].op /\ call'[k].pc \notin {"sums", "create"}
      /\ \A j \in Calls : j # k => call'[j] = call[j]
  <2>1. CASE Reply(k, "conflict")
    BY <1>1, <2>1, ReplyEffect
  <2>2. CASE Set(k, SavedCall(call[k]))
    <3>1. PICK c \in Call : /\ c = SavedCall(call[k]) /\ c.pc \notin {"sums", "create"}
                            /\ c.op = call[k].op
      BY <1>1, SavedCallTyped
    <3>2. QED
      BY <1>1, <2>2, <3>1, SetEffect
  <2>3. QED
    BY <2>1, <2>2 DEF SavePayout, SavedCall
<1>4. Covered(payout')
  <2>1. CASE payout' = payout
    BY <2>1 DEF SerialInv
  <2>2. CASE payout' # payout
    <3>1. PICK i \in Ids, op \in AllOps \ {"request"}, p \in Payout :
            /\ i = call[k].id /\ op = call[k].op /\ p = call[k].read
            /\ payout[i] = p /\ p.status \in From(op) /\ p.status # "none"
            /\ p.status = "frozen" <=> p.previousStatus # "none"
            /\ payout' = [payout EXCEPT ![i] = Moved(op, p)]
      BY <2>2, SaveEffect
    <3>2. PICK q \in Payout : q = Moved(op, p) /\ q.amount = p.amount
      BY <3>1, MovedIs
    <3>3. op \in {"begin", "complete", "fail", "batch"}
      BY <3>1 DEF SerialInv, NeverFrozen, AllOps
    <3>4. p.status \in Committed /\ p.amount \in Nat
      BY <3>1, <3>3, FromIs DEF Committed, Payout
    <3>5. PICK n \in [Ids -> Payout] : n = payout' /\ n[i] = q /\ \A j \in Ids : j # i => n[j] = payout[j]
      BY <1>1, <3>1, <3>2
    <3>6. ASSUME NEW j \in Ids
          PROVE  AmountIn(n, Committed)[j] <= AmountIn(payout, Committed)[j]
      <4>1. CASE j = i
        <5>1. AmountIn(payout, Committed)[i] = p.amount
          BY <1>1, <3>1, <3>4, AmountIs
        <5>2. AmountIn(n, Committed)[i] \in {0, p.amount}
          BY <3>2, <3>5, AmountIs
        <5>3. QED
          BY <3>4, <4>1, <5>1, <5>2
      <4>2. CASE j # i
        BY <1>1, <3>5, <4>2, AmountIs
      <4>3. QED
        BY <4>1, <4>2
    <3>7. Covered(n)
      BY <1>1, <3>6, StillCovered DEF SerialInv
    <3>8. QED
      BY <3>5, <3>7
  <2>3. QED
    BY <2>1, <2>2
<1>5. QED
  BY <1>2, <1>3, <1>4, SerialMove

LEMMA SerialNext ==
  ASSUME Serial, Ops \subseteq Unfrozen
  PROVE  IInv /\ SerialInv /\ [Next]_vars => SerialInv'
<1> SUFFICES ASSUME IInv, SerialInv, [Next]_vars PROVE SerialInv'
  OBVIOUS
<1>0. call \in [Calls -> Call] /\ payout \in [Ids -> Payout]
  BY DEF IInv, TypeOK
<1>1. ASSUME NEW k \in Calls, NEW a \in Amounts, RequestPayout(k, a) PROVE SerialInv'
  <2>1. PICK c \in Call : /\ c = Summing(Idle, a) /\ c.pc = "sums" /\ c.op = Idle.op
                          /\ c.unread = {"paid", "reserved"}
    BY IdleTyped, Constant, SummingIs
  <2>2. Set(k, c) /\ UNCHANGED payout /\ InFlight = {}
    BY <1>1, <2>1 DEF RequestPayout, Summing, MayBegin
  <2>3. c.op \notin {"freeze", "release"} /\ Current(c, payout)
    BY <2>1 DEF Idle, Current
  <2>4. QED
    BY <1>0, <2>2, <2>3, SetEffect, SerialQuiet
<1>2. ASSUME NEW k \in Calls, SumPaid(k) PROVE SerialInv'
  <2>1. Amount({"paid"}) \in Counted /\ Amount({"paid"}) = AmountIn(payout, {"paid"})
    BY <1>0, AmountIs DEF Amount, AmountIn
  <2>2. PICK c \in Call : /\ c = SummedPaid(call[k], Amount({"paid"})) /\ c.pc = call[k].pc
                          /\ c.op = call[k].op /\ c.unread = call[k].unread \ {"paid"}
                          /\ c.paid = Amount({"paid"}) /\ c.reserved = call[k].reserved
    BY <1>0, <2>1, SummedPaidIs
  <2>3. Set(k, c) /\ call[k].pc = "sums" /\ UNCHANGED payout /\ k \in InFlight
    BY <1>2, <2>2 DEF SumPaid, SummedPaid, InFlight
  <2>4. Current(c, payout) /\ c.op \notin {"freeze", "release"}
    BY <2>1, <2>2, <2>3 DEF SerialInv, NeverFrozen, Current
  <2>5. QED
    BY <1>0, <2>3, <2>4, SetEffect, SerialQuiet
<1>3. ASSUME NEW k \in Calls, SumReserved(k) PROVE SerialInv'
  <2>1. Amount(Reserving) \in Counted /\ Amount(Reserving) = AmountIn(payout, Reserving)
    BY <1>0, AmountIs DEF Amount, AmountIn
  <2>2. PICK c \in Call : /\ c = SummedReserved(call[k], Amount(Reserving)) /\ c.pc = call[k].pc
                          /\ c.op = call[k].op /\ c.unread = call[k].unread \ {"reserved"}
                          /\ c.paid = call[k].paid /\ c.reserved = Amount(Reserving)
    BY <1>0, <2>1, SummedReservedIs
  <2>3. Set(k, c) /\ call[k].pc = "sums" /\ UNCHANGED payout /\ k \in InFlight
    BY <1>3, <2>2 DEF SumReserved, SummedReserved, InFlight
  <2>4. Current(c, payout) /\ c.op \notin {"freeze", "release"}
    BY <2>1, <2>2, <2>3 DEF SerialInv, NeverFrozen, Current
  <2>5. QED
    BY <1>0, <2>3, <2>4, SetEffect, SerialQuiet
<1>4. ASSUME NEW k \in Calls, NEW op \in Single, NEW i \in Ids, ReadPayout(k, op, i) PROVE SerialInv'
  <2>1. op \in AllOps /\ op \notin {"freeze", "release"} /\ InFlight = {}
    BY <1>4 DEF ReadPayout, MayBegin, Single, Unfrozen
  <2>2. payout[i] \in Payout /\ UNCHANGED payout
    BY <1>0, <1>4 DEF ReadPayout
  <2>3. PICK c \in Call : /\ c = Saving(Idle, op, i, payout[i]) \/ c = Refused(Idle, op, i)
                          /\ c.pc \in {"save", "done"} /\ c.op = op /\ Set(k, c)
    <3>1. CASE payout[i].status \in From(op)
      <4>1. PICK c \in Call : c = Saving(Idle, op, i, payout[i]) /\ c.pc = "save" /\ c.op = op
        BY IdleTyped, SavingIs, <2>1, <2>2
      <4>2. Set(k, c)
        BY <1>4, <3>1, <4>1 DEF ReadPayout, Saving
      <4>3. QED
        BY <4>1, <4>2
    <3>2. CASE payout[i].status \notin From(op)
      <4>1. PICK c \in Call : c = Refused(Idle, op, i) /\ c.pc = "done" /\ c.op = op
        BY IdleTyped, RefusedIs, <2>1
      <4>2. Set(k, c)
        BY <1>4, <3>2, <4>1 DEF ReadPayout, Refused
      <4>3. QED
        BY <4>1, <4>2
    <3>3. QED
      BY <3>1, <3>2
  <2>4. Current(c, payout)
    BY <2>3 DEF Current
  <2>5. QED
    BY <1>0, <2>1, <2>2, <2>3, <2>4, SetEffect, SerialQuiet
<1>5. ASSUME NEW k \in Calls, NEW ids \in Batches, RunBatch(k, ids) PROVE SerialInv'
  <2>1. PICK c \in Call : c = Batching(Idle, ids) /\ c.pc = "read" /\ c.op = "batch"
    BY IdleTyped, Constant, BatchingIs
  <2>2. Set(k, c) /\ UNCHANGED payout /\ InFlight = {} /\ Current(c, payout)
    BY <1>5, <2>1 DEF RunBatch, Batching, MayBegin, Current
  <2>3. QED
    BY <1>0, <2>1, <2>2, SetEffect, SerialQuiet
<1>6. ASSUME NEW k \in Calls, ReadNext(k) \/ Record(k) PROVE SerialInv'
  <2>1. PICK d \in Call : d = call[k]
    BY <1>0
  <2>2. d.pc \in {"read", "record"} /\ k \in InFlight /\ UNCHANGED payout
    BY <1>6, <2>1 DEF ReadNext, Record, InFlight
  <2>3. d.op \notin {"freeze", "release"}
    BY <2>1 DEF SerialInv, NeverFrozen
  <2>4. PICK c \in Call : Set(k, c) /\ c.op = d.op /\ c.pc \notin {"sums", "create"}
    <3>1. CASE Record(k)
      BY <2>1, <3>1, RecordIs DEF Record, Recorded
    <3>2. CASE ReadNext(k) /\ d.todo = <<>>
      BY <2>1, <3>2, RecordIs DEF ReadNext, Recording
    <3>3. CASE ReadNext(k) /\ d.todo # <<>>
      <4>1. ASSUME NEW q \in Seq(Ids), q # <<>> PROVE Head(q) \in Ids /\ Tail(q) \in Seq(Ids)
        BY <4>1
      <4>2. PICK i \in Ids, t \in Seq(Ids) : i = Head(d.todo) /\ t = Tail(d.todo)
        BY <3>3, <4>1 DEF Call
      <4>3. PICK l \in {"read", "save"} :
              l = IF payout[i].status \in From("batch") THEN "save" ELSE "read"
        OBVIOUS
      <4>4. PICK c \in Call : c = ReadingNext(d, t, i, payout[i], l) /\ c.pc = l /\ c.op = d.op
        BY <1>0, ReadingNextIs
      <4>5. Set(k, c)
        BY <2>1, <3>3, <4>2, <4>3, <4>4 DEF ReadNext, ReadingNext
      <4>6. QED
        BY <4>4, <4>5
    <3>4. QED
      BY <1>6, <3>1, <3>2, <3>3
  <2>5. Current(c, payout)
    BY <2>4 DEF Current
  <2>6. QED
    BY <1>0, <2>2, <2>3, <2>4, <2>5, SetEffect, SerialQuiet
<1>7. CASE UNCHANGED vars
  BY <1>7 DEF vars, SerialInv, OneInFlight, InFlight, NeverFrozen
<1>8. QED
  BY <1>1, <1>2, <1>3, <1>4, <1>5, <1>6, <1>7, SerialDecide, SerialCreate, SerialSave DEF Next

\* Where calls run one at a time and nothing is frozen, PayoutService never promises
\* more than the settled balance: the arithmetic of availableBalance is right, and
\* only the gap between the sums and the stored row, or a freeze, breaks it.
THEOREM NoOverdrawSerially ==
  ASSUME Serial, ~SameMillisecond, Ops \subseteq Unfrozen
  PROVE  Spec => []NoOverdraw
<1>1. Init => IInv /\ SerialInv
  BY InitInv, SerialInit
<1>2. IInv /\ SerialInv /\ [Next]_vars => (IInv /\ SerialInv)'
  BY InvStep, SerialNext
<1>3. SerialInv => NoOverdraw
  BY DEF SerialInv, Covered, NoOverdraw, Amount, AmountIn, Committed
<1>4. QED
  BY <1>1, <1>2, <1>3, PTL DEF Spec
=============================================================================
