--------------------------- MODULE ProgrammeProofs --------------------------
(***************************************************************************)
(* Proofs about the programme, the finance desk, the support desk, the     *)
(* calendar and the figures, for any number of requests, rows and amounts. *)
(*                                                                         *)
(* A behaviour exercises one component.  Each proof has an invariant of    *)
(* its component's rows and of what every request in flight knows; the     *)
(* steps of the other components leave both alone.                         *)
(***************************************************************************)
EXTENDS MCProgramme, FiniteSetTheorems, WellFoundedInduction, TLAPS

---------------------------------------------------------------------------
(* Requests in flight.                                                     *)

Shaped(q) == q = [op |-> q.op, pc |-> q.pc, who |-> q.who, on |-> q.on,
                  arg |-> q.arg, row |-> q.row]

CallsShaped ==
  /\ call = [c \in Calls |-> call[c]]
  /\ \A c \in Calls : Shaped(call[c]) /\ (Free(c) => call[c] = Idle)

\* c's call becomes q, the others stay.
CallIs(c, q) ==
  /\ CallsShaped' /\ call'[c] = q
  /\ \A d \in Calls : d # c => call'[d] = call[d]

LEMMA IdleShaped == Shaped(Idle) /\ Idle.pc = "idle"
BY DEF Shaped, Idle

LEMMA Arriving ==
  ASSUME CallsShaped, NEW c \in Calls, NEW op, NEW who, NEW on, NEW arg,
         Arrive(c, op, who, on, arg)
  PROVE  /\ call[c] = Idle
         /\ CallIs(c, [op |-> op, pc |-> "read", who |-> who, on |-> on, arg |-> arg, row |-> None])
BY DEF CallsShaped, Arrive, CallIs, Shaped, Free

LEMMA Going ==
  ASSUME CallsShaped, NEW c \in Calls, NEW pc, NEW row, pc # "idle", Goto(c, pc, row)
  PROVE  LET q == call[c] IN
         CallIs(c, [op |-> q.op, pc |-> pc, who |-> q.who, on |-> q.on, arg |-> q.arg, row |-> row])
<1> DEFINE Typed == [Calls -> [op : {call[d].op : d \in Calls}, pc : {call[d].pc : d \in Calls},
                               who : {call[d].who : d \in Calls}, on : {call[d].on : d \in Calls},
                               arg : {call[d].arg : d \in Calls}, row : {call[d].row : d \in Calls}]]
<1>1. call \in Typed
  BY DEF CallsShaped, Shaped
<1>2. /\ call' = [d \in Calls |-> call'[d]]
      /\ \A d \in Calls : d # c => call'[d] = call[d]
      /\ call'[c] = [op |-> call[c].op, pc |-> pc, who |-> call[c].who, on |-> call[c].on,
                     arg |-> call[c].arg, row |-> row]
  BY <1>1 DEF Goto
<1> QED
  BY <1>2 DEF CallsShaped, CallIs, Free, Shaped

LEMMA Turning ==
  ASSUME CallsShaped, NEW c \in Calls, NEW op, call' = [call EXCEPT ![c].op = op], ~Free(c)
  PROVE  LET q == call[c] IN
         CallIs(c, [op |-> op, pc |-> q.pc, who |-> q.who, on |-> q.on, arg |-> q.arg, row |-> q.row])
<1> DEFINE Typed == [Calls -> [op : {call[d].op : d \in Calls}, pc : {call[d].pc : d \in Calls},
                               who : {call[d].who : d \in Calls}, on : {call[d].on : d \in Calls},
                               arg : {call[d].arg : d \in Calls}, row : {call[d].row : d \in Calls}]]
<1>1. call \in Typed
  BY DEF CallsShaped, Shaped
<1>2. /\ call' = [d \in Calls |-> call'[d]]
      /\ \A d \in Calls : d # c => call'[d] = call[d]
      /\ call'[c] = [op |-> op, pc |-> call[c].pc, who |-> call[c].who, on |-> call[c].on,
                     arg |-> call[c].arg, row |-> call[c].row]
  BY <1>1
<1> QED
  BY <1>2 DEF CallsShaped, CallIs, Free, Shaped

LEMMA Leaving ==
  ASSUME CallsShaped, NEW c \in Calls, Leave(c)
  PROVE  CallIs(c, Idle)
BY IdleShaped DEF CallsShaped, Leave, CallIs, Free

---------------------------------------------------------------------------
(* What happens in one step.                                               *)

\* A step is one of the component at work, a death between two calls, or none.
LEMMA Happens ==
  ASSUME [Next]_programmeVars
  PROVE  /\ part' = part
         /\ \/ UNCHANGED <<call, rows>>
            \/ OthersKept /\ (World \/ \E c \in Calls : Work(c))
            \/ \E c \in Calls : ~Free(c) /\ Leave(c) /\ UNCHANGED rows
BY DEF Next, programmeVars, Dies

---------------------------------------------------------------------------
(* Sums over finite sets.                                                  *)

\* Induction over the subsets of a finite set: a set of them that every set belongs
\* to whose proper subsets do.
LEMMA SubsetsAllIn ==
  ASSUME NEW S, IsFiniteSet(S), NEW good,
         \A T \in SUBSET S : (\A R \in SUBSET T : R # T => R \in good) => T \in good
  PROVE  \A T \in SUBSET S : T \in good
<1> DEFINE bad == (SUBSET S) \ good
<1>1. IsWellFoundedOn(StrictSubsetOrdering(S), SUBSET S)
  BY FS_StrictSubsetOrderingWellFounded, FS_FiniteSubsetsOfFinite
<1>2. SUFFICES ASSUME bad # {} PROVE FALSE
  OBVIOUS
<1>3. PICK T \in bad : \A R \in bad : ~(<<R, T>> \in StrictSubsetOrdering(S))
  <2>1. bad \subseteq SUBSET S
    OBVIOUS
  <2> HIDE DEF bad
  <2> QED
    BY <1>1, <1>2, <2>1, WFMin
<1>4. \A R \in SUBSET T : R # T => R \in good
  BY <1>3 DEF StrictSubsetOrdering
<1>5. T \in SUBSET S /\ T \notin good
  BY <1>3
<1> QED
  BY <1>4, <1>5

Pick(s) == CHOOSE x \in s : TRUE

\* g maps the subsets of S to the sums of w over them.
Sums(g, w, S) ==
  g = [s \in SUBSET S |-> IF s = {} THEN 0 ELSE w[Pick(s)] + g[s \ {Pick(s)}]]

Sum(w, S) == (CHOOSE g : Sums(g, w, S))[S]

LEMMA SumsAgree ==
  ASSUME NEW S, IsFiniteSet(S), NEW T \in SUBSET S, NEW w, NEW v, NEW g, NEW h,
         Sums(g, w, S), Sums(h, v, T), \A x \in T : w[x] = v[x]
  PROVE  \A s \in SUBSET T : g[s] = h[s]
<1> DEFINE good == {s \in SUBSET T : g[s] = h[s]}
<1>1. ASSUME NEW s \in SUBSET T, \A r \in SUBSET s : r # s => r \in good PROVE g[s] = h[s]
  <2>1. s \in SUBSET S
    OBVIOUS
  <2>2. CASE s = {}
    BY <2>1, <2>2 DEF Sums
  <2>3. CASE s # {}
    <3>1. Pick(s) \in s
      BY <2>3 DEF Pick
    <3>2. g[s \ {Pick(s)}] = h[s \ {Pick(s)}]
      BY <1>1, <3>1
    <3>3. g[s] = w[Pick(s)] + g[s \ {Pick(s)}]
      BY <2>1, <2>3 DEF Sums
    <3>4. h[s] = v[Pick(s)] + h[s \ {Pick(s)}]
      BY <2>3 DEF Sums
    <3> QED
      BY <3>1, <3>2, <3>3, <3>4
  <2> QED
    BY <2>2, <2>3
<1>2. IsFiniteSet(T)
  <2> HIDE DEF good
  <2> QED
    BY FS_Subset
<1>3. \A s \in SUBSET T : s \in good
  <2>1. \A s \in SUBSET T : (\A r \in SUBSET s : r # s => r \in good) => s \in good
    BY <1>1
  <2> HIDE DEF good
  <2> QED
    BY <1>2, <2>1, SubsetsAllIn
<1> QED
  BY <1>3

LEMMA SumsExist ==
  ASSUME NEW S, IsFiniteSet(S), NEW w
  PROVE  \E g : Sums(g, w, S)
<1> DEFINE good == {T \in SUBSET S : \E g : Sums(g, w, T)}
           on(T) == CHOOSE g : Sums(g, w, T)
<1>1. ASSUME NEW T \in SUBSET S, \A R \in SUBSET T : R # T => R \in good
      PROVE  \E g : Sums(g, w, T)
  <2> DEFINE all == [s \in SUBSET T |->
                       IF s = T THEN (IF T = {} THEN 0 ELSE w[Pick(T)] + on(T \ {Pick(T)})[T \ {Pick(T)}])
                       ELSE on(s)[s]]
  <2>1. \A R \in SUBSET T : R # T => Sums(on(R), w, R)
    BY <1>1
  <2> HIDE DEF on
  <2>2. ASSUME NEW s \in SUBSET T
        PROVE  all[s] = IF s = {} THEN 0 ELSE w[Pick(s)] + all[s \ {Pick(s)}]
    <3>1. CASE s = {}
      <4>1. T # {} => on({})[{}] = 0
        BY <2>1 DEF Sums
      <4> QED
        BY <3>1, <4>1
    <3>2. CASE s # {} /\ s = T
      <4>1. Pick(s) \in s
        BY <3>2 DEF Pick
      <4> QED
        BY <3>2, <4>1
    <3>3. CASE s # {} /\ s # T
      <4>1. Pick(s) \in s
        BY <3>3 DEF Pick
      <4> DEFINE r == s \ {Pick(s)}
      <4>2. r \in SUBSET s /\ r \in SUBSET T /\ r # T /\ IsFiniteSet(s)
        BY <3>3, <4>1, FS_Subset
      <4>3. Sums(on(s), w, s) /\ Sums(on(r), w, r)
        BY <2>1, <3>3, <4>2
      <4>4. on(s)[r] = on(r)[r]
        <5>1. r \in SUBSET r
          OBVIOUS
        <5> HIDE DEF r
        <5> QED
          BY <4>2, <4>3, <5>1, SumsAgree
      <4>5. on(s)[s] = w[Pick(s)] + on(s)[r]
        BY <3>3, <4>3 DEF Sums
      <4> QED
        BY <3>3, <4>2, <4>4, <4>5
    <3> QED
      BY <3>1, <3>2, <3>3
  <2>3. all = [s \in SUBSET T |-> all[s]]
    OBVIOUS
  <2> HIDE DEF all
  <2>4. Sums(all, w, T)
    BY <2>2, <2>3 DEF Sums
  <2> QED
    BY <2>4
<1>2. \A T \in SUBSET S : T \in good
  <2>1. \A T \in SUBSET S : (\A R \in SUBSET T : R # T => R \in good) => T \in good
    BY <1>1
  <2> HIDE DEF good
  <2> QED
    BY <2>1, SubsetsAllIn
<1> QED
  BY <1>2

\* What maps the subsets of S to their sums maps S to its own.
LEMMA SumOf ==
  ASSUME NEW S, IsFiniteSet(S), NEW w, NEW g, Sums(g, w, S)
  PROVE  g[S] = Sum(w, S)
<1> DEFINE h == CHOOSE h : Sums(h, w, S)
<1>1. Sums(h, w, S)
  OBVIOUS
<1> HIDE DEF h
<1>2. g[S] = h[S]
  BY <1>1, SumsAgree
<1> QED
  BY <1>2 DEF Sum, h

\* A sum takes one of the set's members, and the sum of the others.
LEMMA SumTakes ==
  ASSUME NEW S, IsFiniteSet(S), NEW w
  PROVE  /\ Sum(w, {}) = 0
         /\ S # {} => Pick(S) \in S /\ Sum(w, S) = w[Pick(S)] + Sum(w, S \ {Pick(S)})
<1>1. Sum(w, {}) = 0
  BY SumsExist, FS_EmptySet DEF Sum, Sums
<1>2. ASSUME S # {}
      PROVE  Pick(S) \in S /\ Sum(w, S) = w[Pick(S)] + Sum(w, S \ {Pick(S)})
  <2> DEFINE r == S \ {Pick(S)}
             g == CHOOSE g : Sums(g, w, S)
             h == CHOOSE h : Sums(h, w, r)
  <2>1. Pick(S) \in S
    BY <1>2 DEF Pick
  <2>2. r \in SUBSET S /\ IsFiniteSet(r)
    BY FS_Subset
  <2>3. Sums(g, w, S) /\ Sums(h, w, r)
    BY <2>2, SumsExist
  <2>4. Sum(w, S) = g[S] /\ Sum(w, r) = h[r]
    BY DEF Sum
  <2>5. g[S] = w[Pick(S)] + g[r]
    <3> HIDE DEF g
    <3> QED
      BY <1>2, <2>3 DEF Sums
  <2>6. g[r] = h[r]
    <3> HIDE DEF g, h, r
    <3> QED
      BY <2>2, <2>3, SumsAgree
  <2> QED
    BY <2>1, <2>4, <2>5, <2>6
<1> QED
  BY <1>1, <1>2

---------------------------------------------------------------------------
(* The split of an order.                                                  *)

\* A rounded share is a part of the amount.
LEMMA RoundedIsPart ==
  ASSUME NEW amount \in Nat, NEW rate, NEW n \in Rounded(amount, rate)
  PROVE  n \in Int /\ 0 <= n /\ n <= amount
BY DEF Rounded

\* Four legs of which the host's is what is left add up, and none is negative when
\* what is left for the host is not: whatever the other three are.
LEMMA RestIsHosts ==
  ASSUME NEW gross \in Int, NEW fee \in Nat, NEW hall \in Nat, NEW promoter \in Int,
         Distributable(Split(gross, fee, hall, promoter), gross)
  PROVE  LegsAreSound(Split(gross, fee, hall, promoter), gross)
<1> DEFINE s == Split(gross, fee, hall, promoter)
<1>1. /\ DOMAIN s = {"platformFee", "venueShare", "promoterCommission", "hostPayout"}
      /\ s.platformFee = fee /\ s.venueShare = hall /\ s.promoterCommission = promoter
      /\ s.hostPayout = gross - fee - hall - promoter
  BY DEF Split
<1> HIDE DEF s
<1>2. 0 <= promoter /\ promoter <= gross - fee - hall
  BY <1>1 DEF Distributable, s
<1>3. s.platformFee + s.venueShare + s.promoterCommission + s.hostPayout = gross
  BY <1>1
<1>4. ASSUME NEW leg \in DOMAIN s PROVE s[leg] >= 0
  BY <1>1, <1>2
<1> QED
  BY <1>3, <1>4 DEF LegsAreSound, s

\* "So the four legs always sum exactly to grossAmount": whatever the sale, the plan,
\* the partnership's rate, the promoter's rate or the commission frozen at checkout,
\* the legs that are recorded add up to the amount paid and none of them is negative.
THEOREM SplitsAreSound ==
  ASSUME NEW gross \in Nat, NEW plan, NEW venueRate, NEW promoterRate,
         NEW frozen \in SUBSET Int,
         NEW legs \in SettlementLegs(gross, plan, venueRate, promoterRate, frozen)
  PROVE  LegsAreSound(legs, gross)
<1> DEFINE rate == PlatformFeePercentFor(plan)
           computed == ComputeSettlementSplit(gross, rate, venueRate, promoterRate)
<1>1. Distributable(legs, gross)
  BY DEF SettlementLegs
<1>2. ASSUME NEW s \in computed
      PROVE  \E fee \in Nat, hall \in Nat, promoter \in Int :
               s = Split(gross, fee, hall, promoter)
  <2>1. PICK fee \in Rounded(gross, rate), hall \in Rounded(gross, venueRate),
             promoter \in Rounded(gross, promoterRate) :
               s = Split(gross, fee, hall, promoter)
    BY <1>2 DEF ComputeSettlementSplit
  <2>2. fee \in Nat /\ hall \in Nat /\ promoter \in Int
    BY RoundedIsPart
  <2> QED
    BY <2>1, <2>2
<1>3. \E fee \in Nat, hall \in Nat, promoter \in Int :
        legs = Split(gross, fee, hall, promoter)
  <2>1. CASE frozen = {}
    <3>1. legs \in computed
      BY <2>1 DEF SettlementLegs
    <3> QED
      BY <1>2, <3>1
  <2>2. CASE frozen # {}
    <3>1. PICK s \in computed, commission \in frozen :
            legs = WithCommission(s, gross, commission)
      BY <2>2 DEF SettlementLegs
    <3>2. PICK fee \in Nat, hall \in Nat, promoter \in Int :
            s = Split(gross, fee, hall, promoter)
      BY <1>2
    <3>3. legs = Split(gross, fee, hall, commission)
      BY <3>1, <3>2 DEF WithCommission, Split
    <3> QED
      BY <3>3
  <2> QED
    BY <2>1, <2>2
<1> QED
  BY <1>1, <1>3, RestIsHosts

---------------------------------------------------------------------------
(* Disputes.                                                               *)

\* A dispute's row, whatever version it has come to.
DisputeRow == DisputeAt(Nat)

\* What a request about a dispute knows: a row it is about to save as upheld has
\* its correcting entry already.  The id of a new dispute is its own.
DisputeCall(c) ==
  LET q == call[c] IN
  q.pc # "idle" =>
    /\ q.on \in Disputes /\ q.op \in {"raise", "review", "resolve", "adminResolve"}
    /\ q.op = "raise" =>
         /\ q.pc = "read" /\ dispute[q.on] = None
         /\ \A d \in Calls : d # c /\ call[d].pc # "idle" => call[d].on # q.on
    /\ q.op # "raise" => dispute[q.on] \in DisputeRow
    /\ q.op = "adminResolve" => q.arg \in Outcomes
    /\ q.pc \in {"correct", "save"} => q.row \in DisputeRow
    /\ q.pc = "save" /\ q.row.resolution = "upheld" => q.on \in correction

DisputeCalls == part = "dispute" => CallsShaped /\ \A c \in Calls : DisputeCall(c)

DisputeRows ==
  /\ dispute = [d \in Disputes |-> dispute[d]]
  /\ \A d \in Disputes : dispute[d] # None => dispute[d] \in DisputeRow
  /\ UpheldIsPaid

DisputeInv == DisputeRows /\ DisputeCalls

LEMMA DisputeInit0 == Init => DisputeInv
BY DEF Init, DisputeInit, DisputeInv, DisputeRows, DisputeCalls, DisputeCall, UpheldIsPaid, Raised,
       CallsShaped, Shaped, Idle, Free

\* Rows the rules produce keep the outcome of the row they were read from, unless
\* an admin gives one.
LEMMA DisputeRules ==
  ASSUME NEW d \in DisputeRow, NEW outcome \in Outcomes
  PROVE  /\ \A r \in BeginReview(d) \cup ResolveDispute(d) : r.resolution = d.resolution
         /\ \A r \in AdminResolveDispute(d, outcome) : r.resolution = outcome
         /\ \A r \in BeginReview(d) \cup ResolveDispute(d) \cup AdminResolveDispute(d, outcome) :
              r \in DisputeRow
<1>1. ASSUME NEW s \in DisputeRow PROVE Bump(s) \in DisputeRow /\ Bump(s).resolution = s.resolution
  BY DEF DisputeRow, DisputeAt, Bump
<1>2. /\ [d EXCEPT !.status = "under_review"] \in DisputeRow
      /\ [d EXCEPT !.status = "resolved"] \in DisputeRow
      /\ [d EXCEPT !.status = "resolved", !.resolution = outcome] \in DisputeRow
      /\ [d EXCEPT !.status = "under_review"].resolution = d.resolution
      /\ [d EXCEPT !.status = "resolved"].resolution = d.resolution
      /\ [d EXCEPT !.status = "resolved", !.resolution = outcome].resolution = outcome
  BY DEF DisputeRow, DisputeAt
<1> QED
  BY <1>1, <1>2 DEF BeginReview, ResolveDispute, AdminResolveDispute, When

\* A call that leaves the rows alone keeps the invariant when what it knows now is
\* true, and it names no other request's new dispute.
LEMMA DisputeQuiet ==
  ASSUME DisputeInv, part = "dispute", part' = part, NEW c \in Calls, NEW q, CallIs(c, q),
         DisputeCall(c)', dispute' = dispute, correction \subseteq correction',
         \/ q.pc = "idle"
         \/ call[c].pc # "idle" /\ q.on = call[c].on
         \/ \A d \in Calls : call[d].pc # "idle" /\ call[d].op = "raise" => call[d].on # q.on
  PROVE  DisputeInv'
<1>1. ASSUME NEW d \in Calls, d # c PROVE DisputeCall(d)'
  <2>1. DisputeCall(d) /\ DisputeCall(c) /\ call'[d] = call[d] /\ call'[c] = q
    BY <1>1 DEF DisputeInv, DisputeCalls, CallIs
  <2>2. call[d].pc # "idle" /\ call[d].op = "raise" /\ q.pc # "idle" => q.on # call[d].on
    BY <1>1, <2>1 DEF DisputeCall
  <2> QED
    BY <1>1, <2>1, <2>2 DEF DisputeInv, DisputeCalls, DisputeCall, CallIs
<1>2. DisputeRows'
  BY DEF DisputeInv, DisputeRows, UpheldIsPaid, Raised
<1> QED
  BY <1>1, <1>2 DEF DisputeInv, DisputeCalls, CallIs

LEMMA DisputeLeaves ==
  ASSUME DisputeInv, part = "dispute", part' = part, NEW c \in Calls, Leave(c),
         dispute' = dispute, correction' = correction
  PROVE  DisputeInv'
<1>1. CallIs(c, Idle)
  BY Leaving DEF DisputeInv, DisputeCalls
<1>2. DisputeCall(c)'
  BY <1>1 DEF DisputeCall, CallIs, Idle
<1> QED
  BY <1>1, <1>2, DisputeQuiet DEF Idle

LEMMA DisputeArrival ==
  ASSUME DisputeInv, part = "dispute", part' = part, NEW c \in Calls, DisputeArrives(c)
  PROVE  DisputeInv'
<1>0. CallsShaped /\ dispute' = dispute /\ correction' = correction
  BY DEF DisputeInv, DisputeCalls, DisputeArrives, disputeVars
<1>1. ASSUME NEW op \in {"raise", "review", "resolve", "adminResolve"}, NEW who, NEW d \in Disputes,
             NEW arg, Arrive(c, op, who, d, arg), op = "adminResolve" => arg \in Outcomes,
             IF op = "raise" THEN dispute[d] = None /\ \A e \in Calls : call[e].on # d
             ELSE dispute[d] # None
      PROVE  DisputeInv'
  <2> DEFINE new == [op |-> op, pc |-> "read", who |-> who, on |-> d, arg |-> arg, row |-> None]
  <2>1. CallIs(c, new)
    BY <1>0, <1>1, Arriving
  <2>2. DisputeCall(c)'
    BY <1>0, <1>1, <2>1 DEF DisputeCall, CallIs, DisputeInv, DisputeRows
  <2>3. \A e \in Calls : call[e].pc # "idle" /\ call[e].op = "raise" => call[e].on # new.on
    BY <1>1 DEF DisputeInv, DisputeCalls, DisputeCall
  <2> QED
    BY <1>0, <2>1, <2>2, <2>3, DisputeQuiet
<1>2. CASE PostDispute(c)
  BY <1>1, <1>2 DEF PostDispute
<1>3. CASE PostDisputeReview(c) \/ PostResolve(c)
  BY <1>1, <1>3 DEF PostDisputeReview, PostResolve, Raised
<1>4. CASE PostAdminResolve(c)
  BY <1>1, <1>4 DEF PostAdminResolve, Raised
<1> QED
  BY <1>2, <1>3, <1>4 DEF DisputeArrives

\* A request goes on with a row, which is about to be saved or corrected first.
LEMMA DisputeGoes ==
  ASSUME DisputeInv, part = "dispute", part' = part, NEW c \in Calls, call[c].pc # "idle",
         call[c].op # "raise", NEW pc \in {"correct", "save"}, NEW r \in DisputeRow, Goto(c, pc, r),
         dispute' = dispute, correction \subseteq correction',
         pc = "save" /\ r.resolution = "upheld" => call[c].on \in correction'
  PROVE  DisputeInv'
<1>0. CallsShaped /\ DisputeCall(c)
  BY DEF DisputeInv, DisputeCalls
<1> DEFINE q == call[c]
           new == [op |-> q.op, pc |-> pc, who |-> q.who, on |-> q.on, arg |-> q.arg, row |-> r]
<1>1. CallIs(c, new)
  BY <1>0, Going
<1>2. DisputeCall(c)'
  BY <1>0, <1>1 DEF DisputeCall, CallIs
<1> QED
  BY <1>1, <1>2, DisputeQuiet

\* A row that is stored is one its request may store, or a dispute's first.
LEMMA DisputeStored ==
  ASSUME DisputeInv, part = "dispute", part' = part, NEW c \in Calls, call[c].pc # "idle", Leave(c),
         NEW r \in DisputeRow, correction' = correction,
         dispute' = [dispute EXCEPT ![call[c].on] = r],
         r.resolution = "upheld" => call[c].on \in correction
  PROVE  DisputeInv'
<1> DEFINE k == call[c].on
<1>0. CallsShaped /\ \A d \in Calls : DisputeCall(d)
  BY DEF DisputeInv, DisputeCalls
<1>1. k \in Disputes /\ dispute'[k] = r /\ \A d \in Disputes : d # k => dispute'[d] = dispute[d]
  BY <1>0 DEF DisputeCall, DisputeInv, DisputeRows
<1>2. DisputeRows'
  <2>1. dispute' = [d \in Disputes |-> dispute'[d]]
    BY DEF DisputeInv, DisputeRows
  <2>2. \A d \in Disputes : dispute'[d] # None => dispute'[d] \in DisputeRow
    BY <1>1 DEF DisputeInv, DisputeRows
  <2>3. \A d \in Disputes : dispute'[d] # None /\ dispute'[d].resolution = "upheld" => d \in correction'
    BY <1>1 DEF DisputeInv, DisputeRows, UpheldIsPaid, Raised
  <2> QED
    BY <2>1, <2>2, <2>3 DEF DisputeRows, UpheldIsPaid, Raised
<1>3. CallIs(c, Idle)
  BY <1>0, Leaving
<1>4. ASSUME NEW d \in Calls PROVE DisputeCall(d)'
  <2>1. CASE d = c
    BY <1>3, <2>1 DEF DisputeCall, CallIs, Idle
  <2>2. CASE d # c
    <3>1. DisputeCall(d) /\ DisputeCall(c) /\ call'[d] = call[d]
      BY <1>0, <1>3, <2>2 DEF CallIs
    <3>2. call[d].pc # "idle" /\ call[d].op = "raise" => call[d].on # k
      BY <3>1, <2>2 DEF DisputeCall
    <3>3. call[d].pc # "idle" /\ call[d].op # "raise" => dispute'[call[d].on] \in DisputeRow
      BY <1>1, <3>1 DEF DisputeCall
    <3>4. \A e \in Calls : call'[e].pc # "idle" => call'[e] = call[e]
      BY <1>3 DEF CallIs, Idle
    <3> QED
      BY <1>1, <2>2, <3>1, <3>2, <3>3, <3>4 DEF DisputeCall
  <2> QED
    BY <2>1, <2>2
<1> QED
  BY <1>2, <1>3, <1>4 DEF DisputeInv, DisputeCalls, CallIs

LEMMA DisputeWorks ==
  ASSUME DisputeInv, part = "dispute", part' = part, NEW c \in Calls, DisputeStep(c)
  PROVE  DisputeInv'
<1> DEFINE q == call[c]
<1>0. CallsShaped /\ DisputeCall(c)
  BY DEF DisputeInv, DisputeCalls
<1>1. CASE DisputeArrives(c)
  BY <1>1, DisputeArrival
<1>2. CASE RaiseDispute(c)
  <2>1. CreateDispute \in DisputeRow /\ CreateDispute.resolution # "upheld"
    BY DisputeAssumption DEF CreateDispute, DisputeRow, DisputeAt, Outcomes
  <2> QED
    <3>1. q.pc = "read" /\ Leave(c) /\ correction' = correction
          /\ dispute' = [dispute EXCEPT ![q.on] = CreateDispute]
      BY <1>2 DEF RaiseDispute, At
    <3>2. CreateDispute.resolution = "upheld" => q.on \in correction
      BY <2>1
    <3> QED
      BY <2>1, <3>1, <3>2, DisputeStored
<1>3. ASSUME q.op \in {"review", "resolve", "adminResolve"}, q.pc = "read",
             dispute' = dispute, correction' = correction, NEW made, NEW pc \in {"correct", "save"},
             Decide(c, made, pc),
             \A r \in made : /\ r \in DisputeRow
                             /\ pc = "save" /\ r.resolution = "upheld" => q.on \in correction
      PROVE  DisputeInv'
  BY <1>0, <1>3, DisputeLeaves, DisputeGoes DEF Decide
<1>4. CASE FindOwned(c)
  <2>1. /\ q.op \in {"review", "resolve"} /\ q.pc = "read" /\ q.on \in Disputes
        /\ dispute[q.on] \in DisputeRow
        /\ dispute' = dispute /\ correction' = correction
    BY <1>0, <1>4 DEF FindOwned, At, DisputeCall, disputeVars
  <2>2. PICK made \in {BeginReview(dispute[q.on]), ResolveDispute(dispute[q.on])} :
          Decide(c, made, "save")
    BY <1>4 DEF FindOwned
  <2>3. dispute[q.on].resolution = "upheld" => q.on \in correction
    BY <2>1, DisputeAssumption DEF DisputeInv, DisputeRows, UpheldIsPaid, Raised, DisputeRow
  <2>4. "upheld" \in Outcomes
    BY DEF Outcomes
  <2>5. \A r \in made : r \in DisputeRow /\ r.resolution = dispute[q.on].resolution
    BY <2>1, <2>2, <2>4, DisputeRules
  <2> QED
    BY <1>3, <2>1, <2>2, <2>3, <2>5
<1>5. CASE Adjudicate(c)
  <2>1. /\ q.op = "adminResolve" /\ q.pc = "read" /\ q.arg \in Outcomes
        /\ dispute[q.on] \in DisputeRow
        /\ dispute' = dispute /\ correction' = correction
        /\ Decide(c, AdminResolveDispute(dispute[q.on], q.arg), NextAfter(q.arg))
    BY <1>0, <1>5 DEF Adjudicate, At, DisputeCall, disputeVars
  <2>2. NextAfter(q.arg) \in {"correct", "save"} /\ (NextAfter(q.arg) = "save" => q.arg # "upheld")
    BY DEF NextAfter
  <2> QED
    BY <1>3, <2>1, <2>2, DisputeRules
<1>6. CASE WriteCorrection(c)
  <2>1. /\ q.pc = "correct" /\ q.op = "adminResolve" /\ q.on \in correction' /\ dispute' = dispute
        /\ correction \subseteq correction' /\ Goto(c, "save", q.row) /\ q.row \in DisputeRow
    BY <1>0, <1>6 DEF WriteCorrection, At, DisputeCall
  <2> QED
    BY <2>1, DisputeGoes
<1>7. CASE SaveDispute(c)
  <2>1. /\ q.pc = "save" /\ q.row \in DisputeRow /\ Leave(c) /\ correction' = correction
        /\ q.row.resolution = "upheld" => q.on \in correction
    BY <1>0, <1>7 DEF SaveDispute, DisputeCall
  <2> QED
    BY <1>7, <2>1, DisputeStored, DisputeLeaves DEF SaveDispute, Written
<1> QED
  BY <1>1, <1>2, <1>4, <1>5, <1>6, <1>7 DEF DisputeStep

LEMMA DisputeNext == DisputeInv /\ [Next]_programmeVars => DisputeInv'
<1> SUFFICES ASSUME DisputeInv, [Next]_programmeVars PROVE DisputeInv'
  OBVIOUS
<1>0. part' = part
  BY Happens
<1>1. CASE UNCHANGED <<call, rows>>
  BY <1>0, <1>1 DEF rows, disputeVars, DisputeInv, DisputeRows, UpheldIsPaid, Raised, DisputeCalls,
       CallsShaped, DisputeCall, Free
<1>2. CASE part # "dispute"
  <2>1. UNCHANGED disputeVars
    BY <1>2, Happens DEF OthersKept, rows
  <2> QED
    BY <1>0, <1>2, <2>1 DEF disputeVars, DisputeInv, DisputeRows, UpheldIsPaid, Raised, DisputeCalls
<1>3. ASSUME part = "dispute", NEW c \in Calls, Leave(c), UNCHANGED rows PROVE DisputeInv'
  BY <1>0, <1>3, DisputeLeaves DEF rows, disputeVars
<1>4. ASSUME part = "dispute", NEW c \in Calls, Work(c) PROVE DisputeInv'
  BY <1>0, <1>4, DisputeWorks DEF Work
<1>5. ASSUME part = "dispute", World PROVE FALSE
  BY <1>5 DEF World
<1> QED
  BY <1>1, <1>2, <1>3, <1>4, <1>5, Happens

\* An upheld dispute is in the ledger: however partners and admins race to resolve
\* it, and wherever the process of one of them dies.
THEOREM UpheldDisputesArePaid == Spec => []UpheldIsPaid
<1>1. DisputeInv => UpheldIsPaid
  BY DEF DisputeInv, DisputeRows
<1> QED
  BY <1>1, DisputeInit0, DisputeNext, PTL DEF Spec

---------------------------------------------------------------------------
(* Tickets sold at the door.                                               *)

OrderRow == OrderAt(Nat)
Unsettled == {"read", "check", "order", "issue", "admit", "scan", "settle"}
Settling  == {"issue", "admit", "scan", "settle", "answer"}

\* A sale in the ledger is whole; one that is not stored has left no trace.
SaleRow(k) ==
  /\ sale[k] = None => scans[k] = 0 /\ revenue[k] = None
  /\ revenue[k] # None =>
       /\ IsPaid(k) /\ LegsAreSound(revenue[k], DoorPricing(sale[k]))
       /\ tickets[k] = sale[k].quantity /\ scans[k] = sale[k].quantity

\* How far the sale of a key is when its request is at `pc` with row r: what is
\* about to be written will be, and how many tickets were admitted and recorded.
SaleAt(k, pc, r) ==
  /\ pc = "check" => sale[k] = None
  /\ pc \in {"order"} \cup Settling => r \in OrderRow
  /\ pc \in Unsettled \ {"read"} => revenue[k] = None
  /\ pc = "order" => scans[k] = 0 /\ MayWrite(sale[k], r)
  /\ pc \in Settling => sale[k] = r /\ r.status = "paid"
  /\ pc = "issue" => scans[k] = 0
  /\ pc \in {"admit", "scan"} => scans[k] \in Nat /\ scans[k] < r.quantity
  /\ pc = "admit" => tickets[k] = scans[k]
  /\ pc = "scan" => tickets[k] = scans[k] + 1
  /\ pc \in {"settle", "answer"} => tickets[k] = r.quantity /\ scans[k] = r.quantity

\* A request works on its key alone.
SaleCall(c) ==
  LET q == call[c] IN
  q.pc # "idle" =>
    /\ q.op = "sell" /\ q.on \in Keys /\ q.arg \in 1..Capacity
    /\ q.pc \in Unsettled \cup Settling
    /\ \A d \in Calls : d # c /\ call[d].pc # "idle" => call[d].on # q.on
    /\ SaleAt(q.on, q.pc, q.row)

SaleCalls == part = "doorTicket" => CallsShaped /\ \A c \in Calls : SaleCall(c)

SalesByKey ==
  /\ sale = [k \in Keys |-> sale[k]] /\ tickets = [k \in Keys |-> tickets[k]]
  /\ scans = [k \in Keys |-> scans[k]] /\ revenue = [k \in Keys |-> revenue[k]]

SaleInv == SalesByKey /\ (\A k \in Keys : SaleRow(k)) /\ SaleCalls

LEMMA SaleInit0 == Init => SaleInv
BY DEF Init, DoorTicketInit, SaleInv, SalesByKey, SaleRow, SaleCalls, SaleCall, CallsShaped, Shaped,
       Idle, Free

\* A request changes the rows of its key alone, and no other request works on it.
LEMMA SaleMoves ==
  ASSUME SaleInv, part = "doorTicket", part' = part, NEW c \in Calls, NEW q, NEW k, CallIs(c, q),
         q.pc # "idle" => q.on = k,
         \A d \in Calls : d # c /\ call[d].pc # "idle" => call[d].on # k,
         SalesByKey', SaleRow(k)', SaleCall(c)',
         \A j \in Keys : j # k => /\ sale'[j] = sale[j] /\ tickets'[j] = tickets[j]
                                  /\ scans'[j] = scans[j] /\ revenue'[j] = revenue[j]
  PROVE  SaleInv'
<1>1. ASSUME NEW d \in Calls, d # c PROVE SaleCall(d)'
  <2>1. SaleCall(d) /\ call'[d] = call[d] /\ call'[c] = q
    BY <1>1 DEF SaleInv, SaleCalls, CallIs
  <2>2. CASE call[d].pc = "idle"
    BY <2>1, <2>2 DEF SaleCall
  <2>3. CASE call[d].pc # "idle"
    <3> DEFINE j == call[d].on
    <3>1. /\ j \in Keys /\ j # k /\ sale'[j] = sale[j] /\ tickets'[j] = tickets[j]
          /\ scans'[j] = scans[j] /\ revenue'[j] = revenue[j]
      BY <1>1, <2>1, <2>3 DEF SaleCall
    <3>2. \A e \in Calls : e # d /\ call'[e].pc # "idle" => call'[e].on # j
      BY <2>1, <2>3, <3>1 DEF SaleCall, CallIs
    <3> QED
      BY <2>1, <2>3, <3>1, <3>2 DEF SaleCall, SaleAt, MayWrite
  <2> QED
    BY <2>2, <2>3
<1>2. ASSUME NEW j \in Keys PROVE SaleRow(j)'
  <2>1. SaleRow(j)
    BY DEF SaleInv
  <2> QED
    BY <1>2, <2>1 DEF SaleRow, IsPaid, DoorPricing
<1> QED
  BY <1>1, <1>2 DEF SaleInv, SaleCalls, CallIs

LEMMA SaleLeaves ==
  ASSUME SaleInv, part = "doorTicket", part' = part, NEW c \in Calls, Leave(c), call[c].pc # "idle",
         UNCHANGED <<sale, tickets, scans, revenue>>
  PROVE  SaleInv'
<1>1. CallIs(c, Idle) /\ SaleCall(c)
  BY Leaving DEF SaleInv, SaleCalls
<1>2. SaleCall(c)' /\ SalesByKey'
  BY <1>1 DEF SaleCall, CallIs, Idle, SaleInv, SalesByKey
<1>3. PICK k \in Keys : /\ SaleRow(k)
                        /\ \A d \in Calls : d # c /\ call[d].pc # "idle" => call[d].on # k
  BY <1>1 DEF SaleCall, SaleInv
<1>4. SaleRow(k)'
  BY <1>3 DEF SaleRow, IsPaid, DoorPricing
<1> QED
  BY <1>1, <1>2, <1>3, <1>4, SaleMoves DEF Idle

\* A request goes on with the rows of its key where it should be.
LEMMA SaleGoes ==
  ASSUME SaleInv, part = "doorTicket", part' = part, NEW c \in Calls, call[c].pc # "idle",
         NEW k, k = call[c].on, NEW pc \in Unsettled \cup Settling, NEW r, Goto(c, pc, r),
         SalesByKey', SaleRow(k)', SaleAt(k, pc, r)',
         \A j \in Keys : j # k => /\ sale'[j] = sale[j] /\ tickets'[j] = tickets[j]
                                  /\ scans'[j] = scans[j] /\ revenue'[j] = revenue[j]
  PROVE  SaleInv'
<1> DEFINE q == call[c]
           new == [op |-> q.op, pc |-> pc, who |-> q.who, on |-> q.on, arg |-> q.arg, row |-> r]
<1>0. CallsShaped /\ SaleCall(c)
  BY DEF SaleInv, SaleCalls
<1>1. CallIs(c, new) /\ pc # "idle"
  BY <1>0, Going DEF Unsettled, Settling
<1>2. \A d \in Calls : d # c /\ call[d].pc # "idle" => call[d].on # k
  BY <1>0 DEF SaleCall
<1>3. /\ call'[c].op = "sell" /\ call'[c].pc = pc /\ call'[c].on = k /\ call'[c].row = r
      /\ k \in Keys /\ call'[c].arg \in 1..Capacity
      /\ \A d \in Calls : d # c => call'[d] = call[d]
  BY <1>0, <1>1 DEF SaleCall, CallIs
<1>4. SaleCall(c)'
  BY <1>2, <1>3 DEF SaleCall
<1> QED
  BY <1>1, <1>2, <1>4, SaleMoves

LEMMA SaleArrival ==
  ASSUME SaleInv, part = "doorTicket", part' = part, NEW c \in Calls, PostTicketSale(c)
  PROVE  SaleInv'
<1>0. CallsShaped
  BY DEF SaleInv, SaleCalls
<1>1. PICK k \in Keys, quantity \in 1..Capacity :
        /\ \A d \in Calls : call[d].on # k
        /\ Arrive(c, "sell", "operator", k, quantity) /\ SaleKept
  BY DEF PostTicketSale
<1> DEFINE new == [op |-> "sell", pc |-> "read", who |-> "operator", on |-> k, arg |-> quantity,
                   row |-> None]
<1>2. CallIs(c, new)
  BY <1>0, <1>1, Arriving
<1>3. SalesByKey' /\ SaleRow(k)'
  BY <1>1 DEF SaleKept, SaleInv, SalesByKey, SaleRow, IsPaid, DoorPricing
<1>4. SaleCall(c)'
  BY <1>1, <1>2 DEF SaleCall, SaleAt, CallIs, Unsettled, Settling
<1> QED
  BY <1>1, <1>2, <1>3, <1>4, SaleMoves DEF SaleKept

\* The order's next state, of the same tickets and its version one up.
LEMMA OrderMoves ==
  ASSUME NEW o \in OrderRow, NEW r \in AttachPaymentIntent(o) \cup MarkPaid(o)
  PROVE  r \in OrderRow /\ r.version = o.version + 1
<1>1. ASSUME NEW s \in OrderRow
      PROVE  Bump(s) \in OrderRow /\ Bump(s).version = s.version + 1
  BY DEF OrderRow, OrderAt, Bump
<1>2. /\ [o EXCEPT !.status = "awaiting_payment"] \in OrderRow
      /\ [o EXCEPT !.status = "paid"] \in OrderRow
      /\ [o EXCEPT !.status = "awaiting_payment"].version = o.version
      /\ [o EXCEPT !.status = "paid"].version = o.version
  BY DEF OrderRow, OrderAt
<1>3. \/ r = Bump([o EXCEPT !.status = "awaiting_payment"])
      \/ r = Bump([o EXCEPT !.status = "paid"])
  BY DEF AttachPaymentIntent, MarkPaid, When
<1> QED
  BY <1>1, <1>2, <1>3

LEMMA SaleSaved ==
  ASSUME SaleInv, part = "doorTicket", part' = part, NEW c \in Calls, SaveOrder(c)
  PROVE  SaleInv'
<1>0. CallsShaped /\ SaleCall(c) /\ call[c].pc = "order"
  BY DEF SaleInv, SaleCalls, SaveOrder, At
<1>1. PICK k \in Keys, o \in OrderRow :
        /\ k = call[c].on /\ o = call[c].row /\ SaleAt(k, "order", o) /\ SaleRow(k)
        /\ \A d \in Calls : d # c /\ call[d].pc # "idle" => call[d].on # k
  BY <1>0 DEF SaleCall, SaleInv, SaleAt
<1>2. sale' = [sale EXCEPT ![k] = o] /\ UNCHANGED <<tickets, scans, revenue>>
  BY <1>1 DEF SaveOrder, Written, SaleAt, OnlySale
<1>3. /\ SalesByKey' /\ sale'[k] = o /\ o # None
      /\ \A j \in Keys : j # k => sale'[j] = sale[j]
  BY <1>2, DoorTicketAssumption DEF SaleInv, SalesByKey, OrderRow
<1>4. SaleRow(k)'
  BY <1>1, <1>2, <1>3 DEF SaleAt, SaleRow, Unsettled
<1>5. revenue'[k] = None /\ scans'[k] = 0
  BY <1>1, <1>2 DEF SaleAt, Unsettled
<1>6. CASE o.status = "paid"
  <2>1. Goto(c, "issue", o)
    BY <1>1, <1>6 DEF SaveOrder, AfterPayment
  <2>2. SaleAt(k, "issue", o)'
    BY <1>3, <1>5, <1>6 DEF SaleAt, Unsettled, Settling
  <2> QED
    BY <1>0, <1>1, <1>2, <1>3, <1>4, <2>1, <2>2, SaleGoes DEF Unsettled
<1>7. CASE o.status # "paid"
  <2>1. Decide(c, AttachPaymentIntent(o) \cup MarkPaid(o), "order")
    BY <1>1, <1>7 DEF SaveOrder
  <2>2. CASE Leave(c)
    <3>1. CallIs(c, Idle)
      BY <1>0, <2>2, Leaving
    <3>2. SaleCall(c)'
      BY <3>1 DEF SaleCall, CallIs, Idle
    <3> QED
      BY <1>1, <1>2, <1>3, <1>4, <3>1, <3>2, SaleMoves DEF Idle
  <2>3. ASSUME NEW r \in AttachPaymentIntent(o) \cup MarkPaid(o), Goto(c, "order", r)
        PROVE  SaleInv'
    <3>1. r \in OrderRow /\ r.version = o.version + 1 /\ o.version \in Nat
      BY OrderMoves DEF OrderRow, OrderAt
    <3>2. SaleAt(k, "order", r)'
      BY <1>3, <1>5, <3>1 DEF SaleAt, MayWrite, Unsettled, Settling
    <3> QED
      BY <1>0, <1>1, <1>2, <1>3, <1>4, <2>3, <3>2, SaleGoes DEF Unsettled
  <2> QED
    BY <2>1, <2>2, <2>3 DEF Decide
<1> QED
  BY <1>6, <1>7

\* The legs a sale is settled to add up to its price: SplitsAreSound.
LEMMA LegsSound ==
  ASSUME NEW o \in OrderRow, NEW legs \in Legs(o) PROVE LegsAreSound(legs, DoorPricing(o))
<1>1. o.quantity \in Nat /\ Price \in Nat
  BY DoorTicketAssumption DEF OrderRow, OrderAt
<1>2. DoorPricing(o) \in Nat
  BY <1>1 DEF DoorPricing
<1>3. PICK plan \in Plans, rate \in VenueRates : legs \in LegsAt(o, plan, rate)
  BY DEF Legs
<1> HIDE DEF DoorPricing
<1>4. legs \in SettlementLegs(DoorPricing(o), plan, rate, 0, {})
  BY <1>3 DEF LegsAt
<1>5. {} \in SUBSET Int
  OBVIOUS
<1> QED
  BY <1>2, <1>4, <1>5, SplitsAreSound

LEMMA SaleWorks ==
  ASSUME SaleInv, part = "doorTicket", part' = part, NEW c \in Calls, DoorTicketStep(c)
  PROVE  SaleInv'
<1> DEFINE q == call[c]
<1>1. CASE PostTicketSale(c)
  BY <1>1, SaleArrival
<1>2. CASE SaveOrder(c)
  BY <1>2, SaleSaved
<1>3. ASSUME q.pc # "idle" PROVE DoorTicketStep(c) => SaleInv'
  <2>0. SaleCall(c) /\ CallsShaped
    BY DEF SaleInv, SaleCalls
  <2>1. PICK k \in Keys : /\ k = q.on /\ SaleAt(k, q.pc, q.row) /\ SaleRow(k)
                          /\ \A d \in Calls : d # c /\ call[d].pc # "idle" => call[d].on # k
    BY <1>3, <2>0 DEF SaleCall, SaleInv
  <2>2. CASE FindSale(c)
    <3>1. q.pc = "read" /\ UNCHANGED <<sale, tickets, scans, revenue>>
      BY <2>2 DEF FindSale, At
    <3>2. CASE Leave(c)
      BY <1>3, <3>1, <3>2, SaleLeaves
    <3>3. CASE Goto(c, "check", None)
      <4>1. CASE sale[k] # None
        <5>1. Leave(c)
          BY <2>1, <2>2, <4>1 DEF FindSale
        <5> QED
          BY <1>3, <3>1, <5>1, SaleLeaves
      <4>2. CASE sale[k] = None
        <5>1. SaleAt(k, "check", None)' /\ SaleRow(k)' /\ SalesByKey'
          BY <2>1, <3>1, <4>2 DEF SaleAt, SaleRow, SalesByKey, SaleInv, IsPaid, DoorPricing, Unsettled, Settling
        <5> QED
          BY <1>3, <2>1, <3>1, <3>3, <5>1, SaleGoes DEF Unsettled
      <4> QED
        BY <4>1, <4>2
    <3> QED
      BY <2>2, <3>2, <3>3 DEF FindSale
  <2>3. CASE CheckAvailable(c)
    <3>1. q.pc = "check" /\ UNCHANGED <<sale, tickets, scans, revenue>>
      BY <2>3 DEF CheckAvailable, At, SaleKept
    <3>2. CASE Leave(c)
      BY <1>3, <3>1, <3>2, SaleLeaves
    <3>3. ASSUME Goto(c, "order", CreateOrder(q.arg)) PROVE SaleInv'
      <4>1. PICK quantity \in 1..Capacity : quantity = q.arg
        BY <1>3, <2>0 DEF SaleCall
      <4> DEFINE o == CreateOrder(quantity)
      <4>2. o \in OrderRow /\ o.version = 1
        BY DEF CreateOrder, OrderRow, OrderAt
      <4> HIDE DEF o
      <4>3. SaleAt(k, "order", o)' /\ SaleRow(k)' /\ SalesByKey'
        BY <2>1, <3>1, <4>2 DEF SaleAt, SaleRow, SalesByKey, SaleInv, IsPaid, DoorPricing, MayWrite, Unsettled,
                      Settling
      <4> QED
        BY <1>3, <2>1, <3>1, <3>3, <4>1, <4>3, SaleGoes DEF Unsettled, o
    <3> QED
      BY <2>3, <3>2, <3>3 DEF CheckAvailable, Decide, When
  <2>4. ASSUME q.pc \in {"issue", "admit", "scan", "settle"}
        PROVE  \E o \in OrderRow : /\ o = q.row /\ sale[k] = o /\ o.status = "paid" /\ revenue[k] = None
                                   /\ o.quantity \in Nat \ {0} /\ o # None
    <3>1. q.row \in OrderRow /\ sale[k] = q.row /\ q.row.status = "paid" /\ revenue[k] = None
      BY <2>1, <2>4 DEF SaleAt, Unsettled, Settling
    <3> QED
      BY <3>1, DoorTicketAssumption DEF OrderRow, OrderAt
  <2>5. CASE IssueEntitlements(c)
    <3>1. /\ q.pc = "issue" /\ tickets' = [tickets EXCEPT ![k] = 0] /\ Goto(c, "admit", q.row)
          /\ UNCHANGED <<sale, scans, revenue>> /\ scans[k] = 0
      BY <2>1, <2>5 DEF IssueEntitlements, At, SaleAt
    <3>2. PICK o \in OrderRow : /\ o = q.row /\ sale[k] = o /\ o.status = "paid" /\ revenue[k] = None
                                /\ o.quantity \in Nat \ {0} /\ o # None
      BY <2>4, <3>1
    <3>3. SalesByKey' /\ tickets'[k] = 0 /\ \A j \in Keys : j # k => tickets'[j] = tickets[j]
      BY <3>1 DEF SalesByKey, SaleInv
    <3>4. SaleRow(k)' /\ SaleAt(k, "admit", o)'
      BY <3>1, <3>2, <3>3 DEF SaleAt, SaleRow, Unsettled, Settling
    <3> QED
      BY <1>3, <2>1, <3>1, <3>2, <3>3, <3>4, SaleGoes DEF Unsettled
  <2>6. CASE ClaimAdmission(c)
    <3>1. /\ q.pc = "admit" /\ tickets' = [tickets EXCEPT ![k] = @ + 1] /\ Goto(c, "scan", q.row)
          /\ UNCHANGED <<sale, scans, revenue>> /\ tickets[k] = scans[k]
          /\ scans[k] \in Nat /\ scans[k] < q.row.quantity
      BY <2>1, <2>6 DEF ClaimAdmission, At, SaleAt
    <3>2. PICK o \in OrderRow : /\ o = q.row /\ sale[k] = o /\ o.status = "paid" /\ revenue[k] = None
                                /\ o.quantity \in Nat \ {0} /\ o # None
      BY <2>4, <3>1
    <3>3. /\ SalesByKey' /\ tickets'[k] = scans[k] + 1
          /\ \A j \in Keys : j # k => tickets'[j] = tickets[j]
      BY <3>1 DEF SalesByKey, SaleInv
    <3>4. SaleRow(k)' /\ SaleAt(k, "scan", o)'
      BY <3>1, <3>2, <3>3 DEF SaleAt, SaleRow, Unsettled, Settling
    <3> QED
      BY <1>3, <2>1, <3>1, <3>2, <3>3, <3>4, SaleGoes DEF Unsettled
  <2>7. CASE RecordScan(c)
    <3>1. /\ q.pc = "scan" /\ scans' = [scans EXCEPT ![k] = @ + 1]
          /\ Goto(c, IF tickets[k] < q.row.quantity THEN "admit" ELSE "settle", q.row)
          /\ UNCHANGED <<sale, tickets, revenue>> /\ tickets[k] = scans[k] + 1
          /\ scans[k] \in Nat /\ scans[k] < q.row.quantity
      BY <2>1, <2>7 DEF RecordScan, At, SaleAt
    <3>2. PICK o \in OrderRow : /\ o = q.row /\ sale[k] = o /\ o.status = "paid" /\ revenue[k] = None
                                /\ o.quantity \in Nat \ {0} /\ o # None
      BY <2>4, <3>1
    <3>3. PICK pc \in {"admit", "settle"} : /\ Goto(c, pc, o)
                                            /\ pc = "admit" <=> tickets[k] < o.quantity
      BY <3>1, <3>2
    <3>4. /\ SalesByKey' /\ scans'[k] = scans[k] + 1
          /\ \A j \in Keys : j # k => scans'[j] = scans[j]
      BY <3>1 DEF SalesByKey, SaleInv
    <3>5. SaleRow(k)'
      BY <3>1, <3>2, <3>4 DEF SaleRow
    <3>6. SaleAt(k, pc, o)'
      BY <3>1, <3>2, <3>3, <3>4 DEF SaleAt, Unsettled, Settling
    <3> QED
      BY <1>3, <2>1, <3>1, <3>2, <3>3, <3>4, <3>5, <3>6, SaleGoes DEF Unsettled
  <2>8. CASE SettleOrder(c)
    <3>1. q.pc = "settle" /\ UNCHANGED <<sale, tickets, scans>>
      BY <2>8 DEF SettleOrder, At
    <3>2. PICK o \in OrderRow : /\ o = q.row /\ sale[k] = o /\ o.status = "paid" /\ revenue[k] = None
                                /\ o.quantity \in Nat \ {0} /\ o # None
      BY <2>4, <3>1
    <3>3. CASE Leave(c) /\ UNCHANGED revenue
      BY <1>3, <3>1, <3>3, SaleLeaves
    <3>4. ASSUME NEW legs \in Legs(o), CreateBatch(k, legs), Goto(c, "answer", o)
          PROVE  SaleInv'
      <4>1. revenue' = [revenue EXCEPT ![k] = legs]
        BY <3>2, <3>4 DEF CreateBatch
      <4>2. /\ SalesByKey' /\ revenue'[k] = legs
            /\ \A j \in Keys : j # k => revenue'[j] = revenue[j]
        BY <3>1, <4>1 DEF SalesByKey, SaleInv
      <4>3. tickets[k] = o.quantity /\ scans[k] = o.quantity
        BY <2>1, <3>1, <3>2 DEF SaleAt
      <4>4. LegsAreSound(legs, DoorPricing(o))
        BY <3>4, LegsSound
      <4>5. SaleRow(k)'
        BY <3>1, <3>2, <4>2, <4>3, <4>4 DEF SaleRow, IsPaid, DoorPricing
      <4>6. SaleAt(k, "answer", o)'
        BY <3>1, <3>2, <4>2, <4>3 DEF SaleAt, Unsettled, Settling
      <4> QED
        BY <1>3, <2>1, <3>1, <3>4, <4>2, <4>5, <4>6, SaleGoes DEF Settling
    <3> QED
      BY <2>1, <2>8, <3>2, <3>3, <3>4 DEF SettleOrder
  <2>9. CASE AnswerSale(c)
    BY <1>3, <2>9, SaleLeaves DEF AnswerSale
  <2>10. CASE PostTicketSale(c)
    BY <1>3, <2>10 DEF PostTicketSale, Arrive, Free
  <2> QED
    BY <1>2, <2>2, <2>3, <2>5, <2>6, <2>7, <2>8, <2>9, <2>10 DEF DoorTicketStep
<1>4. PostTicketSale(c) \/ q.pc # "idle"
  BY DEF DoorTicketStep, FindSale, CheckAvailable, SaveOrder, IssueEntitlements, ClaimAdmission,
         RecordScan, SettleOrder, AnswerSale, At
<1> QED
  BY <1>1, <1>3, <1>4

LEMMA SaleNext == SaleInv /\ [Next]_programmeVars => SaleInv'
<1> SUFFICES ASSUME SaleInv, [Next]_programmeVars PROVE SaleInv'
  OBVIOUS
<1>0. part' = part
  BY Happens
<1>k. UNCHANGED doorTicketVars => SalesByKey' /\ \A k \in Keys : SaleRow(k)'
  BY DEF doorTicketVars, SaleInv, SalesByKey, SaleRow, IsPaid, DoorPricing
<1>1. CASE UNCHANGED <<call, rows>>
  BY <1>0, <1>1, <1>k DEF rows, doorTicketVars, SaleInv, SaleCalls, CallsShaped, SaleCall, SaleAt,
       MayWrite, Free
<1>2. CASE part # "doorTicket"
  <2>1. UNCHANGED doorTicketVars
    BY <1>2, Happens DEF OthersKept, rows
  <2> QED
    BY <1>0, <1>2, <1>k, <2>1 DEF SaleInv, SaleCalls
<1>3. ASSUME part = "doorTicket", NEW c \in Calls, ~Free(c), Leave(c), UNCHANGED rows PROVE SaleInv'
  BY <1>0, <1>3, SaleLeaves DEF rows, doorTicketVars, Free
<1>4. ASSUME part = "doorTicket", NEW c \in Calls, Work(c) PROVE SaleInv'
  BY <1>0, <1>4, SaleWorks DEF Work
<1>5. ASSUME part = "doorTicket", World PROVE FALSE
  BY <1>5 DEF World
<1> QED
  BY <1>1, <1>2, <1>3, <1>4, <1>5, Happens

\* "A venue's numbers add up at the end of the night": what is in the finance ledger
\* adds up to its price and was admitted and recorded guest by guest, for any price
\* and number of guests, wherever a sale breaks off and however often it is sent.
THEOREM SettledSalesAreWholeCorrect == Spec => []SettledSalesAreWhole
<1>1. SaleInv => SettledSalesAreWhole
  BY DEF SaleInv, SaleRow, SettledSalesAreWhole
<1> QED
  BY <1>1, SaleInit0, SaleNext, PTL DEF Spec

---------------------------------------------------------------------------
(* Support tickets.                                                        *)

TicketRow == TicketAt(Nat \ {0})

\* The next version of a ticket, from which nothing was taken.
Grows(t, r) ==
  /\ r \in TicketRow /\ r.version = t.version + 1
  /\ t.messages \subseteq r.messages /\ t.mergedFrom \subseteq r.mergedFrom

\* What an operation on one ticket makes of it: a ticket that has been merged stays
\* as it is but for its notes, its links and its deletion.
Follows(t, r) ==
  /\ Grows(t, r) /\ r.mergedInto = t.mergedInto
  /\ t.status = "closed" /\ t.mergedInto # None => r.status = "closed" /\ r.messages = t.messages

\* What a merge into p makes of a duplicate.
Merges(t, r, p) ==
  /\ Grows(t, r) /\ r.messages = t.messages
  /\ t.mergedInto = None /\ r.mergedInto = p /\ r.status = "closed"

\* A row about to be saved was made from the stored one, or will be refused.
IsLate(t, r) == t \in TicketRow /\ r \in TicketRow /\ 1 < r.version /\ r.version <= t.version

\* What the desk makes of a ticket, and what a message makes of it.
DeskRows(t) ==
  AddInternalNote(t) \cup LinkTicket(t) \cup ChangePriority(t) \cup AssignTicket(t)
    \cup EscalateTicket(t) \cup ResolveTicket(t) \cup CloseTicket(t) \cup ReopenTicket(t)
    \cup DeleteTicket(t) \cup RestoreTicket(t)
ThreadRows(t, m) == AddCustomerMessage(t, m) \cup AddAdminReply(t, m)

LEMMA TicketRules ==
  ASSUME NEW t \in TicketRow, NEW m, NEW r, r \in DeskRows(t) \/ (m \in Messages /\ r \in ThreadRows(t, m))
  PROVE  Follows(t, r)
<1> DEFINE Kept(s) == /\ s \in TicketRow /\ s.version = t.version
                      /\ t.messages \subseteq s.messages /\ s.mergedFrom = t.mergedFrom
                      /\ s.mergedInto = t.mergedInto
<1>1. ASSUME NEW s, Kept(s),
             t.status = "closed" /\ t.mergedInto # None => s.status = "closed" /\ s.messages = t.messages,
             r = Bump(s)
      PROVE  Follows(t, r)
  <2>1. /\ Bump(s) \in TicketRow /\ Bump(s).version = s.version + 1 /\ Bump(s).messages = s.messages
        /\ Bump(s).mergedFrom = s.mergedFrom /\ Bump(s).mergedInto = s.mergedInto
        /\ Bump(s).status = s.status
    BY <1>1 DEF TicketRow, TicketAt, Bump
  <2> QED
    BY <1>1, <2>1 DEF Follows, Grows
<1>2. CASE r \in AddInternalNote(t) \cup LinkTicket(t) \cup ChangePriority(t)
  BY <1>1, <1>2 DEF AddInternalNote, LinkTicket, ChangePriority, When
<1>3. ASSUME NEW messages \in SUBSET Messages, t.messages \subseteq messages,
             NEW status \in {"open", "in_progress", "waiting_on_customer", "escalated", "resolved", "closed"},
             r = Bump([t EXCEPT !.messages = messages, !.status = status]),
             t.status # "closed"
      PROVE  Follows(t, r)
  <2>1. Kept([t EXCEPT !.messages = messages, !.status = status])
    BY <1>3 DEF TicketRow, TicketAt
  <2> QED
    BY <1>1, <1>3, <2>1
<1>4. CASE m \in Messages /\ r \in ThreadRows(t, m)
  <2>1. t.messages \cup {m} \in SUBSET Messages /\ t.status \in {"open", "in_progress",
          "waiting_on_customer", "escalated", "resolved", "closed"}
    BY <1>4 DEF TicketRow, TicketAt
  <2>2. IsLiveTicket(t) => t.status # "closed"
    BY DEF IsLiveTicket, IsTerminal
  <2> QED
    BY <1>3, <1>4, <2>1, <2>2 DEF ThreadRows, AddCustomerMessage, AddAdminReply, When
<1>5. ASSUME NEW status \in {"open", "in_progress", "waiting_on_customer", "escalated", "resolved", "closed"},
             r = Bump([t EXCEPT !.status = status]), status = "closed" \/ t.status # "closed" \/ t.mergedInto = None
      PROVE  Follows(t, r)
  <2>1. Kept([t EXCEPT !.status = status])
        /\ [t EXCEPT !.status = status].messages = t.messages
        /\ [t EXCEPT !.status = status].status = status
    BY <1>5 DEF TicketRow, TicketAt
  <2> QED
    BY <1>1, <1>5, <2>1
<1>6. CASE r \in AssignTicket(t) \cup EscalateTicket(t) \cup ResolveTicket(t)
  <2>1. t.status \in {"open", "in_progress", "waiting_on_customer", "escalated", "resolved", "closed"}
    BY DEF TicketRow, TicketAt
  <2>2. IsLiveTicket(t) => t.status # "closed"
    BY DEF IsLiveTicket, IsTerminal
  <2> QED
    BY <1>5, <1>6, <2>1, <2>2 DEF AssignTicket, EscalateTicket, ResolveTicket, When
<1>7. CASE r \in CloseTicket(t) \cup ReopenTicket(t)
  BY <1>5, <1>7 DEF CloseTicket, ReopenTicket, When
<1>8. CASE r \in DeleteTicket(t) \cup RestoreTicket(t)
  <2>1. ASSUME NEW b \in BOOLEAN
        PROVE  LET s == [t EXCEPT !.deleted = b] IN
               Kept(s) /\ s.messages = t.messages /\ s.status = t.status
    BY DEF TicketRow, TicketAt
  <2>2. PICK b \in BOOLEAN : r = Bump([t EXCEPT !.deleted = b])
    BY <1>8 DEF DeleteTicket, RestoreTicket, When
  <2> QED
    BY <1>1, <2>1, <2>2
<1> QED
  BY <1>2, <1>4, <1>6, <1>7, <1>8 DEF DeskRows

\* A merge takes nothing from the primary, which lists the duplicate and has what was
\* written on it; the duplicate is closed.
LEMMA MergeRule ==
  ASSUME NEW p \in Tickets, NEW d \in Tickets, NEW primary \in TicketRow, NEW duplicate \in TicketRow,
         NEW r \in MergeDuplicateTicket(p, primary, d, duplicate)
  PROVE  /\ p # d /\ Follows(primary, r.primary) /\ Merges(duplicate, r.duplicate, p)
         /\ d \in r.primary.mergedFrom /\ r.duplicate.messages \subseteq r.primary.messages
<1> DEFINE s == [primary EXCEPT !.messages = @ \cup duplicate.messages, !.mergedFrom = @ \cup {d}]
           u == [duplicate EXCEPT !.status = "closed", !.mergedInto = p]
<1>1. /\ p # d /\ primary.mergedInto = None /\ duplicate.mergedInto = None
      /\ r = [primary |-> Bump(s), duplicate |-> Bump(u)]
  BY DEF MergeDuplicateTicket, When
<1>2. /\ s \in TicketRow /\ s.version = primary.version /\ s.mergedInto = primary.mergedInto
      /\ s.messages = primary.messages \cup duplicate.messages /\ s.mergedFrom = primary.mergedFrom \cup {d}
  BY DEF TicketRow, TicketAt
<1>3. /\ u \in TicketRow /\ u.version = duplicate.version /\ u.mergedInto = p /\ u.status = "closed"
      /\ u.messages = duplicate.messages /\ u.mergedFrom = duplicate.mergedFrom
  BY DEF TicketRow, TicketAt
<1> HIDE DEF s, u
<1>4. ASSUME NEW v \in TicketRow
      PROVE  /\ Bump(v) \in TicketRow /\ Bump(v).version = v.version + 1 /\ Bump(v).messages = v.messages
             /\ Bump(v).mergedFrom = v.mergedFrom /\ Bump(v).mergedInto = v.mergedInto
             /\ Bump(v).status = v.status
  BY DEF TicketRow, TicketAt, Bump
<1>5. r.primary = Bump(s) /\ r.duplicate = Bump(u)
  BY <1>1
<1>6. Follows(primary, r.primary)
  BY <1>1, <1>2, <1>4, <1>5 DEF Follows, Grows
<1>7. Merges(duplicate, r.duplicate, p)
  BY <1>1, <1>3, <1>4, <1>5 DEF Merges, Grows
<1> QED
  BY <1>1, <1>2, <1>3, <1>4, <1>5, <1>6, <1>7

\* How far a merge of d into p is: what it read or is about to save is the row as it
\* stands or older; the primary is saved before the duplicate is.
MergeAt(p, d, pc, r) ==
  /\ d \in Tickets /\ ticket[d] \in TicketRow
  /\ pc \in {"read", "duplicate", "savePrimary", "saveDuplicate"}
  /\ pc = "duplicate" => r \in TicketRow /\ (r = ticket[p] \/ r.version < ticket[p].version)
  /\ pc \in {"savePrimary", "saveDuplicate"} =>
       p # d /\ (IsLate(ticket[d], r.duplicate) \/ Merges(ticket[d], r.duplicate, p))
  /\ pc = "savePrimary" =>
       /\ IsLate(ticket[p], r.primary) \/ Follows(ticket[p], r.primary)
       /\ d \in r.primary.mergedFrom /\ r.duplicate.messages \subseteq r.primary.messages
  /\ pc = "saveDuplicate" =>
       d \in ticket[p].mergedFrom /\ r.duplicate.messages \subseteq ticket[p].messages

\* What a request about a ticket knows.  The id of a new ticket is its own.
SupportAt(c, q) ==
  /\ q.on \in Tickets
  /\ q.op = "submit" =>
       /\ q.pc = "read" /\ ticket[q.on] = None
       /\ \A d \in Calls : d # c /\ call[d].pc # "idle" => call[d].on # q.on
  /\ q.op # "submit" => ticket[q.on] \in TicketRow
  /\ q.op \in {"message", "reply"} => q.arg \in Messages
  /\ q.op # "merge" /\ q.pc = "save" =>
       IsLate(ticket[q.on], q.row) \/ Follows(ticket[q.on], q.row)
  /\ q.op = "merge" => MergeAt(q.on, q.arg, q.pc, q.row)

SupportCall(c) == call[c].pc # "idle" => SupportAt(c, call[c])

SupportCalls == part = "support" => CallsShaped /\ \A c \in Calls : SupportCall(c)

\* A ticket that was merged is closed, and its primary has all of it.
MergedRow(d) ==
  ticket[d] \in TicketRow /\ ticket[d].mergedInto # None =>
    LET p == ticket[d].mergedInto IN
    /\ ticket[p] \in TicketRow /\ ticket[d].status = "closed" /\ d \in ticket[p].mergedFrom
    /\ ticket[d].messages \subseteq ticket[p].messages

TicketRows ==
  /\ ticket = [t \in Tickets |-> ticket[t]]
  /\ \A t \in Tickets : (ticket[t] = None \/ ticket[t] \in TicketRow) /\ MergedRow(t)

SupportInv == TicketRows /\ SupportCalls

LEMMA SupportInit0 == Init => SupportInv
BY SupportAssumption DEF Init, SupportInit, SupportInv, TicketRows, MergedRow, TicketRow, TicketAt, SupportCalls,
   SupportCall, CallsShaped, Shaped, Idle, Free

LEMMA NoTicket == None \notin TicketRow
BY SupportAssumption DEF TicketRow, TicketAt

\* The ticket a request is about was not the new one of another.
LEMMA OwnTicket ==
  ASSUME SupportInv, part = "support", NEW c \in Calls, NEW d \in Calls, d # c,
         call[c].pc # "idle", call[d].pc # "idle"
  PROVE  call[d].op = "submit" => call[c].on # call[d].on
BY DEF SupportInv, SupportCalls, SupportCall, SupportAt

LEMMA SupportQuiet ==
  ASSUME SupportInv, part = "support", part' = part, NEW c \in Calls, NEW q, CallIs(c, q),
         SupportCall(c)', ticket' = ticket,
         \/ q.pc = "idle"
         \/ call[c].pc # "idle" /\ q.on = call[c].on
         \/ \A d \in Calls : call[d].pc # "idle" /\ call[d].op = "submit" => call[d].on # q.on
  PROVE  SupportInv'
<1>1. ASSUME NEW d \in Calls, d # c PROVE SupportCall(d)'
  <2>1. SupportCall(d) /\ call'[d] = call[d] /\ call'[c] = q
    BY <1>1 DEF SupportInv, SupportCalls, CallIs
  <2>2. call[d].pc # "idle" /\ call[d].op = "submit" /\ q.pc # "idle" => q.on # call[d].on
    BY <1>1, OwnTicket
  <2>3. call[d].pc # "idle" /\ call[d].op = "submit" =>
          \A e \in Calls : e # d /\ call'[e].pc # "idle" => call'[e].on # call[d].on
    BY <2>1, <2>2 DEF CallIs, SupportCall, SupportAt
  <2> QED
    BY <2>1, <2>3 DEF SupportCall, SupportAt, MergeAt
<1>2. TicketRows'
  BY DEF SupportInv, TicketRows, MergedRow
<1> QED
  BY <1>1, <1>2 DEF SupportInv, SupportCalls, CallIs

LEMMA SupportLeaves ==
  ASSUME SupportInv, part = "support", part' = part, NEW c \in Calls, Leave(c), ticket' = ticket
  PROVE  SupportInv'
<1>1. CallIs(c, Idle)
  BY Leaving DEF SupportInv, SupportCalls
<1>2. SupportCall(c)'
  BY <1>1 DEF SupportCall, CallIs, Idle
<1> QED
  BY <1>1, <1>2, SupportQuiet DEF Idle

\* Rows made from an older version are refused once a newer one is stored.
LEMMA GrownTicket ==
  ASSUME NEW t \in TicketRow, NEW u \in TicketRow, Grows(t, u)
  PROVE  /\ \A r : IsLate(t, r) \/ Follows(t, r) => IsLate(u, r)
         /\ \A r, p : Merges(t, r, p) => IsLate(u, r)
<1>1. t.version \in Nat \ {0} /\ u.version \in Nat \ {0} /\ u.version = t.version + 1
  BY DEF Grows, TicketRow, TicketAt
<1>2. \A r \in TicketRow : r.version \in Nat
  BY DEF TicketRow, TicketAt
<1> QED
  BY <1>1, <1>2 DEF IsLate, Follows, Merges, Grows

\* A row is stored: a new ticket, or the next version of one, from which nothing was
\* taken; if it is the duplicate of a merge, its primary has all of it.
LEMMA SupportStored ==
  ASSUME SupportInv, part = "support", part' = part, NEW c \in Calls, NEW q, CallIs(c, q),
         SupportCall(c)', NEW k \in Tickets, k = call[c].on \/ ticket[k] # None,
         call[c].pc # "idle", q.pc # "idle" => q.on = call[c].on /\ q.op = call[c].op /\ q.op # "submit",
         NEW r \in TicketRow, ticket' = [ticket EXCEPT ![k] = r],
         \/ ticket[k] = None /\ call[c].op = "submit" /\ r.mergedInto = None
         \/ ticket[k] \in TicketRow /\ Follows(ticket[k], r)
         \/ /\ ticket[k] \in TicketRow /\ Grows(ticket[k], r)
            /\ r.mergedInto # None =>
                 /\ r.mergedInto # k /\ ticket[r.mergedInto] \in TicketRow /\ r.status = "closed"
                 /\ k \in ticket[r.mergedInto].mergedFrom
                 /\ r.messages \subseteq ticket[r.mergedInto].messages
  PROVE  SupportInv'
<1>0. CallsShaped /\ SupportCall(c) /\ TicketRows /\ None \notin TicketRow
  BY NoTicket DEF SupportInv, SupportCalls
<1>1. /\ ticket' = [t \in Tickets |-> ticket'[t]] /\ ticket'[k] = r
      /\ \A t \in Tickets : t # k => ticket'[t] = ticket[t]
  BY <1>0 DEF TicketRows
<1>2. ticket[k] # None => ticket[k] \in TicketRow /\ Grows(ticket[k], r)
  BY <1>0 DEF Follows
<1>3. \A t \in Tickets : ticket[t] \in TicketRow =>
        /\ ticket'[t] \in TicketRow
        /\ ticket[t].mergedFrom \subseteq ticket'[t].mergedFrom
        /\ ticket[t].messages \subseteq ticket'[t].messages
  BY <1>0, <1>1, <1>2 DEF Grows
<1>4. ASSUME NEW t \in Tickets PROVE MergedRow(t)'
  <2>1. CASE t # k
    <3>1. ticket[t] \in TicketRow /\ ticket[t].mergedInto # None => ticket[t].mergedInto \in Tickets
      BY DEF TicketRow, TicketAt
    <3> QED
      BY <1>0, <1>1, <1>3, <2>1, <3>1 DEF TicketRows, MergedRow
  <2>2. CASE t = k
    <3>1. r.mergedInto # None => r.mergedInto \in Tickets
      BY DEF TicketRow, TicketAt
    <3>2. CASE ticket[k] \in TicketRow /\ Follows(ticket[k], r)
      <4>1. SUFFICES ASSUME r.mergedInto # None PROVE MergedRow(k)'
        BY <1>1, <2>2 DEF MergedRow
      <4>2. /\ ticket[k].mergedInto = r.mergedInto /\ ticket[r.mergedInto] \in TicketRow
            /\ ticket[k].status = "closed" /\ k \in ticket[r.mergedInto].mergedFrom
            /\ ticket[k].messages \subseteq ticket[r.mergedInto].messages
        BY <1>0, <3>2, <4>1 DEF TicketRows, MergedRow, Follows
      <4>3. r.status = "closed" /\ r.messages = ticket[k].messages
        BY <3>2, <4>1, <4>2 DEF Follows
      <4> QED
        BY <1>1, <1>3, <3>1, <4>1, <4>2, <4>3 DEF MergedRow
    <3> QED
      BY <1>1, <1>3, <2>2, <3>1, <3>2 DEF MergedRow
  <2> QED
    BY <2>1, <2>2
<1>5. TicketRows'
  BY <1>0, <1>1, <1>4 DEF TicketRows
<1>6. ASSUME NEW d \in Calls, d # c PROVE SupportCall(d)'
  <2>1. SupportCall(d) /\ call'[d] = call[d] /\ call'[c] = q
    BY <1>6 DEF SupportInv, SupportCalls, CallIs
  <2>2. CASE call[d].pc = "idle"
    BY <2>1, <2>2 DEF SupportCall
  <2>3. CASE call[d].pc # "idle"
    <3> DEFINE x == call[d]
    <3>1. SupportAt(d, x) /\ x.on \in Tickets
      BY <2>1, <2>3 DEF SupportCall, SupportAt
    <3>2. x.op = "submit" => /\ ticket'[x.on] = None
                             /\ \A e \in Calls : e # d /\ call'[e].pc # "idle" => call'[e].on # x.on
      <4>1. x.op = "submit" => x.on # k
        BY <1>6, <2>3, <3>1, OwnTicket DEF SupportAt
      <4> QED
        BY <1>1, <1>6, <2>1, <2>3, <3>1, <4>1, OwnTicket DEF SupportAt, CallIs
    <3>3. x.op # "submit" => ticket'[x.on] \in TicketRow
      BY <1>3, <3>1 DEF SupportAt
    <3>4. x.op # "merge" /\ x.pc = "save" => IsLate(ticket'[x.on], x.row) \/ Follows(ticket'[x.on], x.row)
      BY <1>1, <1>2, <2>1, <3>1, <1>0, GrownTicket DEF SupportAt
    <3>5. x.op = "merge" => /\ x.arg \in Tickets /\ ticket'[x.arg] \in TicketRow
                            /\ x.pc \in {"read", "duplicate", "savePrimary", "saveDuplicate"}
      BY <1>3, <3>1 DEF SupportAt, MergeAt
    <3>6. x.op = "merge" /\ x.pc = "duplicate" =>
            x.row \in TicketRow /\ (x.row = ticket'[x.on] \/ x.row.version < ticket'[x.on].version)
      <4>1. ticket[x.on] \in TicketRow => ticket[x.on].version \in Nat
        BY DEF TicketRow, TicketAt
      <4>2. x.row \in TicketRow => x.row.version \in Nat
        BY DEF TicketRow, TicketAt
      <4> QED
        BY <1>0, <1>1, <1>2, <3>1, <4>1, <4>2 DEF SupportAt, MergeAt, Grows
    <3>7. x.op = "merge" /\ x.pc \in {"savePrimary", "saveDuplicate"} =>
            /\ x.on # x.arg
            /\ IsLate(ticket'[x.arg], x.row.duplicate) \/ Merges(ticket'[x.arg], x.row.duplicate, x.on)
      BY <1>0, <1>1, <1>2, <3>1, GrownTicket DEF SupportAt, MergeAt
    <3>8. x.op = "merge" /\ x.pc = "savePrimary" =>
            /\ IsLate(ticket'[x.on], x.row.primary) \/ Follows(ticket'[x.on], x.row.primary)
            /\ x.arg \in x.row.primary.mergedFrom /\ x.row.duplicate.messages \subseteq x.row.primary.messages
      BY <1>0, <1>1, <1>2, <3>1, GrownTicket DEF SupportAt, MergeAt
    <3>9. x.op = "merge" /\ x.pc = "saveDuplicate" =>
            x.arg \in ticket'[x.on].mergedFrom /\ x.row.duplicate.messages \subseteq ticket'[x.on].messages
      BY <1>3, <3>1 DEF SupportAt, MergeAt
    <3>10. x.op = "merge" => MergeAt(x.on, x.arg, x.pc, x.row)'
      BY <2>1, <3>5, <3>6, <3>7, <3>8, <3>9 DEF MergeAt
    <3> QED
      BY <2>1, <3>1, <3>2, <3>3, <3>4, <3>10 DEF SupportCall, SupportAt
  <2> QED
    BY <2>2, <2>3
<1> QED
  BY <1>5, <1>6 DEF SupportInv, SupportCalls, CallIs

SingleTicketOps == {"message", "reply", "note", "link", "priority", "assign", "escalate", "resolve",
                    "close", "reopen", "delete", "restore"}

LEMMA SupportArrival ==
  ASSUME SupportInv, part = "support", part' = part, NEW c \in Calls, SupportArrives(c)
  PROVE  SupportInv'
<1>0. CallsShaped /\ ticket' = ticket /\ None \notin TicketRow /\ TicketRows
  BY NoTicket DEF SupportInv, SupportCalls, SupportArrives
<1>1. ASSUME NEW op \in {"submit", "merge"} \cup SingleTicketOps, NEW who, NEW t \in Tickets, NEW arg,
             Arrive(c, op, who, t, arg),
             op \in {"message", "reply"} => arg \in Messages,
             op = "merge" => arg \in Opened,
             IF op = "submit" THEN ticket[t] = None /\ \A e \in Calls : call[e].on # t
             ELSE ticket[t] # None
      PROVE  SupportInv'
  <2> DEFINE new == [op |-> op, pc |-> "read", who |-> who, on |-> t, arg |-> arg, row |-> None]
  <2>1. CallIs(c, new)
    BY <1>0, <1>1, Arriving
  <2>2. op # "submit" => ticket[t] \in TicketRow
    BY <1>0, <1>1 DEF TicketRows
  <2>3. op = "merge" => arg \in Tickets /\ ticket[arg] \in TicketRow
    BY <1>0, <1>1 DEF TicketRows, Opened
  <2>4. SupportAt(c, new)'
    BY <1>0, <1>1, <2>1, <2>2, <2>3 DEF SupportAt, MergeAt, CallIs
  <2>5. SupportCall(c)'
    BY <2>1, <2>4 DEF SupportCall, CallIs
  <2>6. \A e \in Calls : call[e].pc # "idle" /\ call[e].op = "submit" => call[e].on # new.on
    BY <1>1 DEF SupportInv, SupportCalls, SupportCall, SupportAt
  <2> QED
    BY <1>0, <2>1, <2>5, <2>6, SupportQuiet
<1>2. CASE PostTicket(c)
  BY <1>1, <1>2 DEF PostTicket
<1>3. CASE PostMessage(c)
  BY <1>1, <1>3 DEF PostMessage, Opened, Unsent, SingleTicketOps
<1>4. CASE PostReply(c)
  BY <1>1, <1>4 DEF PostReply, Opened, Unsent, SingleTicketOps
<1>5. ASSUME NEW op \in SingleTicketOps \ {"message", "reply"}, PostDesk(c, op) PROVE SupportInv'
  BY <1>1, <1>5 DEF PostDesk, Opened, SingleTicketOps
<1>6. CASE PostNote(c) \/ PostLink(c) \/ PatchPriority(c) \/ PostAssign(c) \/ PostResolution(c)
           \/ DeleteThread(c) \/ PostTransition(c)
  BY <1>5, <1>6 DEF PostNote, PostLink, PatchPriority, PostAssign, PostResolution, DeleteThread,
     PostTransition, SingleTicketOps
<1>7. CASE PostMerge(c)
  BY <1>1, <1>7 DEF PostMerge, Opened
<1> QED
  BY <1>2, <1>3, <1>4, <1>6, <1>7 DEF SupportArrives

\* A request goes on with what it now knows.
LEMMA SupportGoes ==
  ASSUME SupportInv, part = "support", part' = part, NEW c \in Calls, call[c].pc # "idle",
         call[c].op # "submit", NEW pc, pc # "idle", NEW r, Goto(c, pc, r), ticket' = ticket,
         LET q == call[c] IN
         /\ q.op # "merge" /\ pc = "save" => Follows(ticket[q.on], r)
         /\ q.op = "merge" => MergeAt(q.on, q.arg, pc, r)
  PROVE  SupportInv'
<1> DEFINE q == call[c]
           new == [op |-> q.op, pc |-> pc, who |-> q.who, on |-> q.on, arg |-> q.arg, row |-> r]
<1>0. CallsShaped /\ SupportAt(c, q)
  BY DEF SupportInv, SupportCalls, SupportCall
<1>1. CallIs(c, new)
  BY <1>0, Going
<1>2. SupportAt(c, new)
  BY <1>0 DEF SupportAt
<1>3. SupportAt(c, new)'
  BY <1>0, <1>1, <1>2 DEF SupportAt, MergeAt, CallIs
<1>4. SupportCall(c)'
  BY <1>1, <1>3 DEF SupportCall, CallIs
<1> QED
  BY <1>1, <1>4, SupportQuiet

\* A ticket is read and its next version decided.
LEMMA SupportRuled ==
  ASSUME SupportInv, part = "support", part' = part, NEW c \in Calls, call[c].pc = "read",
         call[c].op \in SingleTicketOps, NEW made, ticket' = ticket,
         Leave(c) \/ Decide(c, made, "save"),
         \/ made \subseteq DeskRows(ticket[call[c].on])
         \/ /\ call[c].arg \in Messages
            /\ made \subseteq ThreadRows(ticket[call[c].on], call[c].arg)
  PROVE  SupportInv'
<1>1. SupportAt(c, call[c])
  BY DEF SupportInv, SupportCalls, SupportCall
<1>2. ticket[call[c].on] \in TicketRow
  BY <1>1 DEF SupportAt, SingleTicketOps
<1>3. \A r \in made : Follows(ticket[call[c].on], r)
  BY <1>2, TicketRules
<1>4. ASSUME NEW r \in made, Goto(c, "save", r) PROVE SupportInv'
  BY <1>3, <1>4, SupportGoes DEF SingleTicketOps
<1> QED
  BY <1>4, SupportLeaves DEF Decide

\* A row that may be written is a first version or the one after what is stored.
LEMMA MayWriteRow ==
  ASSUME NEW t \in TicketRow, NEW r, IsLate(t, r) \/ Grows(t, r)
  PROVE  MayWrite(t, r) <=> Grows(t, r) /\ ~IsLate(t, r)
<1>1. t.version \in Nat \ {0} /\ r \in TicketRow /\ r.version \in Nat \ {0}
  BY DEF IsLate, Grows, TicketRow, TicketAt
<1>2. t # None
  BY NoTicket
<1> QED
  BY <1>1, <1>2 DEF IsLate, Grows, MayWrite

LEMMA SupportSaved ==
  ASSUME SupportInv, part = "support", part' = part, NEW c \in Calls, SaveTicket(c)
  PROVE  SupportInv'
<1> DEFINE k == call[c].on
           r == call[c].row
<1>0. /\ CallsShaped /\ SupportAt(c, call[c]) /\ call[c].pc = "save" /\ call[c].op # "merge" /\ Leave(c)
      /\ ticket' = Written(ticket, k, r)
  BY DEF SupportInv, SupportCalls, SupportCall, SaveTicket
<1>1. call[c].op # "submit" /\ k \in Tickets /\ ticket[k] \in TicketRow
      /\ (IsLate(ticket[k], r) \/ Follows(ticket[k], r))
  BY <1>0 DEF SupportAt
<1>2. CASE ~MayWrite(ticket[k], r)
  BY <1>0, <1>2, SupportLeaves DEF Written
<1>3. CASE MayWrite(ticket[k], r)
  <2>1. Follows(ticket[k], r) /\ r \in TicketRow
    BY <1>1, <1>3, MayWriteRow DEF Follows, Grows
  <2>2. ticket' = [ticket EXCEPT ![k] = r]
    BY <1>0, <1>3 DEF Written
  <2>3. CallIs(c, Idle)
    BY <1>0, Leaving
  <2>4. SupportCall(c)'
    BY <2>3 DEF SupportCall, CallIs, Idle
  <2>5. k = call[c].on /\ call[c].pc # "idle" /\ Idle.pc = "idle"
    BY <1>0, IdleShaped
  <2> HIDE DEF k, r
  <2> QED
    BY <1>1, <2>1, <2>2, <2>3, <2>4, <2>5, SupportStored
<1> QED
  BY <1>2, <1>3

\* A merge reads the primary and then the duplicate.
LEMMA MergeReads ==
  ASSUME SupportInv, part = "support", part' = part, NEW c \in Calls,
         ReadPrimary(c) \/ ReadDuplicate(c)
  PROVE  SupportInv'
<1> DEFINE p == call[c].on
           d == call[c].arg
<1>0. /\ call[c].op = "merge" /\ call[c].pc # "idle" /\ SupportAt(c, call[c]) /\ ticket' = ticket
  BY DEF SupportInv, SupportCalls, SupportCall, ReadPrimary, ReadDuplicate, At
<1>1. /\ p \in Tickets /\ ticket[p] \in TicketRow /\ MergeAt(p, d, call[c].pc, call[c].row)
  BY <1>0 DEF SupportAt
<1>2. CASE ReadPrimary(c)
  <2>1. Leave(c) \/ Goto(c, "duplicate", ticket[p])
    BY <1>2 DEF ReadPrimary
  <2>2. MergeAt(p, d, "duplicate", ticket[p])
    BY <1>1 DEF MergeAt
  <2> QED
    BY <1>0, <2>1, <2>2, SupportLeaves, SupportGoes
<1>3. CASE ReadDuplicate(c)
  <2>1. PICK row \in TicketRow : /\ row = call[c].row /\ call[c].pc = "duplicate"
                                 /\ row = ticket[p] \/ row.version < ticket[p].version
    BY <1>1, <1>3 DEF ReadDuplicate, At, MergeAt
  <2>2. d \in Tickets /\ ticket[d] \in TicketRow
    BY <1>1 DEF MergeAt
  <2>3. ASSUME NEW r \in MergeDuplicateTicket(p, row, d, ticket[d])
        PROVE  MergeAt(p, d, "savePrimary", r)
    <3>1. /\ p # d /\ Follows(row, r.primary) /\ Merges(ticket[d], r.duplicate, p)
          /\ d \in r.primary.mergedFrom /\ r.duplicate.messages \subseteq r.primary.messages
      BY <1>1, <2>2, <2>3, MergeRule
    <3>2. row.version \in Nat \ {0} /\ ticket[p].version \in Nat
      BY <1>1, <2>1 DEF TicketRow, TicketAt
    <3>3. row = ticket[p] \/ IsLate(ticket[p], r.primary)
      BY <1>1, <2>1, <3>1, <3>2 DEF IsLate, Follows, Grows
    <3> QED
      BY <2>2, <3>1, <3>3 DEF MergeAt
  <2>4. Leave(c) \/ Decide(c, MergeDuplicateTicket(p, row, d, ticket[d]), "savePrimary")
    BY <1>3, <2>1 DEF ReadDuplicate
  <2> QED
    BY <1>0, <2>3, <2>4, SupportLeaves, SupportGoes DEF Decide
<1> QED
  BY <1>2, <1>3

\* It saves the primary and then the duplicate.
LEMMA MergeSaves ==
  ASSUME SupportInv, part = "support", part' = part, NEW c \in Calls,
         SavePrimary(c) \/ SaveDuplicate(c)
  PROVE  SupportInv'
<1> DEFINE q == call[c]
<1>0. q.op = "merge" /\ q.pc # "idle" /\ SupportAt(c, q) /\ CallsShaped /\ TicketRows
  BY DEF SupportInv, SupportCalls, SupportCall, SavePrimary, SaveDuplicate, At
<1>1. PICK p \in Tickets, d \in Tickets : p = q.on /\ d = q.arg
  BY <1>0 DEF SupportAt, MergeAt
<1>2. ticket[p] \in TicketRow /\ ticket[d] \in TicketRow /\ MergeAt(p, d, q.pc, q.row)
  BY <1>0, <1>1 DEF SupportAt, MergeAt
<1>3. CASE SavePrimary(c)
  <2>1. PICK r, u : r = q.row.primary /\ u = q.row.duplicate
    OBVIOUS
  <2>2. /\ q.pc = "savePrimary" /\ ticket' = Written(ticket, p, r) /\ p # d
        /\ IF ticket'[p] = r THEN Goto(c, "saveDuplicate", q.row) ELSE Leave(c)
        /\ IsLate(ticket[p], r) \/ Follows(ticket[p], r)
        /\ IsLate(ticket[d], u) \/ Merges(ticket[d], u, p)
        /\ d \in r.mergedFrom /\ u.messages \subseteq r.messages
    BY <1>1, <1>2, <1>3, <2>1 DEF SavePrimary, At, MergeAt
  <2>3. CASE ~MayWrite(ticket[p], r)
    <3>1. ticket' = ticket
      BY <2>2, <2>3 DEF Written
    <3>2. CASE ticket[p] = r
      <4>1. MergeAt(p, d, "saveDuplicate", q.row)
        BY <1>2, <2>1, <2>2, <3>2 DEF MergeAt
      <4> QED
        BY <1>0, <1>1, <2>2, <3>1, <3>2, <4>1, SupportGoes
    <3> QED
      BY <2>2, <3>1, <3>2, SupportLeaves
  <2>4. CASE MayWrite(ticket[p], r)
    <3>1. Follows(ticket[p], r) /\ r \in TicketRow
      BY <1>2, <2>2, <2>4, MayWriteRow DEF Follows, Grows
    <3>2. ticket' = [ticket EXCEPT ![p] = r]
      BY <2>2, <2>4 DEF Written
    <3>3. ticket'[p] = r /\ ticket'[d] = ticket[d]
      BY <1>0, <2>2, <3>2 DEF TicketRows
    <3> DEFINE new == [op |-> q.op, pc |-> "saveDuplicate", who |-> q.who, on |-> q.on,
                       arg |-> q.arg, row |-> q.row]
    <3>4. CallIs(c, new)
      BY <1>0, <2>2, <3>3, Going
    <3>5. PICK x : x = q.row
      OBVIOUS
    <3>6. MergeAt(p, d, "saveDuplicate", x)'
      BY <1>2, <2>1, <2>2, <3>1, <3>3, <3>5 DEF MergeAt, Follows, Grows
    <3>7. /\ call'[c].op = "merge" /\ call'[c].pc = "saveDuplicate" /\ call'[c].on = p
          /\ call'[c].arg = d /\ call'[c].row = x
      BY <1>0, <1>1, <3>4, <3>5 DEF CallIs
    <3>8. SupportCall(c)'
      BY <3>1, <3>3, <3>6, <3>7 DEF SupportCall, SupportAt
    <3>9. q.pc # "idle" /\ new.pc # "idle" /\ new.on = q.on /\ new.op = q.op /\ new.op # "submit"
      BY <1>0
    <3> HIDE DEF new
    <3> QED
      BY <1>1, <1>2, <3>1, <3>2, <3>4, <3>8, <3>9, SupportStored
  <2> QED
    BY <2>3, <2>4
<1>4. CASE SaveDuplicate(c)
  <2>1. PICK u : u = q.row.duplicate
    OBVIOUS
  <2>2. /\ q.pc = "saveDuplicate" /\ ticket' = Written(ticket, d, u) /\ p # d /\ Leave(c)
        /\ IsLate(ticket[d], u) \/ Merges(ticket[d], u, p)
        /\ d \in ticket[p].mergedFrom /\ u.messages \subseteq ticket[p].messages
    BY <1>1, <1>2, <1>4, <2>1 DEF SaveDuplicate, At, MergeAt
  <2>3. CASE ~MayWrite(ticket[d], u)
    BY <2>2, <2>3, SupportLeaves DEF Written
  <2>4. CASE MayWrite(ticket[d], u)
    <3>1. Merges(ticket[d], u, p) /\ Grows(ticket[d], u) /\ u \in TicketRow
      BY <1>2, <2>2, <2>4, MayWriteRow DEF Merges, Grows
    <3>2. ticket' = [ticket EXCEPT ![d] = u] /\ ticket[d] # None
      BY <1>2, <2>2, <2>4, NoTicket DEF Written
    <3>3. CallIs(c, Idle)
      BY <1>0, <2>2, Leaving
    <3>4. SupportCall(c)'
      BY <3>3 DEF SupportCall, CallIs, Idle
    <3>5. /\ u.mergedInto # None => /\ u.mergedInto # d /\ ticket[u.mergedInto] \in TicketRow
                                    /\ u.status = "closed" /\ d \in ticket[u.mergedInto].mergedFrom
                                    /\ u.messages \subseteq ticket[u.mergedInto].messages
      BY <1>2, <2>2, <3>1 DEF Merges
    <3> QED
      BY <1>0, <1>2, <3>1, <3>2, <3>3, <3>4, <3>5, SupportStored, IdleShaped
  <2> QED
    BY <2>3, <2>4
<1> QED
  BY <1>3, <1>4

LEMMA SupportSubmits ==
  ASSUME SupportInv, part = "support", part' = part, NEW c \in Calls, SubmitTicket(c)
  PROVE  SupportInv'
<1> DEFINE k == call[c].on
<1>0. /\ CallsShaped /\ SupportAt(c, call[c]) /\ call[c].op = "submit" /\ call[c].pc # "idle" /\ Leave(c)
      /\ ticket' = [ticket EXCEPT ![k] = CreateSupportTicket]
  BY DEF SupportInv, SupportCalls, SupportCall, SubmitTicket, At
<1>1. k \in Tickets /\ ticket[k] = None
  BY <1>0 DEF SupportAt
<1>2. CreateSupportTicket \in TicketRow /\ CreateSupportTicket.mergedInto = None
  BY DEF CreateSupportTicket, TicketRow, TicketAt
<1>3. CallIs(c, Idle)
  BY <1>0, Leaving
<1>4. SupportCall(c)'
  BY <1>3 DEF SupportCall, CallIs, Idle
<1> HIDE DEF k
<1> QED
  BY <1>0, <1>1, <1>2, <1>3, <1>4, SupportStored, IdleShaped DEF k

LEMMA SupportWorks ==
  ASSUME SupportInv, part = "support", part' = part, NEW c \in Calls, SupportStep(c)
  PROVE  SupportInv'
<1> DEFINE t == ticket[call[c].on]
           m == call[c].arg
<1>1. CASE SendMessage(c)
  <2>1. /\ At(c, "message", "read") /\ ticket' = ticket
        /\ Leave(c) \/ Decide(c, AddCustomerMessage(t, m), "save")
    BY <1>1 DEF SendMessage, RequireTicket
  <2>2. m \in Messages
    BY <2>1 DEF SupportInv, SupportCalls, SupportCall, SupportAt, At
  <2> QED
    BY <2>1, <2>2, SupportRuled DEF ThreadRows, At, SingleTicketOps
<1>2. CASE SendAdminReply(c)
  <2>1. /\ At(c, "reply", "read") /\ ticket' = ticket
        /\ Leave(c) \/ Decide(c, AddAdminReply(t, m), "save")
    BY <1>2 DEF SendAdminReply, RequireTicket
  <2>2. m \in Messages
    BY <2>1 DEF SupportInv, SupportCalls, SupportCall, SupportAt, At
  <2> QED
    BY <2>1, <2>2, SupportRuled DEF ThreadRows, At, SingleTicketOps
<1>3. ASSUME NEW op \in SingleTicketOps, At(c, op, "read"), ticket' = ticket,
             NEW made, made \subseteq DeskRows(t), Leave(c) \/ Decide(c, made, "save")
      PROVE  SupportInv'
  <2>1. call[c].pc = "read" /\ call[c].op \in SingleTicketOps
    BY <1>3 DEF At
  <2> QED
    BY <1>3, <2>1, SupportRuled
<1>4. CASE AddNote(c)
  BY <1>3, <1>4 DEF AddNote, RequireTicket, DeskRows, SingleTicketOps
<1>5. CASE Link(c)
  BY <1>3, <1>5 DEF Link, RequireTicket, DeskRows, SingleTicketOps
<1>6. CASE Reprioritise(c)
  BY <1>3, <1>6 DEF Reprioritise, RequireTicket, DeskRows, SingleTicketOps
<1>7. CASE Assign(c)
  BY <1>3, <1>7 DEF Assign, RequireTicket, DeskRows, SingleTicketOps
<1>8. CASE Escalate(c)
  BY <1>3, <1>8 DEF Escalate, RequireTicket, DeskRows, SingleTicketOps
<1>9. CASE Resolve(c)
  BY <1>3, <1>9 DEF Resolve, RequireTicket, DeskRows, SingleTicketOps
<1>10. CASE Close(c)
  BY <1>3, <1>10 DEF Close, RequireTicket, DeskRows, SingleTicketOps
<1>11. CASE Reopen(c)
  BY <1>3, <1>11 DEF Reopen, RequireTicket, DeskRows, SingleTicketOps
<1>12. CASE Delete(c)
  BY <1>3, <1>12 DEF Delete, RequireTicket, DeskRows, SingleTicketOps
<1>13. CASE RestoreDeleted(c)
  BY <1>3, <1>13 DEF RestoreDeleted, RequireTicket, DeskRows, SingleTicketOps
<1> QED
  BY <1>1, <1>2, <1>4, <1>5, <1>6, <1>7, <1>8, <1>9, <1>10, <1>11, <1>12, <1>13,
     SupportArrival, SupportSubmits, SupportSaved, MergeReads, MergeSaves DEF SupportStep

LEMMA SupportNext == SupportInv /\ [Next]_programmeVars => SupportInv'
<1> SUFFICES ASSUME SupportInv, [Next]_programmeVars PROVE SupportInv'
  OBVIOUS
<1>0. part' = part
  BY Happens
<1>1. CASE UNCHANGED <<call, rows>>
  BY <1>0, <1>1 DEF rows, SupportInv, TicketRows, MergedRow, SupportCalls, CallsShaped,
       SupportCall, SupportAt, MergeAt, Free
<1>2. CASE part # "support"
  <2>1. UNCHANGED ticket
    BY <1>2, Happens DEF OthersKept, rows
  <2> QED
    BY <1>0, <1>2, <2>1 DEF SupportInv, TicketRows, MergedRow, SupportCalls
<1>3. ASSUME part = "support", NEW c \in Calls, Leave(c), UNCHANGED rows PROVE SupportInv'
  BY <1>0, <1>3, SupportLeaves DEF rows
<1>4. ASSUME part = "support", NEW c \in Calls, Work(c) PROVE SupportInv'
  BY <1>0, <1>4, SupportWorks DEF Work
<1>5. ASSUME part = "support", World PROVE FALSE
  BY <1>5 DEF World
<1> QED
  BY <1>1, <1>2, <1>3, <1>4, <1>5, Happens

\* What a guest wrote on a duplicate is never lost, for any number of tickets, messages,
\* admins and merges into one another, wherever a merge breaks off between its two saves.
THEOREM MergesKeepMessages == Spec => []MergeKeepsMessages
<1>1. SupportInv => MergeKeepsMessages
  BY NoTicket DEF SupportInv, TicketRows, MergedRow, MergeKeepsMessages, Opened
<1> QED
  BY <1>1, SupportInit0, SupportNext, PTL DEF Spec

---------------------------------------------------------------------------
(* The calendar.                                                           *)

\* A stored slot takes some time of the evening.
SlotRow == {s \in SlotAt(Nat) : s.from < s.to}

\* What a request about the calendar knows.  The id of a new block is its own.
CalendarAt(c, q) ==
  /\ q.op \in {"block", "unblock"} /\ q.pc \in {"read", "createBlock", "saveSlots"}
  /\ q.on \in Blocks \cup {Offered}
  /\ q.op = "block" =>
       /\ q.pc # "saveSlots" /\ q.on \in Blocks /\ slot[q.on] = None /\ q.arg \in Ranges
       /\ \A d \in Calls : d # c /\ call[d].pc # "idle" => call[d].on # q.on
       /\ q.pc = "createBlock" => q.row \in SlotRow
  /\ q.op = "unblock" =>
       /\ slot[q.on] # None /\ q.pc # "createBlock"
       /\ q.pc = "saveSlots" => q.row \in SlotRow /\ q.row.status = "cancelled"

CalendarCall(c) == call[c].pc # "idle" => CalendarAt(c, call[c])

CalendarCalls == part = "calendar" => CallsShaped /\ \A c \in Calls : CalendarCall(c)

Apart == \A a, b \in LiveSlots : a # b => ~DoSlotRangesOverlap(slot[a], slot[b])

CalendarRows ==
  /\ slot = [b \in Blocks \cup {Offered} |-> slot[b]]
  /\ \A b \in Blocks \cup {Offered} : slot[b] = None \/ slot[b] \in SlotRow
  /\ Apart

CalendarInv == CalendarRows /\ CalendarCalls

LEMMA NoSlot == None \notin SlotRow
BY VenueAssumption DEF SlotRow

LEMMA CalendarInit0 == Init => CalendarInv
<1> SUFFICES ASSUME Init PROVE CalendarInv
  OBVIOUS
<1>1. PICK row \in {None} \cup {[CreateVenueBlock(<<0, 1>>) EXCEPT !.status = s] : s \in {"open", "booked"}} :
        slot = [b \in Blocks \cup {Offered} |-> IF b = Offered THEN row ELSE None]
  BY DEF Init, VenueInit
<1>2. row = None \/ row \in SlotRow
  BY VenueAssumption DEF CreateVenueBlock, SlotRow, SlotAt, Marks
<1>3. CalendarRows
  BY <1>1, <1>2 DEF CalendarRows, Apart, LiveSlots, StoredSlots
<1>4. CalendarCalls
  BY DEF Init, CalendarCalls, CalendarCall, CallsShaped, Shaped, Idle, Free
<1> QED
  BY <1>3, <1>4 DEF CalendarInv

LEMMA CalendarQuiet ==
  ASSUME CalendarInv, part = "calendar", part' = part, NEW c \in Calls, NEW q, CallIs(c, q),
         CalendarCall(c)', slot' = slot,
         \/ q.pc = "idle"
         \/ call[c].pc # "idle" /\ q.on = call[c].on
         \/ \A d \in Calls : call[d].pc # "idle" /\ call[d].op = "block" => call[d].on # q.on
  PROVE  CalendarInv'
<1>1. ASSUME NEW d \in Calls, d # c PROVE CalendarCall(d)'
  <2>1. CalendarCall(d) /\ CalendarCall(c) /\ call'[d] = call[d] /\ call'[c] = q
    BY <1>1 DEF CalendarInv, CalendarCalls, CallIs
  <2>2. call[d].pc # "idle" /\ call[d].op = "block" /\ q.pc # "idle" => q.on # call[d].on
    BY <1>1, <2>1 DEF CalendarCall, CalendarAt
  <2>3. call[d].pc # "idle" /\ call[d].op = "block" =>
          \A e \in Calls : e # d /\ call'[e].pc # "idle" => call'[e].on # call[d].on
    BY <2>1, <2>2 DEF CallIs, CalendarCall, CalendarAt
  <2> QED
    BY <2>1, <2>3 DEF CalendarCall, CalendarAt
<1>2. CalendarRows'
  BY DEF CalendarInv, CalendarRows, Apart, LiveSlots, StoredSlots
<1> QED
  BY <1>1, <1>2 DEF CalendarInv, CalendarCalls, CallIs

LEMMA CalendarLeaves ==
  ASSUME CalendarInv, part = "calendar", part' = part, NEW c \in Calls, Leave(c), slot' = slot
  PROVE  CalendarInv'
<1>1. CallIs(c, Idle)
  BY Leaving DEF CalendarInv, CalendarCalls
<1>2. CalendarCall(c)'
  BY <1>1 DEF CalendarCall, CallIs, Idle
<1> QED
  BY <1>1, <1>2, CalendarQuiet DEF Idle

LEMMA CalendarArrival ==
  ASSUME CalendarInv, part = "calendar", part' = part, NEW c \in Calls, CalendarArrives(c)
  PROVE  CalendarInv'
<1>0. CallsShaped /\ slot' = slot
  BY DEF CalendarInv, CalendarCalls, CalendarArrives, venueVars
<1>1. ASSUME NEW op \in {"block", "unblock"}, NEW who, NEW b \in Blocks \cup {Offered}, NEW arg,
             Arrive(c, op, who, b, arg),
             IF op = "block" THEN /\ b \in Blocks /\ slot[b] = None /\ arg \in Ranges
                                  /\ \A e \in Calls : call[e].on # b
             ELSE slot[b] # None
      PROVE  CalendarInv'
  <2> DEFINE new == [op |-> op, pc |-> "read", who |-> who, on |-> b, arg |-> arg, row |-> None]
  <2>1. CallIs(c, new)
    BY <1>0, <1>1, Arriving
  <2>2. CalendarAt(c, new)'
    BY <1>0, <1>1, <2>1 DEF CalendarAt, CallIs
  <2>3. CalendarCall(c)'
    BY <2>1, <2>2 DEF CalendarCall, CallIs
  <2>4. \A e \in Calls : call[e].pc # "idle" /\ call[e].op = "block" => call[e].on # new.on
    BY <1>1 DEF CalendarInv, CalendarCalls, CalendarCall, CalendarAt
  <2> QED
    BY <1>0, <2>1, <2>3, <2>4, CalendarQuiet
<1>2. CASE PostBlock(c)
  BY <1>1, <1>2 DEF PostBlock
<1>3. CASE DeleteBlock(c)
  BY <1>1, <1>3 DEF DeleteBlock, CalendarInv, CalendarRows
<1> QED
  BY <1>2, <1>3 DEF CalendarArrives

\* A request goes on with a row: a block it may store, or a cancelled one.
LEMMA CalendarGoes ==
  ASSUME CalendarInv, part = "calendar", part' = part, NEW c \in Calls, call[c].pc # "idle",
         NEW r \in SlotRow, NEW pc, Goto(c, pc, r), slot' = slot,
         \/ call[c].op = "block" /\ pc = "createBlock"
         \/ call[c].op = "unblock" /\ pc = "saveSlots" /\ r.status = "cancelled"
  PROVE  CalendarInv'
<1> DEFINE q == call[c]
           new == [op |-> q.op, pc |-> pc, who |-> q.who, on |-> q.on, arg |-> q.arg, row |-> r]
<1>0. CallsShaped /\ CalendarAt(c, q)
  BY DEF CalendarInv, CalendarCalls, CalendarCall
<1>1. CallIs(c, new)
  BY <1>0, Going
<1>2. CalendarAt(c, new)
  BY <1>0 DEF CalendarAt
<1>3. CalendarAt(c, new)'
  BY <1>0, <1>1, <1>2 DEF CalendarAt, CallIs
<1>4. CalendarCall(c)'
  BY <1>1, <1>3 DEF CalendarCall, CallIs
<1> QED
  BY <1>1, <1>4, CalendarQuiet

\* A row that is stored touches no other live slot, or is cancelled.
LEMMA CalendarStored ==
  ASSUME CalendarInv, part = "calendar", part' = part, NEW c \in Calls, call[c].pc # "idle", Leave(c),
         NEW k, k = call[c].on, NEW r \in SlotRow, slot' = [slot EXCEPT ![k] = r],
         r.status = "cancelled" \/ \A b \in LiveSlots : b # k => ~DoSlotRangesOverlap(slot[b], r)
  PROVE  CalendarInv'
<1>0. CallsShaped /\ CalendarAt(c, call[c]) /\ CalendarRows
  BY DEF CalendarInv, CalendarCalls, CalendarCall
<1>1. /\ k \in Blocks \cup {Offered} /\ slot' = [b \in Blocks \cup {Offered} |-> slot'[b]] /\ slot'[k] = r
      /\ \A b \in Blocks \cup {Offered} : b # k => slot'[b] = slot[b]
  BY <1>0 DEF CalendarAt, CalendarRows
<1>2. ASSUME NEW a \in LiveSlots', NEW b \in LiveSlots', a # b
      PROVE  ~DoSlotRangesOverlap(slot'[a], slot'[b])
  <2>1. \A x \in Blocks \cup {Offered} : x # k => (x \in LiveSlots' <=> x \in LiveSlots)
    BY <1>0, <1>1 DEF LiveSlots, StoredSlots, CalendarRows
  <2>2. a \in Blocks \cup {Offered} /\ b \in Blocks \cup {Offered}
    BY <1>1 DEF LiveSlots, StoredSlots
  <2>3. CASE a # k /\ b # k
    BY <1>0, <1>1, <1>2, <2>1, <2>2, <2>3 DEF CalendarRows, Apart
  <2>4. CASE a = k \/ b = k
    <3>1. r.status # "cancelled"
      BY <1>1, <2>4 DEF LiveSlots
    <3>2. \A x \in LiveSlots : x # k => ~DoSlotRangesOverlap(slot[x], r) /\ ~DoSlotRangesOverlap(r, slot[x])
      BY <3>1 DEF DoSlotRangesOverlap
    <3> QED
      BY <1>1, <1>2, <2>1, <2>2, <2>4, <3>2
  <2> QED
    BY <2>3, <2>4
<1>3. CalendarRows'
  BY <1>0, <1>1, <1>2 DEF CalendarRows, Apart
<1>4. CallIs(c, Idle)
  BY <1>0, Leaving
<1>5. ASSUME NEW d \in Calls PROVE CalendarCall(d)'
  <2>1. CASE d = c
    BY <1>4, <2>1 DEF CalendarCall, CallIs, Idle
  <2>2. CASE d # c
    <3>1. CalendarCall(d) /\ call'[d] = call[d]
      BY <1>4, <2>2 DEF CallIs, CalendarInv, CalendarCalls
    <3>2. CASE call[d].pc = "idle"
      BY <3>1, <3>2 DEF CalendarCall
    <3>3. CASE call[d].pc # "idle"
      <4>1. CalendarAt(d, call[d])
        BY <3>1, <3>3 DEF CalendarCall
      <4>2. call[d].op = "block" => call[d].on # k
        BY <2>2, <4>1 DEF CalendarAt
      <4>3. call[d].op = "unblock" => slot'[call[d].on] # None
        BY <1>1, <4>1, NoSlot DEF CalendarAt
      <4>4. \A e \in Calls : call'[e].pc # "idle" => call'[e] = call[e]
        BY <1>4 DEF CallIs, Idle
      <4> QED
        BY <1>1, <3>1, <4>1, <4>2, <4>3, <4>4 DEF CalendarCall, CalendarAt
    <3> QED
      BY <3>2, <3>3
  <2> QED
    BY <2>1, <2>2
<1> QED
  BY <1>3, <1>4, <1>5 DEF CalendarInv, CalendarCalls, CallIs

\* A calendar that a read may answer whole is answered whole, while a new block is not
\* stored.
LEMMA ReadsAreWhole ==
  ASSUME CalendarRows, IsFiniteSet(Blocks), Cardinality(Blocks) <= MaxSlotsRead,
         NEW b \in Blocks, slot[b] = None
  PROVE  CappedReads = {StoredSlots}
<1> DEFINE others == (Blocks \ {b}) \cup {Offered}
<1>1. /\ IsFiniteSet(Blocks \ {b}) /\ Cardinality(Blocks \ {b}) = Cardinality(Blocks) - 1
      /\ Cardinality(Blocks) \in Nat
  BY FS_RemoveElement, FS_CardinalityType
<1>2. IsFiniteSet(others) /\ Cardinality(others) <= Cardinality(Blocks) /\ Cardinality(others) \in Nat
  <2> DEFINE base == Blocks \ {b}
  <2>1. IsFiniteSet(base) /\ Cardinality(base) = Cardinality(Blocks) - 1
    BY <1>1
  <2> HIDE DEF base
  <2>2. /\ IsFiniteSet(base \cup {Offered})
        /\ \/ Cardinality(base \cup {Offered}) = Cardinality(base)
           \/ Cardinality(base \cup {Offered}) = Cardinality(base) + 1
    BY <2>1, FS_AddElement
  <2>3. Cardinality(base \cup {Offered}) <= Cardinality(Blocks) /\ Cardinality(base \cup {Offered}) \in Nat
    BY <1>1, <2>1, <2>2, FS_CardinalityType
  <2> QED
    BY <2>2, <2>3 DEF base
<1>3. StoredSlots \subseteq others
  BY DEF StoredSlots, CalendarRows
<1>4. Cardinality(StoredSlots) <= Cardinality(others) /\ Cardinality(StoredSlots) \in Nat
  BY <1>2, <1>3, FS_Subset, FS_CardinalityType
<1>5. Cardinality(StoredSlots) <= MaxSlotsRead
  BY <1>1, <1>2, <1>4, VenueAssumption
<1> QED
  BY <1>5 DEF CappedReads

LEMMA BlockIsSlot ==
  ASSUME NEW r \in Ranges
  PROVE  CreateVenueBlock(r) \in SlotRow
BY DEF Ranges, Marks, CreateVenueBlock, SlotRow, SlotAt

LEMMA CancelledSlot ==
  ASSUME NEW s \in SlotRow, NEW r \in CancelVenueBlock(s)
  PROVE  r \in SlotRow /\ r.status = "cancelled"
<1> DEFINE u == [s EXCEPT !.status = "cancelled"]
<1>1. /\ u \in SlotAt(Nat) /\ u.from = s.from /\ u.to = s.to /\ u.version = s.version
      /\ u.status = "cancelled" /\ s.from < s.to
  BY DEF SlotRow, SlotAt
<1>2. r = Bump(u)
  BY DEF CancelVenueBlock, When
<1> HIDE DEF u
<1>3. r \in SlotAt(Nat) /\ r.from = u.from /\ r.to = u.to /\ r.status = u.status
  BY <1>1, <1>2 DEF Bump, SlotAt
<1> QED
  BY <1>1, <1>3 DEF SlotRow

LEMMA CalendarWorks ==
  ASSUME CalendarInv, part = "calendar", part' = part, NEW c \in Calls, CalendarStep(c),
         IsFiniteSet(Blocks), Cardinality(Blocks) <= MaxSlotsRead
  PROVE  CalendarInv'
<1> DEFINE q == call[c]
<1>0. CalendarRows /\ (q.pc # "idle" => CalendarAt(c, q))
  BY DEF CalendarInv, CalendarCalls, CalendarCall
<1>1. CASE CalendarArrives(c)
  BY <1>1, CalendarArrival
<1>2. CASE BlockReadsVenue(c)
  <2>1. q.op = "block" /\ q.pc = "read" /\ slot' = slot
        /\ Goto(c, "createBlock", CreateVenueBlock(q.arg))
    BY <1>2 DEF BlockReadsVenue, At, venueVars
  <2>2. CreateVenueBlock(q.arg) \in SlotRow
    BY <1>0, <2>1, BlockIsSlot DEF CalendarAt
  <2> QED
    BY <2>1, <2>2, CalendarGoes
<1>3. CASE CreateBlockIfFree(c)
  <2>1. q.op = "block" /\ q.pc = "createBlock" /\ Leave(c)
    BY <1>3 DEF CreateBlockIfFree, At
  <2>2. PICK k \in Blocks, r \in SlotRow : k = q.on /\ r = q.row /\ slot[k] = None
    BY <1>0, <2>1 DEF CalendarAt
  <2>3. CappedReads = {StoredSlots}
    BY <1>0, <2>2, ReadsAreWhole
  <2>4. slot' = IF SlotRangeFree(StoredSlots, r) THEN [slot EXCEPT ![k] = r] ELSE slot
    BY <1>3, <2>2, <2>3 DEF CreateBlockIfFree
  <2>5. CASE SlotRangeFree(StoredSlots, r)
    <3>1. \A b \in LiveSlots : ~DoSlotRangesOverlap(slot[b], r)
      BY <2>5 DEF SlotRangeFree, LiveSlots
    <3> QED
      BY <2>1, <2>2, <2>4, <2>5, <3>1, CalendarStored
  <2>6. CASE ~SlotRangeFree(StoredSlots, r)
    BY <2>1, <2>4, <2>6, CalendarLeaves
  <2> QED
    BY <2>5, <2>6
<1>4. CASE Unblock(c)
  <2>1. q.op = "unblock" /\ q.pc = "read" /\ slot' = slot
        /\ Decide(c, CancelVenueBlock(slot[q.on]), "saveSlots")
    BY <1>4 DEF Unblock, At, venueVars
  <2>2. slot[q.on] \in SlotRow
    BY <1>0, <2>1 DEF CalendarAt, CalendarRows
  <2> QED
    BY <2>1, <2>2, CancelledSlot, CalendarGoes, CalendarLeaves DEF Decide
<1>5. CASE SaveSlots(c)
  <2>1. q.pc = "saveSlots" /\ Leave(c) /\ slot' = [slot EXCEPT ![q.on] = q.row]
    BY <1>5 DEF SaveSlots
  <2>2. q.row \in SlotRow /\ q.row.status = "cancelled"
    BY <1>0, <2>1 DEF CalendarAt
  <2> QED
    BY <2>1, <2>2, CalendarStored
<1> QED
  BY <1>1, <1>2, <1>3, <1>4, <1>5 DEF CalendarStep

LEMMA CalendarNext ==
  ASSUME IsFiniteSet(Blocks), Cardinality(Blocks) <= MaxSlotsRead
  PROVE  CalendarInv /\ [Next]_programmeVars => CalendarInv'
<1> SUFFICES ASSUME CalendarInv, [Next]_programmeVars PROVE CalendarInv'
  OBVIOUS
<1>0. part' = part
  BY Happens
<1>k. slot' = slot => CalendarRows'
  BY DEF CalendarInv, CalendarRows, Apart, LiveSlots, StoredSlots
<1>1. CASE UNCHANGED <<call, rows>>
  BY <1>0, <1>1, <1>k DEF rows, venueVars, CalendarInv, CalendarCalls, CallsShaped, CalendarCall, CalendarAt, Free
<1>2. CASE part # "calendar"
  <2>1. ASSUME NEW c \in Calls, Work(c), IsVenuePart(part) PROVE slot' = slot
    <3>1. VenueStep(c) \/ SlotRequestStep(c)
      BY <1>2, <2>1 DEF Work, IsVenuePart
    <3>2. CASE VenueStep(c)
      BY <3>2 DEF VenueStep, VenueArrives, CreateVenue, FetchVenue, SuspendVenueReads, ReinstateVenueReads,
         SaveVenue, venueVars
    <3>3. CASE SlotRequestStep(c)
      BY <3>3 DEF SlotRequestStep, SlotRequestArrives, CreateSlotRequest, AnswerSlotRequest,
         SaveSlotRequest, venueVars
    <3> QED
      BY <3>1, <3>2, <3>3
  <2>2. World => ~IsVenuePart(part)
    BY DEF World, IsVenuePart
  <2>3. slot' = slot
    BY <2>1, <2>2, Happens DEF OthersKept, rows, venueVars
  <2> QED
    BY <1>0, <1>2, <1>k, <2>3 DEF CalendarInv, CalendarCalls
<1>3. ASSUME part = "calendar", NEW c \in Calls, Leave(c), UNCHANGED rows PROVE CalendarInv'
  BY <1>0, <1>3, CalendarLeaves DEF rows, venueVars
<1>4. ASSUME part = "calendar", NEW c \in Calls, Work(c) PROVE CalendarInv'
  BY <1>0, <1>4, CalendarWorks DEF Work
<1>5. ASSUME part = "calendar", World PROVE FALSE
  BY <1>5 DEF World
<1> QED
  BY <1>1, <1>2, <1>3, <1>4, <1>5, Happens

\* The time slots take: how many minutes of the evening they cover, for each minute is
\* covered once.
CoveredBy(f, T) == {m \in 0..(LastMark - 1) : \E b \in T : f[b].from <= m /\ m < f[b].to}

LEMMA LengthsAreCovered ==
  ASSUME NEW S, IsFiniteSet(S), NEW f, \A b \in S : f[b] \in SlotRow,
         \A a, b \in S : a # b => ~DoSlotRangesOverlap(f[a], f[b]),
         NEW w, \A b \in S : w[b] = f[b].to - f[b].from
  PROVE  Sum(w, S) = Cardinality(CoveredBy(f, S))
<1> DEFINE good == {T \in SUBSET S : Sum(w, T) = Cardinality(CoveredBy(f, T))}
<1>0. IsFiniteSet(0..(LastMark - 1))
  BY FS_Interval, VenueAssumption
<1>1. ASSUME NEW T \in SUBSET S, \A R \in SUBSET T : R # T => R \in good
      PROVE  Sum(w, T) = Cardinality(CoveredBy(f, T))
  <2>0. IsFiniteSet(T)
    <3> HIDE DEF good
    <3> QED
      BY FS_Subset
  <2>1. CASE T = {}
    <3>1. CoveredBy(f, T) = {}
      BY <2>1 DEF CoveredBy
    <3> QED
      BY <2>0, <2>1, <3>1, SumTakes, FS_EmptySet
  <2>2. CASE T # {}
    <3>1. PICK x \in T : Sum(w, T) = w[x] + Sum(w, T \ {x})
      BY <2>0, <2>2, SumTakes
    <3>2. Sum(w, T \ {x}) = Cardinality(CoveredBy(f, T \ {x}))
      BY <1>1
    <3> DEFINE A == CoveredBy(f, T \ {x})
               B == f[x].from..(f[x].to - 1)
    <3>3. /\ f[x].from \in Nat /\ f[x].to \in Nat /\ f[x].from < f[x].to /\ f[x].to <= LastMark
          /\ LastMark \in Nat
      BY VenueAssumption DEF SlotRow, SlotAt, Marks
    <3>4. CoveredBy(f, T) = A \cup B
      BY <3>3 DEF CoveredBy
    <3>5. A \cap B = {}
      <4>1. SUFFICES ASSUME NEW m \in Nat, NEW b \in T, b # x, f[b].from <= m, m < f[b].to,
                            f[x].from <= m, m <= f[x].to - 1
                     PROVE  FALSE
        BY DEF CoveredBy
      <4>2. f[b].from \in Nat /\ f[b].to \in Nat
        BY DEF SlotRow, SlotAt, Marks
      <4>3. DoSlotRangesOverlap(f[b], f[x])
        BY <3>3, <4>1, <4>2 DEF DoSlotRangesOverlap
      <4> QED
        BY <4>1, <4>3
    <3>6. IsFiniteSet(A)
      BY <1>0, FS_Subset DEF CoveredBy
    <3>7. IsFiniteSet(B) /\ Cardinality(B) = f[x].to - f[x].from
      <4>1. ASSUME NEW lo \in Nat, NEW hi \in Nat, lo < hi
            PROVE  IsFiniteSet(lo..(hi - 1)) /\ Cardinality(lo..(hi - 1)) = hi - lo
        BY <4>1, FS_Interval
      <4> QED
        BY <3>3, <4>1
    <3>8. Cardinality(A \cup B) = Cardinality(A) + Cardinality(B) - Cardinality(A \cap B)
      BY <3>6, <3>7, FS_Union
    <3>9. Cardinality(A \cap B) = 0 /\ Cardinality(A) \in Nat
      BY <3>5, <3>6, FS_EmptySet, FS_CardinalityType
    <3> HIDE DEF A, B
    <3>10. w[x] = f[x].to - f[x].from /\ Sum(w, T \ {x}) = Cardinality(A)
      BY <3>2 DEF A
    <3> QED
      BY <3>1, <3>3, <3>4, <3>7, <3>8, <3>9, <3>10
  <2> QED
    BY <2>1, <2>2
<1>2. \A T \in SUBSET S : T \in good
  <2>1. \A T \in SUBSET S : (\A R \in SUBSET T : R # T => R \in good) => T \in good
    BY <1>1
  <2> HIDE DEF good
  <2> QED
    BY <2>1, SubsetsAllIn
<1> QED
  BY <1>2

\* The sum of the slots' lengths, as the calendar adds them up.
Length(b) == slot[b].to - slot[b].from

LEMMA LengthsAddUp ==
  ASSUME NEW S, IsFiniteSet(S)
  PROVE  MapThenSumSet(LAMBDA b : slot[b].to - slot[b].from, S) = Sum([b \in S |-> Length(b)], S)
<1> DEFINE w == [b \in S |-> Length(b)]
           fold == CHOOSE g : g = [s \in SUBSET S |->
                     IF s = {} THEN 0
                     ELSE (slot[CHOOSE x \in s : TRUE].to - slot[CHOOSE x \in s : TRUE].from)
                          + g[s \ {CHOOSE x \in s : TRUE}]]
<1>1. MapThenSumSet(LAMBDA b : slot[b].to - slot[b].from, S) = fold[S]
  BY DEF MapThenSumSet, MapThenFoldSet
<1>2. ASSUME NEW s \in SUBSET S, s # {}
      PROVE  w[Pick(s)] = slot[CHOOSE x \in s : TRUE].to - slot[CHOOSE x \in s : TRUE].from
  BY <1>2 DEF Pick, Length
<1>3. \E g : Sums(g, w, S)
  BY SumsExist
<1> HIDE DEF w
<1>4. ASSUME NEW g
      PROVE  Sums(g, w, S) <=>
               g = [s \in SUBSET S |->
                     IF s = {} THEN 0
                     ELSE (slot[CHOOSE x \in s : TRUE].to - slot[CHOOSE x \in s : TRUE].from)
                          + g[s \ {CHOOSE x \in s : TRUE}]]
  BY <1>2 DEF Sums, Pick
<1>5. Sums(fold, w, S)
  <2>1. \E g : g = [s \in SUBSET S |->
                     IF s = {} THEN 0
                     ELSE (slot[CHOOSE x \in s : TRUE].to - slot[CHOOSE x \in s : TRUE].from)
                          + g[s \ {CHOOSE x \in s : TRUE}]]
    <3>1. PICK g : Sums(g, w, S)
      BY <1>3
    <3>2. g = [s \in SUBSET S |->
                 IF s = {} THEN 0
                 ELSE (slot[CHOOSE x \in s : TRUE].to - slot[CHOOSE x \in s : TRUE].from)
                      + g[s \ {CHOOSE x \in s : TRUE}]]
      BY <1>4, <3>1
    <3> QED
      BY <3>2
  <2>2. fold = [s \in SUBSET S |->
                     IF s = {} THEN 0
                     ELSE (slot[CHOOSE x \in s : TRUE].to - slot[CHOOSE x \in s : TRUE].from)
                          + fold[s \ {CHOOSE x \in s : TRUE}]]
    BY <2>1
  <2> QED
    BY <1>4, <2>2
<1>6. fold[S] = Sum(w, S)
  <2> HIDE DEF fold
  <2> QED
    BY <1>5, SumOf
<1> QED
  BY <1>1, <1>6 DEF w

TakenSlots == {b \in LiveSlots : slot[b].status # "open"}

LEMMA OpenFitsBesideTaken ==
  ASSUME CalendarRows, IsFiniteSet(Blocks), NEW from \in Marks, NEW to \in Marks
  PROVE  ComputeVenueAvailability(ListSlots(from, to)).openMinutes
           + MapThenSumSet(LAMBDA b : slot[b].to - slot[b].from, TakenSlots) <= LastMark
<1> DEFINE open == {b \in ListSlots(from, to) : slot[b].status = "open"}
           taken == TakenSlots
           told == ComputeVenueAvailability(ListSlots(from, to))
<1> USE DEF TakenSlots
<1>1. \A b \in LiveSlots : slot[b] \in SlotRow
  BY DEF LiveSlots, StoredSlots, CalendarRows
<1>2. IsFiniteSet(open) /\ IsFiniteSet(taken) /\ open \subseteq LiveSlots /\ taken \subseteq LiveSlots
  <2>1. IsFiniteSet(Blocks \cup {Offered})
    BY FS_AddElement
  <2>2. LiveSlots \subseteq Blocks \cup {Offered}
    BY DEF LiveSlots, StoredSlots, CalendarRows
  <2>3. open \subseteq LiveSlots /\ taken \subseteq LiveSlots
    BY DEF ListSlots
  <2> HIDE DEF open, taken
  <2> QED
    BY <2>1, <2>2, <2>3, FS_Subset
<1>3. ASSUME NEW S \in SUBSET LiveSlots, IsFiniteSet(S)
      PROVE  MapThenSumSet(LAMBDA b : slot[b].to - slot[b].from, S) = Cardinality(CoveredBy(slot, S))
  <2> DEFINE w == [b \in S |-> Length(b)]
  <2>1. \A b \in S : slot[b] \in SlotRow /\ w[b] = slot[b].to - slot[b].from
    BY <1>1 DEF Length
  <2>2. \A a, b \in S : a # b => ~DoSlotRangesOverlap(slot[a], slot[b])
    BY DEF CalendarRows, Apart
  <2>3. MapThenSumSet(LAMBDA b : slot[b].to - slot[b].from, S) = Sum(w, S)
    BY <1>3, LengthsAddUp
  <2> HIDE DEF w
  <2>4. Sum(w, S) = Cardinality(CoveredBy(slot, S))
    BY <1>3, <2>1, <2>2, LengthsAreCovered
  <2> QED
    BY <2>3, <2>4
<1>4. told.openMinutes = Cardinality(CoveredBy(slot, open))
  <2>1. told.openMinutes = MapThenSumSet(LAMBDA b : slot[b].to - slot[b].from, open)
    BY DEF ComputeVenueAvailability
  <2> QED
    BY <1>2, <1>3, <2>1
<1>5. MapThenSumSet(LAMBDA b : slot[b].to - slot[b].from, taken) = Cardinality(CoveredBy(slot, taken))
  BY <1>2, <1>3
<1>6. Cardinality(CoveredBy(slot, open)) + Cardinality(CoveredBy(slot, taken)) <= LastMark
  <2> DEFINE A == CoveredBy(slot, open)
             B == CoveredBy(slot, taken)
             all == 0..(LastMark - 1)
  <2>1. IsFiniteSet(all) /\ Cardinality(all) = LastMark
    BY FS_Interval, VenueAssumption
  <2>2. A \subseteq all /\ B \subseteq all
    BY DEF CoveredBy
  <2>3. A \cap B = {}
    <3>1. SUFFICES ASSUME NEW m \in Nat, NEW a \in open, NEW b \in taken,
                          slot[a].from <= m, m < slot[a].to, slot[b].from <= m, m < slot[b].to
                   PROVE  FALSE
      BY VenueAssumption DEF CoveredBy
    <3>q. a \in LiveSlots /\ b \in LiveSlots
      BY <1>2
    <3>2. /\ slot[a].from \in Nat /\ slot[a].to \in Nat /\ slot[b].from \in Nat /\ slot[b].to \in Nat
      BY <1>1, <3>q DEF SlotRow, SlotAt, Marks
    <3>3. DoSlotRangesOverlap(slot[a], slot[b]) /\ a # b
      BY <3>1, <3>2 DEF DoSlotRangesOverlap
    <3> QED
      BY <3>3, <3>q DEF CalendarRows, Apart
  <2> HIDE DEF A, B, all, open, taken
  <2>4. IsFiniteSet(A) /\ IsFiniteSet(B) /\ A \cup B \subseteq all
    BY <2>1, <2>2, FS_Subset
  <2>5. Cardinality(A \cup B) = Cardinality(A) + Cardinality(B) - Cardinality(A \cap B)
    BY <2>4, FS_Union
  <2>6. Cardinality(A \cap B) = 0 /\ Cardinality(A \cup B) <= Cardinality(all)
    BY <2>1, <2>3, <2>4, FS_EmptySet, FS_Subset
  <2>7. Cardinality(A) \in Nat /\ Cardinality(B) \in Nat
    BY <2>4, FS_CardinalityType
  <2> QED
    BY <2>1, <2>5, <2>6, <2>7, VenueAssumption DEF A, B
<1> QED
  BY <1>4, <1>5, <1>6

LEMMA SingleTrackHolds ==
  ASSUME CalendarRows, IsFiniteSet(Blocks)
  PROVE  SingleTrack
<1> DEFINE evening == ListSlots(0, LastMark)
<1>1. \A b \in LiveSlots : slot[b] \in SlotRow
  BY DEF LiveSlots, StoredSlots, CalendarRows
<1>2. ASSUME NEW b \in TakenSlots, slot[b].to - slot[b].from = LastMark
      PROVE  ComputeVenueAvailability(evening).fullyBooked
  <2>0. b \in LiveSlots
    BY DEF TakenSlots
  <2>1. \A x \in LiveSlots : /\ slot[x].from \in Nat /\ slot[x].to \in Nat
                             /\ slot[x].from < slot[x].to /\ slot[x].to <= LastMark
    BY <1>1, VenueAssumption DEF SlotRow, SlotAt, Marks
  <2>2. slot[b].from = 0 /\ slot[b].to = LastMark
    BY <1>2, <2>0, <2>1, VenueAssumption
  <2>3. \A x \in LiveSlots : DoSlotRangesOverlap(slot[x], slot[b])
    BY <2>1, <2>2, VenueAssumption DEF DoSlotRangesOverlap
  <2>4. {x \in evening : slot[x].status = "open"} = {}
    BY <2>0, <2>3 DEF CalendarRows, Apart, TakenSlots, ListSlots
  <2>5. b \in evening
    BY <2>0, <2>2, VenueAssumption DEF ListSlots
  <2> HIDE DEF evening
  <2> QED
    BY <2>4, <2>5 DEF ComputeVenueAvailability
<1> QED
  BY <1>2, OpenFitsBesideTaken DEF SingleTrack, CalendarRows, Apart, TakenSlots

\* "A venue's timeline is a single track": for any number of blocks that one read of the
\* calendar can answer, however blocks and unblocks interleave and die, no two live slots
\* share a minute and what is told open fits beside what is taken.
THEOREM TimelineIsSingleTrack ==
  ASSUME IsFiniteSet(Blocks), Cardinality(Blocks) <= MaxSlotsRead
  PROVE  Spec => []SingleTrack
<1>1. CalendarInv => SingleTrack
  BY SingleTrackHolds DEF CalendarInv
<1>2. CalendarInv /\ [Next]_programmeVars => CalendarInv'
  BY CalendarNext
<1> QED
  BY <1>1, <1>2, CalendarInit0, PTL DEF Spec

---------------------------------------------------------------------------
(* Events.                                                                 *)

\* An event on sale is public, and its first version is a draft.
EventRow ==
  {e \in EventAt(Nat \ {0}) : /\ e.isPublic <=> e.status \in PublicStatuses
                              /\ e.version = 1 => e.status = "draft"}

\* What a rule makes of an event: its next version along the life cycle.
Advances(e, r) == r \in EventRow /\ r.version = e.version + 1 /\ EventKept(e, r)

\* A row about to be saved that the store will refuse.
IsBehind(e, r) == e \in EventRow /\ r \in EventRow /\ 1 < r.version /\ r.version <= e.version

LEMMA NoEvent == None \notin EventRow
BY EventAssumption DEF EventRow, EventAt

LEMMA BumpedEvent ==
  ASSUME NEW e \in EventRow, NEW s \in EventAt(Nat \ {0}), s.version = e.version,
         e.status # s.status => <<e.status, s.status>> \in LifeCycle,
         s.isPublic <=> s.status \in PublicStatuses,
         e.adminOverride /\ e.status = s.status => s.adminOverride
  PROVE  Advances(e, Bump(s))
<1>1. /\ Bump(s) \in EventAt(Nat \ {0}) /\ Bump(s).version = s.version + 1
      /\ Bump(s).status = s.status
      /\ Bump(s).isPublic = s.isPublic /\ Bump(s).adminOverride = s.adminOverride
  BY DEF EventAt, Bump
<1>2. Bump(s).version # 1 /\ e.version + 1 = Bump(s).version
  BY <1>1 DEF EventAt
<1>3. Bump(s).isPublic <=> Bump(s).status \in PublicStatuses
  BY <1>1
<1>4. Bump(s) \in EventRow
  BY <1>1, <1>2, <1>3 DEF EventRow
<1>5. EventKept(e, Bump(s))
  BY <1>1, <1>3 DEF EventKept
<1> QED
  BY <1>2, <1>4, <1>5 DEF Advances

\* Moving to a status the life cycle allows.
LEMMA MovedEvent ==
  ASSUME NEW e \in EventRow, NEW to \in EventStatuses, <<e.status, to>> \in LifeCycle, e.status # to,
         NEW mark \in BOOLEAN
  PROVE  LET public == to \in PublicStatuses IN
         Advances(e, Bump([e EXCEPT !.status = to, !.isPublic = public, !.adminOverride = mark]))
<1> DEFINE s == [e EXCEPT !.status = to, !.isPublic = to \in PublicStatuses, !.adminOverride = mark]
<1>0. (to \in PublicStatuses) \in BOOLEAN
  OBVIOUS
<1>1. PICK public \in BOOLEAN : public = (to \in PublicStatuses)
  BY <1>0
<1> DEFINE u == [e EXCEPT !.status = to, !.isPublic = public, !.adminOverride = mark]
<1>2. e \in EventAt(Nat \ {0})
  BY DEF EventRow
<1>3. u \in EventAt(Nat \ {0}) /\ u.version = e.version /\ u.status = to /\ u.isPublic = public
  BY <1>2 DEF EventAt
<1>4. s = u
  BY <1>1
<1> HIDE DEF u
<1>5. Advances(e, Bump(u))
  BY <1>1, <1>3, BumpedEvent
<1> QED
  BY <1>4, <1>5

\* Every rule of the event: it hands an event that is past its draft back as it was, or
\* advances it along its life cycle.
LEMMA EventRules ==
  ASSUME NEW e \in EventRow, NEW to \in EventStatuses \ {"draft"}, NEW rates \in (SUBSET Tiers) \cup {None},
         NEW on, NEW r \in UpdateEvent(e, rates) \cup TransitionEvent(e, to) \cup CancelEvent(e)
                           \cup AdminPauseEvent(e) \cup AdminResumeEvent(e)
                           \cup AdminForceCompleteEvent(e) \cup Publish(e, on)
  PROVE  (r = e /\ 1 < e.version) \/ Advances(e, r)
<1>0. /\ e \in EventAt(Nat \ {0}) /\ e.status \in EventStatuses /\ e.version \in Nat \ {0}
      /\ e.isPublic <=> e.status \in PublicStatuses
      /\ e.status # "draft" => 1 < e.version
  BY DEF EventRow, EventAt
<1>1. CASE r \in UpdateEvent(e, rates)
  <2> DEFINE s == [e EXCEPT !.rates = rates]
  <2>1. /\ s \in EventAt(Nat \ {0}) /\ s.version = e.version /\ s.status = e.status
        /\ s.isPublic = e.isPublic /\ s.adminOverride = e.adminOverride
    BY <1>0 DEF EventAt
  <2>2. r = Bump(s)
    BY <1>1 DEF UpdateEvent
  <2> HIDE DEF s
  <2>3. s.isPublic <=> s.status \in PublicStatuses
    BY <1>0, <2>1
  <2> QED
    BY <2>1, <2>2, <2>3, BumpedEvent
<1>2. ASSUME NEW t \in EventStatuses \ {"draft"}, r \in TransitionEvent(e, t)
      PROVE  (r = e /\ 1 < e.version) \/ Advances(e, r)
  <2>1. CASE t = e.status
    BY <1>0, <1>2, <2>1 DEF TransitionEvent, When
  <2>2. CASE t # e.status
    <3>1. t \in EventTransitions[e.status]
          /\ r = Bump([e EXCEPT !.status = t, !.isPublic = t \in PublicStatuses, !.adminOverride = FALSE])
      BY <1>2, <2>2 DEF TransitionEvent, When
    <3>2. <<e.status, t>> \in LifeCycle
      BY <1>0, <3>1 DEF LifeCycle
    <3> QED
      BY <2>2, <3>1, <3>2, MovedEvent
  <2> QED
    BY <2>1, <2>2
<1>3. CASE r \in CancelEvent(e)
  <2>1. CASE e.status = "cancelled"
    BY <1>0, <1>3, <2>1 DEF CancelEvent, When
  <2>2. CASE e.status # "cancelled"
    <3> DEFINE s == [e EXCEPT !.status = "cancelled", !.isPublic = FALSE]
    <3>1. "cancelled" \in EventTransitions[e.status] /\ r = Bump(s)
      BY <1>3, <2>2 DEF CancelEvent, When
    <3>2. "cancelled" \in EventStatuses /\ "cancelled" \notin PublicStatuses
      BY DEF EventStatuses, PublicStatuses
    <3>3. s \in EventAt(Nat \ {0}) /\ s.version = e.version /\ s.status = "cancelled" /\ s.isPublic = FALSE
      BY <1>0, <3>2 DEF EventAt
    <3>4. <<e.status, "cancelled">> \in LifeCycle
      BY <1>0, <3>1, <3>2 DEF LifeCycle
    <3> HIDE DEF s
    <3> QED
      BY <2>2, <3>1, <3>2, <3>3, <3>4, BumpedEvent
  <2> QED
    BY <2>1, <2>2
<1>4. CASE r \in AdminPauseEvent(e)
  <2>1. CASE e.status = "sales_paused" /\ e.adminOverride
    BY <1>0, <1>4, <2>1 DEF AdminPauseEvent
  <2>2. CASE e.status = "sales_paused" /\ ~e.adminOverride
    <3> DEFINE s == [e EXCEPT !.adminOverride = TRUE]
    <3>1. r = Bump(s)
      BY <1>4, <2>2 DEF AdminPauseEvent
    <3>2. /\ s \in EventAt(Nat \ {0}) /\ s.version = e.version /\ s.status = e.status
          /\ s.isPublic = e.isPublic /\ s.adminOverride = TRUE
      BY <1>0 DEF EventAt
    <3> HIDE DEF s
    <3>3. s.isPublic <=> s.status \in PublicStatuses
      BY <1>0, <3>2
    <3> QED
      BY <3>1, <3>2, <3>3, BumpedEvent
  <2>3. CASE e.status # "sales_paused"
    <3>1. /\ e.status = "published"
          /\ r = Bump([e EXCEPT !.status = "sales_paused", !.isPublic = TRUE, !.adminOverride = TRUE])
      BY <1>4, <2>3 DEF AdminPauseEvent, When, Pausable
    <3>2. "sales_paused" \in EventStatuses /\ "sales_paused" \in PublicStatuses
      BY DEF EventStatuses, PublicStatuses
    <3>3. <<e.status, "sales_paused">> \in LifeCycle
      BY <1>0, <3>1, <3>2 DEF LifeCycle, EventTransitions
    <3> DEFINE s == [e EXCEPT !.status = "sales_paused", !.isPublic = TRUE, !.adminOverride = TRUE]
    <3>4. /\ s \in EventAt(Nat \ {0}) /\ s.version = e.version /\ s.status = "sales_paused"
          /\ s.isPublic = TRUE
      BY <1>0, <3>2 DEF EventAt
    <3> HIDE DEF s
    <3> QED
      BY <2>3, <3>1, <3>2, <3>3, <3>4, BumpedEvent DEF s
  <2> QED
    BY <2>1, <2>2, <2>3
<1>5. CASE r \in AdminResumeEvent(e)
  BY <1>2, <1>5 DEF AdminResumeEvent, EventStatuses
<1>6. CASE r \in AdminForceCompleteEvent(e)
  <2>1. CASE e.status = "ended"
    BY <1>0, <1>6, <2>1 DEF AdminForceCompleteEvent, When
  <2>2. CASE e.status # "ended"
    <3> DEFINE s == [e EXCEPT !.status = "ended", !.isPublic = FALSE, !.adminOverride = TRUE]
    <3>1. e.status \in {"published", "sales_paused", "started"} /\ r = Bump(s)
      BY <1>6, <2>2 DEF AdminForceCompleteEvent, When
    <3>2. "ended" \in EventStatuses /\ "ended" \notin PublicStatuses
      BY DEF EventStatuses, PublicStatuses
    <3>3. s \in EventAt(Nat \ {0}) /\ s.version = e.version /\ s.status = "ended" /\ s.isPublic = FALSE
      BY <1>0, <3>2 DEF EventAt
    <3>4. <<e.status, "ended">> \in LifeCycle
      BY <3>1 DEF LifeCycle
    <3> HIDE DEF s
    <3> QED
      BY <2>2, <3>1, <3>2, <3>3, <3>4, BumpedEvent
  <2> QED
    BY <2>1, <2>2
<1>7. CASE r \in Publish(e, on)
  <2>1. "published" \in EventStatuses \ {"draft"}
    BY DEF EventStatuses
  <2>2. CASE e.status # "review"
    BY <1>2, <1>7, <2>1, <2>2 DEF Publish
  <2>3. CASE e.status = "review"
    <3> DEFINE u == [e EXCEPT !.status = "scheduled"]
               s == [u EXCEPT !.status = "published", !.isPublic = "published" \in PublicStatuses,
                              !.adminOverride = FALSE]
    <3>1. "scheduled" \in EventStatuses /\ "published" \in PublicStatuses
      BY DEF EventStatuses, PublicStatuses
    <3>2. u \in EventAt(Nat \ {0}) /\ u.status = "scheduled" /\ u.version = e.version
      BY <1>0, <3>1 DEF EventAt
    <3>3. r \in TransitionEvent(u, "published")
      BY <1>7, <2>3 DEF Publish
    <3> HIDE DEF u
    <3>4. r = Bump(s)
      BY <3>2, <3>3 DEF TransitionEvent, When
    <3> DEFINE v == [u EXCEPT !.status = "published", !.isPublic = TRUE, !.adminOverride = FALSE]
    <3>5. s = v
      BY <3>1
    <3>6. v \in EventAt(Nat \ {0}) /\ v.version = e.version /\ v.status = "published" /\ v.isPublic = TRUE
      BY <2>1, <3>2 DEF EventAt
    <3> HIDE DEF s, v
    <3>7. <<e.status, "published">> \in LifeCycle
      BY <2>3 DEF LifeCycle
    <3> QED
      BY <2>3, <3>1, <3>4, <3>5, <3>6, <3>7, BumpedEvent
  <2> QED
    BY <2>2, <2>3
<1> QED
  BY <1>1, <1>2, <1>3, <1>4, <1>5, <1>6, <1>7

\* What a request about the event knows: what it will save was made from the event as it
\* stands, or is late; what it read is as it stands or older.  One creation is in flight.
EventKnown(c, q) ==
  /\ q.pc \in {"read", "readTiers", "saveEvent"}
  /\ q.op = "createEvent" =>
       /\ event = None /\ q.arg \in (SUBSET Tiers) \cup {None}
       /\ \A d \in Calls : call[d].op = "createEvent" => d = c
       /\ q.pc # "read" => q.row \in EventRow
  /\ q.op # "createEvent" =>
       /\ event \in EventRow
       /\ q.pc = "saveEvent" => IsBehind(event, q.row) \/ Advances(event, q.row)
       /\ q.pc = "readTiers" => q.row \in EventRow /\ (q.row = event \/ q.row.version < event.version)
  /\ q.op = "updateEvent" => q.arg \in (SUBSET Tiers) \cup {None}
  /\ q.op = "transitionTo" => q.arg \in EventStatuses \ {"draft"}

EventCall(c) == call[c].pc # "idle" => EventKnown(c, call[c])

EventCalls == part = "event" => CallsShaped /\ \A c \in Calls : EventCall(c)

EventInv == (event = None \/ event \in EventRow) /\ EventCalls

LEMMA EventInit0 == Init => EventInv
BY DEF Init, EventInit, EventInv, EventCalls, EventCall, CallsShaped, Shaped, Idle, Free

LEMMA EventQuiet ==
  ASSUME EventInv, part = "event", part' = part, NEW c \in Calls, NEW q, CallIs(c, q), EventCall(c)',
         event' = event,
         q.op = "createEvent" => \A d \in Calls : call[d].op = "createEvent" => d = c
  PROVE  EventInv'
<1>1. ASSUME NEW d \in Calls, d # c PROVE EventCall(d)'
  <2>1. EventCall(d) /\ call'[d] = call[d] /\ call'[c] = q
    BY <1>1 DEF EventInv, EventCalls, CallIs
  <2>2. call[d].op = "createEvent" => q.op # "createEvent"
    BY <1>1
  <2>3. call[d].pc # "idle" /\ call[d].op = "createEvent" =>
          \A e \in Calls : call'[e].op = "createEvent" => e = d
    BY <2>1, <2>2 DEF CallIs, EventCall, EventKnown
  <2> QED
    BY <2>1, <2>3 DEF EventCall, EventKnown
<1> QED
  BY <1>1 DEF EventInv, EventCalls, CallIs

LEMMA EventLeaves ==
  ASSUME EventInv, part = "event", part' = part, NEW c \in Calls, Leave(c), event' = event
  PROVE  EventInv'
<1>1. CallIs(c, Idle)
  BY Leaving DEF EventInv, EventCalls
<1>2. EventCall(c)'
  BY <1>1 DEF EventCall, CallIs, Idle
<1> QED
  BY <1>1, <1>2, EventQuiet DEF Idle

LEMMA EventArrival ==
  ASSUME EventInv, part = "event", part' = part, NEW c \in Calls, EventArrives(c)
  PROVE  EventInv'
<1>0. CallsShaped /\ event' = event
  BY DEF EventInv, EventCalls, EventArrives, eventVars
<1>1. ASSUME NEW op, NEW who, NEW on, NEW arg, Arrive(c, op, who, on, arg),
             op = "createEvent" => /\ event = None /\ \A d \in Calls : call[d].op # "createEvent",
             op # "createEvent" => event # None,
             op \in {"createEvent", "updateEvent"} => arg \in (SUBSET Tiers) \cup {None},
             op = "transitionTo" => arg \in EventStatuses \ {"draft"}
      PROVE  EventInv'
  <2> DEFINE new == [op |-> op, pc |-> "read", who |-> who, on |-> on, arg |-> arg, row |-> None]
  <2>1. CallIs(c, new)
    BY <1>0, <1>1, Arriving
  <2>2. op # "createEvent" => event \in EventRow
    BY <1>1 DEF EventInv
  <2>3. op = "createEvent" => \A d \in Calls : call'[d].op = "createEvent" => d = c
    BY <1>1, <2>1 DEF CallIs
  <2>4. EventKnown(c, new)'
    BY <1>0, <1>1, <2>2, <2>3 DEF EventKnown
  <2>5. EventCall(c)'
    BY <2>1, <2>4 DEF EventCall, CallIs
  <2> QED
    BY <1>0, <1>1, <2>1, <2>5, EventQuiet
<1>2. CASE PostEvent(c)
  BY <1>1, <1>2 DEF PostEvent
<1>3. CASE PatchEvent(c)
  BY <1>1, <1>3 DEF PatchEvent
<1>4. CASE MoveEvent(c)
  BY <1>1, <1>4 DEF MoveEvent
<1>5. CASE PostEventAction(c) \/ PostEventCancel(c) \/ PostAdminPause(c) \/ PostAdminResume(c)
           \/ PostAdminComplete(c) \/ PostTier(c)
  BY <1>1, <1>5 DEF PostEventAction, SimpleActions, PostEventCancel, PostAdminPause, PostAdminResume,
     PostAdminComplete, PostTier
<1> QED
  BY <1>2, <1>3, <1>4, <1>5 DEF EventArrives

\* A request goes on with what it now knows.
LEMMA EventGoes ==
  ASSUME EventInv, part = "event", part' = part, NEW c \in Calls, call[c].pc # "idle",
         NEW pc \in {"readTiers", "saveEvent"}, NEW r, Goto(c, pc, r), event' = event,
         call[c].op = "createEvent" => r \in EventRow,
         call[c].op # "createEvent" /\ pc = "saveEvent" => IsBehind(event, r) \/ Advances(event, r),
         call[c].op # "createEvent" /\ pc = "readTiers" =>
           r \in EventRow /\ (r = event \/ r.version < event.version)
  PROVE  EventInv'
<1> DEFINE q == call[c]
           new == [op |-> q.op, pc |-> pc, who |-> q.who, on |-> q.on, arg |-> q.arg, row |-> r]
<1>0. CallsShaped /\ EventKnown(c, q)
  BY DEF EventInv, EventCalls, EventCall
<1>1. CallIs(c, new)
  BY <1>0, Going
<1>2. EventKnown(c, new)
  BY <1>0 DEF EventKnown
<1>3. \A d \in Calls : call'[d].op = call[d].op
  BY <1>1 DEF CallIs
<1>4. EventKnown(c, new)'
  BY <1>0, <1>1, <1>2, <1>3 DEF EventKnown, CallIs
<1>5. EventCall(c)'
  BY <1>1, <1>4 DEF EventCall, CallIs
<1> QED
  BY <1>0, <1>1, <1>5, EventQuiet DEF EventKnown

\* A request reads the event and decides its next version.
LEMMA EventDecided ==
  ASSUME EventInv, part = "event", part' = part, NEW c \in Calls, call[c].pc # "idle",
         call[c].op # "createEvent", NEW made, Decide(c, made, "saveEvent"), event' = event,
         \A r \in made : (r = event /\ 1 < event.version) \/ Advances(event, r)
  PROVE  EventInv'
<1>1. event \in EventRow
  BY DEF EventInv, EventCalls, EventCall, EventKnown
<1>2. \A r \in made : IsBehind(event, r) \/ Advances(event, r)
  BY <1>1 DEF IsBehind, EventRow, EventAt
<1> QED
  BY <1>2, EventLeaves, EventGoes DEF Decide

\* The event is stored: created, or advanced.  What others were about to save is late now.
LEMMA EventStored ==
  ASSUME EventInv, part = "event", part' = part, NEW c \in Calls, call[c].pc # "idle", Leave(c),
         NEW r \in EventRow, event' = r,
         \/ call[c].op = "createEvent"
         \/ call[c].op # "createEvent" /\ Advances(event, r)
  PROVE  EventInv'
<1>0. CallsShaped /\ EventKnown(c, call[c])
  BY DEF EventInv, EventCalls, EventCall
<1>1. CallIs(c, Idle)
  BY <1>0, Leaving
<1>2. ASSUME NEW d \in Calls PROVE EventCall(d)'
  <2>1. CASE d = c
    BY <1>1, <2>1 DEF EventCall, CallIs, Idle
  <2>2. CASE d # c /\ call[d].pc = "idle"
    BY <1>1, <2>2 DEF EventCall, CallIs
  <2>3. CASE d # c /\ call[d].pc # "idle"
    <3>1. EventKnown(d, call[d]) /\ call'[d] = call[d]
      BY <1>1, <2>3 DEF EventInv, EventCalls, EventCall, CallIs
    <3>2. call[d].op # "createEvent" /\ event \in EventRow /\ call[c].op # "createEvent"
      BY <1>0, <2>3, <3>1, NoEvent DEF EventKnown
    <3>3. r.version = event.version + 1 /\ event.version \in Nat \ {0}
      BY <3>2 DEF Advances, EventRow, EventAt
    <3>4. \A x \in EventRow : x.version \in Nat \ {0}
      BY DEF EventRow, EventAt
    <3>5. \A x : IsBehind(event, x) \/ Advances(event, x) => IsBehind(r, x)
      BY <3>2, <3>3, <3>4 DEF IsBehind, Advances
    <3> QED
      BY <3>1, <3>2, <3>3, <3>4, <3>5 DEF EventCall, EventKnown
  <2> QED
    BY <2>1, <2>2, <2>3
<1> QED
  BY <1>1, <1>2 DEF EventInv, EventCalls, CallIs

\* What may be written over the event advances it.
LEMMA EventSaves ==
  ASSUME EventInv, part = "event", part' = part, NEW c \in Calls, SaveEvent(c)
  PROVE  EventInv' /\ (event # None => event' = event \/ EventKept(event, event'))
<1> DEFINE q == call[c]
<1>0. CallsShaped /\ EventKnown(c, q) /\ q.pc = "saveEvent" /\ Leave(c)
      /\ event' = IF MayWrite(event, q.row) THEN q.row ELSE event
  BY DEF EventInv, EventCalls, EventCall, SaveEvent
<1>1. CASE q.op = "createEvent"
  <2>1. event = None /\ q.row \in EventRow
    BY <1>0, <1>1 DEF EventKnown
  <2>2. CASE MayWrite(event, q.row)
    BY <1>0, <1>1, <2>1, <2>2, EventStored
  <2>3. CASE ~MayWrite(event, q.row)
    BY <1>0, <2>3, EventLeaves
  <2> QED
    BY <2>1, <2>2, <2>3
<1>2. CASE q.op # "createEvent"
  <2>1. event \in EventRow /\ (IsBehind(event, q.row) \/ Advances(event, q.row))
    BY <1>0, <1>2 DEF EventKnown
  <2>2. q.row \in EventRow /\ q.row.version \in Nat \ {0} /\ event.version \in Nat \ {0}
    BY <2>1 DEF IsBehind, Advances, EventRow, EventAt
  <2>3. MayWrite(event, q.row) => Advances(event, q.row)
    BY <2>1, <2>2 DEF MayWrite, IsBehind
  <2>4. CASE MayWrite(event, q.row)
    BY <1>0, <1>2, <2>2, <2>3, <2>4, EventStored DEF Advances
  <2>5. CASE ~MayWrite(event, q.row)
    BY <1>0, <2>5, EventLeaves
  <2> QED
    BY <2>4, <2>5
<1> QED
  BY <1>1, <1>2

LEMMA EventWorks ==
  ASSUME EventInv, part = "event", part' = part, NEW c \in Calls, EventStep(c)
  PROVE  EventInv' /\ (event # None => event' = event \/ EventKept(event, event'))
<1> DEFINE q == call[c]
<1>0. q.pc # "idle" => EventKnown(c, q)
  BY DEF EventInv, EventCalls, EventCall
<1>1. CASE EventArrives(c)
  BY <1>1, EventArrival DEF EventArrives, eventVars
<1>2. CASE AssertVenueAccess(c)
  <2>1. q.op = "createEvent" /\ q.pc = "read" /\ event' = event
        /\ (Goto(c, "saveEvent", CreateEvent(q.arg)) \/ Leave(c))
    BY <1>2 DEF AssertVenueAccess, At, eventVars
  <2>2. PICK rates \in (SUBSET Tiers) \cup {None} : rates = q.arg
    BY <1>0, <2>1 DEF EventKnown
  <2>3. "draft" \in EventStatuses /\ "draft" \notin PublicStatuses
    BY DEF EventStatuses, PublicStatuses
  <2>4. CreateEvent(rates) \in EventRow
    BY <2>3 DEF CreateEvent, EventRow, EventAt
  <2>5. CASE Leave(c)
    BY <2>1, <2>5, EventLeaves
  <2>6. CASE Goto(c, "saveEvent", CreateEvent(rates))
    BY <2>1, <2>4, <2>6, EventGoes
  <2> QED
    BY <2>1, <2>2, <2>5, <2>6
<1>3. CASE FetchOwned(c)
  <2>1. /\ q.op \in HostOps /\ q.pc = "read" /\ event' = event
        /\ Decide(c, EventRule(q), "saveEvent")
    BY <1>3 DEF FetchOwned, eventVars
  <2>2. event \in EventRow /\ EventKnown(c, q) /\ q.op # "createEvent"
    BY <1>0, <2>1 DEF EventKnown, HostOps
  <2>3. {"review", "sales_paused", "published"} \subseteq EventStatuses \ {"draft"} /\ {} \in SUBSET Tiers
    BY DEF EventStatuses
  <2>4. \/ q.op = "updateEvent" /\ EventRule(q) \subseteq UpdateEvent(event, q.arg)
        \/ EventRule(q) = TransitionEvent(event, "review")
        \/ EventRule(q) = TransitionEvent(event, "sales_paused")
        \/ EventRule(q) = TransitionEvent(event, "published")
        \/ EventRule(q) = CancelEvent(event)
        \/ q.op = "transitionTo" /\ EventRule(q) = TransitionEvent(event, q.arg)
    BY <2>1 DEF EventRule, HostOps
  <2>5. \A r \in EventRule(q) : (r = event /\ 1 < event.version) \/ Advances(event, r)
    <3>1. q.op = "updateEvent" => q.arg \in (SUBSET Tiers) \cup {None}
      BY <2>2 DEF EventKnown
    <3>2. q.op = "transitionTo" => q.arg \in EventStatuses \ {"draft"}
      BY <2>2 DEF EventKnown
    <3>3. ASSUME NEW to \in EventStatuses \ {"draft"},
                 NEW r \in TransitionEvent(event, to) \cup CancelEvent(event)
          PROVE  (r = event /\ 1 < event.version) \/ Advances(event, r)
      BY <2>2, <2>3, EventRules
    <3>4. ASSUME NEW rates \in (SUBSET Tiers) \cup {None}, NEW r \in UpdateEvent(event, rates)
          PROVE  (r = event /\ 1 < event.version) \/ Advances(event, r)
      BY <2>2, <2>3, EventRules
    <3> QED
      BY <2>3, <2>4, <3>1, <3>2, <3>3, <3>4
  <2> QED
    BY <2>1, <2>2, <2>5, EventDecided
<1>4. CASE PublishReadsEvent(c)
  <2>1. q.op = "publish" /\ q.pc = "read" /\ event' = event /\ Goto(c, "readTiers", event)
    BY <1>4 DEF PublishReadsEvent, At, eventVars
  <2>2. event \in EventRow
    BY <1>0, <2>1 DEF EventKnown
  <2> QED
    BY <2>1, <2>2, EventGoes
<1>5. CASE PublishReadsTiers(c)
  <2>1. q.op = "publish" /\ q.pc = "readTiers" /\ event' = event
        /\ Decide(c, Publish(q.row, tiers), "saveEvent")
    BY <1>5 DEF PublishReadsTiers, At, eventVars
  <2>2. PICK e \in EventRow : e = q.row /\ (e = event \/ e.version < event.version) /\ event \in EventRow
    BY <1>0, <2>1 DEF EventKnown
  <2>3. ASSUME NEW r \in Publish(e, tiers) PROVE IsBehind(event, r) \/ Advances(event, r)
    <3>1. (r = e /\ 1 < e.version) \/ Advances(e, r)
      <4>1. "review" \in EventStatuses \ {"draft"} /\ {} \in SUBSET Tiers
        BY DEF EventStatuses
      <4> QED
        BY <4>1, EventRules
    <3>2. e.version \in Nat \ {0} /\ event.version \in Nat \ {0} /\ r \in EventRow
      BY <2>2, <3>1 DEF Advances, EventRow, EventAt
    <3> QED
      BY <2>2, <3>1, <3>2 DEF IsBehind, Advances
  <2>4. ASSUME NEW r \in Publish(e, tiers), Goto(c, "saveEvent", r) PROVE EventInv'
    BY <2>1, <2>3, <2>4, EventGoes
  <2> QED
    BY <2>1, <2>2, <2>4, EventLeaves DEF Decide
<1>6. CASE Duplicate(c)
  BY <1>6, EventLeaves DEF Duplicate, eventVars
<1>7. CASE RequireEvent(c)
  <2>1. /\ q.op \in {"adminPause", "adminResume", "adminComplete"} /\ q.pc = "read" /\ event' = event
        /\ Decide(c, AdminRule(q) \ {event}, "saveEvent")
    BY <1>7 DEF RequireEvent, eventVars
  <2>2. event \in EventRow
    BY <1>0, <2>1 DEF EventKnown
  <2>3. AdminRule(q) \in {AdminPauseEvent(event), AdminResumeEvent(event), AdminForceCompleteEvent(event)}
    BY <2>1 DEF AdminRule
  <2>4. \A r \in AdminRule(q) : (r = event /\ 1 < event.version) \/ Advances(event, r)
    <3>1. "review" \in EventStatuses \ {"draft"} /\ {} \in SUBSET Tiers
      BY DEF EventStatuses
    <3> QED
      BY <2>2, <2>3, <3>1, EventRules
  <2> QED
    BY <2>1, <2>4, EventDecided
<1>8. CASE CreateTier(c)
  BY <1>8, EventLeaves DEF CreateTier
<1>9. CASE SaveEvent(c)
  BY <1>9, EventSaves
<1> QED
  BY <1>1, <1>2, <1>3, <1>4, <1>5, <1>6, <1>7, <1>8, <1>9 DEF EventStep

LEMMA EventNext ==
  EventInv /\ [Next]_programmeVars =>
    EventInv' /\ [event # None => EventKept(event, event')]_event
<1> SUFFICES ASSUME EventInv, [Next]_programmeVars
             PROVE  EventInv' /\ (event # None => event' = event \/ EventKept(event, event'))
  OBVIOUS
<1>0. part' = part
  BY Happens
<1>1. CASE UNCHANGED <<call, rows>>
  BY <1>0, <1>1 DEF rows, eventVars, EventInv, EventCalls, CallsShaped, EventCall, EventKnown, Free
<1>2. CASE part # "event"
  <2>1. event' = event
    BY <1>2, Happens DEF OthersKept, rows, eventVars
  <2> QED
    BY <1>0, <1>2, <2>1 DEF EventInv, EventCalls
<1>3. ASSUME part = "event", NEW c \in Calls, Leave(c), UNCHANGED rows
      PROVE  EventInv' /\ event' = event
  BY <1>0, <1>3, EventLeaves DEF rows, eventVars
<1>4. ASSUME part = "event", NEW c \in Calls, Work(c)
      PROVE  EventInv' /\ (event # None => event' = event \/ EventKept(event, event'))
  BY <1>0, <1>4, EventWorks DEF Work
<1>5. ASSUME part = "event", World PROVE FALSE
  BY <1>5 DEF World
<1> QED
  BY <1>1, <1>2, <1>3, <1>4, <1>5, Happens

\* An event moves along its life cycle alone, whoever edits, publishes, pauses, cancels or
\* ends it at once and from whatever older version: for any number of requests and tiers.
THEOREM EventsLive == Spec => EventLifeCycle
BY EventInit0, EventNext, PTL DEF Spec, EventLifeCycle

---------------------------------------------------------------------------
(* The feed.                                                               *)

FeedByFollower == feed = [u \in Followers |-> feed[u]]

LEMMA FeedInit0 == Init => FeedByFollower
BY DEF Init, SocialInit, FeedByFollower

\* A row about the event is created where there is none, or read.
LEMMA FeedMoves ==
  ASSUME FeedByFollower, [Next]_programmeVars, feed' # feed
  PROVE  \E u : \/ feed[u] = None /\ feed' = [feed EXCEPT ![u] = "unread"]
                \/ feed' = [feed EXCEPT ![u] = "read"]
<1>1. PICK c \in Calls : Work(c) /\ IsInboxPart(part)
  <2>1. World => ~IsInboxPart(part)
    BY DEF World, IsInboxPart
  <2> QED
    BY <2>1, Happens DEF OthersKept, rows, socialVars
<1>2. FollowStep(c) \/ InboxStep(c) \/ ProfileStep(c)
  BY <1>1 DEF Work, IsInboxPart
<1>3. CASE InboxStep(c)
  BY <1>3 DEF InboxStep, RecordNotice, PatchNotice, PatchAllNotices, PostNoticeAction, OwnedNotice,
     MarkNotices, socialVars
<1>4. CASE ProfileStep(c)
  BY <1>4 DEF ProfileStep, PutProfile, ReadProfile, SaveProfile, socialVars
<1>5. CASE FollowStep(c)
  <2>1. NotifyFollower(c) \/ CommitReadAt(c)
    BY <1>5 DEF FollowStep, PostFollow, DeleteFollow, ReadEdge, SaveEdge, DeleteEdge, EventMoves, Delivery,
       ReadEvent, ListFollowers, PostRead, FindUnread, socialVars
  <2> QED
    BY <2>1 DEF NotifyFollower, CreateIfAbsent, CommitReadAt
<1> QED
  BY <1>2, <1>3, <1>4, <1>5

LEMMA FeedNext ==
  FeedByFollower /\ [Next]_programmeVars =>
    FeedByFollower' /\ [\A u \in Followers : feed[u] = "read" => feed'[u] = "read"]_feed
BY FeedMoves, SocialAssumption DEF FeedByFollower

\* "A re-publish never duplicates or un-reads": what a guest has read stays read, for any
\* number of guests, deliveries and readings side by side.
THEOREM FeedsStayRead == Spec => ReadStaysRead
BY FeedInit0, FeedNext, PTL DEF Spec, ReadStaysRead

---------------------------------------------------------------------------
(* Quotes.                                                                 *)

\* A sum of naturals is one.
LEMMA SumIsNat ==
  ASSUME NEW S, IsFiniteSet(S), NEW w, \A x \in S : w[x] \in Nat
  PROVE  Sum(w, S) \in Nat
<1> DEFINE good == {T \in SUBSET S : Sum(w, T) \in Nat}
<1>1. ASSUME NEW T \in SUBSET S, \A R \in SUBSET T : R # T => R \in good
      PROVE  Sum(w, T) \in Nat
  <2>0. IsFiniteSet(T)
    <3> HIDE DEF good
    <3> QED
      BY FS_Subset
  <2>1. CASE T = {}
    <3>1. Sum(w, {}) = 0
      BY <2>0, SumTakes
    <3> QED
      BY <2>1, <3>1
  <2>2. CASE T # {}
    <3>1. PICK x \in T : Sum(w, T) = w[x] + Sum(w, T \ {x})
      BY <2>0, <2>2, SumTakes
    <3>2. T \ {x} \in good
      BY <1>1
    <3> QED
      BY <3>1, <3>2
  <2> QED
    BY <2>1, <2>2
<1>2. \A T \in SUBSET S : T \in good
  <2>1. \A T \in SUBSET S : (\A R \in SUBSET T : R # T => R \in good) => T \in good
    BY <1>1
  <2> HIDE DEF good
  <2> QED
    BY <2>1, SubsetsAllIn
<1> QED
  BY <1>2

\* A finite set of naturals has a least and a greatest one.
LEMMA Extremes ==
  ASSUME NEW S, IsFiniteSet(S), S \subseteq Nat, S # {}
  PROVE  Min(S) \in S /\ Max(S) \in S
<1> DEFINE good == {T \in SUBSET S : T # {} => \E a, b \in T : \A x \in T : a <= x /\ x <= b}
<1>1. ASSUME NEW T \in SUBSET S, \A R \in SUBSET T : R # T => R \in good, T # {}
      PROVE  \E a, b \in T : \A x \in T : a <= x /\ x <= b
  <2>1. PICK y \in T : TRUE
    BY <1>1
  <2>2. CASE T = {y}
    BY <2>2
  <2>3. CASE T # {y}
    <3>1. PICK a \in T, b \in T : \A x \in T \ {y} : a <= x /\ x <= b
      <4>1. T \ {y} \in good /\ T \ {y} # {}
        BY <1>1, <2>3
      <4> QED
        BY <4>1
    <3>2. a \in Nat /\ b \in Nat /\ y \in Nat
      OBVIOUS
    <3>3. PICK lo \in {a, y} : lo <= a /\ lo <= y
      BY <3>2
    <3>4. PICK hi \in {b, y} : b <= hi /\ y <= hi
      BY <3>2
    <3>5. \A x \in T : x \in Nat
      OBVIOUS
    <3>6. \A x \in T : lo <= x /\ x <= hi
      BY <3>1, <3>2, <3>3, <3>4, <3>5
    <3> QED
      BY <3>6
  <2> QED
    BY <2>2, <2>3
<1>2. \A T \in SUBSET S : T \in good
  <2>1. \A T \in SUBSET S : (\A R \in SUBSET T : R # T => R \in good) => T \in good
    BY <1>1
  <2> HIDE DEF good
  <2> QED
    BY <2>1, SubsetsAllIn
<1>3. PICK a \in S, b \in S : \A x \in S : a <= x /\ x <= b
  BY <1>2
<1> QED
  BY <1>3 DEF Min, Max

\* What lines cost, as a sum, is a natural.
LEMMA CostIsNat ==
  ASSUME NEW S, IsFiniteSet(S), NEW lines, NEW unit, \A k \in S : lines[k] \in Nat /\ unit[k] \in Nat
  PROVE  Cost(lines, unit, S) \in Nat
<1> DEFINE w == [k \in S |-> lines[k] * unit[k]]
           fold == CHOOSE g : g = [s \in SUBSET S |->
                     IF s = {} THEN 0
                     ELSE lines[CHOOSE x \in s : TRUE] * unit[CHOOSE x \in s : TRUE]
                          + g[s \ {CHOOSE x \in s : TRUE}]]
<1>1. Cost(lines, unit, S) = fold[S]
  BY DEF Cost, MapThenSumSet, MapThenFoldSet
<1>2. ASSUME NEW s \in SUBSET S, s # {}
      PROVE  w[Pick(s)] = lines[CHOOSE x \in s : TRUE] * unit[CHOOSE x \in s : TRUE]
  BY <1>2 DEF Pick
<1>3. \A k \in S : w[k] \in Nat
  OBVIOUS
<1> HIDE DEF w
<1>4. ASSUME NEW g
      PROVE  Sums(g, w, S) <=>
               g = [s \in SUBSET S |->
                     IF s = {} THEN 0
                     ELSE lines[CHOOSE x \in s : TRUE] * unit[CHOOSE x \in s : TRUE]
                          + g[s \ {CHOOSE x \in s : TRUE}]]
  BY <1>2 DEF Sums, Pick
<1>5. PICK h : Sums(h, w, S)
  BY SumsExist
<1>6. Sums(fold, w, S)
  <2>1. h = [s \in SUBSET S |->
              IF s = {} THEN 0
              ELSE lines[CHOOSE x \in s : TRUE] * unit[CHOOSE x \in s : TRUE]
                   + h[s \ {CHOOSE x \in s : TRUE}]]
    BY <1>4, <1>5
  <2>2. fold = [s \in SUBSET S |->
              IF s = {} THEN 0
              ELSE lines[CHOOSE x \in s : TRUE] * unit[CHOOSE x \in s : TRUE]
                   + fold[s \ {CHOOSE x \in s : TRUE}]]
    BY <2>1
  <2> QED
    BY <1>4, <2>2
<1> HIDE DEF fold
<1>7. fold[S] = Sum(w, S)
  BY <1>6, SumOf
<1>8. Sum(w, S) \in Nat
  BY <1>3, SumIsNat
<1> QED
  BY <1>1, <1>7, <1>8

\* A tier and its phases are priced in whole paise.
Priced(t) == t.price \in Nat /\ \A p \in t.phases : p.price \in Nat

\* A code takes off a percentage or a fixed amount, from classes on sale.
Deducts(deal) ==
  /\ deal.value \in Nat /\ deal.on \subseteq Classes
  /\ deal.kind = "percent" => deal.value \in 1..100

Breakdown ==
  [lines : [Classes -> Nat], unit : [Classes -> Nat], subtotal : Nat, discount : Nat,
   platformFee : Nat, paymentFee : Nat, gst : Nat, total : Nat, commission : Nat]

\* What a quote that has been put together promises the guest.
IsFair(b) ==
  /\ b \in Breakdown
  /\ b.total <= CalculatePricing(b.lines, b.unit, None).total
  /\ b.discount > 0 =>
       /\ offer # None
       /\ b.discount <= Cost(b.lines, b.unit, IF offer.on = {} THEN Classes ELSE offer.on)
  /\ b.commission + b.platformFee <= b.total

QuoteCall(c) ==
  LET q == call[c] IN
  q.pc # "idle" =>
    /\ q.pc \in {"read", "promo", "attribute", "answer"}
    /\ q.arg.lines \in [Classes -> Nat]
    /\ q.pc = "promo" => q.row \in [Classes -> Nat]
    /\ q.pc \in {"attribute", "answer"} => IsFair(q.row)

QuoteCalls == part = "quote" => CallsShaped /\ \A c \in Calls : QuoteCall(c)

QuoteRows ==
  /\ class = [k \in Classes |-> class[k]]
  /\ \A k \in Classes : class[k] = None \/ Priced(class[k])
  /\ offer = None \/ Deducts(offer)
  /\ signed \in TermsSigned \cup {None}

QuoteInv == QuoteRows /\ QuoteCalls

LEMMA QuoteInit0 == Init => QuoteInv
BY DEF Init, QuoteInit, QuoteInv, QuoteRows, QuoteCalls, QuoteCall, CallsShaped, Shaped, Idle, Free

\* A rate in tenths of a percent of a natural is one, and grows with it.
LEMMA Percent ==
  ASSUME NEW a \in Nat, NEW tenths \in Nat
  PROVE  ApplyPercent(a, tenths) \in Nat
<1>1. PICK n \in Nat : n = a * tenths + 500
  OBVIOUS
<1>2. n \div 1000 \in Nat
  OBVIOUS
<1> QED
  BY <1>1, <1>2 DEF ApplyPercent

LEMMA Fees ==
  ASSUME NEW a \in Nat, NEW b \in Nat, a <= b
  PROVE  /\ ApplyPercent(a, 50) <= ApplyPercent(b, 50)
         /\ ApplyPercent(a, 25) <= ApplyPercent(b, 25)
         /\ ApplyPercent(a, 180) <= ApplyPercent(b, 180)
         /\ ApplyPercent(a, 50) <= a
BY DEF ApplyPercent

\* A code never takes off more than the lines it is for.
LEMMA DiscountFits ==
  ASSUME NEW deal, Deducts(deal), NEW lines \in [Classes -> Nat], NEW unit \in [Classes -> Nat]
  PROVE  LET on == IF deal.on = {} THEN Classes ELSE deal.on IN
         /\ DiscountFor(deal, lines, unit) \in Nat
         /\ DiscountFor(deal, lines, unit) <= Cost(lines, unit, on)
<1> DEFINE on == IF deal.on = {} THEN Classes ELSE deal.on
<1>1. on \subseteq Classes
  BY DEF Deducts
<1>2. IsFiniteSet(on)
  <2> HIDE DEF on
  <2> QED
    BY <1>1, QuoteAssumption, FS_Subset
<1>3. Cost(lines, unit, on) \in Nat
  <2> HIDE DEF on
  <2> QED
    BY <1>1, <1>2, CostIsNat
<1>4. PICK eligible \in Nat : eligible = Cost(lines, unit, on)
  BY <1>3
<1>5. PICK value \in Nat : value = deal.value
  BY DEF Deducts
<1>6. PICK raw \in Nat :
        raw = IF deal.kind = "percent" THEN ApplyPercent(eligible, value * 10) ELSE value
  <2>1. value * 10 \in Nat
    OBVIOUS
  <2>2. ApplyPercent(eligible, value * 10) \in Nat
    BY <2>1, Percent
  <2> QED
    BY <2>2
<1>7. DiscountFor(deal, lines, unit) = IF raw < eligible THEN raw ELSE eligible
  BY <1>4, <1>5, <1>6 DEF DiscountFor
<1> QED
  BY <1>4, <1>7

\* What a basket comes to: the parts are naturals, and a code makes it no dearer.
LEMMA PricingIsFair ==
  ASSUME NEW lines \in [Classes -> Nat], NEW unit \in [Classes -> Nat],
         NEW deal, deal = None \/ Deducts(deal)
  PROVE  LET b == CalculatePricing(lines, unit, deal) IN
         /\ b \in Breakdown /\ b.lines = lines /\ b.unit = unit
         /\ b.total <= CalculatePricing(lines, unit, None).total
         /\ b.discount > 0 =>
              /\ deal # None
              /\ b.discount <= Cost(lines, unit, IF deal.on = {} THEN Classes ELSE deal.on)
         /\ b.commission = 0 /\ b.platformFee <= b.total
<1> DEFINE discount == IF deal = None THEN 0 ELSE DiscountFor(deal, lines, unit)
<1>1. PICK subtotal \in Nat : subtotal = Cost(lines, unit, Classes)
  BY QuoteAssumption, CostIsNat
<1>2. PICK d \in Nat :
         /\ d = discount
         /\ d > 0 => deal # None /\ d <= Cost(lines, unit, IF deal.on = {} THEN Classes ELSE deal.on)
  <2>1. CASE deal = None
    BY <2>1
  <2>2. CASE deal # None
    BY <2>2, DiscountFits
  <2> QED
    BY <2>1, <2>2
<1>3. PICK left \in Nat : left = Discounted(subtotal, d) /\ left <= subtotal
  BY DEF Discounted
<1>4. Discounted(subtotal, 0) = subtotal
  BY DEF Discounted
<1>5. ASSUME NEW x \in Nat
      PROVE  ApplyPercent(x, 50) \in Nat /\ ApplyPercent(x, 25) \in Nat /\ ApplyPercent(x, 180) \in Nat
  BY Percent
<1>6. PICK fee \in Nat, pay \in Nat : fee = ApplyPercent(left, 50) /\ pay = ApplyPercent(left, 25)
  BY <1>5
<1>7. PICK gst \in Nat : gst = ApplyPercent(fee + pay, 180)
  BY <1>5
<1>8. PICK fee0 \in Nat, pay0 \in Nat : fee0 = ApplyPercent(subtotal, 50) /\ pay0 = ApplyPercent(subtotal, 25)
  BY <1>5
<1>9. PICK gst0 \in Nat : gst0 = ApplyPercent(fee0 + pay0, 180)
  BY <1>5
<1>10. fee <= fee0 /\ pay <= pay0
  BY <1>3, <1>6, <1>8, Fees
<1>11. gst <= gst0
  BY <1>7, <1>9, <1>10, Fees
<1>12. CalculatePricing(lines, unit, deal) =
         [lines |-> lines, unit |-> unit, subtotal |-> subtotal, discount |-> d, platformFee |-> fee,
          paymentFee |-> pay, gst |-> gst, total |-> left + fee + pay + gst, commission |-> 0]
  BY <1>1, <1>2, <1>3, <1>6, <1>7 DEF CalculatePricing
<1>13. CalculatePricing(lines, unit, None).total = subtotal + fee0 + pay0 + gst0
  BY <1>1, <1>4, <1>8, <1>9 DEF CalculatePricing
<1> HIDE DEF discount
<1> QED
  BY <1>2, <1>3, <1>10, <1>11, <1>12, <1>13 DEF Breakdown

\* So is what a promoter earns on the lines.
LEMMA CommissionIsNat ==
  ASSUME NEW b, b.lines \in [Classes -> Nat], b.unit \in [Classes -> Nat],
         NEW terms \in CommissionTerms
  PROVE  CommissionForLines(b, terms) \in Nat
<1> DEFINE S == Classes
           earned(k) == (b.lines[k] * b.unit[k] * terms[k].percent) \div 100 + terms[k].flat * b.lines[k]
           w == [k \in S |-> earned(k)]
           folds(g) == g = [s \in SUBSET S |->
                         IF s = {} THEN 0
                         ELSE earned(CHOOSE x \in s : TRUE) + g[s \ {CHOOSE x \in s : TRUE}]]
           fold == CHOOSE g : folds(g)
<1>1. CommissionForLines(b, terms) = fold[S]
  BY DEF CommissionForLines, MapThenSumSet, MapThenFoldSet
<1>2. ASSUME NEW s \in SUBSET S, s # {}
      PROVE  w[Pick(s)] = earned(CHOOSE x \in s : TRUE)
  BY <1>2 DEF Pick
<1>3. \A k \in S : w[k] \in Nat
  <2> SUFFICES ASSUME NEW k \in S PROVE w[k] \in Nat
    OBVIOUS
  <2>1. PICK n \in Nat, p \in Nat : n = b.lines[k] /\ p = b.unit[k]
    OBVIOUS
  <2>2. PICK m \in Nat : m = n * p
    OBVIOUS
  <2>3. PICK rate \in Nat, flat \in Nat : rate = terms[k].percent /\ flat = terms[k].flat
    BY DEF CommissionTerms
  <2>4. PICK l \in Nat, f \in Nat : l = m * rate /\ f = flat * n
    OBVIOUS
  <2>5. l \div 100 \in Nat
    OBVIOUS
  <2>6. w[k] = l \div 100 + f
    BY <2>1, <2>2, <2>3, <2>4
  <2> QED
    BY <2>4, <2>5, <2>6
<1> HIDE DEF w, earned
<1>4. ASSUME NEW g PROVE Sums(g, w, S) <=> folds(g)
  BY <1>2 DEF Sums, Pick
<1> HIDE DEF folds
<1>5. PICK h : Sums(h, w, S)
  BY QuoteAssumption, SumsExist
<1>6. Sums(fold, w, S)
  <2>1. folds(fold)
    BY <1>4, <1>5
  <2> HIDE DEF fold
  <2> QED
    BY <1>4, <2>1
<1> HIDE DEF fold
<1>7. fold[S] = Sum(w, S)
  BY <1>6, SumOf, QuoteAssumption
<1>8. Sum(w, S) \in Nat
  BY <1>3, SumIsNat, QuoteAssumption
<1> QED
  BY <1>1, <1>7, <1>8

\* A basket of none, one or two of each class is a basket of naturals.
LEMMA BasketsAreNat == Baskets \subseteq [Classes -> Nat]
<1> SUFFICES ASSUME NEW lines \in Baskets PROVE lines \in [Classes -> Nat]
  OBVIOUS
<1>1. lines \in [Classes -> 0..2]
  BY Zenon DEF Baskets
<1> QED
  BY <1>1

LEMMA PriceIsNat ==
  ASSUME NEW t, Priced(t), NEW today
  PROVE  UnitPrice(t, today) \in Nat
BY DEF Priced, UnitPrice, InForce

\* A tier that is created is priced as it was asked for.
LEMMA TiersArePriced ==
  ASSUME NEW input \in TiersAsked, NEW today, NEW t \in CreateTicketTier(input, today)
  PROVE  Priced(t)
<1>1. Min(DoorPrices) \in Nat /\ Max(DoorPrices) \in Nat
  BY Extremes, QuoteAssumption
<1>2. ASSUME NEW price, NEW phases, NEW window, NEW least, NEW most,
             input = [price |-> price, phases |-> phases, window |-> window, least |-> least, most |-> most],
             price \in Nat, \A p \in phases : p.price \in Nat
      PROVE  Priced(t)
  <2>1. t = [price |-> price, phases |-> {ResolvePricingPhase(p, today) : p \in phases},
             window |-> window, least |-> least, most |-> most]
    BY <1>2 DEF CreateTicketTier, When
  <2>2. \A p \in phases : ResolvePricingPhase(p, today).price = p.price
    BY DEF ResolvePricingPhase
  <2> QED
    BY <1>2, <2>1, <2>2 DEF Priced
<1>3. CASE input \in {Plain(price) : price \in DoorPrices}
  BY <1>2, <1>3, QuoteAssumption DEF Plain
<1>4. CASE input \in {[Plain(Max(DoorPrices)) EXCEPT !.phases = ps] : ps \in PhasesAsked}
  <2> DEFINE a == Min(DoorPrices)
             z == Max(DoorPrices)
  <2>1. PICK ps \in PhasesAsked : input = [Plain(z) EXCEPT !.phases = ps]
    BY <1>4
  <2>2. input = [price |-> z, phases |-> ps, window |-> None, least |-> 1, most |-> None]
    BY <2>1 DEF Plain
  <2>3. \A p \in ps : p.price \in {a, z}
    <3> DEFINE whole == [price |-> a, first |-> 0, last |-> 0]
               next == [whole EXCEPT !.price = z, !.first = 1, !.last = DaysInYear - 1]
               longer == [whole EXCEPT !.last = 1]
    <3>1. ps = {whole, next} \/ ps = {longer, next}
      BY <2>1, Zenon DEF PhasesAsked
    <3>2. whole.price = a /\ next.price = z /\ longer.price = a
      OBVIOUS
    <3> HIDE DEF whole, next, longer
    <3> QED
      BY <3>1, <3>2
  <2> QED
    BY <1>1, <1>2, <2>2, <2>3
<1>5. CASE input = [Plain(Min(DoorPrices)) EXCEPT !.window = <<1, 2>>, !.least = 2]
  <2>1. input = [price |-> Min(DoorPrices), phases |-> {}, window |-> <<1, 2>>, least |-> 2, most |-> None]
    BY <1>5 DEF Plain
  <2> QED
    BY <1>1, <1>2, <2>1
<1>6. CASE input = [Plain(Min(DoorPrices)) EXCEPT !.most = 1]
  <2>1. input = [price |-> Min(DoorPrices), phases |-> {}, window |-> None, least |-> 1, most |-> 1]
    BY <1>6 DEF Plain
  <2> QED
    BY <1>1, <1>2, <2>1
<1> QED
  BY <1>3, <1>4, <1>5, <1>6 DEF TiersAsked

LEMMA CodesDeduct ==
  ASSUME NEW input \in CodesAsked, NEW deal \in CreatePromoCode(input)
  PROVE  Deducts(deal)
<1>1. deal = input /\ (input.kind = "percent" => input.value \in 1..100)
  BY DEF CreatePromoCode, When
<1>2. input.on \subseteq Classes /\ (input.kind = "fixed" => input.value \in PaiseOff)
      /\ input.kind \in {"percent", "fixed"}
  BY DEF CodesAsked
<1>3. deal.value \in Nat
  <2>1. CASE input.kind = "percent"
    BY <1>1, <2>1
  <2>2. CASE input.kind = "fixed"
    BY <1>1, <1>2, <2>2, QuoteAssumption
  <2> QED
    BY <1>2, <2>1, <2>2
<1> QED
  BY <1>1, <1>2, <1>3 DEF Deducts

\* What a quote knows, given how far it is.
QuoteKnown(q) ==
  /\ q.pc \in {"read", "promo", "attribute", "answer"}
  /\ q.arg.lines \in [Classes -> Nat]
  /\ q.pc = "promo" => q.row \in [Classes -> Nat]
  /\ q.pc \in {"attribute", "answer"} => IsFair(q.row)

\* A code is created once, so that a fair quote stays one.
LEMMA FairStays ==
  ASSUME NEW b, IsFair(b), offer = None \/ offer' = offer
  PROVE  IsFair(b)'
<1>1. CASE offer' = offer
  BY <1>1 DEF IsFair
<1>2. CASE offer = None
  <2>1. ~(b.discount > 0)
    BY <1>2 DEF IsFair
  <2> QED
    BY <2>1 DEF IsFair
<1> QED
  BY <1>1, <1>2

LEMMA KnownStays ==
  ASSUME NEW q, QuoteKnown(q), offer = None \/ offer' = offer
  PROVE  QuoteKnown(q)'
BY FairStays DEF QuoteKnown

LEMMA QuoteQuiet ==
  ASSUME QuoteInv, part = "quote", part' = part, NEW c \in Calls, NEW q, CallIs(c, q),
         q.pc = "idle" \/ QuoteKnown(q), UNCHANGED quoteVars
  PROVE  QuoteInv'
<1>1. offer' = offer /\ QuoteRows'
  BY DEF quoteVars, QuoteInv, QuoteRows, Priced, Deducts
<1>2. ASSUME NEW d \in Calls PROVE QuoteCall(d)'
  <2>1. call'[d].pc = "idle" \/ QuoteKnown(call'[d])
    BY DEF QuoteInv, QuoteCalls, QuoteCall, QuoteKnown, CallIs
  <2>2. PICK r : r = call'[d]
    OBVIOUS
  <2>3. r.pc = "idle" \/ QuoteKnown(r)'
    BY <1>1, <2>1, <2>2, KnownStays
  <2> QED
    BY <2>2, <2>3 DEF QuoteCall, QuoteKnown
<1> QED
  BY <1>1, <1>2 DEF QuoteInv, QuoteCalls, CallIs

LEMMA QuoteLeaves ==
  ASSUME QuoteInv, part = "quote", part' = part, NEW c \in Calls, Leave(c), UNCHANGED quoteVars
  PROVE  QuoteInv'
<1>1. CallIs(c, Idle)
  BY Leaving DEF QuoteInv, QuoteCalls
<1> QED
  BY <1>1, QuoteQuiet, IdleShaped

LEMMA QuoteArrival ==
  ASSUME QuoteInv, part = "quote", part' = part, NEW c \in Calls, PostQuote(c) \/ PostHold(c)
  PROVE  QuoteInv'
<1>1. PICK op \in {"quote", "hold"}, lines \in Baskets, coded \in BOOLEAN, referred \in BOOLEAN :
        Arrive(c, op, "guest", None, [lines |-> lines, coded |-> coded, referred |-> referred])
  BY DEF PostQuote, PostHold
<1> DEFINE arg == [lines |-> lines, coded |-> coded, referred |-> referred]
           new == [op |-> op, pc |-> "read", who |-> "guest", on |-> None, arg |-> arg, row |-> None]
<1>2. CallIs(c, new)
  BY <1>1, Arriving DEF QuoteInv, QuoteCalls
<1>3. QuoteKnown(new)
  BY BasketsAreNat DEF QuoteKnown
<1> HIDE DEF new
<1> QED
  BY <1>2, <1>3, QuoteQuiet DEF PostQuote, PostHold

\* A quote goes on with what it has put together.
LEMMA QuoteGoes ==
  ASSUME QuoteInv, part = "quote", part' = part, NEW c \in Calls, call[c].pc # "idle",
         NEW pc, NEW r, Goto(c, pc, r), UNCHANGED quoteVars,
         \/ pc = "promo" /\ r \in [Classes -> Nat]
         \/ pc \in {"attribute", "answer"} /\ IsFair(r)
  PROVE  QuoteInv'
<1> DEFINE q == call[c]
           new == [op |-> q.op, pc |-> pc, who |-> q.who, on |-> q.on, arg |-> q.arg, row |-> r]
<1>1. CallIs(c, new)
  BY Going DEF QuoteInv, QuoteCalls
<1>2. QuoteKnown(new)
  BY DEF QuoteKnown, QuoteInv, QuoteCalls, QuoteCall
<1> HIDE DEF new
<1> QED
  BY <1>1, <1>2, QuoteQuiet

LEMMA QuoteWorks ==
  ASSUME QuoteInv, part = "quote", part' = part, NEW c \in Calls, QuoteStep(c)
  PROVE  QuoteInv'
<1> DEFINE q == call[c]
<1>0. QuoteCall(c) /\ QuoteRows
  BY DEF QuoteInv, QuoteCalls
<1>1. CASE PostQuote(c) \/ PostHold(c)
  BY <1>1, QuoteArrival
<1>2. CASE ListTiers(c)
  <2> DEFINE bought == {k \in Classes : q.arg.lines[k] > 0}
             unit == [k \in Classes |-> IF k \in bought THEN UnitPrice(class[k], day) ELSE 0]
  <2>1. UNCHANGED quoteVars /\ q.pc = "read"
    BY <1>2 DEF ListTiers
  <2>2. CASE Leave(c)
    BY <2>1, <2>2, QuoteLeaves
  <2>3. CASE (\A k \in bought : Sells(class[k], q.arg.lines[k], day)) /\ Goto(c, "promo", unit)
    <3>1. \A k \in bought : class[k] # None
      BY <2>3 DEF Sells
    <3>2. \A k \in bought : UnitPrice(class[k], day) \in Nat
      BY <1>0, <3>1, PriceIsNat DEF QuoteRows
    <3>3. unit \in [Classes -> Nat]
      BY <3>2
    <3> HIDE DEF unit
    <3> QED
      BY <2>1, <2>3, <3>3, QuoteGoes
  <2> QED
    BY <1>2, <2>2, <2>3 DEF ListTiers
<1>3. CASE GetPromoByCode(c)
  <2> DEFINE deal == IF q.arg.coded THEN offer ELSE None
             b == CalculatePricing(q.arg.lines, q.row, deal)
  <2>1. UNCHANGED quoteVars /\ q.pc = "promo"
    BY <1>3 DEF GetPromoByCode
  <2>2. CASE Leave(c)
    BY <2>1, <2>2, QuoteLeaves
  <2>3. CASE ~(q.arg.coded /\ offer = None) /\ Goto(c, "attribute", b)
    <3>1. q.arg.lines \in [Classes -> Nat] /\ q.row \in [Classes -> Nat]
      BY <1>0, <2>1 DEF QuoteCall
    <3>2. deal = None \/ (deal = offer /\ Deducts(deal))
      BY <1>0 DEF QuoteRows
    <3> HIDE DEF deal
    <3>3. /\ b \in Breakdown /\ b.lines = q.arg.lines /\ b.unit = q.row
          /\ b.total <= CalculatePricing(q.arg.lines, q.row, None).total
          /\ b.discount > 0 =>
               /\ deal # None
               /\ b.discount <= Cost(q.arg.lines, q.row, IF deal.on = {} THEN Classes ELSE deal.on)
          /\ b.commission = 0 /\ b.platformFee <= b.total
      BY <3>1, <3>2, PricingIsFair
    <3> HIDE DEF b
    <3>4. b.platformFee \in Nat
      BY <3>3 DEF Breakdown
    <3>5. IsFair(b)
      BY <3>2, <3>3, <3>4 DEF IsFair
    <3> QED
      BY <2>1, <2>3, <3>5, QuoteGoes
  <2> QED
    BY <1>3, <2>2, <2>3 DEF GetPromoByCode, Decide, When
<1>4. CASE ResolveAttribution(c)
  <2> DEFINE earned == IF q.arg.referred /\ signed # None THEN CommissionForLines(q.row, signed) ELSE 0
             b == [q.row EXCEPT !.commission = earned]
  <2>1. UNCHANGED quoteVars /\ q.pc = "attribute" /\ IsFair(q.row)
    BY <1>0, <1>4 DEF ResolveAttribution, QuoteCall
  <2>2. CASE Leave(c)
    BY <2>1, <2>2, QuoteLeaves
  <2>3. CASE ~(earned > q.row.total - q.row.platformFee) /\ Goto(c, "answer", b)
    <3>1. q.row \in Breakdown
      BY <2>1 DEF IsFair
    <3>2. earned \in Nat
      <4>1. q.row.lines \in [Classes -> Nat] /\ q.row.unit \in [Classes -> Nat]
        BY <3>1 DEF Breakdown
      <4>2. signed # None => signed \in CommissionTerms
        BY <1>0, QuoteAssumption DEF QuoteRows
      <4> QED
        BY <4>1, <4>2, CommissionIsNat
    <3> HIDE DEF earned
    <3>3. /\ b \in Breakdown /\ b.commission = earned /\ b.lines = q.row.lines /\ b.unit = q.row.unit
          /\ b.total = q.row.total /\ b.discount = q.row.discount /\ b.platformFee = q.row.platformFee
      BY <3>1, <3>2 DEF Breakdown
    <3> HIDE DEF b
    <3>4. b.total \in Nat /\ b.platformFee \in Nat
      BY <3>3 DEF Breakdown
    <3>5. b.commission + b.platformFee <= b.total
      BY <2>3, <3>2, <3>3, <3>4
    <3>6. IsFair(b)
      BY <2>1, <3>3, <3>5 DEF IsFair
    <3> QED
      BY <2>1, <2>3, <3>6, QuoteGoes
  <2> QED
    BY <1>4, <2>2, <2>3 DEF ResolveAttribution
<1>5. CASE AnswerQuote(c) \/ FreezeQuote(c)
  BY <1>5, QuoteLeaves DEF AnswerQuote, FreezeQuote
<1> QED
  BY <1>1, <1>2, <1>3, <1>4, <1>5 DEF QuoteStep

\* What changes around the quotes: the clock, a tier, the code, the promoter's link.
LEMMA QuoteTurns ==
  ASSUME QuoteInv, part = "quote", part' = part, QuoteWorld
  PROVE  QuoteInv'
<1>1. call' = call /\ (offer = None \/ offer' = offer)
  BY DEF QuoteWorld, CreatePromo, SignLink, DayPasses, OpenTier
<1>2. QuoteRows'
  <2>1. CASE CreatePromo
    <3>1. Deducts(offer)'
      BY <2>1, CodesDeduct DEF CreatePromo, Deducts
    <3> QED
      BY <2>1, <3>1 DEF CreatePromo, QuoteInv, QuoteRows, Priced
  <2>2. CASE SignLink \/ DayPasses
    BY <2>2 DEF SignLink, DayPasses, QuoteInv, QuoteRows, Priced, Deducts
  <2>3. ASSUME NEW k \in Classes, OpenTier(k) PROVE QuoteRows'
    <3>1. PICK t : Priced(t) /\ class' = [class EXCEPT ![k] = t]
      BY <2>3, TiersArePriced DEF OpenTier
    <3> QED
      BY <2>3, <3>1 DEF OpenTier, QuoteInv, QuoteRows, Priced, Deducts
  <2> QED
    BY <2>1, <2>2, <2>3 DEF QuoteWorld
<1>3. ASSUME NEW d \in Calls PROVE QuoteCall(d)'
  <2>1. call[d].pc = "idle" \/ QuoteKnown(call[d])
    BY DEF QuoteInv, QuoteCalls, QuoteCall, QuoteKnown
  <2>2. PICK r : r = call[d]
    OBVIOUS
  <2>3. r.pc = "idle" \/ QuoteKnown(r)'
    BY <1>1, <2>1, <2>2, KnownStays
  <2> QED
    BY <1>1, <2>2, <2>3 DEF QuoteCall, QuoteKnown
<1> QED
  BY <1>1, <1>2, <1>3 DEF QuoteInv, QuoteCalls, CallsShaped, Free

LEMMA QuoteNext == QuoteInv /\ [Next]_programmeVars => QuoteInv'
<1> SUFFICES ASSUME QuoteInv, [Next]_programmeVars PROVE QuoteInv'
  OBVIOUS
<1>0. part' = part
  BY Happens
<1>1. CASE UNCHANGED <<call, rows>>
  BY <1>0, <1>1 DEF rows, quoteVars, QuoteInv, QuoteRows, Priced, Deducts, QuoteCalls, CallsShaped,
     QuoteCall, IsFair, Free
<1>2. CASE part # "quote"
  <2>1. UNCHANGED quoteVars
    BY <1>2, Happens DEF OthersKept, rows, quoteVars
  <2> QED
    BY <1>0, <1>2, <2>1 DEF quoteVars, QuoteInv, QuoteRows, Priced, Deducts, QuoteCalls
<1>3. ASSUME part = "quote", NEW c \in Calls, Leave(c), UNCHANGED rows PROVE QuoteInv'
  BY <1>0, <1>3, QuoteLeaves DEF rows
<1>4. ASSUME part = "quote", NEW c \in Calls, Work(c) PROVE QuoteInv'
  BY <1>0, <1>4, QuoteWorks DEF Work
<1>5. ASSUME part = "quote", World PROVE QuoteInv'
  BY <1>0, <1>5, QuoteTurns DEF World
<1> QED
  BY <1>1, <1>2, <1>3, <1>4, <1>5, Happens

\* Every quote given out, and every one frozen into a hold, is fair: a code makes no basket
\* dearer and takes off no more than the lines it is for cost, and what the promoter and the
\* platform get fits in what the guest pays.  For any tiers, prices, discounts and rates,
\* whatever is created or expires while the quote is put together.
THEOREM QuotesAreFairToAll == Spec => [](part = "quote" => QuotesAreFair)
<1>1. QuoteInv => (part = "quote" => QuotesAreFair)
  BY DEF QuoteInv, QuoteCalls, QuoteCall, QuotesAreFair, Quoted, IsFair
<1> QED
  BY <1>1, QuoteInit0, QuoteNext, PTL DEF Spec

---------------------------------------------------------------------------
(* Sums by kinds.                                                          *)

\* Sums agree when their terms do.
LEMMA SumSame ==
  ASSUME NEW S, IsFiniteSet(S), NEW w, NEW v, \A x \in S : w[x] = v[x]
  PROVE  Sum(w, S) = Sum(v, S)
<1>1. PICK g, h : Sums(g, w, S) /\ Sums(h, v, S)
  BY SumsExist
<1>2. \A s \in SUBSET S : g[s] = h[s]
  BY <1>1, SumsAgree
<1>3. g[S] = h[S]
  BY <1>2
<1> QED
  BY <1>1, <1>3, SumOf

\* Any term of a sum may be taken out first.
LEMMA SumSplits ==
  ASSUME NEW S, IsFiniteSet(S), NEW w, \A x \in S : w[x] \in Nat
  PROVE  \A x \in S : Sum(w, S \ {x}) \in Nat /\ Sum(w, S) = w[x] + Sum(w, S \ {x})
<1> DEFINE good == {T \in SUBSET S : \A x \in T : Sum(w, T) = w[x] + Sum(w, T \ {x})}
<1>0. ASSUME NEW T \in SUBSET S
      PROVE  IsFiniteSet(T) /\ Sum(w, T) \in Nat
  <2>1. IsFiniteSet(T)
    BY FS_Subset
  <2> QED
    BY <2>1, SumIsNat
<1>1. ASSUME NEW T \in SUBSET S, \A R \in SUBSET T : R # T => R \in good,
             NEW x \in T
      PROVE  Sum(w, T) = w[x] + Sum(w, T \ {x})
  <2>1. PICK p \in T : Sum(w, T) = w[p] + Sum(w, T \ {p})
    BY <1>0, SumTakes
  <2>2. CASE x = p
    BY <2>1, <2>2
  <2>3. CASE x # p
    <3>1. T \ {x} \in good /\ T \ {p} \in good
      BY <1>1
    <3>2. (T \ {p}) \ {x} = (T \ {x}) \ {p}
      OBVIOUS
    <3>3. PICK rest \in Nat : rest = Sum(w, (T \ {p}) \ {x})
      <4>1. (T \ {p}) \ {x} \in SUBSET S
        OBVIOUS
      <4> QED
        BY <1>0, <4>1
    <3>4. PICK a \in Nat, b \in Nat : a = w[p] /\ b = w[x]
      OBVIOUS
    <3>5. Sum(w, T \ {p}) = b + rest /\ Sum(w, T \ {x}) = a + rest
      BY <2>3, <3>1, <3>2, <3>3, <3>4
    <3> QED
      BY <2>1, <3>4, <3>5
  <2> QED
    BY <2>2, <2>3
<1>2. \A T \in SUBSET S : T \in good
  <2>1. \A T \in SUBSET S : (\A R \in SUBSET T : R # T => R \in good) => T \in good
    BY <1>1
  <2> HIDE DEF good
  <2> QED
    BY <2>1, SubsetsAllIn
<1>3. S \in good
  BY <1>2
<1>4. ASSUME NEW x \in S PROVE Sum(w, S \ {x}) \in Nat
  BY <1>0
<1> QED
  BY <1>3, <1>4

\* The sum over two sets that do not meet.
LEMMA SumUnites ==
  ASSUME NEW S, IsFiniteSet(S), NEW w, \A x \in S : w[x] \in Nat,
         NEW A \in SUBSET S, NEW B \in SUBSET S, A \cap B = {}
  PROVE  Sum(w, A \cup B) = Sum(w, A) + Sum(w, B)
<1> DEFINE good == {T \in SUBSET B : Sum(w, A \cup T) = Sum(w, A) + Sum(w, T)}
<1>0. ASSUME NEW T \in SUBSET S
      PROVE  IsFiniteSet(T) /\ Sum(w, T) \in Nat
  <2>1. IsFiniteSet(T)
    BY FS_Subset
  <2> QED
    BY <2>1, SumIsNat
<1>1. ASSUME NEW T \in SUBSET B, \A R \in SUBSET T : R # T => R \in good
      PROVE  Sum(w, A \cup T) = Sum(w, A) + Sum(w, T)
  <2>0. T \in SUBSET S /\ A \cup T \in SUBSET S
    OBVIOUS
  <2>1. CASE T = {}
    <3>1. Sum(w, {}) = 0 /\ A \cup {} = A /\ Sum(w, A) \in Nat
      BY <1>0, <2>0, SumTakes
    <3> QED
      BY <2>1, <3>1
  <2>2. CASE T # {}
    <3>1. PICK x \in T : TRUE
      BY <2>2
    <3>2. T \ {x} \in good
      BY <1>1
    <3>3. Sum(w, T) = w[x] + Sum(w, T \ {x})
      <4> HIDE DEF good
      <4>1. \A y \in T : w[y] \in Nat
        BY <2>0
      <4> QED
        BY <1>0, <2>0, <4>1, SumSplits
    <3>4. Sum(w, A \cup T) = w[x] + Sum(w, A \cup (T \ {x}))
      <4> HIDE DEF good
      <4>1. \A y \in A \cup T : w[y] \in Nat
        BY <2>0
      <4>2. (A \cup T) \ {x} = A \cup (T \ {x})
        BY <3>1
      <4>3. IsFiniteSet(A \cup T) /\ x \in A \cup T
        BY <1>0, <2>0
      <4>4. Sum(w, A \cup T) = w[x] + Sum(w, (A \cup T) \ {x})
        BY <4>1, <4>3, SumSplits
      <4> QED
        BY <4>2, <4>4
    <3>5. PICK a \in Nat, b \in Nat, r \in Nat :
            a = Sum(w, A) /\ b = w[x] /\ r = Sum(w, T \ {x})
      <4>1. T \ {x} \in SUBSET S
        OBVIOUS
      <4> QED
        BY <1>0, <4>1
    <3> QED
      BY <3>2, <3>3, <3>4, <3>5
  <2> QED
    BY <2>1, <2>2
<1>2. B \in good
  <2>1. \A T \in SUBSET B : (\A R \in SUBSET T : R # T => R \in good) => T \in good
    BY <1>1
  <2>2. IsFiniteSet(B)
    BY <1>0
  <2> HIDE DEF good
  <2> QED
    BY <2>1, <2>2, SubsetsAllIn
<1> QED
  BY <1>2

\* The members of S that are of one of the kinds K are in `all`, each with its kind.
Sorted(S, K, kind, of, all) ==
  /\ IsFiniteSet(S) /\ IsFiniteSet(K)
  /\ \A k \in K : of[k] \in SUBSET S /\ \A x \in S : x \in of[k] <=> kind[x] = k
  /\ all \in SUBSET S /\ \A x \in S : x \in all <=> kind[x] \in K

\* A sum taken by kinds, and then over the kinds.
LEMMA SumByKind ==
  ASSUME NEW S, NEW K, NEW kind, NEW of, NEW all, Sorted(S, K, kind, of, all),
         NEW w, \A x \in S : w[x] \in Nat,
         NEW v, \A k \in K : v[k] = Sum(w, of[k])
  PROVE  Sum(v, K) = Sum(w, all)
<1> USE DEF Sorted
<1> DEFINE In(T) == {x \in S : kind[x] \in T}
           good == {T \in SUBSET K : Sum(v, T) = Sum(w, In(T))}
<1>0. ASSUME NEW T \in SUBSET S
      PROVE  Sum(w, T) \in Nat
  <2>1. IsFiniteSet(T)
    BY FS_Subset
  <2> QED
    BY <2>1, SumIsNat
<1>1. ASSUME NEW T \in SUBSET K, \A R \in SUBSET T : R # T => R \in good
      PROVE  Sum(v, T) = Sum(w, In(T))
  <2>0. IsFiniteSet(T)
    <3> HIDE DEF good
    <3> QED
      BY FS_Subset
  <2>1. CASE T = {}
    <3>1. Sum(v, {}) = 0 /\ Sum(w, {}) = 0 /\ In({}) = {}
      BY SumTakes
    <3> QED
      BY <2>1, <3>1
  <2>2. CASE T # {}
    <3>1. PICK k \in T : TRUE
      BY <2>2
    <3>2. T \ {k} \in good
      BY <1>1
    <3>3. \A j \in T : v[j] \in Nat
      BY <1>0
    <3>4. Sum(v, T) = v[k] + Sum(v, T \ {k})
      <4> HIDE DEF good
      <4> QED
        BY <2>0, <3>3, SumSplits
    <3> DEFINE A == of[k]
               B == In(T \ {k})
    <3>5. A \in SUBSET S /\ B \in SUBSET S /\ A \cap B = {} /\ In(T) = A \cup B
      OBVIOUS
    <3>6. Sum(v, T \ {k}) = Sum(w, B) /\ v[k] = Sum(w, A)
      BY <3>2
    <3> HIDE DEF A, B, In, good
    <3>7. Sum(w, A \cup B) = Sum(w, A) + Sum(w, B)
      BY <3>5, SumUnites
    <3> QED
      BY <3>4, <3>5, <3>6, <3>7
  <2> QED
    BY <2>1, <2>2
<1>2. K \in good
  <2>1. \A T \in SUBSET K : (\A R \in SUBSET T : R # T => R \in good) => T \in good
    BY <1>1
  <2> HIDE DEF good
  <2> QED
    BY <2>1, SubsetsAllIn
<1>3. In(K) = all
  OBVIOUS
<1> QED
  BY <1>2, <1>3

\* A sum of equal terms, and one of sums of two.
LEMMA SumOfEqual ==
  ASSUME NEW S, IsFiniteSet(S), NEW c \in Nat, NEW w, \A x \in S : w[x] = c
  PROVE  Sum(w, S) = c * Cardinality(S)
<1> DEFINE good == {T \in SUBSET S : Sum(w, T) = c * Cardinality(T)}
<1>1. ASSUME NEW T \in SUBSET S, \A R \in SUBSET T : R # T => R \in good
      PROVE  Sum(w, T) = c * Cardinality(T)
  <2>0. IsFiniteSet(T)
    <3> HIDE DEF good
    <3> QED
      BY FS_Subset
  <2>1. CASE T = {}
    <3>1. Sum(w, {}) = 0 /\ Cardinality({}) = 0
      BY SumTakes, FS_EmptySet
    <3> QED
      BY <2>1, <3>1
  <2>2. CASE T # {}
    <3>1. PICK x \in T : Sum(w, T) = w[x] + Sum(w, T \ {x})
      BY <2>0, <2>2, SumTakes
    <3>2. T \ {x} \in good
      BY <1>1
    <3>3. PICK n \in Nat : n = Cardinality(T \ {x}) /\ Cardinality(T) = n + 1
      <4>1. IsFiniteSet(T \ {x}) /\ Cardinality(T \ {x}) = Cardinality(T) - 1
        BY <2>0, FS_RemoveElement
      <4>2. Cardinality(T) \in Nat /\ Cardinality(T \ {x}) \in Nat
        BY <2>0, <4>1, FS_CardinalityType
      <4> QED
        BY <4>1, <4>2
    <3>4. c * (n + 1) = c * n + c
      OBVIOUS
    <3>5. Sum(w, T) = c + c * n
      BY <3>1, <3>2, <3>3
    <3> QED
      BY <3>3, <3>4, <3>5
  <2> QED
    BY <2>1, <2>2
<1>2. S \in good
  <2>1. \A T \in SUBSET S : (\A R \in SUBSET T : R # T => R \in good) => T \in good
    BY <1>1
  <2> HIDE DEF good
  <2> QED
    BY <2>1, SubsetsAllIn
<1> QED
  BY <1>2

LEMMA SumsAdd ==
  ASSUME NEW S, IsFiniteSet(S), NEW w, NEW v, NEW u,
         \A x \in S : w[x] \in Nat /\ v[x] \in Nat /\ u[x] = w[x] + v[x]
  PROVE  Sum(u, S) = Sum(w, S) + Sum(v, S)
<1> DEFINE good == {T \in SUBSET S : Sum(u, T) = Sum(w, T) + Sum(v, T)}
<1>1. ASSUME NEW T \in SUBSET S, \A R \in SUBSET T : R # T => R \in good
      PROVE  Sum(u, T) = Sum(w, T) + Sum(v, T)
  <2>0. IsFiniteSet(T)
    <3> HIDE DEF good
    <3> QED
      BY FS_Subset
  <2>1. CASE T = {}
    <3>1. Sum(w, {}) = 0 /\ Sum(v, {}) = 0 /\ Sum(u, {}) = 0
      BY SumTakes
    <3> QED
      BY <2>1, <3>1
  <2>2. CASE T # {}
    <3>1. PICK x : x \in T
      BY <2>2
    <3>2. T \ {x} \in good
      BY <1>1, <3>1
    <3>3. /\ Sum(w, T \ {x}) \in Nat /\ Sum(w, T) = w[x] + Sum(w, T \ {x})
          /\ Sum(v, T \ {x}) \in Nat /\ Sum(v, T) = v[x] + Sum(v, T \ {x})
          /\ Sum(u, T) = u[x] + Sum(u, T \ {x})
      <4> HIDE DEF good
      <4>1. \A y \in T : w[y] \in Nat /\ v[y] \in Nat /\ u[y] \in Nat
        OBVIOUS
      <4> QED
        BY <2>0, <3>1, <4>1, SumSplits
    <3>4. PICK a \in Nat, b \in Nat, c \in Nat, d \in Nat :
            a = w[x] /\ b = v[x] /\ c = Sum(w, T \ {x}) /\ d = Sum(v, T \ {x})
      BY <3>1, <3>3
    <3>5. u[x] = a + b /\ Sum(u, T \ {x}) = c + d
      BY <3>1, <3>2, <3>4
    <3> QED
      BY <3>3, <3>4, <3>5
  <2> QED
    BY <2>1, <2>2
<1>2. S \in good
  <2>1. \A T \in SUBSET S : (\A R \in SUBSET T : R # T => R \in good) => T \in good
    BY <1>1
  <2> HIDE DEF good
  <2> QED
    BY <2>1, SubsetsAllIn
<1> QED
  BY <1>2

---------------------------------------------------------------------------
(* The figures of the screens.                                             *)

\* The rows are typed; how often a ticket may be scanned is not bounded here.
AnalyticsTyped ==
  /\ billing \in Billings
  /\ purchase \in [Purchases -> Purchase \cup {None}]
  /\ scannedAt \in [Shows -> [Instants -> Nat]]

\* What was captured, and what became of it.
LEMMA CapturedRows ==
  ASSUME AnalyticsTyped
  PROVE  /\ IsFiniteSet(Captured)
         /\ \A o \in Captured :
              /\ purchase[o].show \in Shows /\ purchase[o].createdAt \in Instants
              /\ NetPaise(o) \in Nat /\ RefundedPaise(o) \in Nat
              /\ NetPaise(o) + RefundedPaise(o) = GrandTotal
<1>1. IsFiniteSet(Captured)
  BY AnalyticsAssumption, FS_Subset DEF Captured
<1>2. ASSUME NEW o \in Captured
      PROVE  /\ purchase[o].show \in Shows /\ purchase[o].createdAt \in Instants
             /\ NetPaise(o) \in Nat /\ RefundedPaise(o) \in Nat
             /\ NetPaise(o) + RefundedPaise(o) = GrandTotal
  <2>1. purchase[o] \in Purchase
    BY DEF Captured, IsCaptured, AnalyticsTyped
  <2> QED
    BY <2>1, AnalyticsAssumption DEF Purchase, NetPaise, RefundedPaise
<1> QED
  BY <1>1, <1>2

LEMMA NetIsSum ==
  ASSUME NEW S, IsFiniteSet(S), NEW w, \A o \in S : w[o] = NetPaise(o)
  PROVE  MapThenSumSet(NetPaise, S) = Sum(w, S)
<1> DEFINE folds(g) == g = [s \in SUBSET S |->
                         IF s = {} THEN 0
                         ELSE NetPaise(CHOOSE x \in s : TRUE) + g[s \ {CHOOSE x \in s : TRUE}]]
           fold == CHOOSE g : folds(g)
<1>1. MapThenSumSet(NetPaise, S) = fold[S]
  BY DEF MapThenSumSet, MapThenFoldSet
<1>2. \A s \in SUBSET S : s # {} => w[Pick(s)] = NetPaise(CHOOSE x \in s : TRUE)
  BY DEF Pick
<1>3. ASSUME NEW g PROVE Sums(g, w, S) <=> folds(g)
  BY <1>2 DEF Sums, Pick
<1> HIDE DEF folds
<1>4. folds(fold)
  BY <1>3, SumsExist
<1> HIDE DEF fold
<1> QED
  BY <1>1, <1>3, <1>4, SumOf

LEMMA RefundIsSum ==
  ASSUME NEW S, IsFiniteSet(S), NEW w, \A o \in S : w[o] = RefundedPaise(o)
  PROVE  MapThenSumSet(RefundedPaise, S) = Sum(w, S)
<1> DEFINE folds(g) == g = [s \in SUBSET S |->
                         IF s = {} THEN 0
                         ELSE RefundedPaise(CHOOSE x \in s : TRUE) + g[s \ {CHOOSE x \in s : TRUE}]]
           fold == CHOOSE g : folds(g)
<1>1. MapThenSumSet(RefundedPaise, S) = fold[S]
  BY DEF MapThenSumSet, MapThenFoldSet
<1>2. \A s \in SUBSET S : s # {} => w[Pick(s)] = RefundedPaise(CHOOSE x \in s : TRUE)
  BY DEF Pick
<1>3. ASSUME NEW g PROVE Sums(g, w, S) <=> folds(g)
  BY <1>2 DEF Sums, Pick
<1> HIDE DEF folds
<1>4. folds(fold)
  BY <1>3, SumsExist
<1> HIDE DEF fold
<1> QED
  BY <1>1, <1>3, <1>4, SumOf

LEMMA ScansAreSum ==
  ASSUME NEW s, NEW hours PROVE ScansDuring(s, hours) = Sum(scannedAt[s], hours)
BY DEF ScansDuring, MapThenSumSet, MapThenFoldSet, Sum, Sums, Pick

LEMMA CheckInsAreSum ==
  ASSUME NEW hours, NEW w, \A s \in Shows : w[s] = ScansDuring(s, hours)
  PROVE  CheckIns(hours) = Sum(w, Shows)
<1> DEFINE folds(g) == g = [t \in SUBSET Shows |->
                         IF t = {} THEN 0
                         ELSE ScansDuring(CHOOSE x \in t : TRUE, hours)
                              + g[t \ {CHOOSE x \in t : TRUE}]]
           fold == CHOOSE g : folds(g)
<1>1. CheckIns(hours) = fold[Shows]
  BY DEF CheckIns, MapThenSumSet, MapThenFoldSet
<1>2. \A t \in SUBSET Shows : t # {} => w[Pick(t)] = ScansDuring(CHOOSE x \in t : TRUE, hours)
  BY DEF Pick
<1>3. ASSUME NEW g PROVE Sums(g, w, Shows) <=> folds(g)
  BY <1>2 DEF Sums, Pick
<1> HIDE DEF folds
<1>4. folds(fold)
  BY <1>3, SumsExist, AnalyticsAssumption
<1> HIDE DEF fold
<1> QED
  BY <1>1, <1>3, <1>4, SumOf, AnalyticsAssumption

\* One of the figures of every event, summed.
LEMMA FiguresAreSum ==
  ASSUME NEW f, NEW w, \A s \in Shows : w[s] = EventAnalytics(s).figures[f]
  PROVE  MapThenSumSet(LAMBDA s : EventAnalytics(s).figures[f], Shows) = Sum(w, Shows)
<1> DEFINE folds(g) == g = [t \in SUBSET Shows |->
                         IF t = {} THEN 0
                         ELSE EventAnalytics(CHOOSE x \in t : TRUE).figures[f]
                              + g[t \ {CHOOSE x \in t : TRUE}]]
           fold == CHOOSE g : folds(g)
<1>1. MapThenSumSet(LAMBDA s : EventAnalytics(s).figures[f], Shows) = fold[Shows]
  BY DEF MapThenSumSet, MapThenFoldSet
<1>2. \A t \in SUBSET Shows :
        t # {} => w[Pick(t)] = EventAnalytics(CHOOSE x \in t : TRUE).figures[f]
  BY DEF Pick
<1>3. ASSUME NEW g PROVE Sums(g, w, Shows) <=> folds(g)
  BY <1>2 DEF Sums, Pick
<1> HIDE DEF folds
<1>4. folds(fold)
  BY <1>3, SumsExist, AnalyticsAssumption
<1> HIDE DEF fold
<1> QED
  BY <1>1, <1>3, <1>4, SumOf, AnalyticsAssumption

LEMMA RefundsAreSum ==
  ASSUME NEW w, \A s \in Shows : w[s] = EventAnalytics(s).refundAmount
  PROVE  MapThenSumSet(LAMBDA s : EventAnalytics(s).refundAmount, Shows) = Sum(w, Shows)
<1> DEFINE folds(g) == g = [t \in SUBSET Shows |->
                         IF t = {} THEN 0
                         ELSE EventAnalytics(CHOOSE x \in t : TRUE).refundAmount
                              + g[t \ {CHOOSE x \in t : TRUE}]]
           fold == CHOOSE g : folds(g)
<1>1. MapThenSumSet(LAMBDA s : EventAnalytics(s).refundAmount, Shows) = fold[Shows]
  BY DEF MapThenSumSet, MapThenFoldSet
<1>2. \A t \in SUBSET Shows :
        t # {} => w[Pick(t)] = EventAnalytics(CHOOSE x \in t : TRUE).refundAmount
  BY DEF Pick
<1>3. ASSUME NEW g PROVE Sums(g, w, Shows) <=> folds(g)
  BY <1>2 DEF Sums, Pick
<1> HIDE DEF folds
<1>4. folds(fold)
  BY <1>3, SumsExist, AnalyticsAssumption
<1> HIDE DEF fold
<1> QED
  BY <1>1, <1>3, <1>4, SumOf, AnalyticsAssumption

LEMMA ChartIsSum ==
  ASSUME NEW chart, NEW f, IsFiniteSet(DOMAIN chart),
         NEW w, \A key \in DOMAIN chart : w[key] = chart[key][f]
  PROVE  TotalOf(chart, f) = Sum(w, DOMAIN chart)
<1> DEFINE K == DOMAIN chart
           folds(g) == g = [t \in SUBSET K |->
                         IF t = {} THEN 0
                         ELSE chart[CHOOSE x \in t : TRUE][f] + g[t \ {CHOOSE x \in t : TRUE}]]
           fold == CHOOSE g : folds(g)
<1>1. TotalOf(chart, f) = fold[K]
  BY DEF TotalOf, MapThenSumSet, MapThenFoldSet
<1>0. \A key \in K : w[key] = chart[key][f]
  OBVIOUS
<1>5. IsFiniteSet(K)
  OBVIOUS
<1> HIDE DEF K
<1>2. \A t \in SUBSET K : t # {} => w[Pick(t)] = chart[CHOOSE x \in t : TRUE][f]
  BY <1>0 DEF Pick
<1>3. ASSUME NEW g PROVE Sums(g, w, K) <=> folds(g)
  BY <1>2 DEF Sums, Pick
<1> HIDE DEF folds
<1>4. folds(fold)
  BY <1>3, <1>5, SumsExist
<1> HIDE DEF fold
<1>6. fold[K] = Sum(w, K)
  BY <1>3, <1>4, <1>5, SumOf
<1> QED
  BY <1>1, <1>6 DEF K

LEMMA ShownIsSum ==
  ASSUME NEW M, IsFiniteSet(M), NEW w, \A month \in M : w[month] = ShownIn(month)
  PROVE  MapThenSumSet(ShownIn, M) = Sum(w, M)
<1> DEFINE folds(g) == g = [t \in SUBSET M |->
                         IF t = {} THEN 0
                         ELSE ShownIn(CHOOSE x \in t : TRUE) + g[t \ {CHOOSE x \in t : TRUE}]]
           fold == CHOOSE g : folds(g)
<1>1. MapThenSumSet(ShownIn, M) = fold[M]
  BY DEF MapThenSumSet, MapThenFoldSet
<1>2. \A t \in SUBSET M : t # {} => w[Pick(t)] = ShownIn(CHOOSE x \in t : TRUE)
  BY DEF Pick
<1>3. ASSUME NEW g PROVE Sums(g, w, M) <=> folds(g)
  BY <1>2 DEF Sums, Pick
<1> HIDE DEF folds
<1>4. folds(fold)
  BY <1>3, SumsExist
<1> HIDE DEF fold
<1> QED
  BY <1>1, <1>3, <1>4, SumOf

LEMMA MonthIsSum ==
  ASSUME NEW month
  PROVE  ShownIn(month) = Sum(OrganizationCalendar(month), DOMAIN OrganizationCalendar(month))
BY DEF ShownIn, MapThenSumSet, MapThenFoldSet, Sum, Sums, Pick

\* What captured orders brought in, by kinds of orders.
LEMMA OrdersByKind ==
  ASSUME AnalyticsTyped, NEW K, NEW kind, NEW of, NEW all, Sorted(Captured, K, kind, of, all),
         NEW v
  PROVE  /\ (\A k \in K : v[k] = MapThenSumSet(NetPaise, of[k])) =>
              Sum(v, K) = MapThenSumSet(NetPaise, all)
         /\ (\A k \in K : v[k] = Quantity * Cardinality(of[k])) =>
              Sum(v, K) = Quantity * Cardinality(all)
         /\ (\A k \in K : v[k] = MapThenSumSet(RefundedPaise, of[k])) =>
              Sum(v, K) = MapThenSumSet(RefundedPaise, all)
<1> DEFINE net == [o \in Captured |-> NetPaise(o)]
           back == [o \in Captured |-> RefundedPaise(o)]
           each == [o \in Captured |-> Quantity]
<1>1. IsFiniteSet(Captured) /\ Quantity \in Nat
  BY CapturedRows, AnalyticsAssumption
<1>2. \A o \in Captured : net[o] \in Nat /\ back[o] \in Nat /\ each[o] \in Nat
  BY CapturedRows, <1>1
<1>3. ASSUME NEW T \in SUBSET Captured
      PROVE  /\ MapThenSumSet(NetPaise, T) = Sum(net, T)
             /\ MapThenSumSet(RefundedPaise, T) = Sum(back, T)
             /\ Quantity * Cardinality(T) = Sum(each, T)
  <2>1. IsFiniteSet(T)
    BY <1>1, FS_Subset
  <2>2. \A o \in T : net[o] = NetPaise(o) /\ back[o] = RefundedPaise(o) /\ each[o] = Quantity
    OBVIOUS
  <2> HIDE DEF net, back, each
  <2> QED
    BY <1>1, <2>1, <2>2, NetIsSum, RefundIsSum, SumOfEqual
<1>0. all \in SUBSET Captured /\ \A k \in K : of[k] \in SUBSET Captured
  BY DEF Sorted
<1> HIDE DEF net, back, each
<1>4. ASSUME \A k \in K : v[k] = MapThenSumSet(NetPaise, of[k])
      PROVE  Sum(v, K) = MapThenSumSet(NetPaise, all)
  <2>1. \A k \in K : v[k] = Sum(net, of[k])
    BY <1>0, <1>3, <1>4
  <2>2. Sum(v, K) = Sum(net, all)
    BY <1>2, <2>1, SumByKind
  <2> QED
    BY <1>0, <1>3, <2>2
<1>5. ASSUME \A k \in K : v[k] = Quantity * Cardinality(of[k])
      PROVE  Sum(v, K) = Quantity * Cardinality(all)
  <2>1. \A k \in K : v[k] = Sum(each, of[k])
    BY <1>0, <1>3, <1>5
  <2>2. Sum(v, K) = Sum(each, all)
    BY <1>2, <2>1, SumByKind
  <2> QED
    BY <1>0, <1>3, <2>2
<1>6. ASSUME \A k \in K : v[k] = MapThenSumSet(RefundedPaise, of[k])
      PROVE  Sum(v, K) = MapThenSumSet(RefundedPaise, all)
  <2>1. \A k \in K : v[k] = Sum(back, of[k])
    BY <1>0, <1>3, <1>6
  <2>2. Sum(v, K) = Sum(back, all)
    BY <1>2, <2>1, SumByKind
  <2> QED
    BY <1>0, <1>3, <2>2
<1> QED
  BY <1>4, <1>5, <1>6

\* The scans of one event.
LEMMA ScansOfEvent ==
  ASSUME AnalyticsTyped, NEW T \in SUBSET Instants, NEW s \in Shows,
         NEW times, NEW Q, IsFiniteSet(Q), Q = {s} \X T,
         \A p \in Q : times[p] = scannedAt[p[1]][p[2]]
  PROVE  ScansDuring(s, T) = Sum(times, Q)
<1> DEFINE second == [p \in Q |-> p[2]]
           at == [x \in T |-> {<<s, x>>}]
           row == scannedAt[s]
<1>1. ScansDuring(s, T) = Sum(row, T)
  BY ScansAreSum
<1>2. IsFiniteSet(T)
  BY AnalyticsAssumption, FS_Subset
<1>3. ASSUME NEW x \in T PROVE row[x] = Sum(times, at[x])
  <2>1. at[x] = {<<s, x>>} /\ times[<<s, x>>] = row[x] /\ row[x] \in Nat
    BY DEF AnalyticsTyped
  <2>2. IsFiniteSet({<<s, x>>}) /\ Cardinality({<<s, x>>}) = 1
    BY FS_Singleton
  <2>3. \A p \in {<<s, x>>} : times[p] = row[x]
    BY <2>1
  <2> HIDE DEF row
  <2>4. Sum(times, {<<s, x>>}) = row[x] * 1
    BY <2>1, <2>2, <2>3, SumOfEqual
  <2> QED
    BY <2>1, <2>4
<1>4. \A p \in Q : times[p] \in Nat
  BY DEF AnalyticsTyped
<1>5. /\ \A x \in T : /\ at[x] \in SUBSET Q
                      /\ \A p \in Q : p \in at[x] <=> second[p] = x
      /\ \A p \in Q : second[p] \in T
  OBVIOUS
<1> HIDE DEF second, at, row
<1>6. Sorted(Q, T, second, at, Q)
  BY <1>2, <1>5 DEF Sorted
<1>7. Sum(row, T) = Sum(times, Q)
  BY <1>3, <1>4, <1>6, SumByKind
<1> QED
  BY <1>1, <1>7

\* The scans of some hours are one sum over events and hours.
LEMMA ScansAtOnce ==
  ASSUME AnalyticsTyped, NEW T \in SUBSET Instants, NEW times,
         \A p \in Shows \X Instants : times[p] = scannedAt[p[1]][p[2]]
  PROVE  CheckIns(T) = Sum(times, Shows \X T)
<1> DEFINE Q == Shows \X T
           w == [s \in Shows |-> ScansDuring(s, T)]
           show == [p \in Q |-> p[1]]
           of == [s \in Shows |-> {s} \X T]
<1>1. IsFiniteSet(Shows) /\ IsFiniteSet(T)
  BY AnalyticsAssumption, FS_Subset
<1>2. IsFiniteSet(Q)
  BY <1>1, FS_Product
<1>3. \A p \in Q : times[p] \in Nat
  BY DEF AnalyticsTyped
<1>4. CheckIns(T) = Sum(w, Shows)
  BY CheckInsAreSum
<1>5. ASSUME NEW s \in Shows
      PROVE  w[s] = Sum(times, of[s])
  <2>1. IsFiniteSet({s} \X T)
    BY <1>1, FS_Singleton, FS_Product
  <2>2. \A p \in {s} \X T : times[p] = scannedAt[p[1]][p[2]]
    OBVIOUS
  <2>3. ScansDuring(s, T) = Sum(times, {s} \X T)
    BY <2>1, <2>2, ScansOfEvent
  <2> QED
    BY <2>3
<1>6. \A s \in Shows : /\ of[s] \in SUBSET Q
                       /\ \A p \in Q : p \in of[s] <=> show[p] = s
  OBVIOUS
<1>7. \A p \in Q : show[p] \in Shows
  OBVIOUS
<1> HIDE DEF w, show, of
<1>8. Sum(w, Shows) = Sum(times, Q)
  <2> HIDE DEF Q
  <2>1. Sorted(Q, Shows, show, of, Q)
    BY <1>1, <1>2, <1>6, <1>7 DEF Sorted
  <2> QED
    BY <1>3, <1>5, <2>1, SumByKind
<1> QED
  BY <1>4, <1>8

\* Scans by kinds of hours.
LEMMA ScansByKind ==
  ASSUME AnalyticsTyped, NEW K, NEW kind, NEW of, NEW all, Sorted(Instants, K, kind, of, all),
         NEW v, \A k \in K : v[k] = CheckIns(of[k])
  PROVE  Sum(v, K) = CheckIns(all)
<1> DEFINE P == Shows \X Instants
           times == [p \in P |-> scannedAt[p[1]][p[2]]]
           mark == [p \in P |-> kind[p[2]]]
           with == [k \in K |-> Shows \X of[k]]
           every == Shows \X all
<1>1. IsFiniteSet(P)
  BY AnalyticsAssumption, FS_Product
<1>2. \A p \in P : times[p] \in Nat
  BY DEF AnalyticsTyped
<1>3. \A p \in Shows \X Instants : times[p] = scannedAt[p[1]][p[2]]
  OBVIOUS
<1>4. \A k \in K : /\ with[k] \in SUBSET P
                   /\ \A p \in P : p \in with[k] <=> mark[p] = k
  BY DEF Sorted
<1>5. every \in SUBSET P /\ \A p \in P : p \in every <=> mark[p] \in K
  BY DEF Sorted
<1>6. \A k \in K : with[k] = Shows \X of[k]
  OBVIOUS
<1> HIDE DEF times, mark, with
<1>7. ASSUME NEW T \in SUBSET Instants PROVE CheckIns(T) = Sum(times, Shows \X T)
  BY <1>3, ScansAtOnce
<1>8. \A k \in K : v[k] = Sum(times, with[k])
  BY <1>6, <1>7 DEF Sorted
<1>9. CheckIns(all) = Sum(times, every)
  BY <1>7 DEF Sorted
<1> HIDE DEF P, every
<1>10. Sorted(P, K, mark, with, every)
  BY <1>1, <1>4, <1>5 DEF Sorted
<1> QED
  BY <1>2, <1>8, <1>9, <1>10, SumByKind

\* The overview is the events' own figures together.
LEMMA OverviewAgrees ==
  ASSUME AnalyticsTyped
  PROVE  /\ \A f \in DOMAIN Overview :
              Overview[f] = MapThenSumSet(LAMBDA s : EventAnalytics(s).figures[f], Shows)
         /\ AnalyticsSummary.revenue = Overview.revenue
         /\ AnalyticsSummary.tickets = Overview.tickets
         /\ Overview.revenue + MapThenSumSet(LAMBDA s : EventAnalytics(s).refundAmount, Shows)
              = GrandTotal * Cardinality(Captured)
<1> DEFINE ofShow == [o \in Captured |-> purchase[o].show]
           revenueOf == [s \in Shows |-> EventAnalytics(s).figures["revenue"]]
           ticketsOf == [s \in Shows |-> EventAnalytics(s).figures["tickets"]]
           checkIns == [s \in Shows |-> EventAnalytics(s).figures["checkIns"]]
           refunds == [s \in Shows |-> EventAnalytics(s).refundAmount]
<1>1. IsFiniteSet(Shows) /\ IsFiniteSet(Captured)
  BY AnalyticsAssumption, CapturedRows
<1> DEFINE of == [s \in Shows |-> CapturedFor(s)]
<1>2. \A s \in Shows : /\ revenueOf[s] = MapThenSumSet(NetPaise, of[s])
                       /\ ticketsOf[s] = Quantity * Cardinality(of[s])
                       /\ refunds[s] = MapThenSumSet(RefundedPaise, of[s])
                       /\ checkIns[s] = ScansDuring(s, Instants)
  BY DEF EventAnalytics, Figures, ScansOf
<1>3. Sorted(Captured, Shows, ofShow, of, Captured)
  BY <1>1, CapturedRows DEF CapturedFor, Sorted
<1> HIDE DEF ofShow, of
<1>4. /\ Sum(revenueOf, Shows) = MapThenSumSet(NetPaise, Captured)
      /\ Sum(ticketsOf, Shows) = Quantity * Cardinality(Captured)
      /\ Sum(refunds, Shows) = MapThenSumSet(RefundedPaise, Captured)
  <2> HIDE DEF revenueOf, ticketsOf, refunds
  <2> QED
    BY <1>2, <1>3, OrdersByKind
<1>5. Sum(checkIns, Shows) = CheckIns(Instants)
  <2> HIDE DEF checkIns
  <2> QED
    BY <1>2, CheckInsAreSum
<1>6. /\ Overview.revenue = MapThenSumSet(NetPaise, Captured)
      /\ Overview.tickets = Quantity * Cardinality(Captured)
      /\ Overview.checkIns = CheckIns(Instants)
      /\ DOMAIN Overview = {"revenue", "tickets", "checkIns"}
  BY DEF Overview, Figures
<1>7. \A f \in DOMAIN Overview :
        Overview[f] = MapThenSumSet(LAMBDA s : EventAnalytics(s).figures[f], Shows)
  <2> SUFFICES ASSUME NEW f \in DOMAIN Overview
               PROVE  Overview[f] = MapThenSumSet(LAMBDA s : EventAnalytics(s).figures[f], Shows)
    OBVIOUS
  <2> DEFINE w == [s \in Shows |-> EventAnalytics(s).figures[f]]
  <2>1. MapThenSumSet(LAMBDA s : EventAnalytics(s).figures[f], Shows) = Sum(w, Shows)
    <3>1. \A s \in Shows : w[s] = EventAnalytics(s).figures[f]
      OBVIOUS
    <3> HIDE DEF w
    <3> QED
      BY <3>1, FiguresAreSum
  <2>2. /\ f = "revenue" => w = revenueOf
        /\ f = "tickets" => w = ticketsOf
        /\ f = "checkIns" => w = checkIns
    OBVIOUS
  <2> HIDE DEF w, revenueOf, ticketsOf, checkIns
  <2>3. Overview[f] = Sum(w, Shows)
    BY <1>4, <1>5, <1>6, <2>2
  <2> QED
    BY <2>1, <2>3
<1>8. /\ AnalyticsSummary.revenue = Overview.revenue
      /\ AnalyticsSummary.tickets = Overview.tickets
  BY <1>6 DEF AnalyticsSummary
<1>9. MapThenSumSet(NetPaise, Captured) + MapThenSumSet(RefundedPaise, Captured)
        = GrandTotal * Cardinality(Captured)
  <2> DEFINE net == [o \in Captured |-> NetPaise(o)]
             back == [o \in Captured |-> RefundedPaise(o)]
             both == [o \in Captured |-> GrandTotal]
  <2>1. /\ \A o \in Captured : net[o] \in Nat /\ back[o] \in Nat /\ both[o] = net[o] + back[o]
        /\ \A o \in Captured : net[o] = NetPaise(o) /\ back[o] = RefundedPaise(o)
        /\ \A o \in Captured : both[o] = GrandTotal
    BY CapturedRows
  <2> HIDE DEF net, back, both
  <2>2. /\ MapThenSumSet(NetPaise, Captured) = Sum(net, Captured)
        /\ MapThenSumSet(RefundedPaise, Captured) = Sum(back, Captured)
    BY <1>1, <2>1, NetIsSum, RefundIsSum
  <2>3. Sum(both, Captured) = Sum(net, Captured) + Sum(back, Captured)
    BY <1>1, <2>1, SumsAdd
  <2>4. Sum(both, Captured) = GrandTotal * Cardinality(Captured)
    BY <1>1, <2>1, SumOfEqual, AnalyticsAssumption
  <2> QED
    BY <2>2, <2>3, <2>4
<1>10. MapThenSumSet(LAMBDA s : EventAnalytics(s).refundAmount, Shows) = Sum(refunds, Shows)
  BY RefundsAreSum
<1> HIDE DEF revenueOf, ticketsOf, checkIns, refunds
<1> QED
  BY <1>4, <1>6, <1>7, <1>8, <1>9, <1>10

\* Every event that has a card is on the calendar, once.
LEMMA CalendarAgrees ==
  ASSUME AnalyticsTyped
  PROVE  LET cards == OrganizationEventCards(0)
             months == {MonthOf(DayOf(hour)) : hour \in Instants}
         IN /\ \A s \in DOMAIN cards : cards[s] = EventAnalytics(s).figures.tickets
            /\ MapThenSumSet(ShownIn, months) = Cardinality(DOMAIN cards)
<1> DEFINE cards == OrganizationEventCards(0)
           on == {s \in Shows : Happening(s)}
           days == {DayOf(hour) : hour \in Instants}
           months == {MonthOf(DayOf(hour)) : hour \in Instants}
           dayOf == [s \in on |-> DayOf(billing[s].start)]
           monthOf == [d \in days |-> MonthOf(d)]
           onDay == [d \in days |-> {s \in on : dayOf[s] = d}]
           inMonth == [m \in months |-> {d \in days : monthOf[d] = m}]
           one == [s \in on |-> 1]
           count == [d \in days |-> Cardinality(onDay[d])]
           shown == [m \in months |-> ShownIn(m)]
<1>1. \A s \in on : billing[s].start \in Instants
  BY AnalyticsAssumption DEF AnalyticsTyped, Happening
<1>2. DOMAIN cards = on
  <2>0. Instants \subseteq Nat
    BY AnalyticsAssumption
  <2>1. \A s \in on : billing[s].start >= 0
    <3>1. \A n \in Instants : n >= 0
      BY <2>0
    <3> HIDE DEF on
    <3> QED
      BY <1>1, <3>1
  <2> QED
    BY <2>1 DEF OrganizationEventCards
<1>3. \A s \in DOMAIN cards : cards[s] = EventAnalytics(s).figures.tickets
  BY DEF OrganizationEventCards, EventAnalytics, Figures
<1>4. IsFiniteSet(on) /\ IsFiniteSet(days) /\ IsFiniteSet(months)
  <2>1. IsFiniteSet(Shows) /\ IsFiniteSet(Instants)
    BY AnalyticsAssumption
  <2>2. IsFiniteSet(on)
    BY <2>1, FS_Subset
  <2>3. IsFiniteSet(days)
    <3>1. [hour \in Instants |-> DayOf(hour)] \in Surjection(Instants, days)
      BY DEF Surjection
    <3> QED
      BY <2>1, <3>1, FS_Surjection
  <2>4. IsFiniteSet(months)
    <3>1. [hour \in Instants |-> MonthOf(DayOf(hour))] \in Surjection(Instants, months)
      BY DEF Surjection
    <3> QED
      BY <2>1, <3>1, FS_Surjection
  <2> QED
    BY <2>2, <2>3, <2>4
<1>5. Sorted(on, days, dayOf, onDay, on)
  <2>1. \A s \in on : dayOf[s] \in days
    BY <1>1
  <2>2. \A d \in days : onDay[d] \in SUBSET on /\ \A s \in on : s \in onDay[d] <=> dayOf[s] = d
    OBVIOUS
  <2> HIDE DEF on, days, dayOf, onDay
  <2> QED
    BY <1>4, <2>1, <2>2 DEF Sorted
<1>6. Sorted(days, months, monthOf, inMonth, days)
  <2>1. \A d \in days : monthOf[d] \in months
    OBVIOUS
  <2>2. \A m \in months : /\ inMonth[m] \in SUBSET days
                          /\ \A d \in days : d \in inMonth[m] <=> monthOf[d] = m
    OBVIOUS
  <2> HIDE DEF days, months, monthOf, inMonth
  <2> QED
    BY <1>4, <2>1, <2>2 DEF Sorted
<1>7. \A d \in days : count[d] = Sum(one, onDay[d]) /\ count[d] \in Nat
  <2> SUFFICES ASSUME NEW d \in days PROVE count[d] = Sum(one, onDay[d]) /\ count[d] \in Nat
    OBVIOUS
  <2>1. count[d] = Cardinality(onDay[d]) /\ onDay[d] \in SUBSET on /\ \A s \in on : one[s] = 1
    OBVIOUS
  <2> HIDE DEF on, days, onDay, one, count
  <2>2. IsFiniteSet(onDay[d])
    BY <1>4, <2>1, FS_Subset
  <2>3. Cardinality(onDay[d]) \in Nat
    BY <2>2, FS_CardinalityType
  <2>4. Sum(one, onDay[d]) = 1 * Cardinality(onDay[d])
    BY <2>1, <2>2, SumOfEqual
  <2> QED
    BY <2>1, <2>3, <2>4
<1>8. \A m \in months : shown[m] = Sum(count, inMonth[m])
  <2> SUFFICES ASSUME NEW m \in months PROVE shown[m] = Sum(count, inMonth[m])
    OBVIOUS
  <2> DEFINE figures == OrganizationCalendar(m)
  <2>1. shown[m] = Sum(figures, DOMAIN figures)
    BY MonthIsSum
  <2>2. DOMAIN figures = inMonth[m] /\ inMonth[m] \in SUBSET days
    BY DEF OrganizationCalendar
  <2>3. \A d \in inMonth[m] : figures[d] = count[d]
    <3> SUFFICES ASSUME NEW d \in inMonth[m] PROVE figures[d] = count[d]
      OBVIOUS
    <3>1. figures[d] = Cardinality({s \in Shows : Happening(s) /\ DayOf(billing[s].start) = d})
      BY DEF OrganizationCalendar
    <3>2. {s \in Shows : Happening(s) /\ DayOf(billing[s].start) = d} = onDay[d]
      OBVIOUS
    <3> QED
      BY <3>1, <3>2
  <2> HIDE DEF figures, inMonth, days, count, shown
  <2>4. IsFiniteSet(inMonth[m])
    BY <1>4, <2>2, FS_Subset
  <2> QED
    BY <2>1, <2>2, <2>3, <2>4, SumSame
<1>9. \A s \in on : one[s] = 1 /\ one[s] \in Nat
  OBVIOUS
<1>10. \A m \in months : shown[m] = ShownIn(m)
  OBVIOUS
<1> HIDE DEF on, days, months, dayOf, monthOf, onDay, inMonth, one, count, shown
<1>11. Sum(shown, months) = Sum(count, days)
  BY <1>6, <1>7, <1>8, SumByKind
<1>12. Sum(count, days) = Sum(one, on)
  BY <1>5, <1>7, <1>9, SumByKind
<1>13. Sum(one, on) = 1 * Cardinality(on)
  BY <1>4, <1>9, SumOfEqual
<1>14. Cardinality(on) \in Nat
  BY <1>4, FS_CardinalityType
<1>15. MapThenSumSet(ShownIn, months) = Sum(shown, months)
  BY <1>4, <1>10, ShownIsSum
<1>16. MapThenSumSet(ShownIn, months) = Cardinality(DOMAIN cards)
  BY <1>2, <1>11, <1>12, <1>13, <1>14, <1>15
<1> QED
  BY <1>3, <1>16 DEF months

---------------------------------------------------------------------------
(* The trend chart.                                                        *)

LEMMA LesserOfTwo ==
  ASSUME NEW a \in Nat, NEW b \in Nat
  PROVE  /\ Min({a, b}) \in {a, b} /\ Min({a, b}) <= a /\ Min({a, b}) <= b
         /\ Max({a, b}) \in {a, b} /\ a <= Max({a, b}) /\ b <= Max({a, b})
<1>1. PICK low \in {a, b}, high \in {a, b} : low <= a /\ low <= b /\ a <= high /\ b <= high
  OBVIOUS
<1>2. \A x \in {a, b} : x <= Max({a, b})
  BY <1>1 DEF Max
<1>3. Max({a, b}) \in {a, b}
  BY <1>1 DEF Max
<1>4. Min({a, b}) \in {a, b} /\ \A x \in {a, b} : Min({a, b}) <= x
  BY <1>1 DEF Min
<1> QED
  BY <1>2, <1>3, <1>4

LEMMA Division ==
  ASSUME NEW n \in Nat, NEW d \in Nat \ {0}
  PROVE  n \div d \in Nat /\ \E r \in Nat : r < d /\ n = (n \div d) * d + r
<1>1. n \div d \in Int /\ n % d \in 0..d - 1 /\ n = d * (n \div d) + (n % d)
  OBVIOUS
<1> QED
  BY <1>1

\* An hour is in a day or a later one from the day's first hour on.
LEMMA DayReached ==
  ASSUME NEW n \in Nat, NEW d \in Nat \ {0}, NEW q \in Nat
  PROVE  q * d <= n <=> q <= n \div d
<1>1. PICK m \in Nat, r \in Nat : m = n \div d /\ r < d /\ n = m * d + r
  BY Division
<1>2. CASE q <= m
  <2>1. PICK z \in Nat : m = q + z
    BY <1>2
  <2>2. m * d = q * d + z * d /\ z * d \in Nat /\ q * d \in Nat
    BY <2>1
  <2> QED
    BY <1>1, <1>2, <2>2
<1>3. CASE m < q
  <2>1. PICK z \in Nat : q = m + 1 + z
    BY <1>3
  <2>2. q * d = m * d + d + z * d /\ z * d \in Nat /\ m * d \in Nat
    BY <2>1
  <2> QED
    BY <1>1, <1>3, <2>2
<1> QED
  BY <1>2, <1>3

\* Keys made of n numbers in a row.
Numbered(K, label, start, n) ==
  \A k : k \in K <=> \E i \in 0..n - 1 : k = <<label, start + i>>

LEMMA NumberedKeys ==
  ASSUME NEW label, NEW start \in Nat, NEW n \in Nat, NEW K,
         Numbered(K, label, start, n)
  PROVE  /\ IsFiniteSet(K) /\ Cardinality(K) = n
         /\ \A m \in Nat : <<label, m>> \in K <=> start <= m /\ m <= start + n - 1
<1> DEFINE I == start..start + n - 1
           key == [m \in I |-> <<label, m>>]
<1>1. IsFiniteSet(I) /\ Cardinality(I) = n
  <2>1. PICK high \in Int : high = start + n - 1
    OBVIOUS
  <2>2. /\ IsFiniteSet(start..high)
        /\ Cardinality(start..high) = IF start > high THEN 0 ELSE high - start + 1
    BY FS_Interval
  <2> QED
    BY <2>1, <2>2
<1>2. \A k : k \in K <=> \E m \in I : k = <<label, m>>
  <2>1. ASSUME NEW m \in I PROVE m - start \in 0..n - 1 /\ start + (m - start) = m
    OBVIOUS
  <2>2. ASSUME NEW i \in 0..n - 1 PROVE start + i \in I
    OBVIOUS
  <2> HIDE DEF I
  <2> QED
    BY <2>1, <2>2 DEF Numbered
<1>3. \A m \in Nat : m \in I <=> start <= m /\ m <= start + n - 1
  OBVIOUS
<1> HIDE DEF I
<1>4. \A m : <<label, m>> \in K <=> m \in I
  BY <1>2
<1>5. key \in Bijection(I, K)
  <2>1. key \in [I -> K]
    BY <1>4
  <2>2. \A a \in I, b \in I : key[a] = key[b] => a = b
    OBVIOUS
  <2>3. \A k \in K : \E a \in I : key[a] = k
    BY <1>2
  <2> HIDE DEF key
  <2> QED
    BY <2>1, <2>2, <2>3 DEF Bijection, Injection, IsInjective, Surjection
<1>6. IsFiniteSet(K) /\ Cardinality(K) = n
  BY <1>1, <1>5, FS_Bijection, Zenon DEF ExistsBijection
<1> QED
  BY <1>3, <1>4, <1>6

\* The keys of a chart of days or hours are those of the time from its first day on.
LEMMA ChartKeys ==
  ASSUME NEW from \in Nat, NEW to \in Nat, NEW granularity \in {"hour", "day"},
         NEW first, first = Min({from, to}),
         NEW hours, hours = IF granularity = "hour" THEN 1 ELSE HoursPerDay,
         NEW K, K = BuildRange(from, to, granularity)
  PROVE  \E n \in Nat :
           /\ IsFiniteSet(K) /\ Cardinality(K) = n /\ n <= MaxBuckets
           /\ \A hour \in Instants :
                KeyOf(granularity, hour) \in K <=>
                  first * HoursPerDay <= hour /\ hour <= first * HoursPerDay + n * hours - 1
<1> DEFINE H == HoursPerDay
           last == Max({from, to})
           asked == BucketCount(first, last, granularity)
           n == Min({asked, MaxBuckets})
<1>1. H \in Nat \ {0} /\ MaxBuckets \in Nat /\ Instants \subseteq Nat
  BY AnalyticsAssumption
<1>2. first \in Nat /\ last \in Nat /\ first <= last
  BY LesserOfTwo
<1>3. asked \in Nat
  <2>1. PICK z \in Nat : z = last - first + 1
    BY <1>2
  <2>2. z * H \in Nat
    BY <1>1, <2>1
  <2> QED
    BY <1>2, <2>1, <2>2 DEF BucketCount
<1> HIDE DEF asked, last
<1>4. n \in Nat /\ n <= MaxBuckets
  BY <1>1, <1>3, LesserOfTwo
<1>5. K = {BucketKey(first, i, granularity) : i \in 0..n - 1}
  BY DEF BuildRange, asked, last
<1> HIDE DEF n, H
<1>6. PICK start \in Nat : start = first * H
  BY <1>1, <1>2
<1>7. CASE granularity = "hour"
  <2>1. \A i \in 0..n - 1 : BucketKey(first, i, granularity) = <<"hour", start + i>>
    BY <1>6, <1>7 DEF BucketKey, KeyOf, H
  <2>2. Numbered(K, "hour", start, n)
    BY <1>5, <2>1 DEF Numbered
  <2>3. /\ IsFiniteSet(K) /\ Cardinality(K) = n
        /\ \A m \in Nat : <<"hour", m>> \in K <=> start <= m /\ m <= start + n - 1
    BY <1>4, <1>6, <2>2, NumberedKeys
  <2>4. \A hour \in Instants : KeyOf(granularity, hour) = <<"hour", hour>> /\ hour \in Nat
    BY <1>1, <1>7 DEF KeyOf
  <2>5. n * hours = n
    BY <1>4, <1>7
  <2>6. \A hour \in Instants :
          KeyOf(granularity, hour) \in K <=>
            first * HoursPerDay <= hour /\ hour <= first * HoursPerDay + n * hours - 1
    BY <1>6, <2>3, <2>4, <2>5 DEF H
  <2> QED
    BY <1>4, <2>3, <2>6
<1>8. CASE granularity = "day"
  <2>1. \A i \in 0..n - 1 : BucketKey(first, i, granularity) = <<"day", first + i>>
    <3> SUFFICES ASSUME NEW i \in 0..n - 1
                 PROVE  BucketKey(first, i, granularity) = <<"day", first + i>>
      OBVIOUS
    <3>1. BucketKey(first, i, granularity) = <<"day", ((first + i) * H) \div H>>
      BY <1>8 DEF BucketKey, KeyOf, DayOf, H
    <3>2. PICK date \in Nat : date = first + i
      BY <1>2, <1>4
    <3>3. date * H \in Nat /\ (date + 1) * H = date * H + H
      BY <1>1, <3>2
    <3>4. PICK q \in Nat : q = (date * H) \div H
      BY <1>1, <3>3, Division
    <3>5. date <= q /\ ~(date + 1 <= q)
      <4>1. date * H <= date * H /\ ~((date + 1) * H <= date * H)
        BY <1>1, <3>3
      <4> QED
        BY <1>1, <3>2, <3>3, <3>4, <4>1, DayReached
    <3> QED
      BY <3>1, <3>2, <3>4, <3>5
  <2>2. Numbered(K, "day", first, n)
    BY <1>5, <2>1 DEF Numbered
  <2>3. /\ IsFiniteSet(K) /\ Cardinality(K) = n
        /\ \A m \in Nat : <<"day", m>> \in K <=> first <= m /\ m <= first + n - 1
    BY <1>2, <1>4, <2>2, NumberedKeys
  <2>4. ASSUME NEW hour \in Instants
        PROVE  KeyOf(granularity, hour) \in K <=> start <= hour /\ hour <= start + n * H - 1
    <3>1. hour \in Nat
      BY <1>1
    <3>2. PICK date \in Nat : date = DayOf(hour)
      BY <1>1, <3>1, Division DEF DayOf, H
    <3>3. start <= hour <=> first <= date
      BY <1>1, <1>2, <1>6, <3>1, <3>2, DayReached DEF DayOf, H
    <3>4. (first + n) * H <= hour <=> first + n <= date
      <4>1. first + n \in Nat
        BY <1>2, <1>4
      <4> QED
        BY <1>1, <3>1, <3>2, <4>1, DayReached DEF DayOf, H
    <3>5. PICK more \in Nat : more = n * H /\ (first + n) * H = start + more
      BY <1>1, <1>2, <1>4, <1>6
    <3>6. KeyOf(granularity, hour) \in K <=> first <= date /\ date <= first + n - 1
      BY <1>8, <2>3, <3>2 DEF KeyOf
    <3> QED
      BY <1>2, <1>4, <1>6, <3>1, <3>2, <3>3, <3>4, <3>5, <3>6
  <2>5. hours = H
    BY <1>8 DEF H
  <2>6. \A hour \in Instants :
          KeyOf(granularity, hour) \in K <=>
            first * HoursPerDay <= hour /\ hour <= first * HoursPerDay + n * hours - 1
    BY <1>6, <2>4, <2>5 DEF H
  <2> QED
    BY <1>4, <2>3, <2>6
<1> QED
  BY <1>7, <1>8

\* A chart of days or hours adds up to what happened in the time it covers.
LEMMA ChartAgrees ==
  ASSUME AnalyticsTyped, NEW from \in Nat, NEW to \in Nat, NEW granularity \in {"hour", "day"}
  PROVE  LET chart == OrganizationTrends(from, to, granularity)
         IN  /\ AddsUp(chart, Covered(from, to, granularity))
             /\ Cardinality(DOMAIN chart) <= MaxBuckets
<1> DEFINE chart == OrganizationTrends(from, to, granularity)
           K == BuildRange(from, to, granularity)
           first == Min({from, to})
           start == first * HoursPerDay
           hours == IF granularity = "hour" THEN 1 ELSE HoursPerDay
<1>1. PICK n \in Nat : /\ IsFiniteSet(K) /\ Cardinality(K) = n /\ n <= MaxBuckets
                       /\ \A hour \in Instants :
                            KeyOf(granularity, hour) \in K <=> start <= hour /\ hour <= start + n * hours - 1
  <2>1. /\ first = Min({from, to}) /\ K = BuildRange(from, to, granularity)
        /\ hours = IF granularity = "hour" THEN 1 ELSE HoursPerDay
    OBVIOUS
  <2> HIDE DEF first, K, hours
  <2> QED
    BY <2>1, ChartKeys
<1> DEFINE within == {hour \in Instants : start <= hour /\ hour <= start + n * hours - 1}
           sold == {o \in Captured : purchase[o].createdAt \in within}
           keyOf == [hour \in Instants |-> KeyOf(granularity, hour)]
           soldKey == [o \in Captured |-> KeyOf(granularity, purchase[o].createdAt)]
           hoursOf == [key \in K |-> {hour \in Instants : keyOf[hour] = key}]
           soldOf == [key \in K |-> {o \in Captured : soldKey[o] = key}]
           revenueOf == [key \in K |-> chart[key]["revenue"]]
           ticketsOf == [key \in K |-> chart[key]["tickets"]]
           checkIns == [key \in K |-> chart[key]["checkIns"]]
<1>2. Covered(from, to, granularity) = Figures(sold, CheckIns(within))
  BY <1>1 DEF Covered, During
<1>3. DOMAIN chart = K
  BY DEF OrganizationTrends
<1>4. \A key \in K : /\ revenueOf[key] = MapThenSumSet(NetPaise, soldOf[key])
                     /\ ticketsOf[key] = Quantity * Cardinality(soldOf[key])
                     /\ checkIns[key] = CheckIns(hoursOf[key])
  <2> SUFFICES ASSUME NEW key \in K
               PROVE  /\ revenueOf[key] = MapThenSumSet(NetPaise, soldOf[key])
                      /\ ticketsOf[key] = Quantity * Cardinality(soldOf[key])
                      /\ checkIns[key] = CheckIns(hoursOf[key])
    OBVIOUS
  <2>1. chart[key] = Figures({o \in Captured : KeyOf(granularity, purchase[o].createdAt) = key},
                             CheckIns({hour \in Instants : KeyOf(granularity, hour) = key}))
    BY DEF OrganizationTrends, Bucket
  <2>2. {o \in Captured : KeyOf(granularity, purchase[o].createdAt) = key} = soldOf[key]
    OBVIOUS
  <2>3. {hour \in Instants : KeyOf(granularity, hour) = key} = hoursOf[key]
    OBVIOUS
  <2>4. chart[key] = Figures(soldOf[key], CheckIns(hoursOf[key]))
    BY <2>1, <2>2, <2>3
  <2>5. /\ revenueOf[key] = chart[key].revenue
        /\ ticketsOf[key] = chart[key].tickets
        /\ checkIns[key] = chart[key].checkIns
    OBVIOUS
  <2> HIDE DEF chart, K, soldOf, hoursOf, revenueOf, ticketsOf, checkIns
  <2> QED
    BY <2>4, <2>5 DEF Figures
<1>5. Sorted(Instants, K, keyOf, hoursOf, within)
  <2>1. IsFiniteSet(Instants)
    BY AnalyticsAssumption
  <2>2. \A key \in K : /\ hoursOf[key] \in SUBSET Instants
                       /\ \A hour \in Instants : hour \in hoursOf[key] <=> keyOf[hour] = key
    OBVIOUS
  <2>3. within \in SUBSET Instants /\ \A hour \in Instants : hour \in within <=> keyOf[hour] \in K
    BY <1>1
  <2> HIDE DEF K, keyOf, hoursOf, within
  <2> QED
    BY <1>1, <2>1, <2>2, <2>3 DEF Sorted
<1>6. Sorted(Captured, K, soldKey, soldOf, sold)
  <2>1. IsFiniteSet(Captured) /\ \A o \in Captured : purchase[o].createdAt \in Instants
    BY CapturedRows
  <2>2. \A key \in K : /\ soldOf[key] \in SUBSET Captured
                       /\ \A o \in Captured : o \in soldOf[key] <=> soldKey[o] = key
    OBVIOUS
  <2>3. sold \in SUBSET Captured /\ \A o \in Captured : o \in sold <=> soldKey[o] \in K
    BY <1>1, <2>1
  <2> HIDE DEF K, soldKey, soldOf, sold
  <2> QED
    BY <1>1, <2>1, <2>2, <2>3 DEF Sorted
<1>7. \A key \in K : /\ revenueOf[key] = chart[key]["revenue"]
                     /\ ticketsOf[key] = chart[key]["tickets"]
                     /\ checkIns[key] = chart[key]["checkIns"]
  OBVIOUS
<1> HIDE DEF chart, K, within, sold, keyOf, soldKey, hoursOf, soldOf, revenueOf, ticketsOf, checkIns
<1>8. /\ TotalOf(chart, "revenue") = Sum(revenueOf, K)
      /\ TotalOf(chart, "tickets") = Sum(ticketsOf, K)
      /\ TotalOf(chart, "checkIns") = Sum(checkIns, K)
  BY <1>1, <1>3, <1>7, ChartIsSum
<1>9. /\ Sum(revenueOf, K) = MapThenSumSet(NetPaise, sold)
       /\ Sum(ticketsOf, K) = Quantity * Cardinality(sold)
  BY <1>6, <1>4, OrdersByKind
<1>10. Sum(checkIns, K) = CheckIns(within)
  BY <1>5, <1>4, ScansByKind
<1>11. AddsUp(chart, Covered(from, to, granularity))
  BY <1>2, <1>8, <1>9, <1>10 DEF AddsUp, Figures
<1>12. Cardinality(DOMAIN chart) <= MaxBuckets
  BY <1>1, <1>3
<1> QED
  BY <1>11, <1>12 DEF chart

\* Whatever the rows are, the figures agree.
LEMMA RowsAgree ==
  ASSUME AnalyticsTyped PROVE FiguresAgree
<1>1. ASSUME NEW span \in Spans, NEW granularity \in {"hour", "day"}
      PROVE  LET chart == OrganizationTrends(span[1], span[2], granularity)
             IN  /\ AddsUp(chart, Covered(span[1], span[2], granularity))
                 /\ Cardinality(DOMAIN chart) <= MaxBuckets
  <2>1. span[1] \in Nat /\ span[2] \in Nat
    BY AnalyticsAssumption
  <2> QED
    BY <2>1, ChartAgrees
<1> QED
  BY <1>1, OverviewAgrees, CalendarAgrees DEF FiguresAgree

\* The rows keep their types.
LEMMA OrderBecomes ==
  ASSUME AnalyticsTyped, NEW o \in Purchases, NEW status, NEW refunded \in 0..GrandTotal,
         Becomes(o, status, refunded)
  PROVE  AnalyticsTyped'
<1>1. PICK r \in Purchase : r = purchase[o]
  BY DEF Becomes, AnalyticsTyped
<1>2. status \in DOMAIN OrderTransitions
  BY <1>1 DEF Becomes, OrderTransitions, Purchase
<1>3. [[r EXCEPT !.status = status] EXCEPT !.refunded = refunded] \in Purchase
  BY <1>2 DEF Purchase
<1>4. purchase' =
        [purchase EXCEPT ![o] = [[r EXCEPT !.status = status] EXCEPT !.refunded = refunded]]
  BY <1>1 DEF Becomes, AnalyticsTyped
<1> QED
  BY <1>3, <1>4 DEF Becomes, AnalyticsTyped

LEMMA AnalyticsWorks == ASSUME AnalyticsTyped, AnalyticsWorld PROVE AnalyticsTyped'
<1>1. ASSUME NEW o \in Purchases, PlaceOrder(o) PROVE AnalyticsTyped'
  <2>1. PICK s \in Shows, hour \in Instants :
          purchase' = [purchase EXCEPT ![o] = [show |-> s, createdAt |-> hour, refunded |-> 0,
                                               status |-> "pending"]]
    BY <1>1 DEF PlaceOrder
  <2>2. [show |-> s, createdAt |-> hour, refunded |-> 0, status |-> "pending"] \in Purchase
    BY AnalyticsAssumption DEF Purchase, OrderTransitions
  <2> QED
    BY <1>1, <2>1, <2>2 DEF PlaceOrder, AnalyticsTyped
<1>2. ASSUME NEW o \in Purchases, NEW status, Keeps(o, status) PROVE AnalyticsTyped'
  <2>1. purchase[o].refunded \in 0..GrandTotal
    BY <1>2 DEF Keeps, AnalyticsTyped, Purchase
  <2> QED
    BY <1>2, <2>1, OrderBecomes DEF Keeps
<1>3. ASSUME NEW o \in Purchases, ApplyOrderRefund(o) PROVE AnalyticsTyped'
  <2>1. purchase[o].refunded \in 0..GrandTotal
    BY <1>3 DEF ApplyOrderRefund, AnalyticsTyped, Purchase
  <2>2. PICK amount \in 1..GrandTotal - purchase[o].refunded :
          LET refunded == purchase[o].refunded + amount IN
          Becomes(o, IF refunded = GrandTotal THEN "refunded" ELSE "paid", refunded)
    BY <1>3 DEF ApplyOrderRefund
  <2>3. purchase[o].refunded + amount \in 0..GrandTotal
    BY <2>1, AnalyticsAssumption
  <2> QED
    BY <2>2, <2>3, OrderBecomes
<1>4. ASSUME NEW s \in Shows, ScanEntitlement(s) PROVE AnalyticsTyped'
  <2>1. PICK hour \in Instants : scannedAt' = [scannedAt EXCEPT ![s][hour] = @ + 1]
    BY <1>4 DEF ScanEntitlement
  <2>2. PICK row \in [Instants -> Nat] : row = scannedAt[s]
    BY DEF AnalyticsTyped
  <2>3. [row EXCEPT ![hour] = @ + 1] \in [Instants -> Nat]
    OBVIOUS
  <2>4. scannedAt' = [scannedAt EXCEPT ![s] = [row EXCEPT ![hour] = @ + 1]]
    BY <2>1, <2>2 DEF AnalyticsTyped
  <2> QED
    BY <1>4, <2>3, <2>4 DEF ScanEntitlement, AnalyticsTyped
<1> QED
  BY <1>1, <1>2, <1>3, <1>4
     DEF AnalyticsWorld, AwaitPayment, PayOrder, MarkFailed, CancelOrder, ExpireOrder,
         LockOrderForRefund, RestoreOrderAfterRefundFailure

LEMMA AnalyticsNext == AnalyticsTyped /\ [Next]_programmeVars => AnalyticsTyped'
<1> SUFFICES ASSUME AnalyticsTyped, [Next]_programmeVars PROVE AnalyticsTyped'
  OBVIOUS
<1>1. CASE UNCHANGED rows
  BY <1>1 DEF rows, analyticsVars, AnalyticsTyped
<1>2. CASE part # "analytics"
  <2>1. UNCHANGED analyticsVars
    BY <1>2, Happens DEF OthersKept, rows
  <2> QED
    BY <2>1 DEF analyticsVars, AnalyticsTyped
<1>3. ASSUME part = "analytics", NEW c \in Calls, Work(c) PROVE FALSE
  BY <1>3 DEF Work
<1>4. ASSUME part = "analytics", World PROVE AnalyticsTyped'
  BY <1>4, AnalyticsWorks DEF World
<1> QED
  BY <1>1, <1>2, <1>3, <1>4, Happens

\* The screens agree, whatever is sold, refunded and scanned and whenever: with each other,
\* on every order and scan; the calendar with the cards; and a chart of days or hours with
\* what happened in the time it covers, for any bounds and however short it is cut.
THEOREM DashboardsAgreeForAll == Spec => []DashboardsAgree
<1>1. Init => AnalyticsTyped
  BY DEF Init, AnalyticsInit, AnalyticsTyped
<1>2. AnalyticsTyped => DashboardsAgree
  BY RowsAgree DEF DashboardsAgree
<1> QED
  BY <1>1, <1>2, AnalyticsNext, PTL DEF Spec

---------------------------------------------------------------------------
(* Walks over lists.                                                       *)

\* Of the rows that were there all along, the walk has those up to a cursor: up to the
\* row it names, or to the offset.
Passed(w, n, taken) ==
  IF paging = "row" THEN \A e \in w.stayed : e <= n => e \in taken
  ELSE ~w.torn => \A e \in w.stayed : Before(listed, e) < n => e \in taken

\* What a walk knows between two pages, and between the two reads of one.
WalkKnows(w) ==
  /\ w.stayed \subseteq listed /\ Passed(w, w.from, w.seen)
  /\ paging = "counted" /\ ~w.torn /\ w.items # None =>
       \A e \in w.stayed : Before(listed, e) < w.from + Cardinality(w.items) =>
                             e \in w.seen \cup w.items
  /\ paging = "counted" /\ ~w.torn /\ w.total # None /\ w.items = None =>
       w.total = Cardinality(listed)

WalkTold(w) == ~w.cut /\ ~w.torn => w.stayed \subseteq w.seen

WalkCall(q) ==
  q.op = "walk" =>
    /\ q.arg \in Ask
    /\ q.pc \in {"page", "told"} => q.row \in Walk
    /\ q.pc = "page" => WalkKnows(q.row)
    /\ q.pc = "told" => WalkTold(q.row)

ListingRows == listed \subseteq Entries /\ paging \in {"row", "offset", "counted"}
ListingCalls == part = "listing" => CallsShaped /\ \A c \in Calls : WalkCall(call[c])
ListingInv == ListingRows /\ ListingCalls

LEMMA ListFinite ==
  ASSUME NEW rows1 \in SUBSET Entries
  PROVE  /\ IsFiniteSet(rows1) /\ Cardinality(rows1) \in Nat
         /\ \A e \in rows1 : e \in Nat /\ e > 0
<1>1. IsFiniteSet(Entries) /\ Entries \subseteq Nat \ {0}
  BY ListingAssumption
<1>2. IsFiniteSet(rows1) /\ Cardinality(rows1) \in Nat
  BY <1>1, FS_Subset, FS_CardinalityType
<1>3. \A e \in rows1 : e \in Nat /\ e > 0
  BY <1>1
<1> QED
  BY <1>2, <1>3

LEMMA BeforeIsNat ==
  ASSUME NEW rows1 \in SUBSET Entries, NEW e
  PROVE  Before(rows1, e) \in Nat
BY ListFinite DEF Before

\* A row has fewer before it than there are rows, and more than any row before it.
LEMMA BeforeIsRank ==
  ASSUME NEW rows1 \in SUBSET Entries, NEW e \in rows1
  PROVE  /\ Before(rows1, e) < Cardinality(rows1)
         /\ \A d \in rows1 : d < e => Before(rows1, d) < Before(rows1, e)
<1>1. IsFiniteSet(rows1) /\ \A x \in rows1 : x \in Nat
  BY ListFinite
<1>2. ASSUME NEW a \in SUBSET rows1, NEW b \in SUBSET a, a # b
      PROVE  Cardinality(b) < Cardinality(a)
  <2>1. IsFiniteSet(a) /\ IsFiniteSet(b)
    BY <1>1, FS_Subset
  <2>2. Cardinality(b) <= Cardinality(a) /\ (Cardinality(a) = Cardinality(b) => a = b)
    BY <2>1, FS_Subset
  <2>3. Cardinality(a) \in Nat /\ Cardinality(b) \in Nat
    BY <2>1, FS_CardinalityType
  <2> QED
    BY <1>2, <2>2, <2>3
<1>3. Before(rows1, e) < Cardinality(rows1)
  <2>1. e \notin {d \in rows1 : d < e}
    BY <1>1
  <2> QED
    BY <1>2, <2>1 DEF Before
<1>4. ASSUME NEW d \in rows1, d < e PROVE Before(rows1, d) < Before(rows1, e)
  <2>1. {x \in rows1 : x < d} \subseteq {x \in rows1 : x < e}
    BY <1>1, <1>4
  <2>2. d \in {x \in rows1 : x < e} /\ d \notin {x \in rows1 : x < d}
    BY <1>1, <1>4
  <2> QED
    BY <1>2, <2>1, <2>2 DEF Before
<1> QED
  BY <1>3, <1>4

\* Rows that enter put a row no earlier.
LEMMA BeforeGrows ==
  ASSUME NEW more \in SUBSET Entries, NEW rows1 \in SUBSET more, NEW e
  PROVE  Before(rows1, e) <= Before(more, e)
<1>1. IsFiniteSet({d \in more : d < e}) /\ {d \in rows1 : d < e} \in SUBSET {d \in more : d < e}
  BY ListFinite, FS_Subset
<1> QED
  BY <1>1, FS_Subset DEF Before

\* A page has no more rows than were asked for.
LEMMA SliceFits ==
  ASSUME NEW rows1 \in SUBSET Entries, NEW start \in Nat, NEW n \in Nat \ {0}
  PROVE  /\ Slice(rows1, start, n) \in SUBSET rows1
         /\ Cardinality(Slice(rows1, start, n)) \in 0..n
<1> DEFINE page == Slice(rows1, start, n)
           f == [e \in page |-> Before(rows1, e)]
<1>1. page \in SUBSET rows1 /\ page \in SUBSET Entries
  BY DEF Slice
<1>2. IsFiniteSet(start..(start + n - 1)) /\ Cardinality(start..(start + n - 1)) = n
  BY FS_Interval
<1>3. ASSUME NEW a \in page, NEW b \in page, f[a] = f[b] PROVE a = b
  <2>1. a \in rows1 /\ b \in rows1 /\ Before(rows1, a) = Before(rows1, b)
    BY <1>1, <1>3
  <2>2. a \in Nat /\ b \in Nat /\ Before(rows1, a) \in Nat
    BY <2>1, ListFinite, BeforeIsNat
  <2>3. a < b => Before(rows1, a) < Before(rows1, b)
    BY <2>1, BeforeIsRank
  <2>4. b < a => Before(rows1, b) < Before(rows1, a)
    BY <2>1, BeforeIsRank
  <2> QED
    BY <2>1, <2>2, <2>3, <2>4
<1>4. f \in [page -> start..(start + n - 1)]
  BY DEF Slice
<1> HIDE DEF f
<1>5. f \in Injection(page, start..(start + n - 1))
  BY <1>3, <1>4 DEF Injection, IsInjective
<1>6. Cardinality(page) <= n
  BY <1>2, <1>5, FS_Injection
<1> QED
  BY <1>1, <1>6, ListFinite

LEMMA LimitsClamped ==
  ASSUME NEW ask \in Ask
  PROVE  ask.limit \in Nat \ {0} /\ Clamped(ask.limit) \in Nat \ {0}
BY ListingAssumption DEF Ask, Clamped

LEMMA ListingInit0 == Init => ListingInv
<1> SUFFICES ASSUME Init PROVE ListingInv
  OBVIOUS
<1>1. CallsShaped /\ \A c \in Calls : WalkCall(call[c])
  BY DEF Init, WalkCall, CallsShaped, Shaped, Idle, Free
<1> QED
  BY <1>1 DEF Init, ListingInit, ListingInv, ListingRows, ListingCalls

\* What a call of a walk knows stays true while the list does.
LEMMA WalkStays ==
  ASSUME NEW q, WalkCall(q), listed' = listed, paging' = paging
  PROVE  WalkCall(q)'
<1>1. ASSUME NEW w, WalkKnows(w) PROVE WalkKnows(w)'
  BY <1>1 DEF WalkKnows, Passed
<1>2. ASSUME NEW w, WalkTold(w) PROVE WalkTold(w)'
  BY <1>2 DEF WalkTold
<1> QED
  BY <1>1, <1>2 DEF WalkCall

LEMMA ListingQuiet ==
  ASSUME ListingInv, part = "listing", part' = part, NEW c \in Calls, NEW q, CallIs(c, q),
         WalkCall(q), UNCHANGED listingVars
  PROVE  ListingInv'
<1>1. listed' = listed /\ paging' = paging /\ ListingRows'
  BY DEF listingVars, ListingInv, ListingRows
<1>2. ASSUME NEW d \in Calls PROVE WalkCall(call[d])'
  <2>1. WalkCall(call'[d])
    BY DEF ListingInv, ListingCalls, CallIs
  <2>2. PICK r : r = call'[d]
    OBVIOUS
  <2>3. WalkCall(r)'
    BY <1>1, <2>1, <2>2, WalkStays
  <2> QED
    BY <2>2, <2>3
<1> QED
  BY <1>1, <1>2 DEF ListingInv, ListingCalls, CallIs

LEMMA ListingLeaves ==
  ASSUME ListingInv, part = "listing", part' = part, NEW c \in Calls, Leave(c),
         UNCHANGED listingVars
  PROVE  ListingInv'
<1>1. CallIs(c, Idle) /\ WalkCall(Idle)
  BY Leaving DEF ListingInv, ListingCalls, WalkCall, Idle
<1> QED
  BY <1>1, ListingQuiet

LEMMA ListingArrival ==
  ASSUME ListingInv, part = "listing", part' = part, NEW c \in Calls,
         NEW limit \in {Limit, WideLimit}, NEW cap \in {None, 1, MaxScan, MaxPages},
         NEW unit \in {"row", "page"}, Asks(c, limit, cap, unit)
  PROVE  ListingInv'
<1> DEFINE arg == [limit |-> limit, cap |-> cap, unit |-> unit]
           new == [op |-> "walk", pc |-> "read", who |-> None, on |-> None, arg |-> arg, row |-> None]
<1>1. CallIs(c, new)
  BY Arriving DEF Asks, ListingInv, ListingCalls
<1>2. WalkCall(new)
  BY DEF WalkCall, Ask
<1> HIDE DEF new
<1> QED
  BY <1>1, <1>2, ListingQuiet DEF Asks

\* A walk goes on, or is told, with a row that is right about it.
LEMMA WalkGoes ==
  ASSUME ListingInv, part = "listing", part' = part, NEW c \in Calls, call[c].op = "walk",
         call[c].pc # "idle", NEW pc, NEW w \in Walk, Goto(c, pc, w), UNCHANGED listingVars,
         \/ pc = "page" /\ WalkKnows(w)
         \/ pc = "told" /\ WalkTold(w)
  PROVE  ListingInv'
<1> DEFINE q == call[c]
           new == [op |-> q.op, pc |-> pc, who |-> q.who, on |-> q.on, arg |-> q.arg, row |-> w]
<1>1. CallIs(c, new)
  BY Going DEF ListingInv, ListingCalls
<1>2. WalkCall(new)
  BY DEF WalkCall, ListingInv, ListingCalls
<1> HIDE DEF new
<1> QED
  BY <1>1, <1>2, ListingQuiet

\* Taking a page, with what the two things about it that matter.
LEMMA WalkTakes ==
  ASSUME ListingInv, part = "listing", part' = part, NEW c \in Calls, At(c, "walk", "page"),
         NEW page \in SUBSET Entries, NEW next \in Nat, NEW more \in BOOLEAN,
         TakePage(c, page, next, more), UNCHANGED listingVars,
         NEW walk, walk = call[c].row,
         more => Passed(walk, next, walk.seen \cup page),
         ~more /\ ~walk.torn => walk.stayed \subseteq walk.seen \cup page
  PROVE  ListingInv'
<1> DEFINE ask == call[c].arg
           spent == IF ask.cap = None THEN 0
                    ELSE walk.spent + (IF ask.unit = "page" THEN 1 ELSE Cardinality(page))
           stops == ~more \/ (ask.cap # None /\ spent >= ask.cap)
           w == [walk EXCEPT !.from = next, !.total = None, !.items = None,
                             !.seen = @ \cup page, !.spent = spent, !.cut = stops /\ more]
<1>1. walk \in Walk /\ walk.stayed \subseteq listed /\ WalkKnows(walk)
  BY DEF ListingInv, ListingCalls, WalkCall, WalkKnows, At
<1>2. spent \in Nat
  BY <1>1, ListFinite DEF Walk
<1>3. stops \in BOOLEAN /\ (~more => stops)
  OBVIOUS
<1> HIDE DEF spent, stops
<1>4. PICK r \in Walk : r = walk
  BY <1>1
<1>5. /\ w \in Walk /\ w.from = next /\ w.total = None /\ w.items = None
      /\ w.seen = walk.seen \cup page /\ w.cut = (stops /\ more)
      /\ w.stayed = walk.stayed /\ w.torn = walk.torn
  BY <1>2, <1>3, <1>4 DEF Walk
<1>6. Goto(c, IF stops THEN "told" ELSE "page", w)
  BY DEF TakePage, spent, stops
<1> HIDE DEF w
<1>7. ~stops => WalkKnows(w)
  BY <1>1, <1>3, <1>5 DEF WalkKnows, Passed
<1>8. stops => WalkTold(w)
  BY <1>5 DEF WalkTold
<1> QED
  BY <1>5, <1>6, <1>7, <1>8, WalkGoes DEF At

\* A walk that goes by rows takes, after its cursor, all rows up to the last it takes.
LEMMA ReadsAfterRow ==
  ASSUME ListingInv, part = "listing", part' = part, NEW c \in Calls, ReadAfterRow(c)
  PROVE  ListingInv'
<1>1. PICK walk \in Walk : walk = call[c].row
  BY DEF ReadAfterRow, At, ListingInv, ListingCalls, WalkCall
<1> DEFINE start == IF walk.from \in listed THEN walk.from ELSE 0
           rest == {e \in listed : e > start}
           limit == call[c].arg.limit
           page == Slice(rest, 0, limit)
<1>2. /\ At(c, "walk", "page") /\ paging = "row" /\ UNCHANGED listingVars
      /\ \/ rest = {} /\ TakePage(c, {}, 0, FALSE)
         \/ \E last \in page :
              (\A e \in page : e <= last) /\ TakePage(c, page, last, page # rest)
  BY <1>1 DEF ReadAfterRow
<1>3. /\ listed \in SUBSET Entries /\ rest \in SUBSET Entries
      /\ WalkKnows(walk) /\ call[c].arg \in Ask
  BY <1>1, <1>2 DEF At, ListingInv, ListingRows, ListingCalls, WalkCall
<1>4. limit \in Nat \ {0}
  BY <1>3, LimitsClamped
<1>5. page \in SUBSET rest /\ page \in SUBSET Entries
  BY <1>3, <1>4, SliceFits
<1>6. \A e \in listed : e \in Nat /\ e > 0
  BY <1>3, ListFinite
<1>7. \A e \in walk.stayed : e \in listed /\ (e \notin rest => e \in walk.seen)
  BY <1>1, <1>2, <1>3, <1>6 DEF WalkKnows, Passed, Walk
<1>8. CASE rest = {} /\ TakePage(c, {}, 0, FALSE)
  BY <1>1, <1>2, <1>7, <1>8, WalkTakes
<1>9. ASSUME NEW last \in page, \A e \in page : e <= last, TakePage(c, page, last, page # rest)
      PROVE  ListingInv'
  <2>1. ASSUME NEW e \in rest, e <= last PROVE e \in page
    <3>1. e \in Nat /\ last \in Nat /\ last \in rest
      BY <1>5, <1>6
    <3>2. Before(rest, e) <= Before(rest, last)
      <4>1. e < last => Before(rest, e) < Before(rest, last)
        BY <1>3, <3>1, BeforeIsRank
      <4>2. e = last \/ e < last
        BY <2>1, <3>1
      <4> QED
        BY <1>3, <4>1, <4>2, BeforeIsNat
    <3>3. Before(rest, last) \in 0..(0 + limit - 1)
      BY DEF Slice
    <3> QED
      BY <1>3, <1>4, <3>2, <3>3, BeforeIsNat DEF Slice
  <2>2. last \in Nat
    BY <1>5, <1>6
  <2>3. Passed(walk, last, walk.seen \cup page)
    BY <1>2, <1>7, <2>1 DEF Passed
  <2>4. page = rest => walk.stayed \subseteq walk.seen \cup page
    BY <1>7
  <2> HIDE DEF page, rest
  <2> QED
    BY <1>1, <1>2, <1>5, <1>9, <2>2, <2>3, <2>4, WalkTakes
<1> QED
  BY <1>2, <1>8, <1>9

\* The rows before an offset, and those of the page at it, are the rows before the next.
LEMMA OffsetPasses ==
  ASSUME ListingRows, NEW walk \in Walk, WalkKnows(walk), paging # "row", NEW n \in Nat \ {0}
  PROVE  /\ ~walk.torn =>
              \A e \in walk.stayed : Before(listed, e) < walk.from + n =>
                                       e \in walk.seen \cup Slice(listed, walk.from, n)
         /\ \A e \in walk.stayed : Before(listed, e) < Cardinality(listed)
<1>1. listed \in SUBSET Entries /\ walk.from \in Nat /\ walk.stayed \subseteq listed
  BY DEF ListingRows, WalkKnows, Walk
<1>2. ASSUME NEW e \in walk.stayed, ~walk.torn, Before(listed, e) < walk.from + n
      PROVE  e \in walk.seen \cup Slice(listed, walk.from, n)
  <2>1. Before(listed, e) \in Nat /\ e \in listed
    BY <1>1, BeforeIsNat
  <2>2. CASE Before(listed, e) < walk.from
    BY <1>2, <2>2 DEF WalkKnows, Passed
  <2>3. CASE ~(Before(listed, e) < walk.from)
    BY <1>1, <1>2, <2>1, <2>3 DEF Slice
  <2> QED
    BY <2>2, <2>3
<1>3. ASSUME NEW e \in walk.stayed PROVE Before(listed, e) < Cardinality(listed)
  BY <1>1, BeforeIsRank
<1> QED
  BY <1>2, <1>3

LEMMA ReadsSlice ==
  ASSUME ListingInv, part = "listing", part' = part, NEW c \in Calls, ReadSlice(c)
  PROVE  ListingInv'
<1>1. PICK walk \in Walk : walk = call[c].row
  BY DEF ReadSlice, At, ListingInv, ListingCalls, WalkCall
<1> DEFINE n == Clamped(call[c].arg.limit)
           next == walk.from + n
           page == Slice(listed, walk.from, n)
<1>2. /\ At(c, "walk", "page") /\ paging = "offset" /\ UNCHANGED listingVars
      /\ TakePage(c, page, next, next < Cardinality(listed))
  BY <1>1 DEF ReadSlice
<1>3. listed \in SUBSET Entries /\ ListingRows /\ WalkKnows(walk) /\ call[c].arg \in Ask
  BY <1>1, <1>2 DEF At, ListingInv, ListingRows, ListingCalls, WalkCall
<1>4. n \in Nat \ {0} /\ walk.from \in Nat
  BY <1>3, LimitsClamped DEF Walk
<1> HIDE DEF n
<1>5. next \in Nat /\ page \in SUBSET Entries
  BY <1>3, <1>4, SliceFits
<1>6. /\ ~walk.torn => \A e \in walk.stayed : Before(listed, e) < next =>
                                                e \in walk.seen \cup page
      /\ \A e \in walk.stayed : Before(listed, e) < Cardinality(listed)
  BY <1>2, <1>3, <1>4, OffsetPasses
<1>7. Passed(walk, next, walk.seen \cup page)
  BY <1>2, <1>6 DEF Passed
<1>8. ~(next < Cardinality(listed)) /\ ~walk.torn => walk.stayed \subseteq walk.seen \cup page
  <2>1. \A e \in walk.stayed : Before(listed, e) \in Nat /\ Cardinality(listed) \in Nat
    BY <1>3, BeforeIsNat, ListFinite
  <2> QED
    BY <1>5, <1>6, <2>1
<1>9. (next < Cardinality(listed)) \in BOOLEAN
  OBVIOUS
<1> HIDE DEF next, page
<1> QED
  BY <1>1, <1>2, <1>5, <1>7, <1>8, <1>9, WalkTakes

\* The count is of the list as it is, or the list has moved since.
LEMMA TakesCounted ==
  ASSUME ListingInv, part = "listing", part' = part, NEW c \in Calls, At(c, "walk", "page"),
         paging = "counted", UNCHANGED listingVars,
         NEW walk \in Walk, walk = call[c].row,
         NEW page \in SUBSET Entries, NEW total \in Nat, TakeCounted(c, page, total),
         ~walk.torn => /\ total = Cardinality(listed)
                       /\ \A e \in walk.stayed :
                            Before(listed, e) < walk.from + Cardinality(page) =>
                              e \in walk.seen \cup page
  PROVE  ListingInv'
<1> DEFINE next == walk.from + Cardinality(page)
<1>1. next \in Nat
  BY ListFinite DEF Walk
<1>2. TakePage(c, page, next, next < total)
  BY DEF TakeCounted
<1>3. listed \in SUBSET Entries /\ walk.stayed \subseteq listed
  BY DEF At, ListingInv, ListingRows, ListingCalls, WalkCall, WalkKnows
<1>4. Passed(walk, next, walk.seen \cup page)
  BY DEF Passed
<1>5. ~(next < total) /\ ~walk.torn => walk.stayed \subseteq walk.seen \cup page
  <2>1. \A e \in walk.stayed : Before(listed, e) \in Nat /\ Before(listed, e) < Cardinality(listed)
    BY <1>3, BeforeIsNat, BeforeIsRank
  <2> QED
    BY <1>1, <2>1
<1>6. (next < total) \in BOOLEAN
  OBVIOUS
<1> HIDE DEF next
<1> QED
  BY <1>1, <1>2, <1>4, <1>5, <1>6, WalkTakes

\* The two reads of a page, whichever comes first.
LEMMA ReadsCounted ==
  ASSUME ListingInv, part = "listing", part' = part, NEW c \in Calls, CountRows(c) \/ FetchRows(c)
  PROVE  ListingInv'
<1>1. PICK walk \in Walk : walk = call[c].row
  BY DEF CountRows, FetchRows, At, ListingInv, ListingCalls, WalkCall
<1> DEFINE n == Clamped(call[c].arg.limit)
           page == Slice(listed, walk.from, n)
<1>2. At(c, "walk", "page") /\ paging = "counted" /\ UNCHANGED listingVars
  BY DEF CountRows, FetchRows
<1>3. listed \in SUBSET Entries /\ ListingRows /\ WalkKnows(walk) /\ call[c].arg \in Ask
  BY <1>1, <1>2 DEF At, ListingInv, ListingRows, ListingCalls, WalkCall
<1>4. n \in Nat \ {0} /\ walk.from \in Nat /\ Cardinality(listed) \in Nat
  BY <1>3, LimitsClamped, ListFinite DEF Walk
<1> HIDE DEF n
<1>5. page \in SUBSET Entries /\ Cardinality(page) \in 0..n
  BY <1>3, <1>4, SliceFits
<1>6. ~walk.torn => \A e \in walk.stayed : Before(listed, e) < walk.from + Cardinality(page) =>
                                             e \in walk.seen \cup page
  <2>1. ~walk.torn => \A e \in walk.stayed : Before(listed, e) < walk.from + n =>
                                               e \in walk.seen \cup page
    BY <1>2, <1>3, <1>4, OffsetPasses
  <2>2. \A e \in walk.stayed : Before(listed, e) \in Nat
    BY <1>3, BeforeIsNat
  <2> QED
    BY <1>4, <1>5, <2>1, <2>2
<1>7. ASSUME NEW w \in Walk, Goto(c, "page", w), WalkKnows(w) PROVE ListingInv'
  BY <1>2, <1>7, WalkGoes DEF At
<1>8. CASE CountRows(c) /\ walk.items = None
  <2> DEFINE w == [walk EXCEPT !.total = Cardinality(listed)]
  <2>1. Goto(c, "page", w)
    BY <1>1, <1>8 DEF CountRows
  <2>2. /\ w \in Walk /\ w.from = walk.from /\ w.items = None /\ w.total = Cardinality(listed)
        /\ w.seen = walk.seen /\ w.stayed = walk.stayed /\ w.torn = walk.torn
    BY <1>4, <1>8 DEF Walk
  <2> HIDE DEF w
  <2>3. WalkKnows(w)
    BY <1>3, <2>2 DEF WalkKnows, Passed
  <2> QED
    BY <1>7, <2>1, <2>2, <2>3
<1>9. CASE CountRows(c) /\ walk.items # None
  <2>1. TakeCounted(c, walk.items, Cardinality(listed))
    BY <1>1, <1>9 DEF CountRows
  <2>2. walk.items \in SUBSET Entries
    BY <1>9 DEF Walk
  <2>3. ~walk.torn => \A e \in walk.stayed :
                        Before(listed, e) < walk.from + Cardinality(walk.items) =>
                          e \in walk.seen \cup walk.items
    BY <1>2, <1>3, <1>9 DEF WalkKnows
  <2> QED
    BY <1>1, <1>2, <1>4, <2>1, <2>2, <2>3, TakesCounted
<1>10. CASE FetchRows(c) /\ walk.total = None
  <2> DEFINE w == [walk EXCEPT !.items = page]
  <2> HIDE DEF page
  <2>1. Goto(c, "page", w)
    BY <1>1, <1>10 DEF FetchRows, n, page
  <2>2. /\ w \in Walk /\ w.from = walk.from /\ w.items = page /\ w.total = None
        /\ w.seen = walk.seen /\ w.stayed = walk.stayed /\ w.torn = walk.torn
    BY <1>5, <1>10 DEF Walk
  <2> HIDE DEF w
  <2>3. WalkKnows(w)
    BY <1>2, <1>3, <1>6, <2>2 DEF WalkKnows, Passed
  <2> QED
    BY <1>7, <2>1, <2>2, <2>3
<1>11. CASE FetchRows(c) /\ walk.total # None
  <2>1. TakeCounted(c, page, walk.total) /\ walk.items = None
    BY <1>1, <1>11 DEF FetchRows, n
  <2>2. walk.total \in Nat
    BY <1>11 DEF Walk
  <2>3. ~walk.torn => walk.total = Cardinality(listed)
    BY <1>2, <1>3, <1>11, <2>1 DEF WalkKnows
  <2> HIDE DEF page
  <2> QED
    BY <1>1, <1>2, <1>5, <1>6, <2>1, <2>2, <2>3, TakesCounted
<1> QED
  BY <1>8, <1>9, <1>10, <1>11

LEMMA ListingWorks ==
  ASSUME ListingInv, part = "listing", part' = part, NEW c \in Calls, ListingStep(c)
  PROVE  ListingInv'
<1>1. CASE \/ Desks(c) \/ GetSoldCount(c) \/ FollowersOf(c) \/ BuildOfflineManifest(c) \/ GetFeed(c)
           \/ ScanAll(c) \/ ListGuests(c) \/ GetAttendanceReport(c) \/ ListDoorEvents(c)
  <2>1. \E limit \in {Limit, WideLimit}, cap \in {None, 1, MaxScan, MaxPages},
           unit \in {"row", "page"} : Asks(c, limit, cap, unit)
    BY <1>1 DEF Desks, Screen, Export, ReadDirectory, ExportDirectory, ExportUsers, OrderDesk,
       TicketDesk, PromotionDesk, PromoterDesk, SupportDesk, ReadWallet, ListEvents, PartnerEvents,
       ListOrganizations, SlotRequestDesk, FinanceDesk, ListPayouts, ListDisputes, ListWallets,
       GetSoldCount, FollowersOf,
       BuildOfflineManifest, GetFeed, ScanAll, ListGuests, GetAttendanceReport, ListDoorEvents
  <2> QED
    BY <2>1, ListingArrival
<1>2. CASE Open(c)
  <2> DEFINE w == [from |-> 0, total |-> None, items |-> None, seen |-> {}, spent |-> 0,
                   cut |-> FALSE, stayed |-> listed, torn |-> FALSE]
  <2>1. Goto(c, "page", w) /\ At(c, "walk", "read") /\ UNCHANGED listingVars
    BY <1>2 DEF Open
  <2>2. listed \in SUBSET Entries
    BY DEF ListingInv, ListingRows
  <2>3. w \in Walk
    BY <2>2 DEF Walk
  <2>4. \A e \in listed : e \in Nat /\ e > 0 /\ Before(listed, e) \in Nat
    BY <2>2, ListFinite, BeforeIsNat
  <2>5. WalkKnows(w)
    BY <2>4 DEF WalkKnows, Passed
  <2> HIDE DEF w
  <2> QED
    BY <2>1, <2>3, <2>5, WalkGoes DEF At
<1>3. CASE Tell(c)
  BY <1>3, ListingLeaves DEF Tell
<1> QED
  BY <1>1, <1>2, <1>3, ReadsAfterRow, ReadsSlice, ReadsCounted DEF ListingStep

\* What becomes of a walk when the list moves under it.
Shifted(v, w, hides, gone) ==
  /\ w \in Walk /\ w.torn = (v.torn \/ hides) /\ w.stayed = v.stayed \ gone
  /\ w.from = v.from /\ w.total = v.total /\ w.items = v.items /\ w.seen = v.seen
  /\ w.cut = v.cut

LEMMA CallsMove ==
  ASSUME ListingInv, part = "listing", NEW hiding, NEW gone, ListMoves(hiding, gone)
  PROVE  /\ CallsShaped'
         /\ \A c \in Calls :
              /\ call'[c].op = call[c].op /\ call'[c].pc = call[c].pc
              /\ call'[c].arg = call[c].arg
              /\ Walking(c) => Shifted(call[c].row, call'[c].row, c \in hiding, gone)
<1>1. CallsShaped /\ call' = [c \in Calls |->
         IF Walking(c) THEN [call[c] EXCEPT !.row.torn = @ \/ c \in hiding,
                                            !.row.stayed = @ \ gone] ELSE call[c]]
  BY DEF ListMoves, ListingInv, ListingCalls
<1>2. ASSUME NEW c \in Calls
      PROVE  /\ Shaped(call'[c])
             /\ call'[c].op = call[c].op /\ call'[c].pc = call[c].pc
             /\ call'[c].arg = call[c].arg
             /\ Walking(c) => Shifted(call[c].row, call'[c].row, c \in hiding, gone)
             /\ call'[c].pc = "idle" => call'[c] = call[c]
  <2>1. CASE ~Walking(c)
    BY <1>1, <2>1 DEF CallsShaped
  <2>2. CASE Walking(c)
    <3>1. PICK v \in Walk : v = call[c].row
      BY <2>2 DEF Walking, ListingInv, ListingCalls, WalkCall
    <3> DEFINE w == [v EXCEPT !.torn = @ \/ c \in hiding, !.stayed = @ \ gone]
    <3>2. Shifted(v, w, c \in hiding, gone)
      BY DEF Shifted, Walk
    <3>3. PICK q \in [op : {call[c].op}, pc : {call[c].pc}, who : {call[c].who}, on : {call[c].on},
                      arg : {call[c].arg}, row : Walk] : q = call[c]
      BY <1>1, <3>1 DEF CallsShaped, Shaped
    <3>4. call'[c] = [q EXCEPT !.row.torn = @ \/ c \in hiding, !.row.stayed = @ \ gone]
      BY <1>1, <2>2, <3>3
    <3>5. call'[c] = [op |-> q.op, pc |-> q.pc, who |-> q.who, on |-> q.on, arg |-> q.arg, row |-> w]
      BY <3>1, <3>3, <3>4 DEF Walk
    <3> HIDE DEF w
    <3> QED
      BY <2>2, <3>1, <3>2, <3>3, <3>5 DEF Shaped, Walking
  <2> QED
    BY <2>1, <2>2
<1>3. call' = [c \in Calls |-> call'[c]]
  BY <1>1
<1>4. \A c \in Calls : Free(c) => call[c] = Idle
  BY <1>1 DEF CallsShaped
<1>5. ASSUME NEW c \in Calls PROVE Shaped(call'[c]) /\ (Free(c)' => call'[c] = Idle)
  BY <1>2, <1>4 DEF Free
<1> QED
  BY <1>2, <1>3, <1>5 DEF CallsShaped

LEMMA WalksMove ==
  ASSUME ListingInv, part = "listing", part' = part, NEW hiding, NEW gone, ListMoves(hiding, gone),
         listed' \subseteq Entries,
         \A c \in Calls : \A v, w \in Walk :
           Walking(c) /\ v = call[c].row /\ Shifted(v, w, c \in hiding, gone) /\ WalkKnows(v) =>
             WalkKnows(w)'
  PROVE  ListingInv'
<1>1. paging' = paging /\ ListingRows'
  BY DEF ListMoves, ListingInv, ListingRows
<1>2. ASSUME NEW c \in Calls PROVE WalkCall(call[c])'
  <2>1. WalkCall(call[c])
    BY DEF ListingInv, ListingCalls
  <2>2. /\ call'[c].op = call[c].op /\ call'[c].pc = call[c].pc /\ call'[c].arg = call[c].arg
        /\ Walking(c) => Shifted(call[c].row, call'[c].row, c \in hiding, gone)
    BY CallsMove
  <2>3. CASE ~Walking(c)
    BY <2>1, <2>2, <2>3 DEF WalkCall, Walking
  <2>4. CASE Walking(c)
    <3>1. PICK v \in Walk : v = call[c].row
      BY <2>1, <2>4 DEF Walking, WalkCall
    <3>2. PICK w \in Walk : w = call'[c].row
      BY <2>2, <2>4 DEF Shifted
    <3>3. Shifted(v, w, c \in hiding, gone)
      BY <2>2, <2>4, <3>1, <3>2
    <3>4. call[c].pc = "page" => WalkKnows(w)'
      BY <2>1, <2>4, <3>1, <3>3 DEF WalkCall, Walking
    <3>5. call[c].pc = "told" => WalkTold(w)'
      BY <2>1, <2>4, <3>1, <3>3 DEF WalkCall, Walking, WalkTold, Shifted
    <3> QED
      BY <2>1, <2>2, <2>4, <3>2, <3>4, <3>5 DEF WalkCall, Walking
  <2> QED
    BY <2>3, <2>4
<1> QED
  BY <1>1, <1>2, CallsMove DEF ListingInv, ListingCalls

\* A row that enters puts no row nearer to an offset, and the count that it falsifies is
\* that of a walk that says so.
LEMMA RowsEnter ==
  ASSUME ListingInv, part = "listing", part' = part, NEW e \in Entries, RowEnters(e)
  PROVE  ListingInv'
<1> DEFINE hiding == {c \in Calls : AwaitsPage(c)}
<1>1. /\ listed \in SUBSET Entries /\ listed' \in SUBSET Entries /\ listed \in SUBSET listed'
      /\ paging' = paging /\ ListMoves(hiding, {})
  BY DEF RowEnters, ListMoves, ListingInv, ListingRows
<1>2. ASSUME NEW d PROVE /\ Before(listed, d) \in Nat /\ Before(listed', d) \in Nat
                         /\ Before(listed, d) <= Before(listed', d)
  BY <1>1, BeforeIsNat, BeforeGrows
<1>3. ASSUME NEW c \in Calls, NEW v \in Walk, NEW w \in Walk, Walking(c), v = call[c].row,
             Shifted(v, w, c \in hiding, {}), WalkKnows(v)
      PROVE  WalkKnows(w)'
  <2>1. /\ w.stayed = v.stayed /\ w.from = v.from /\ w.total = v.total /\ w.items = v.items
        /\ w.seen = v.seen /\ (~w.torn => ~v.torn)
        /\ ~w.torn /\ paging = "counted" => ~(w.total # None /\ w.items = None)
    BY <1>3 DEF Shifted, AwaitsPage
  <2>2. w.from \in Nat /\ (w.items # None => Cardinality(w.items) \in Nat)
    BY ListFinite DEF Walk
  <2>3. (w.stayed \subseteq listed)'
    BY <1>1, <1>3, <2>1 DEF WalkKnows
  <2>4. Passed(w, w.from, w.seen)'
    BY <1>1, <1>2, <1>3, <2>1, <2>2 DEF WalkKnows, Passed
  <2>5. (paging = "counted" /\ ~w.torn /\ w.items # None =>
           \A d \in w.stayed : Before(listed, d) < w.from + Cardinality(w.items) =>
                                 d \in w.seen \cup w.items)'
    BY <1>1, <1>2, <1>3, <2>1, <2>2 DEF WalkKnows
  <2> QED
    BY <1>1, <2>1, <2>3, <2>4, <2>5 DEF WalkKnows
<1> HIDE DEF hiding
<1> QED
  BY <1>1, <1>3, WalksMove

\* A walk by offsets is told of a row that leaves once it has begun; one by rows has the
\* others still.
LEMMA RowsLeave ==
  ASSUME ListingInv, part = "listing", part' = part, NEW e \in Entries, RowLeaves(e)
  PROVE  ListingInv'
<1> DEFINE hiding == {c \in Calls : HasBegun(c)}
           gone == {e}
<1>1. /\ listed' \in SUBSET Entries /\ listed' = listed \ {e}
      /\ paging' = paging /\ ListMoves(hiding, gone)
  BY DEF RowLeaves, ListMoves, ListingInv, ListingRows
<1>2. ASSUME NEW c \in Calls, NEW v \in Walk, NEW w \in Walk, Walking(c), v = call[c].row,
             Shifted(v, w, c \in hiding, gone), WalkKnows(v)
      PROVE  WalkKnows(w)'
  <2>1. /\ w.stayed = v.stayed \ gone /\ w.from = v.from /\ w.total = v.total /\ w.items = v.items
        /\ w.seen = v.seen
        /\ ~w.torn /\ paging # "row" => ~(w.from > 0) /\ w.total = None /\ w.items = None
    BY <1>2 DEF Shifted, HasBegun
  <2>2. w.from \in Nat /\ \A d : Before(listed', d) \in Nat
    BY <1>1, BeforeIsNat DEF Walk
  <2>3. (w.stayed \subseteq listed)'
    BY <1>1, <1>2, <2>1 DEF WalkKnows
  <2>4. Passed(w, w.from, w.seen)'
    <3>1. CASE paging = "row"
      BY <1>1, <1>2, <2>1, <3>1 DEF WalkKnows, Passed
    <3>2. CASE paging # "row"
      <4>1. ~w.torn => w.from = 0
        BY <2>1, <2>2, <3>2
      <4>2. ~w.torn => \A d \in w.stayed : Before(listed', d) < w.from => d \in w.seen
        BY <2>2, <4>1
      <4>3. paging' # "row"
        BY <1>1, <3>2
      <4> QED
        BY <4>2, <4>3 DEF Passed
    <3> QED
      BY <3>1, <3>2
  <2> QED
    BY <1>1, <2>1, <2>3, <2>4 DEF WalkKnows
<1> HIDE DEF hiding, gone
<1> QED
  <2>1. listed' \subseteq Entries /\ ListMoves(hiding, gone)
    BY <1>1
  <2> QED
    BY <1>2, <2>1, WalksMove

LEMMA ListingNext == ListingInv /\ [Next]_programmeVars => ListingInv'
<1> SUFFICES ASSUME ListingInv, [Next]_programmeVars PROVE ListingInv'
  OBVIOUS
<1>0. part' = part
  BY Happens
<1>1. CASE UNCHANGED <<call, rows>>
  <2>1. /\ call' = call /\ listed' = listed /\ paging' = paging
    BY <1>1 DEF rows, listingVars
  <2>2. ASSUME part = "listing", NEW c \in Calls PROVE WalkCall(call[c])'
    <3>1. PICK q : q = call[c]
      OBVIOUS
    <3>2. WalkCall(q)'
      BY <2>1, <2>2, <3>1, WalkStays DEF ListingInv, ListingCalls
    <3> QED
      BY <2>1, <3>1, <3>2
  <2> QED
    BY <1>0, <2>1, <2>2 DEF ListingInv, ListingRows, ListingCalls, CallsShaped, Free
<1>2. CASE part # "listing"
  <2>1. UNCHANGED listingVars
    BY <1>2, Happens DEF OthersKept, rows
  <2> QED
    BY <1>0, <1>2, <2>1 DEF listingVars, ListingInv, ListingRows, ListingCalls
<1>3. ASSUME part = "listing", NEW c \in Calls, Leave(c), UNCHANGED rows PROVE ListingInv'
  BY <1>0, <1>3, ListingLeaves DEF rows
<1>4. ASSUME part = "listing", NEW c \in Calls, Work(c) PROVE ListingInv'
  BY <1>0, <1>4, ListingWorks DEF Work
<1>5. ASSUME part = "listing", World PROVE ListingInv'
  BY <1>0, <1>5, RowsEnter, RowsLeave DEF World, ListingWorld
<1> QED
  BY <1>1, <1>2, <1>3, <1>4, <1>5, Happens

\* A walk over pages that was not cut short misses no row that was there all along, for any
\* list, page and cap: whatever enters or leaves where a row is the cursor; where an offset
\* is, as long as no row leaves once it has begun, nor one enters between a page's count and
\* its fetch.
THEOREM WholeWalks == Spec => [](part = "listing" => WalksAreWhole)
<1>1. ListingInv => (part = "listing" => WalksAreWhole)
  BY DEF ListingInv, ListingCalls, WalkCall, WalkTold, WalksAreWhole, At
<1> QED
  BY <1>1, ListingInit0, ListingNext, PTL DEF Spec
=============================================================================
