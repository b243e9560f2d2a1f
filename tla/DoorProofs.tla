----------------------------- MODULE DoorProofs -----------------------------
(***************************************************************************)
(* Proofs about the door: the cover wallet and the sales that debit it,    *)
(* scanner shifts and devices, and admissions, for any number of requests, *)
(* keys, devices, sessions, tickets and amounts.                           *)
(*                                                                         *)
(* A behaviour exercises one part.  Each part has an inductive invariant   *)
(* of its rows and of what its requests in flight know; the steps of the   *)
(* other parts leave both alone.                                           *)
(***************************************************************************)
EXTENDS MCDoor, FiniteSetTheorems, SequenceTheorems, WellFoundedInduction, TLAPS

---------------------------------------------------------------------------
(* Sums over finite sets.                                                  *)

\* Induction over the subsets of a finite set: a set of them that every set belongs
\* to whose proper subsets do.
LEMMA SubsetsAllIn ==
  ASSUME NEW S, IsFiniteSet(S), NEW good,
         \A T \in SUBSET S : (\A R \in SUBSET T : R # T => R \in good) => T \in good
  PROVE  \A T \in SUBSET S : T \in good
<1> DEFINE bad == (SUBSET S) \ good
<1>1. IsWellFoundedOn(StrictSubsetOrdering(S), SUBSET S)
  BY FS_StrictSubsetOrderingWellFounded, FS_FiniteSubsetsOfFinite
<1>2. SUFFICES ASSUME bad # {} PROVE FALSE
  OBVIOUS
<1>3. PICK T \in bad : \A R \in bad : ~(<<R, T>> \in StrictSubsetOrdering(S))
  <2>1. bad \subseteq SUBSET S
    OBVIOUS
  <2> HIDE DEF bad
  <2> QED
    BY <1>1, <1>2, <2>1, WFMin
<1>4. \A R \in SUBSET T : R # T => R \in good
  BY <1>3 DEF StrictSubsetOrdering
<1>5. T \in SUBSET S /\ T \notin good
  BY <1>3
<1> QED
  BY <1>4, <1>5

Pick(s) == CHOOSE x \in s : TRUE

\* g maps the subsets of S to the sums of w over them.
Sums(g, w, S) ==
  g = [s \in SUBSET S |-> IF s = {} THEN 0 ELSE w[Pick(s)] + g[s \ {Pick(s)}]]

Sum(w, S) == (CHOOSE g : Sums(g, w, S))[S]

LEMMA SumsAgree ==
  ASSUME NEW S, IsFiniteSet(S), NEW T \in SUBSET S, NEW w, NEW v, NEW g, NEW h,
         Sums(g, w, S), Sums(h, v, T), \A x \in T : w[x] = v[x]
  PROVE  \A s \in SUBSET T : g[s] = h[s]
<1> DEFINE good == {s \in SUBSET T : g[s] = h[s]}
<1>1. ASSUME NEW s \in SUBSET T, \A r \in SUBSET s : r # s => r \in good PROVE g[s] = h[s]
  <2>1. s \in SUBSET S
    OBVIOUS
  <2>2. CASE s = {}
    BY <2>1, <2>2 DEF Sums
  <2>3. CASE s # {}
    <3>1. Pick(s) \in s
      BY <2>3 DEF Pick
    <3>2. g[s \ {Pick(s)}] = h[s \ {Pick(s)}]
      BY <1>1, <3>1
    <3>3. g[s] = w[Pick(s)] + g[s \ {Pick(s)}]
      BY <2>1, <2>3 DEF Sums
    <3>4. h[s] = v[Pick(s)] + h[s \ {Pick(s)}]
      BY <2>3 DEF Sums
    <3> QED
      BY <3>1, <3>2, <3>3, <3>4
  <2> QED
    BY <2>2, <2>3
<1>2. IsFiniteSet(T)
  <2> HIDE DEF good
  <2> QED
    BY FS_Subset
<1>3. \A s \in SUBSET T : s \in good
  <2>1. \A s \in SUBSET T : (\A r \in SUBSET s : r # s => r \in good) => s \in good
    BY <1>1
  <2> HIDE DEF good
  <2> QED
    BY <1>2, <2>1, SubsetsAllIn
<1> QED
  BY <1>3

LEMMA SumsExist ==
  ASSUME NEW S, IsFiniteSet(S), NEW w
  PROVE  \E g : Sums(g, w, S)
<1> DEFINE good == {T \in SUBSET S : \E g : Sums(g, w, T)}
           on(T) == CHOOSE g : Sums(g, w, T)
<1>1. ASSUME NEW T \in SUBSET S, \A R \in SUBSET T : R # T => R \in good
      PROVE  \E g : Sums(g, w, T)
  <2> DEFINE all == [s \in SUBSET T |->
                       IF s = T THEN (IF T = {} THEN 0 ELSE w[Pick(T)] + on(T \ {Pick(T)})[T \ {Pick(T)}])
                       ELSE on(s)[s]]
  <2>1. \A R \in SUBSET T : R # T => Sums(on(R), w, R)
    BY <1>1
  <2> HIDE DEF on
  <2>2. ASSUME NEW s \in SUBSET T
        PROVE  all[s] = IF s = {} THEN 0 ELSE w[Pick(s)] + all[s \ {Pick(s)}]
    <3>1. CASE s = {}
      <4>1. T # {} => on({})[{}] = 0
        BY <2>1 DEF Sums
      <4> QED
        BY <3>1, <4>1
    <3>2. CASE s # {} /\ s = T
      <4>1. Pick(s) \in s
        BY <3>2 DEF Pick
      <4> QED
        BY <3>2, <4>1
    <3>3. CASE s # {} /\ s # T
      <4>1. Pick(s) \in s
        BY <3>3 DEF Pick
      <4> DEFINE r == s \ {Pick(s)}
      <4>2. r \in SUBSET s /\ r \in SUBSET T /\ r # T /\ IsFiniteSet(s)
        BY <3>3, <4>1, FS_Subset
      <4>3. Sums(on(s), w, s) /\ Sums(on(r), w, r)
        BY <2>1, <3>3, <4>2
      <4>4. on(s)[r] = on(r)[r]
        <5>1. r \in SUBSET r
          OBVIOUS
        <5> HIDE DEF r
        <5> QED
          BY <4>2, <4>3, <5>1, SumsAgree
      <4>5. on(s)[s] = w[Pick(s)] + on(s)[r]
        BY <3>3, <4>3 DEF Sums
      <4> QED
        BY <3>3, <4>2, <4>4, <4>5
    <3> QED
      BY <3>1, <3>2, <3>3
  <2>3. all = [s \in SUBSET T |-> all[s]]
    OBVIOUS
  <2> HIDE DEF all
  <2>4. Sums(all, w, T)
    BY <2>2, <2>3 DEF Sums
  <2> QED
    BY <2>4
<1>2. \A T \in SUBSET S : T \in good
  <2>1. \A T \in SUBSET S : (\A R \in SUBSET T : R # T => R \in good) => T \in good
    BY <1>1
  <2> HIDE DEF good
  <2> QED
    BY <2>1, SubsetsAllIn
<1> QED
  BY <1>2

\* What maps the subsets of S to their sums maps S to its own.
LEMMA SumOf ==
  ASSUME NEW S, IsFiniteSet(S), NEW w, NEW g, Sums(g, w, S)
  PROVE  g[S] = Sum(w, S)
<1> DEFINE h == CHOOSE h : Sums(h, w, S)
<1>1. Sums(h, w, S)
  OBVIOUS
<1> HIDE DEF h
<1>2. g[S] = h[S]
  BY <1>1, SumsAgree
<1> QED
  BY <1>2 DEF Sum, h

\* A sum takes one of the set's members, and the sum of the others.
LEMMA SumTakes ==
  ASSUME NEW S, IsFiniteSet(S), NEW w
  PROVE  /\ Sum(w, {}) = 0
         /\ S # {} => Pick(S) \in S /\ Sum(w, S) = w[Pick(S)] + Sum(w, S \ {Pick(S)})
<1>1. Sum(w, {}) = 0
  BY SumsExist, FS_EmptySet DEF Sum, Sums
<1>2. ASSUME S # {}
      PROVE  Pick(S) \in S /\ Sum(w, S) = w[Pick(S)] + Sum(w, S \ {Pick(S)})
  <2> DEFINE r == S \ {Pick(S)}
             g == CHOOSE g : Sums(g, w, S)
             h == CHOOSE h : Sums(h, w, r)
  <2>1. Pick(S) \in S
    BY <1>2 DEF Pick
  <2>2. r \in SUBSET S /\ IsFiniteSet(r)
    BY FS_Subset
  <2>3. Sums(g, w, S) /\ Sums(h, w, r)
    BY <2>2, SumsExist
  <2>4. Sum(w, S) = g[S] /\ Sum(w, r) = h[r]
    BY DEF Sum
  <2>5. g[S] = w[Pick(S)] + g[r]
    <3> HIDE DEF g
    <3> QED
      BY <1>2, <2>3 DEF Sums
  <2>6. g[r] = h[r]
    <3> HIDE DEF g, h, r
    <3> QED
      BY <2>2, <2>3, SumsAgree
  <2> QED
    BY <2>1, <2>4, <2>5, <2>6
<1> QED
  BY <1>1, <1>2

\* Sums agree when their terms do.
LEMMA SumSame ==
  ASSUME NEW S, IsFiniteSet(S), NEW w, NEW v, \A x \in S : w[x] = v[x]
  PROVE  Sum(w, S) = Sum(v, S)
<1>1. PICK g, h : Sums(g, w, S) /\ Sums(h, v, S)
  BY SumsExist
<1>2. \A s \in SUBSET S : g[s] = h[s]
  BY <1>1, SumsAgree
<1>3. g[S] = h[S]
  BY <1>2
<1> QED
  BY <1>1, <1>3, SumOf

\* A sum of integers is one, and any of its terms may be taken out first.
LEMMA SumSplits ==
  ASSUME NEW S, IsFiniteSet(S), NEW w, \A x \in S : w[x] \in Int
  PROVE  /\ Sum(w, S) \in Int
         /\ \A x \in S : Sum(w, S \ {x}) \in Int /\ Sum(w, S) = w[x] + Sum(w, S \ {x})
<1> DEFINE good == {T \in SUBSET S :
                      /\ Sum(w, T) \in Int
                      /\ \A x \in T : Sum(w, T) = w[x] + Sum(w, T \ {x})}
<1>1. ASSUME NEW T \in SUBSET S, \A R \in SUBSET T : R # T => R \in good
      PROVE  T \in good
  <2>0. IsFiniteSet(T)
    <3> HIDE DEF good
    <3> QED
      BY FS_Subset
  <2>1. CASE T = {}
    <3>1. Sum(w, {}) = 0
      BY <2>0, SumTakes
    <3> QED
      BY <2>1, <3>1
  <2>2. CASE T # {}
    <3>1. PICK p \in T : Sum(w, T) = w[p] + Sum(w, T \ {p})
      BY <2>0, <2>2, SumTakes
    <3>2. T \ {p} \in good
      BY <1>1
    <3>3. ASSUME NEW x \in T, x # p PROVE Sum(w, T) = w[x] + Sum(w, T \ {x})
      <4>1. T \ {x} \in good
        BY <1>1
      <4>2. Sum(w, T \ {p}) = w[x] + Sum(w, (T \ {p}) \ {x})
        BY <3>2, <3>3
      <4>3. Sum(w, T \ {x}) = w[p] + Sum(w, (T \ {x}) \ {p})
        BY <3>3, <4>1
      <4>4. (T \ {p}) \ {x} = (T \ {x}) \ {p}
        OBVIOUS
      <4>5. (T \ {p}) \ {x} \in good
        <5>1. (T \ {p}) \ {x} \in SUBSET T /\ (T \ {p}) \ {x} # T
          OBVIOUS
        <5> HIDE DEF good
        <5> QED
          BY <1>1, <5>1
      <4>6. PICK rest \in Int : rest = Sum(w, (T \ {p}) \ {x})
        BY <4>5
      <4>7. PICK a \in Int, b \in Int : a = w[p] /\ b = w[x]
        OBVIOUS
      <4>8. Sum(w, T) = a + (b + rest) /\ Sum(w, T \ {x}) = a + rest
        BY <3>1, <4>2, <4>3, <4>4, <4>6, <4>7
      <4> QED
        BY <4>7, <4>8
    <3>4. \A x \in T : Sum(w, T) = w[x] + Sum(w, T \ {x})
      BY <3>1, <3>3
    <3>5. Sum(w, T) \in Int
      BY <3>1, <3>2
    <3> QED
      BY <3>4, <3>5
  <2> QED
    BY <2>1, <2>2
<1>2. \A T \in SUBSET S : T \in good
  <2>1. \A T \in SUBSET S : (\A R \in SUBSET T : R # T => R \in good) => T \in good
    BY <1>1
  <2> HIDE DEF good
  <2> QED
    BY <2>1, SubsetsAllIn
<1>3. ASSUME NEW x \in S PROVE S \ {x} \in good
  BY <1>2
<1> QED
  BY <1>2, <1>3

\* One more term.
LEMMA SumGrows ==
  ASSUME NEW S, IsFiniteSet(S), NEW w, NEW x, x \notin S, w[x] \in Int, \A y \in S : w[y] \in Int
  PROVE  Sum(w, S \cup {x}) = Sum(w, S) + w[x]
<1> DEFINE T == S \cup {x}
<1>1. IsFiniteSet(T)
  BY FS_AddElement
<1>2. \A y \in T : w[y] \in Int
  OBVIOUS
<1>3. T \ {x} = S /\ x \in T
  OBVIOUS
<1> HIDE DEF T
<1>4. Sum(w, T \ {x}) \in Int /\ Sum(w, T) = w[x] + Sum(w, T \ {x})
  BY <1>1, <1>2, <1>3, SumSplits
<1>5. Sum(w, S) \in Int /\ Sum(w, T) = w[x] + Sum(w, S)
  BY <1>3, <1>4
<1> QED
  BY <1>5 DEF T

\* One term changes.
LEMMA SumMoves ==
  ASSUME NEW S, IsFiniteSet(S), NEW w, NEW v, NEW x \in S,
         \A y \in S : w[y] \in Int /\ v[y] \in Int, \A y \in S : y # x => v[y] = w[y]
  PROVE  Sum(v, S) = Sum(w, S) - w[x] + v[x]
<1> DEFINE r == S \ {x}
<1>1. IsFiniteSet(r)
  BY FS_Subset
<1>2. \A y \in r : w[y] = v[y]
  OBVIOUS
<1> HIDE DEF r
<1>3. Sum(w, r) = Sum(v, r)
  BY <1>1, <1>2, SumSame
<1>4. Sum(w, r) \in Int /\ Sum(w, S) = w[x] + Sum(w, r) /\ Sum(v, S) = v[x] + Sum(v, r)
  BY SumSplits DEF r
<1> QED
  BY <1>3, <1>4

\* A sum of sums, and of terms that are no greater.
LEMMA SumsAdd ==
  ASSUME NEW S, IsFiniteSet(S), NEW w, NEW v, NEW u,
         \A x \in S : w[x] \in Int /\ v[x] \in Int /\ u[x] \in Int
  PROVE  /\ (\A x \in S : u[x] = w[x] + v[x]) => Sum(u, S) = Sum(w, S) + Sum(v, S)
         /\ (\A x \in S : w[x] <= v[x]) => Sum(w, S) <= Sum(v, S)
<1> DEFINE good == {T \in SUBSET S :
                     /\ (\A x \in T : u[x] = w[x] + v[x]) => Sum(u, T) = Sum(w, T) + Sum(v, T)
                     /\ (\A x \in T : w[x] <= v[x]) => Sum(w, T) <= Sum(v, T)}
<1>1. ASSUME NEW T \in SUBSET S, \A R \in SUBSET T : R # T => R \in good
      PROVE  T \in good
  <2>0. IsFiniteSet(T)
    <3> HIDE DEF good
    <3> QED
      BY FS_Subset
  <2>1. CASE T = {}
    <3>1. Sum(w, {}) = 0 /\ Sum(v, {}) = 0 /\ Sum(u, {}) = 0
      BY <2>0, SumTakes
    <3> QED
      BY <2>1, <3>1
  <2>2. CASE T # {}
    <3>1. PICK x : x \in T
      BY <2>2
    <3>2. T \ {x} \in good
      BY <1>1, <3>1
    <3>3. /\ Sum(w, T \ {x}) \in Int /\ Sum(w, T) = w[x] + Sum(w, T \ {x})
          /\ Sum(v, T \ {x}) \in Int /\ Sum(v, T) = v[x] + Sum(v, T \ {x})
          /\ Sum(u, T \ {x}) \in Int /\ Sum(u, T) = u[x] + Sum(u, T \ {x})
      <4> HIDE DEF good
      <4> QED
        BY <2>0, <3>1, SumSplits
    <3>4. PICK a \in Int, b \in Int, c \in Int, d \in Int, e \in Int, f \in Int :
            /\ a = w[x] /\ b = v[x] /\ c = u[x]
            /\ d = Sum(w, T \ {x}) /\ e = Sum(v, T \ {x}) /\ f = Sum(u, T \ {x})
      BY <3>1, <3>3
    <3>5. (\A y \in T : u[y] = w[y] + v[y]) => c = a + b /\ f = d + e
      BY <3>1, <3>2, <3>4
    <3>6. (\A y \in T : w[y] <= v[y]) => a <= b /\ d <= e
      BY <3>1, <3>2, <3>4
    <3>7. Sum(w, T) = a + d /\ Sum(v, T) = b + e /\ Sum(u, T) = c + f
      BY <3>3, <3>4
    <3>8. (\A y \in T : u[y] = w[y] + v[y]) => Sum(u, T) = Sum(w, T) + Sum(v, T)
      BY <3>4, <3>5, <3>7
    <3>9. (\A y \in T : w[y] <= v[y]) => Sum(w, T) <= Sum(v, T)
      BY <3>4, <3>6, <3>7
    <3> QED
      BY <3>8, <3>9
  <2> QED
    BY <2>1, <2>2
<1>2. \A T \in SUBSET S : T \in good
  <2>1. \A T \in SUBSET S : (\A R \in SUBSET T : R # T => R \in good) => T \in good
    BY <1>1
  <2> HIDE DEF good
  <2> QED
    BY <2>1, SubsetsAllIn
<1> QED
  BY <1>2


---------------------------------------------------------------------------
(* What the ledger comes to.                                               *)

LEMMA TotalIsSum ==
  ASSUME NEW S, IsFiniteSet(S)
  PROVE  Total(S) = Sum([t \in S |-> t.amount], S)
<1> DEFINE w == [t \in S |-> t.amount]
           folds(g) == g = [s \in SUBSET S |->
                         IF s = {} THEN 0
                         ELSE (CHOOSE x \in s : TRUE).amount + g[s \ {CHOOSE x \in s : TRUE}]]
           fold == CHOOSE g : folds(g)
<1>1. Total(S) = fold[S]
  BY DEF Total, AmountOf, MapThenSumSet, MapThenFoldSet
<1>2. ASSUME NEW s \in SUBSET S, s # {}
      PROVE  w[Pick(s)] = (CHOOSE x \in s : TRUE).amount
  BY <1>2 DEF Pick
<1> HIDE DEF w
<1>3. ASSUME NEW g PROVE Sums(g, w, S) <=> folds(g)
  BY <1>2 DEF Sums, Pick
<1> HIDE DEF folds
<1>4. PICK h : Sums(h, w, S)
  BY SumsExist
<1>5. folds(fold)
  BY <1>3, <1>4
<1> HIDE DEF fold
<1> QED
  BY <1>1, <1>3, <1>5, SumOf DEF w

Amounted(S) == IsFiniteSet(S) /\ \A t \in S : t.amount \in Int

LEMMA TotalTakes ==
  ASSUME NEW S, Amounted(S)
  PROVE  /\ Total({}) = 0 /\ Total(S) \in Int
         /\ \A t : t \notin S /\ t.amount \in Int => Total(S \cup {t}) = Total(S) + t.amount
<1> DEFINE w == [t \in S |-> t.amount]
<1>1. Total({}) = 0
  <2>1. IsFiniteSet({})
    BY FS_EmptySet
  <2>2. Total({}) = Sum([t \in {} |-> t.amount], {})
    BY <2>1, TotalIsSum
  <2> QED
    BY <2>1, <2>2, SumTakes
<1>2. \A t \in S : w[t] \in Int
  BY DEF Amounted
<1>3. Total(S) = Sum(w, S)
  BY TotalIsSum DEF Amounted
<1>4. Total(S) \in Int
  <2> HIDE DEF w
  <2> QED
    BY <1>2, <1>3, SumSplits DEF Amounted
<1>5. ASSUME NEW t, t \notin S, t.amount \in Int
      PROVE  Total(S \cup {t}) = Total(S) + t.amount
  <2> DEFINE T == S \cup {t}
             v == [u \in T |-> u.amount]
  <2>1. IsFiniteSet(S) /\ IsFiniteSet(T)
    BY FS_AddElement DEF Amounted
  <2>2. v[t] = t.amount /\ \A u \in S : v[u] = w[u] /\ v[u] \in Int
    BY DEF Amounted
  <2>3. Total(T) = Sum(v, T)
    BY <2>1, TotalIsSum
  <2> HIDE DEF v, w
  <2>4. Sum(v, T) = Sum(v, S) + t.amount
    <3>1. v[t] \in Int /\ (\A u \in S : v[u] \in Int) /\ IsFiniteSet(S) /\ t \notin S
      BY <1>5, <2>1, <2>2
    <3>2. Sum(v, S \cup {t}) = Sum(v, S) + v[t]
      BY <3>1, SumGrows
    <3> QED
      BY <2>2, <3>2
  <2>5. Sum(v, S) = Sum(w, S)
    BY <2>1, <2>2, SumSame
  <2> QED
    BY <1>3, <2>3, <2>4, <2>5
<1> QED
  BY <1>1, <1>4, <1>5

---------------------------------------------------------------------------
(* The wallet's book.                                                      *)

\* The rows, one to a key, come to what the wallet holds.
BookInv ==
  /\ wallet = [status |-> wallet.status, balance |-> wallet.balance]
  /\ wallet.balance \in Int
  /\ Amounted(ledger)
  /\ \A t, u \in ledger : t.key = u.key => t = u
  /\ \A t \in ledger : t.key = OpeningKey => t = OpeningRow
  /\ Exists => wallet.balance = Opening + Total(ledger \ {OpeningRow})
  /\ ~Exists => ledger = {} /\ report = "none"

\* A row under a key that has none.
LEMMA Committed ==
  ASSUME BookInv, NEW k, k # OpeningKey, RowsOf(k) = {}, NEW type, NEW amount \in Int, NEW scanner,
         Exists, Commit(k, type, amount, scanner), report' = report
  PROVE  /\ BookInv' /\ Exists'
         /\ \E t : /\ t.key = k /\ t.type = type /\ t.amount = amount /\ t \notin ledger
                   /\ ledger' = ledger \cup {t}
<1> DEFINE row == Row(k, type, amount, scanner)
           rest == ledger \ {OpeningRow}
<1>1. /\ row.key = k /\ row.type = type /\ row.amount = amount
      /\ ledger' = ledger \cup {row}
      /\ wallet' = After(type, amount)
  BY DEF Row, Commit
<1>2. row \notin ledger /\ row # OpeningRow
  BY <1>1 DEF RowsOf, OpeningRow
<1> HIDE DEF row
<1>3. wallet'.balance = wallet.balance + amount /\ Exists'
      /\ wallet' = [status |-> wallet'.status, balance |-> wallet'.balance]
  BY <1>1 DEF After, Exists
<1>4. Amounted(ledger) /\ Amounted(ledger)'
  BY <1>1, FS_AddElement DEF BookInv, Amounted
<1>5. Amounted(rest) /\ row \notin rest /\ ledger' \ {OpeningRow} = rest \cup {row}
  BY <1>1, <1>2, <1>4, FS_Subset DEF Amounted
<1>6. Total(rest) \in Int /\ Total(rest \cup {row}) = Total(rest) + amount
  <2> HIDE DEF rest
  <2> QED
    BY <1>1, <1>5, TotalTakes
<1>7. Exists => wallet.balance = Opening + Total(rest)
  BY DEF BookInv
<1>8. wallet'.balance = Opening + Total(ledger' \ {OpeningRow})
  <2>1. Opening \in Int /\ wallet.balance = Opening + Total(rest)
    BY <1>7, WalletAssumption
  <2>2. Total(ledger' \ {OpeningRow}) = Total(rest) + amount
    BY <1>5, <1>6
  <2>3. PICK n \in Int : n = Total(rest)
    BY <1>6
  <2> HIDE DEF rest
  <2> QED
    BY <1>3, <2>1, <2>2, <2>3
<1>9. \A t, u \in ledger' : t.key = u.key => t = u
  BY <1>1 DEF BookInv, RowsOf
<1>10. \A t \in ledger' : t.key = OpeningKey => t = OpeningRow
  BY <1>1 DEF BookInv
<1>11. BookInv'
  BY <1>3, <1>4, <1>8, <1>9, <1>10 DEF BookInv, OpeningRow
<1> QED
  BY <1>1, <1>2, <1>3, <1>11

---------------------------------------------------------------------------
(* Requests to the wallet.                                                 *)

Shaped(q) == q = [pc |-> q.pc, key |-> q.key, seen |-> q.seen]

\* What a request knows of the wallet, of its own key and of its rows.
ReqKnows(q) ==
  /\ Shaped(q)
  /\ q.pc = "idle" => q = Idle
  /\ q.pc # "idle" =>
       /\ q.key \in Keys /\ asked[q.key].amount \in Nat
       /\ asked[q.key].op # "create" => Exists
       /\ q.pc = "apply" /\ asked[q.key].op \in Money => RowsOf(q.key) = {}
       /\ q.pc = "open" => Exists /\ OpeningRow \notin ledger

\* A key has one request in flight, and one request opens the wallet.
OneEach ==
  \A v, w \in Workers :
    v # w => /\ req[v].pc # "idle" => req[w].key # req[v].key
             /\ ~(req[v].pc = "open" /\ req[w].pc = "open")

Bodies == asked = [k \in Keys |-> asked[k]]

ReqShape == req = [w \in Workers |-> req[w]]

WalletInv ==
  /\ BookInv /\ Bodies /\ ReqShape /\ OneEach
  /\ \A w \in Workers : ReqKnows(req[w])

\* w's request becomes q, the others stay.
ReqIs(w, q) ==
  /\ ReqShape' /\ req'[w] = q
  /\ \A v \in Workers : v # w => req'[v] = req[v]

LEMMA Ending ==
  ASSUME ReqShape, NEW w \in Workers, End(w)
  PROVE  ReqIs(w, Idle)
BY DEF ReqShape, End, ReqIs

LEMMA Going ==
  ASSUME WalletInv, NEW w \in Workers, NEW pc, NEW seen,
         \/ Goto(w, pc) /\ seen = req[w].seen
         \/ req' = [req EXCEPT ![w].pc = pc, ![w].seen = seen]
  PROVE  ReqIs(w, [pc |-> pc, key |-> req[w].key, seen |-> seen])
<1> DEFINE Typed == [Workers -> [pc : {req[v].pc : v \in Workers}, key : {req[v].key : v \in Workers},
                                 seen : {req[v].seen : v \in Workers}]]
<1>1. req \in Typed
  BY DEF WalletInv, ReqShape, ReqKnows, Shaped
<1>2. /\ req' = [v \in Workers |-> req'[v]]
      /\ \A v \in Workers : v # w => req'[v] = req[v]
      /\ req'[w] = [pc |-> pc, key |-> req[w].key, seen |-> seen]
  BY <1>1 DEF Goto
<1> QED
  BY <1>2 DEF ReqIs, ReqShape

\* A step of one request that leaves the others' rows alone.
LEMMA WalletKeeps ==
  ASSUME WalletInv, NEW w \in Workers, NEW q, ReqIs(w, q), ReqKnows(q)', BookInv', asked' = asked,
         q.pc # "idle" => q.key = req[w].key,
         q.pc = "open" => ~Exists \/ req[w].pc = "open",
         Exists => Exists',
         \A k \in Keys : k # req[w].key => RowsOf(k)' = RowsOf(k),
         OpeningRow \in ledger' => OpeningRow \in ledger \/ req[w].pc = "open"
  PROVE  WalletInv'
<1>1. ASSUME NEW v \in Workers, v # w PROVE ReqKnows(req[v])'
  <2>1. ReqKnows(req[v]) /\ req'[v] = req[v]
    BY <1>1 DEF WalletInv, ReqIs
  <2>2. req[v].pc # "idle" => req[v].key # req[w].key
    BY <1>1 DEF WalletInv, OneEach, ReqKnows, Idle
  <2>3. req[v].pc = "open" => req[w].pc # "open"
    BY <1>1 DEF WalletInv, OneEach
  <2> QED
    BY <2>1, <2>2, <2>3 DEF ReqKnows
<1>2. ReqKnows(req[w])'
  BY DEF ReqIs
<1>3. OneEach'
  <2>1. \A v \in Workers : v # w => req'[v] = req[v]
    BY DEF ReqIs
  <2>2. req'[w] = q /\ (q.pc = "idle" => q.key = None)
    BY DEF ReqIs, ReqKnows, Idle
  <2>3. \A v \in Workers : req[v].pc # "idle" => req[v].key \in Keys
    BY DEF WalletInv, ReqKnows
  <2>4. \A v \in Workers : req[v].pc = "open" => Exists
    BY DEF WalletInv, ReqKnows
  <2>5. OneEach /\ \A v \in Workers : req[v].pc = "idle" => req[v].key = None
    BY DEF WalletInv, ReqKnows, Idle
  <2>6. q.pc # "idle" => req[w].pc # "idle"
    BY <2>2, <2>5, WalletAssumption DEF ReqKnows
  <2> QED
    BY <2>1, <2>2, <2>3, <2>4, <2>5, <2>6, WalletAssumption DEF OneEach
<1>4. Bodies' /\ ReqShape'
  BY DEF WalletInv, Bodies, ReqIs
<1> QED
  BY <1>1, <1>2, <1>3, <1>4 DEF WalletInv

\* A request ends, or goes on reading, with the rows as they are.
LEMMA WalletReads ==
  ASSUME WalletInv, NEW w \in Workers, req[w].pc # "idle",
         UNCHANGED <<wallet, ledger, report, asked>>,
         \/ End(w)
         \/ \E pc, seen :
              /\ \/ Goto(w, pc) /\ seen = req[w].seen
                 \/ req' = [req EXCEPT ![w].pc = pc, ![w].seen = seen]
              /\ pc \notin {"idle", "open"}
              /\ pc = "apply" /\ BodyOf(w).op \in Money => RowsOf(req[w].key) = {}
  PROVE  WalletInv'
<1>0. ReqKnows(req[w]) /\ BookInv' /\ ReqShape
  BY DEF WalletInv, BookInv, Exists, Amounted
<1>1. CASE End(w)
  <2>1. ReqIs(w, Idle)
    BY <1>0, <1>1, Ending
  <2>2. ReqKnows(Idle)' /\ Idle.pc = "idle"
    BY DEF ReqKnows, Idle, Shaped
  <2> HIDE DEF Idle
  <2> QED
    BY <1>0, <2>1, <2>2, WalletKeeps DEF Exists, RowsOf, OpeningRow
<1>2. CASE ~End(w)
  <2>1. PICK pc, seen :
          /\ \/ Goto(w, pc) /\ seen = req[w].seen
             \/ req' = [req EXCEPT ![w].pc = pc, ![w].seen = seen]
          /\ pc \notin {"idle", "open"}
          /\ pc = "apply" /\ BodyOf(w).op \in Money => RowsOf(req[w].key) = {}
    BY <1>2
  <2>0. PICK key \in Keys : key = req[w].key
    BY <1>0 DEF ReqKnows
  <2> DEFINE q == [pc |-> pc, key |-> key, seen |-> seen]
  <2>2. ReqIs(w, q)
    BY <2>0, <2>1, Going
  <2>3. ReqKnows(q)'
    BY <1>0, <2>0, <2>1 DEF ReqKnows, Shaped, BodyOf, Exists, RowsOf
  <2>4. q.pc = pc /\ q.key = req[w].key
    BY <2>0
  <2> HIDE DEF q
  <2> QED
    BY <1>0, <2>1, <2>2, <2>3, <2>4, WalletKeeps DEF Exists, RowsOf, OpeningRow
<1> QED
  BY <1>1, <1>2

---------------------------------------------------------------------------
(* The wallet's steps.                                                     *)

\* Nothing the wallet's own requests do touches a door sale's rows.
SaleRowsStay ==
  /\ Exists => Exists'
  /\ \A k : k \notin Keys \cup {OpeningKey} => RowsOf(k)' = RowsOf(k)

\* A request writes the row its key does not have yet.
LEMMA WalletMoves ==
  ASSUME WalletInv, NEW w \in Workers, NEW type, NEW amount \in Int, BodyOf(w).op \in Money,
         BodyOf(w).op # "create", Moves(w, type, amount)
  PROVE  WalletInv' /\ SaleRowsStay
<1>0. ReqKnows(req[w]) /\ ReqShape /\ req[w].pc = "apply" /\ report' = report /\ asked' = asked
  BY DEF WalletInv, Moves, At
<1>1. PICK key \in Keys : key = req[w].key
  BY <1>0 DEF ReqKnows
<1>2. CASE Commit(key, type, amount, BodyOf(w).device) /\ Goto(w, "reply")
  <2>1. Exists /\ RowsOf(key) = {} /\ key # OpeningKey /\ BookInv
    BY <1>0, <1>1, WalletAssumption DEF ReqKnows, BodyOf, WalletInv
  <2>2. BookInv' /\ Exists' /\ \E t : t.key = key /\ ledger' = ledger \cup {t}
    BY <1>0, <1>2, <2>1, Committed
  <2>3. \A k : k # key => RowsOf(k)' = RowsOf(k)
    BY <2>2 DEF RowsOf
  <2>4. OpeningRow \in ledger' => OpeningRow \in ledger
    BY <2>1, <2>2 DEF OpeningRow
  <2> DEFINE q == [pc |-> "reply", key |-> key, seen |-> req[w].seen]
  <2>5. ReqIs(w, q)
    BY <1>1, <1>2, Going
  <2>6. PICK seen : seen = req[w].seen
    OBVIOUS
  <2>7. ReqKnows([pc |-> "reply", key |-> key, seen |-> seen])'
    BY <1>0, <1>1, <2>2 DEF ReqKnows, Shaped
  <2>8. q = [pc |-> "reply", key |-> key, seen |-> seen] /\ q.pc = "reply" /\ q.key = req[w].key
    BY <1>1, <2>6
  <2> DEFINE r == [pc |-> "reply", key |-> key, seen |-> seen]
  <2>9. ReqIs(w, r) /\ ReqKnows(r)' /\ r.pc = "reply" /\ r.key = req[w].key
    BY <2>5, <2>6, <2>7, <2>8
  <2> HIDE DEF q, r
  <2>10. WalletInv'
    BY <1>0, <1>1, <2>2, <2>3, <2>4, <2>9, WalletKeeps
  <2> QED
    BY <1>1, <2>2, <2>3, <2>10 DEF SaleRowsStay
<1>3. CASE End(w) /\ UNCHANGED <<wallet, ledger, lately>>
  BY <1>0, <1>3, WalletReads DEF SaleRowsStay, Exists, RowsOf
<1> QED
  BY <1>1, <1>2, <1>3 DEF Moves

\* The status changes, and nothing else of the wallet.
LEMMA WalletTurns ==
  ASSUME WalletInv, NEW w \in Workers, NEW may, NEW status \in {"active", "frozen", "terminated", "closed"},
         BodyOf(w).op # "create", Becomes(w, may, status)
  PROVE  WalletInv' /\ SaleRowsStay
<1>0. ReqKnows(req[w]) /\ req[w].pc = "apply" /\ UNCHANGED <<ledger, report, asked>>
  BY DEF WalletInv, Becomes, At
<1>1. CASE End(w) /\ UNCHANGED wallet
  BY <1>0, <1>1, WalletReads DEF SaleRowsStay, Exists, RowsOf
<1>2. CASE wallet' = [wallet EXCEPT !.status = status] /\ Goto(w, "reply")
  <2>1. PICK key, seen : key \in Keys /\ key = req[w].key /\ seen = req[w].seen
    BY <1>0 DEF ReqKnows
  <2>2. Exists /\ BookInv
    BY <1>0 DEF ReqKnows, BodyOf, WalletInv
  <2>3. wallet' = [status |-> status, balance |-> wallet.balance]
    BY <1>2, <2>2 DEF BookInv
  <2>4. Exists' /\ wallet'.balance = wallet.balance
    BY <2>3 DEF Exists
  <2>5. BookInv'
    BY <1>0, <2>2, <2>3, <2>4 DEF BookInv, Amounted, OpeningRow
  <2> DEFINE r == [pc |-> "reply", key |-> key, seen |-> seen]
  <2>6. ReqIs(w, r)
    BY <1>2, <2>1, Going
  <2>7. ReqKnows(r)' /\ r.pc = "reply" /\ r.key = req[w].key
    BY <1>0, <2>1, <2>4 DEF ReqKnows, Shaped
  <2>8. \A k : RowsOf(k)' = RowsOf(k)
    BY <1>0 DEF RowsOf
  <2>9. OpeningRow \in ledger' => OpeningRow \in ledger
    BY <1>0 DEF OpeningRow
  <2> HIDE DEF r
  <2>10. WalletInv'
    BY <1>0, <2>4, <2>5, <2>6, <2>7, <2>8, <2>9, WalletKeeps
  <2> QED
    BY <2>4, <2>8, <2>10 DEF SaleRowsStay
<1> QED
  BY <1>1, <1>2 DEF Becomes

\* The wallet is made by one of those who found none, and its first row written.
LEMMA WalletOpens ==
  ASSUME WalletInv, NEW w \in Workers, CreateRow(w) \/ CreateOpening(w)
  PROVE  WalletInv' /\ SaleRowsStay
<1>0. ReqKnows(req[w]) /\ req[w].pc \in {"create", "open"} /\ UNCHANGED <<report, asked>> /\ BookInv
  BY DEF WalletInv, CreateRow, CreateOpening, At
<1>1. PICK key, seen : key \in Keys /\ key = req[w].key /\ seen = req[w].seen
  BY <1>0 DEF ReqKnows
<1>2. CASE CreateRow(w) /\ ~Exists
  <2> DEFINE r == [pc |-> "open", key |-> key, seen |-> seen]
  <2>1. wallet' = Opened /\ Goto(w, "open") /\ ledger' = ledger /\ ledger = {} /\ req[w].pc = "create"
    BY <1>0, <1>2 DEF CreateRow, BookInv, At
  <2>2. ReqIs(w, r)
    BY <1>1, <2>1, Going
  <2>3. /\ Exists' /\ wallet'.balance = Opening
        /\ wallet' = [status |-> wallet'.status, balance |-> wallet'.balance]
    BY <2>1 DEF Exists, Opened
  <2>4. Total(ledger' \ {OpeningRow}) = 0
    BY <2>1, TotalTakes, <1>0 DEF BookInv
  <2>5. BookInv'
    BY <1>0, <2>1, <2>3, <2>4, WalletAssumption DEF BookInv, Amounted, OpeningRow
  <2>6. ReqKnows(r)' /\ r.pc = "open" /\ r.key = req[w].key
    BY <1>0, <1>1, <2>1, <2>3 DEF ReqKnows, Shaped
  <2>7. \A k : RowsOf(k)' = RowsOf(k)
    BY <2>1 DEF RowsOf
  <2>8. OpeningRow \in ledger' => OpeningRow \in ledger
    BY <2>1
  <2> HIDE DEF r
  <2>9. WalletInv'
    BY <1>0, <1>2, <2>3, <2>5, <2>2, <2>6, <2>7, <2>8, WalletKeeps
  <2> QED
    BY <2>3, <2>7, <2>9 DEF SaleRowsStay
<1>3. CASE CreateRow(w) /\ Exists
  <2>1. UNCHANGED <<wallet, ledger>> /\ Goto(w, "reply") /\ req[w].pc # "idle"
    BY <1>0, <1>3 DEF CreateRow
  <2>2. WalletInv'
    BY <1>0, <2>1, WalletReads
  <2> QED
    BY <2>1, <2>2 DEF SaleRowsStay, Exists, RowsOf
<1>4. CASE CreateOpening(w)
  <2> DEFINE r == [pc |-> "reply", key |-> key, seen |-> seen]
  <2>1. /\ req[w].pc = "open" /\ Goto(w, "reply") /\ wallet' = wallet
        /\ ledger' = ledger \cup {OpeningRow} /\ OpeningRow \notin ledger /\ Exists
    BY <1>0, <1>4 DEF CreateOpening, At, ReqKnows
  <2>2. OpeningRow.key = OpeningKey /\ OpeningRow.amount \in Int
    BY WalletAssumption DEF OpeningRow
  <2>3. \A t \in ledger : t.key # OpeningKey
    BY <1>0, <2>1 DEF BookInv
  <2>4. ledger' \ {OpeningRow} = ledger /\ ledger \ {OpeningRow} = ledger /\ (OpeningRow)' = OpeningRow
    BY <2>1 DEF OpeningRow
  <2>5. Amounted(ledger)'
    BY <1>0, <2>1, <2>2, FS_AddElement DEF BookInv, Amounted
  <2>6. Exists' /\ wallet'.balance = Opening + Total(ledger' \ {OpeningRow})
    BY <1>0, <2>1, <2>4 DEF BookInv, Exists
  <2>7. \A t, u \in ledger' : t.key = u.key => t = u
    BY <1>0, <2>1, <2>2, <2>3 DEF BookInv
  <2>8. \A t \in ledger' : t.key = OpeningKey => t = OpeningRow
    BY <1>0, <2>1, <2>2, <2>3
  <2>9. BookInv'
    BY <1>0, <2>1, <2>4, <2>5, <2>6, <2>7, <2>8 DEF BookInv
  <2>10. ReqIs(w, r)
    BY <1>1, <2>1, Going
  <2>11. ReqKnows(r)' /\ r.pc = "reply" /\ r.key = req[w].key
    BY <1>0, <1>1, <2>6 DEF ReqKnows, Shaped
  <2>12. \A k : k # OpeningKey => RowsOf(k)' = RowsOf(k)
    BY <2>1, <2>2 DEF RowsOf
  <2> HIDE DEF r
  <2>13. WalletInv'
    BY <1>0, <2>1, <2>6, <2>9, <2>10, <2>11, <2>12, WalletAssumption, WalletKeeps
  <2> QED
    BY <2>6, <2>12, <2>13 DEF SaleRowsStay
<1> QED
  BY <1>2, <1>3, <1>4

\* A request is taken in, under a key no other has in flight.
LEMMA WalletBegins ==
  ASSUME WalletInv, NEW w \in Workers, NEW k \in Keys, NEW b, NEW pc, Begin(w, k, b, pc),
         pc \in {"find", "read", "price", "report"}, b.amount \in Nat, b.op # "create" => Exists
  PROVE  WalletInv' /\ SaleRowsStay
<1> DEFINE r == [pc |-> pc, key |-> k, seen |-> None]
<1>1. /\ req[w].pc = "idle" /\ (\A v \in Workers : req[v].key # k)
      /\ asked' = [asked EXCEPT ![k] = b] /\ req' = [req EXCEPT ![w] = r]
      /\ UNCHANGED <<wallet, ledger, report>>
  BY DEF Begin, At
<1>2. /\ Bodies' /\ asked'[k] = b
      /\ \A j \in Keys : j # k => asked'[j] = asked[j]
  BY <1>1 DEF WalletInv, Bodies
<1>3. ReqShape' /\ req'[w] = r /\ \A v \in Workers : v # w => req'[v] = req[v]
  BY <1>1 DEF WalletInv, ReqShape
<1>4. r.pc = pc /\ r.key = k /\ Shaped(r)
  BY DEF Shaped
<1> HIDE DEF r
<1>5. ReqKnows(req[w])'
  BY <1>1, <1>2, <1>3, <1>4 DEF ReqKnows, Exists, Shaped
<1>6. ASSUME NEW v \in Workers, v # w PROVE ReqKnows(req[v])'
  <2>1. ReqKnows(req[v]) /\ req'[v] = req[v] /\ req[v].key # k
    BY <1>1, <1>3, <1>6 DEF WalletInv
  <2> QED
    BY <1>1, <1>2, <2>1 DEF ReqKnows, Exists, RowsOf, OpeningRow
<1>7. OneEach'
  <2>1. OneEach /\ (\A v \in Workers : req[v].key # k) /\ r.key = k /\ r.pc \notin {"idle", "open"}
    BY <1>1, <1>4 DEF WalletInv
  <2> QED
    BY <1>3, <2>1 DEF OneEach
<1>8. BookInv'
  BY <1>1 DEF WalletInv, BookInv, Amounted, Exists, OpeningRow
<1> QED
  BY <1>1, <1>2, <1>3, <1>5, <1>6, <1>7, <1>8 DEF WalletInv, SaleRowsStay, Exists, RowsOf

LEMMA WalletPosts ==
  ASSUME WalletInv, NEW w \in Workers, NEW k \in Keys, WalletPosted(w, k)
  PROVE  WalletInv' /\ SaleRowsStay
<1> DEFINE Goes(op, amount, scanner, pc) ==
             /\ Begin(w, k, Ask(op, amount, scanner), pc)
             /\ pc \in {"find", "read", "price", "report"} /\ amount \in Nat
             /\ op # "create" => Exists
<1>1. ASSUME NEW op, NEW amount, NEW scanner, NEW pc, Goes(op, amount, scanner, pc)
      PROVE  WalletInv' /\ SaleRowsStay
  <2> DEFINE b == Ask(op, amount, scanner)
  <2>1. b.op = op /\ b.amount = amount
    BY DEF Ask
  <2>2. Begin(w, k, b, pc)
    BY <1>1
  <2> HIDE DEF b
  <2> QED
    BY <1>1, <2>1, <2>2, WalletBegins
<1>2. /\ \A a \in Amounts : a \in Nat
      /\ \A item \in Amounts \cup {None}, n \in 1..2 : PriceForCharge(item, n) \in Nat
  BY WalletAssumption DEF PriceForCharge
<1>3. report # "none" => Exists
  BY DEF WalletInv, BookInv
<1>4. \E op, amount, scanner, pc : Goes(op, amount, scanner, pc)
  <2>1. CASE PostCreation(w, k)
    BY <2>1 DEF PostCreation
  <2>2. CASE PostCredit(w, k)
    BY <1>2, <2>2 DEF PostCredit
  <2>3. CASE PostDebit(w, k)
    BY <1>2, <2>3 DEF PostDebit
  <2>4. CASE PostCharge(w, k)
    BY <1>2, <2>4 DEF PostCharge
  <2>5. CASE PostFreeze(w, k) \/ PostUnfreeze(w, k) \/ PostTermination(w, k) \/ AskClosing(w, k)
    BY <2>5 DEF PostFreeze, PostUnfreeze, PostTermination, AskClosing
  <2>6. CASE PostReconciliation(w, k) \/ AskResolution(w, k)
    BY <1>3, <2>6 DEF PostReconciliation, AskResolution
  <2>7. CASE AskRefund(w, k)
    BY <1>2, <2>7 DEF AskRefund
  <2>8. CASE AskAdjustment(w, k)
    BY <1>2, <2>8 DEF AskAdjustment
  <2> QED
    BY <2>1, <2>2, <2>3, <2>4, <2>5, <2>6, <2>7, <2>8 DEF WalletPosted
<1> QED
  BY <1>1, <1>4

\* The steps that read, and the end of a request.
LEMMA WalletLooks ==
  ASSUME WalletInv, NEW w \in Workers,
         \/ FindExisting(w) \/ Price(w) \/ ReadWallet(w) \/ CountDebits(w) \/ LookUp(w)
         \/ FindReport(w) \/ Reply(w) \/ Die(w)
  PROVE  WalletInv' /\ SaleRowsStay
<1> DEFINE Goes(pc, seen) ==
             /\ \/ Goto(w, pc) /\ seen = req[w].seen
                \/ req' = [req EXCEPT ![w].pc = pc, ![w].seen = seen]
             /\ pc \notin {"idle", "open"}
             /\ pc = "apply" /\ BodyOf(w).op \in Money => RowsOf(req[w].key) = {}
<1>1. req[w].pc # "idle" /\ UNCHANGED <<wallet, ledger, report, asked>>
  BY DEF FindExisting, Price, ReadWallet, CountDebits, LookUp, FindReport, Reply, Die, At
<1>2. End(w) \/ \E pc, seen : Goes(pc, seen)
  <2>0. ASSUME NEW pc, Goto(w, pc), pc \notin {"idle", "open"},
               pc = "apply" => BodyOf(w).op \notin Money
        PROVE  Goes(pc, req[w].seen)
    BY <2>0
  <2>1. CASE FindExisting(w) \/ Price(w) \/ CountDebits(w) \/ Reply(w) \/ Die(w)
    <3>1. End(w) \/ \E pc \in {"create", "read", "lookup"} : Goto(w, pc)
      BY <2>1 DEF FindExisting, Price, CountDebits, Reply, Die
    <3> HIDE DEF Goes
    <3> QED
      BY <2>0, <3>1
  <2>2. CASE ReadWallet(w)
    <3>1. /\ AfterRead(BodyOf(w)) \notin {"idle", "open"}
          /\ AfterRead(BodyOf(w)) = "apply" => BodyOf(w).op \notin Money
      BY DEF AfterRead, Money, Debits
    <3> QED
      BY <2>2, <3>1 DEF ReadWallet
  <2>3. CASE LookUp(w)
    BY <2>3 DEF LookUp, Done
  <2>4. CASE FindReport(w)
    <3>1. End(w) \/ Goto(w, "read") \/ (Goto(w, "apply") /\ BodyOf(w).op \notin Money)
      BY <2>4 DEF FindReport, Is, Money
    <3> HIDE DEF Goes
    <3> QED
      BY <2>0, <3>1
  <2> QED
    BY <2>1, <2>2, <2>3, <2>4
<1>3. WalletInv'
  BY <1>1, <1>2, WalletReads
<1> QED
  BY <1>1, <1>3 DEF SaleRowsStay, Exists, RowsOf

\* The day's report is stored, or resolved, of a wallet that is there.
LEMMA WalletReports ==
  ASSUME WalletInv, NEW w \in Workers, BodyOf(w).op # "create", StoreReport(w) \/ Resolve(w)
  PROVE  WalletInv' /\ SaleRowsStay
<1>1. /\ ReqKnows(req[w]) /\ BookInv /\ req[w].pc \in {"sum", "apply"}
      /\ UNCHANGED <<wallet, ledger, asked>>
  BY DEF WalletInv, StoreReport, Resolve, At
<1>2. PICK key : key \in Keys /\ key = req[w].key
  BY <1>1 DEF ReqKnows
<1>3. PICK seen : \/ Goto(w, "reply") /\ seen = req[w].seen
                  \/ req' = [req EXCEPT ![w].pc = "reply", ![w].seen = seen]
  BY DEF StoreReport, Resolve
<1> DEFINE r == [pc |-> "reply", key |-> key, seen |-> seen]
<1>4. ReqIs(w, r)
  BY <1>2, <1>3, Going
<1>5. Exists
  BY <1>1 DEF ReqKnows, BodyOf
<1>6. ReqKnows(r)' /\ r.pc = "reply" /\ r.key = req[w].key
  BY <1>1, <1>2, <1>5 DEF ReqKnows, Shaped, Exists
<1>7. BookInv' /\ Exists'
  BY <1>1, <1>5 DEF BookInv, Amounted, Exists, OpeningRow
<1>8. /\ \A k : RowsOf(k)' = RowsOf(k)
      /\ OpeningRow \in ledger' => OpeningRow \in ledger
  BY <1>1 DEF RowsOf, OpeningRow
<1> HIDE DEF r
<1>9. WalletInv'
  BY <1>1, <1>4, <1>6, <1>7, <1>8, WalletKeeps
<1> QED
  BY <1>7, <1>8, <1>9 DEF SaleRowsStay

LEMMA WalletWorks ==
  ASSUME WalletInv, NEW w \in Workers, WalletStep(w)
  PROVE  WalletInv' /\ SaleRowsStay
<1> DEFINE looks == \/ FindExisting(w) \/ Price(w) \/ ReadWallet(w) \/ CountDebits(w) \/ LookUp(w)
                    \/ FindReport(w) \/ Reply(w) \/ Die(w)
           moves == Credit(w) \/ Debit(w) \/ Refund(w) \/ Adjust(w)
           turns == Terminate(w) \/ Close(w) \/ Freeze(w) \/ Unfreeze(w)
<1>1. CASE looks
  BY <1>1, WalletLooks
<1>2. CASE CreateRow(w) \/ CreateOpening(w)
  BY <1>2, WalletOpens
<1>3. CASE moves /\ BodyOf(w).op \in Money
  <2>1. BodyOf(w).op # "create"
    BY <1>3 DEF Money
  <2>2. BodyOf(w).amount \in Int
    BY <1>3 DEF WalletInv, ReqKnows, BodyOf, Credit, Debit, Refund, Adjust, Moves, At
  <2>3. \E type : \E amount \in Int : Moves(w, type, amount)
    BY <1>3, <2>2 DEF Credit, Debit, Refund, Adjust
  <2> QED
    BY <1>3, <2>1, <2>3, WalletMoves
<1>4. CASE turns /\ BodyOf(w).op # "create"
  BY <1>4, WalletTurns DEF Terminate, Close, Freeze, Unfreeze
<1>5. CASE (StoreReport(w) \/ Resolve(w)) /\ BodyOf(w).op # "create"
  BY <1>5, WalletReports
<1>6. \/ looks \/ CreateRow(w) \/ CreateOpening(w)
      \/ moves /\ BodyOf(w).op \in Money
      \/ turns /\ BodyOf(w).op # "create"
      \/ (StoreReport(w) \/ Resolve(w)) /\ BodyOf(w).op # "create"
  BY DEF WalletStep, CreateWallet, CreditWallet, DebitWallet, ToDebit, ChargePreset, RefundWallet,
         AdjustWallet, TerminateWallet, FreezeWallet, UnfreezeWallet, CloseWallet,
         RunReconciliation, ResolveReconciliation, Is, Money
<1> QED
  BY <1>1, <1>2, <1>3, <1>4, <1>5, <1>6

\* Every step of the wallet's own.
LEMMA WalletGoes ==
  ASSUME WalletInv, WalletNext
  PROVE  WalletInv' /\ SaleRowsStay
<1>1. CASE \E w \in Workers, k \in Keys : WalletPosted(w, k)
  BY <1>1, WalletPosts
<1>2. CASE \E w \in Workers : WalletStep(w)
  BY <1>2, WalletWorks
<1>3. CASE \E t \in lately : Age(t)
  BY <1>3 DEF Age, WalletInv, BookInv, Bodies, ReqShape, OneEach, ReqKnows, Amounted, Exists,
              OpeningRow, RowsOf, SaleRowsStay
<1> QED
  BY <1>1, <1>2, <1>3 DEF WalletNext

LEMMA WalletIdles ==
  ASSUME WalletInv, UNCHANGED walletVars
  PROVE  WalletInv'
BY DEF walletVars, WalletInv, BookInv, Bodies, ReqShape, OneEach, ReqKnows, Amounted, Exists,
       OpeningRow, RowsOf

LEMMA WalletStarts ==
  ASSUME WalletInit
  PROVE  WalletInv
<1>1. BookInv
  <2>1. CASE wallet = Opened /\ ledger = {OpeningRow}
    <3>0. OpeningRow.amount \in Int
      BY WalletAssumption DEF OpeningRow
    <3>1. IsFiniteSet(ledger) /\ ledger \ {OpeningRow} = {} /\ IsFiniteSet({})
      BY <2>1, FS_Singleton, FS_EmptySet
    <3>4. Amounted(ledger) /\ Amounted({})
      BY <2>1, <3>0, <3>1 DEF Amounted
    <3>2. Total(ledger \ {OpeningRow}) = 0
      BY <3>1, <3>4, TotalTakes
    <3> QED
      BY <2>1, <3>2, <3>4, WalletAssumption DEF BookInv, Opened, Exists, OpeningRow
  <2>2. CASE wallet = [status |-> "none", balance |-> 0] /\ ledger = {}
    BY <2>2, FS_EmptySet DEF WalletInit, BookInv, Amounted, Exists
  <2> QED
    BY <2>1, <2>2 DEF WalletInit
<1>2. Bodies /\ ReqShape /\ OneEach /\ \A w \in Workers : ReqKnows(req[w])
  <2>1. \A w \in Workers : req[w] = Idle
    BY DEF WalletInit
  <2> QED
    BY <2>1, WalletAssumption DEF WalletInit, Bodies, ReqShape, OneEach, ReqKnows, Shaped, Idle
<1> QED
  BY <1>1, <1>2 DEF WalletInv

---------------------------------------------------------------------------
(* Door sales, made and undone at one till.                                *)

\* One door-sale request is in flight at a time; the wallet's own requests, crashes
\* and retries interleave with it.
OneTill == \A c, d \in Clerks : c = d

UndoRows(s) == RowsOf(<<s, "void">>) \cup RowsOf(<<s, "refund">>)

\* What the ledger says of a sale: one debit of its price at most, once it is
\* indexed, and one row that gives some of it back, once it is not active any more.
SaleBook(s) ==
  /\ sold[s] \in Nat
  /\ s \in indexed => sold[s] >= 1
  /\ \A t \in RowsOf(<<s, "debit">>) : t.type = "debit" /\ t.amount = -TierPrice
  /\ RowsOf(<<s, "debit">>) # {} => s \in indexed
  /\ \A t, u \in UndoRows(s) : t = u
  /\ \A t \in UndoRows(s) : t.amount <= TierPrice
  /\ UndoRows(s) # {} => RowsOf(<<s, "debit">>) # {} /\ sales[s] # "active"

\* What a sale's request knows of it.
ClerkKnows(q) ==
  /\ q = [pc |-> q.pc, op |-> q.op, sale |-> q.sale, back |-> q.back]
  /\ q.pc # "idle" => q.sale \in Sales
  /\ q.pc \in {"create", "index"} => q.sale \notin indexed
  /\ q.pc = "index" => sold[q.sale] >= 1
  /\ q.pc \in {"findWallet", "debit"} => q.sale \in indexed /\ RowsOf(<<q.sale, "debit">>) = {}
  /\ q.pc \in {"debit", "giveBack"} => Exists
  /\ q.pc \in {"mark", "sumDebits", "checkWallet", "giveBack"} => UndoRows(q.sale) = {}
  /\ q.pc \in {"sumDebits", "checkWallet", "giveBack"} => sales[q.sale] # "active"
  /\ q.pc \in {"checkWallet", "giveBack"} =>
       q.back \in Int /\ q.back <= TierPrice /\ RowsOf(<<q.sale, "debit">>) # {}

SaleShape ==
  /\ sales = [s \in Sales |-> sales[s]] /\ sold = [s \in Sales |-> sold[s]]
  /\ sreq = [c \in Clerks |-> sreq[c]]

SaleInv ==
  /\ SaleShape
  /\ \A s \in Sales : SaleBook(s)
  /\ \A c \in Clerks : ClerkKnows(sreq[c])

\* c's request becomes q, the others stay.
ClerkIs(c, q) ==
  /\ sreq' = [d \in Clerks |-> sreq'[d]] /\ sreq'[c] = q

LEMMA SaleEnds ==
  ASSUME SaleInv, NEW c \in Clerks, EndS(c)
  PROVE  ClerkIs(c, NoSale)
BY DEF SaleInv, SaleShape, EndS, ClerkIs

LEMMA SaleGoes ==
  ASSUME SaleInv, NEW c \in Clerks, NEW pc, NEW back,
         \/ GotoS(c, pc) /\ back = sreq[c].back
         \/ sreq' = [sreq EXCEPT ![c].back = back, ![c].pc = pc]
  PROVE  ClerkIs(c, [pc |-> pc, op |-> sreq[c].op, sale |-> sreq[c].sale, back |-> back])
<1> DEFINE rows == [pc : {sreq[v].pc : v \in Clerks}, op : {sreq[v].op : v \in Clerks},
                    sale : {sreq[v].sale : v \in Clerks}, back : {sreq[v].back : v \in Clerks}]
<1>0. ASSUME NEW v \in Clerks PROVE sreq[v] \in rows
  <2>1. PICK q : q = sreq[v]
    OBVIOUS
  <2>2. q = [pc |-> q.pc, op |-> q.op, sale |-> q.sale, back |-> q.back]
    BY <2>1 DEF SaleInv, ClerkKnows
  <2>3. [pc |-> q.pc, op |-> q.op, sale |-> q.sale, back |-> q.back] \in rows
    BY <2>1
  <2> QED
    BY <2>1, <2>2, <2>3
<1>1. sreq \in [Clerks -> rows]
  BY <1>0, Zenon DEF SaleInv, SaleShape
<1>2. /\ sreq' = [v \in Clerks |-> sreq'[v]]
      /\ sreq'[c] = [pc |-> pc, op |-> sreq[c].op, sale |-> sreq[c].sale, back |-> back]
  BY <1>1 DEF GotoS
<1> QED
  BY <1>2 DEF ClerkIs

\* A step of the only till: what it leaves of the sales, and what its request knows.
LEMMA SaleKeeps ==
  ASSUME OneTill, NEW c \in Clerks, NEW q, ClerkIs(c, q), ClerkKnows(q)',
         sales' = [s \in Sales |-> sales'[s]], sold' = [s \in Sales |-> sold'[s]],
         \A s \in Sales : SaleBook(s)'
  PROVE  SaleInv'
<1>1. \A d \in Clerks : d = c
  BY DEF OneTill
<1>2. \A d \in Clerks : ClerkKnows(sreq[d])'
  BY <1>1 DEF ClerkIs
<1> QED
  BY <1>2 DEF SaleInv, SaleShape, ClerkIs

\* A request ends, or goes on, with the rows as they are.
LEMMA SaleReads ==
  ASSUME OneTill, WalletInv, SaleInv, NEW c \in Clerks, UNCHANGED <<walletVars, sales, sold, indexed>>,
         \/ EndS(c)
         \/ \E q : ClerkIs(c, q) /\ ClerkKnows(q)
  PROVE  WalletInv' /\ SaleInv'
<1>1. PICK q : ClerkIs(c, q) /\ ClerkKnows(q)
  <2>1. ClerkKnows(NoSale)
    BY DEF ClerkKnows, NoSale
  <2>2. EndS(c) => ClerkIs(c, NoSale)
    BY SaleEnds
  <2> QED
    BY <2>1, <2>2
<1>2. \A k : RowsOf(k)' = RowsOf(k)
  BY DEF walletVars, RowsOf
<1>3. ClerkKnows(q)'
  BY <1>1, <1>2 DEF ClerkKnows, walletVars, Exists, UndoRows
<1>4. \A s \in Sales : SaleBook(s)'
  BY <1>2 DEF SaleInv, SaleBook, UndoRows
<1>5. SaleInv'
  BY <1>1, <1>3, <1>4, SaleKeeps DEF SaleInv, SaleShape
<1> QED
  BY <1>5, WalletIdles

\* The wallet's own steps leave the sales' rows alone.
LEMMA SalesStay ==
  ASSUME SaleInv, SaleRowsStay, WalletInv, UNCHANGED saleVars
  PROVE  SaleInv'
<1>1. \A s \in Sales, kind \in {"debit", "void", "refund"} : RowsOf(<<s, kind>>)' = RowsOf(<<s, kind>>)
  BY SaleAssumption DEF SaleRowsStay
<1>2. \A s \in Sales : UndoRows(s)' = UndoRows(s)
  BY <1>1 DEF UndoRows
<1>3. ASSUME NEW c \in Clerks PROVE ClerkKnows(sreq[c])'
  <2>1. ClerkKnows(sreq[c])
    BY DEF SaleInv
  <2> QED
    BY <1>1, <1>2, <2>1 DEF ClerkKnows, saleVars, SaleRowsStay
<1>4. \A s \in Sales : SaleBook(s)'
  BY <1>1, <1>2 DEF SaleInv, SaleBook, saleVars
<1> QED
  BY <1>3, <1>4 DEF SaleInv, SaleShape, saleVars

LEMMA TotalOfOne ==
  ASSUME NEW S, \A t \in S : t.amount \in Int, \A t, u \in S : t = u
  PROVE  /\ S = {} => Total(S) = 0
         /\ \A t \in S : Total(S) = t.amount
<1>1. Amounted({}) /\ Total({}) = 0
  <2>1. Amounted({})
    BY FS_EmptySet DEF Amounted
  <2> QED
    BY <2>1, TotalTakes
<1>2. ASSUME NEW t \in S PROVE Total(S) = t.amount
  <2>1. S = {} \cup {t} /\ t.amount \in Int
    BY <1>2
  <2>2. Total({} \cup {t}) = Total({}) + t.amount
    BY <1>1, <2>1, TotalTakes
  <2> QED
    BY <1>1, <2>1, <2>2
<1> QED
  BY <1>1, <1>2

\* What the wallet was debited for a sale.
LEMMA DebitedIs ==
  ASSUME WalletInv, NEW s \in Sales, SaleBook(s)
  PROVE  Debited(s) = IF RowsOf(<<s, "debit">>) = {} THEN 0 ELSE TierPrice
<1> DEFINE rows == RowsOf(<<s, "debit">>)
<1>1. {t \in rows : t.type = "debit"} = rows
  BY DEF SaleBook
<1>2. (\A t \in rows : t.amount \in Int /\ t.amount = -TierPrice) /\ \A t, u \in rows : t = u
  BY DEF SaleBook, WalletInv, BookInv, RowsOf, Amounted
<1>3. Debited(s) = -Total(rows)
  BY <1>1 DEF Debited
<1> HIDE DEF rows
<1>4. (rows = {} => Total(rows) = 0) /\ \A t \in rows : Total(rows) = t.amount
  BY <1>2, TotalOfOne
<1>5. TierPrice \in Int
  BY SaleAssumption
<1>6. CASE rows = {}
  BY <1>3, <1>4, <1>6 DEF rows
<1>7. CASE rows # {}
  <2>1. PICK t \in rows : Total(rows) = -TierPrice
    BY <1>2, <1>4, <1>7
  <2> QED
    BY <1>3, <1>5, <1>7, <2>1 DEF rows
<1> QED
  BY <1>6, <1>7

LEMMA SaleArrives ==
  ASSUME OneTill, WalletInv, SaleInv, NEW c \in Clerks, NEW s \in Sales, SalePosted(c, s)
  PROVE  WalletInv' /\ SaleInv'
<1>1. PICK op, pc : pc \in {"findKey", "findSale"} /\ Arrive(c, op, s, pc)
  BY DEF SalePosted, PostWalkIn, PostDineIn, PostSale, AskVoid, AskSaleRefund
<1> DEFINE q == [pc |-> pc, op |-> op, sale |-> s, back |-> 0]
<1>2. ClerkIs(c, q) /\ UNCHANGED <<walletVars, sales, sold, indexed>>
  BY <1>1 DEF Arrive, ClerkIs, SaleInv, SaleShape
<1>3. ClerkKnows(q)
  BY <1>1 DEF ClerkKnows
<1> HIDE DEF q
<1> QED
  BY <1>2, <1>3, SaleReads

\* The steps that read, and the end of a request.
LEMMA SaleLooks ==
  ASSUME OneTill, WalletInv, SaleInv, NEW c \in Clerks,
         \/ FindByKey(c) \/ FindWallet(c) \/ FindSale(c) \/ SumDebits(c) \/ CheckWallet(c)
         \/ Audit(c) \/ DieSale(c)
  PROVE  WalletInv' /\ SaleInv'
<1>1. UNCHANGED <<walletVars, sales, sold, indexed>>
  BY DEF FindByKey, FindWallet, FindSale, SumDebits, CheckWallet, Audit, DieSale
<1>2. PICK q : q = sreq[c]
  OBVIOUS
<1>3. ClerkKnows(q)
  BY <1>2 DEF SaleInv
<1> DEFINE to(pc, back) == [pc |-> pc, op |-> q.op, sale |-> q.sale, back |-> back]
<1>4. ASSUME NEW pc, NEW back, ClerkKnows(to(pc, back)),
             \/ GotoS(c, pc) /\ back = sreq[c].back
             \/ sreq' = [sreq EXCEPT ![c].back = back, ![c].pc = pc]
      PROVE  WalletInv' /\ SaleInv'
  <2>1. ClerkIs(c, to(pc, back))
    BY <1>2, <1>4, SaleGoes
  <2> HIDE DEF to
  <2> QED
    BY <1>1, <1>4, <2>1, SaleReads
<1>5. CASE EndS(c)
  BY <1>1, <1>5, SaleReads
<1>6. CASE FindByKey(c)
  <2>1. PICK pc : GotoS(c, pc) /\ (pc = "audit" \/ (pc = "create" /\ q.sale \notin indexed))
    BY <1>2, <1>6 DEF FindByKey, Sold, SaleOf
  <2>2. ClerkKnows(to(pc, q.back))
    BY <1>2, <1>3, <1>6, <2>1 DEF ClerkKnows, FindByKey, AtS
  <2> HIDE DEF to
  <2> QED
    BY <1>2, <1>4, <2>1, <2>2
<1>7. CASE FindWallet(c)
  <2>1. PICK pc : GotoS(c, pc) /\ (pc = "audit" \/ (pc = "debit" /\ Exists))
    BY <1>2, <1>7 DEF FindWallet, Exists
  <2>2. ClerkKnows(to(pc, q.back))
    BY <1>2, <1>3, <1>7, <2>1 DEF ClerkKnows, FindWallet, AtS
  <2> HIDE DEF to
  <2> QED
    BY <1>2, <1>4, <2>1, <2>2
<1>8. CASE FindSale(c) /\ ~EndS(c)
  <2>1. q.sale \in Sales /\ sales[q.sale] = "active" /\ GotoS(c, "mark")
    BY <1>2, <1>3, <1>8 DEF ClerkKnows, FindSale, MayUndo, SaleOf, AtS
  <2>2. UndoRows(q.sale) = {}
    BY <2>1 DEF SaleInv, SaleBook
  <2>3. ClerkKnows(to("mark", q.back))
    BY <2>1, <2>2 DEF ClerkKnows
  <2> QED
    BY <1>2, <1>4, <2>1, <2>3
<1>9. CASE SumDebits(c)
  <2>1. q.pc = "sumDebits" /\ q.sale \in Sales
    BY <1>2, <1>3, <1>9 DEF SumDebits, AtS, ClerkKnows
  <2>2. PICK back : back = BackFor(q.op, q.sale)
    OBVIOUS
  <2>3. Debited(q.sale) = IF RowsOf(<<q.sale, "debit">>) = {} THEN 0 ELSE TierPrice
    BY <2>1, DebitedIs DEF SaleInv
  <2>4. back \in Int /\ back <= TierPrice /\ (back > 0 => RowsOf(<<q.sale, "debit">>) # {})
    BY <2>2, <2>3, SaleAssumption DEF BackFor
  <2>5. PICK pc : pc = IF back > 0 THEN "checkWallet" ELSE "audit"
    OBVIOUS
  <2>6. ClerkKnows(to(pc, back))
    BY <1>3, <2>1, <2>4, <2>5 DEF ClerkKnows
  <2> QED
    BY <1>2, <1>4, <1>9, <2>2, <2>5, <2>6 DEF SumDebits, SaleOf
<1>10. CASE CheckWallet(c)
  <2>1. PICK pc : GotoS(c, pc) /\ (pc = "audit" \/ (pc = "giveBack" /\ Exists))
    BY <1>2, <1>10 DEF CheckWallet, Exists
  <2>2. ClerkKnows(to(pc, q.back))
    BY <1>2, <1>3, <1>10, <2>1 DEF ClerkKnows, CheckWallet, AtS
  <2> HIDE DEF to
  <2> QED
    BY <1>2, <1>4, <2>1, <2>2
<1> QED
  BY <1>5, <1>6, <1>7, <1>8, <1>9, <1>10 DEF Audit, DieSale

\* A row of a sale's, under a key that no request to the wallet has.
LEMMA SaleCommits ==
  ASSUME WalletInv, NEW s \in Sales, NEW kind \in {"debit", "void", "refund"}, NEW k,
         k = <<s, kind>>, RowsOf(k) = {}, Exists, NEW type, NEW amount \in Int,
         Commit(k, type, amount, None), UNCHANGED WalletCalls
  PROVE  /\ WalletInv' /\ Exists'
         /\ \A j : j # k => RowsOf(j)' = RowsOf(j)
         /\ \E t : t.type = type /\ t.amount = amount /\ RowsOf(k)' = {t}
<1>2. k \notin Keys /\ k # OpeningKey
  BY SaleAssumption
<1>3. BookInv /\ report' = report /\ asked' = asked /\ req' = req
  BY DEF WalletInv, WalletCalls
<1>4. /\ BookInv' /\ Exists'
      /\ \E t : /\ t.key = k /\ t.type = type /\ t.amount = amount /\ t \notin ledger
                /\ ledger' = ledger \cup {t}
  BY <1>2, <1>3, Committed
<1>5. PICK t : /\ t.key = k /\ t.type = type /\ t.amount = amount
               /\ ledger' = ledger \cup {t}
  BY <1>4
<1>6. \A j : j # k => RowsOf(j)' = RowsOf(j)
  BY <1>5 DEF RowsOf
<1>7. RowsOf(k)' = {t}
  BY <1>5 DEF RowsOf
<1>8. OpeningRow \in ledger' => OpeningRow \in ledger
  BY <1>2, <1>5 DEF OpeningRow
<1>9. ASSUME NEW w \in Workers PROVE ReqKnows(req[w])'
  <2>1. ReqKnows(req[w])
    BY DEF WalletInv
  <2> QED
    BY <1>2, <1>3, <1>4, <1>6, <1>8, <2>1 DEF ReqKnows, OpeningRow
<1>10. WalletInv'
  BY <1>3, <1>4, <1>9 DEF WalletInv, Bodies, ReqShape, OneEach
<1> QED
  BY <1>4, <1>5, <1>6, <1>7, <1>10

\* The rows of the sale itself: made, indexed, marked.
LEMMA SaleStores ==
  ASSUME OneTill, WalletInv, SaleInv, NEW c \in Clerks, CreateSale(c) \/ IndexSale(c) \/ MarkSale(c)
  PROVE  WalletInv' /\ SaleInv'
<1>1. PICK q : q = sreq[c]
  OBVIOUS
<1>2. ClerkKnows(q) /\ UNCHANGED walletVars /\ q.pc \in {"create", "index", "mark"}
  BY <1>1 DEF SaleInv, CreateSale, IndexSale, MarkSale, AtS
<1>3. PICK s : s \in Sales /\ s = q.sale
  BY <1>2 DEF ClerkKnows
<1>4. SaleBook(s) /\ SaleShape
  BY <1>3 DEF SaleInv
<1>5. (\A k : RowsOf(k)' = RowsOf(k)) /\ (\A r : UndoRows(r)' = UndoRows(r))
  BY <1>2 DEF walletVars, RowsOf, UndoRows
<1> DEFINE to(pc) == [pc |-> pc, op |-> q.op, sale |-> s, back |-> q.back]
<1>6. ASSUME NEW pc, GotoS(c, pc) PROVE ClerkIs(c, to(pc))
  BY <1>1, <1>3, <1>6, SaleGoes
<1>7. CASE CreateSale(c)
  <2>1. /\ q.pc = "create" /\ sales' = [sales EXCEPT ![s] = "active"]
        /\ sold' = [sold EXCEPT ![s] = @ + 1] /\ GotoS(c, "index") /\ indexed' = indexed
    BY <1>1, <1>3, <1>7 DEF CreateSale, SaleOf, AtS
  <2>2. s \notin indexed /\ UndoRows(s) = {}
    BY <1>2, <1>3, <1>4, <2>1 DEF ClerkKnows, SaleBook
  <2>3. sold'[s] \in Nat /\ sold'[s] >= 1
    BY <1>3, <1>4, <2>1 DEF SaleShape, SaleBook
  <2>4. ASSUME NEW r \in Sales PROVE SaleBook(r)'
    <3>1. CASE r = s
      BY <1>4, <1>5, <2>1, <2>2, <2>3, <3>1 DEF SaleBook
    <3>2. CASE r # s
      <4>1. SaleBook(r) /\ sold'[r] = sold[r] /\ sales'[r] = sales[r]
        BY <1>4, <2>1, <3>2 DEF SaleInv, SaleShape
      <4> QED
        BY <1>5, <2>1, <4>1 DEF SaleBook
    <3> QED
      BY <3>1, <3>2
  <2>5. ClerkIs(c, to("index")) /\ ClerkKnows(to("index"))'
    BY <1>3, <1>6, <2>1, <2>2, <2>3 DEF ClerkKnows
  <2>6. sales' = [r \in Sales |-> sales'[r]] /\ sold' = [r \in Sales |-> sold'[r]]
    BY <1>4, <2>1 DEF SaleShape
  <2> HIDE DEF to
  <2> QED
    BY <1>2, <2>4, <2>5, <2>6, SaleKeeps, WalletIdles
<1>8. CASE IndexSale(c)
  <2>1. /\ q.pc = "index" /\ sales' = sales /\ sold' = sold /\ GotoS(c, "findWallet")
        /\ indexed' = indexed \cup {s}
    BY <1>1, <1>3, <1>8 DEF IndexSale, SaleOf, AtS
  <2>2. RowsOf(<<s, "debit">>) = {} /\ sold[s] >= 1
    BY <1>2, <1>3, <1>4, <2>1 DEF ClerkKnows, SaleBook
  <2>3. ASSUME NEW r \in Sales PROVE SaleBook(r)'
    <3>1. SaleBook(r)
      BY DEF SaleInv
    <3> QED
      BY <1>5, <2>1, <2>2, <3>1 DEF SaleBook
  <2>4. ClerkIs(c, to("findWallet"))
    BY <1>6, <2>1
  <2>5. ClerkKnows(to("findWallet"))'
    BY <1>3, <1>5, <2>1, <2>2 DEF ClerkKnows
  <2>6. sales' = [r \in Sales |-> sales'[r]] /\ sold' = [r \in Sales |-> sold'[r]]
    BY <1>4, <2>1 DEF SaleShape
  <2> HIDE DEF to
  <2> QED
    BY <1>2, <2>3, <2>4, <2>5, <2>6, SaleKeeps, WalletIdles
<1>9. CASE MarkSale(c)
  <2>1. PICK status \in {"voided", "refunded"} :
          /\ q.pc = "mark" /\ sales' = [sales EXCEPT ![s] = status] /\ sold' = sold
          /\ GotoS(c, "sumDebits") /\ indexed' = indexed
    BY <1>1, <1>3, <1>9 DEF MarkSale, SaleOf, AtS
  <2>2. UndoRows(s) = {}
    BY <1>2, <1>3, <2>1 DEF ClerkKnows
  <2>3. sales'[s] # "active" /\ \A r \in Sales : r # s => sales'[r] = sales[r]
    BY <1>3, <1>4, <2>1 DEF SaleShape
  <2>4. ASSUME NEW r \in Sales PROVE SaleBook(r)'
    <3>1. SaleBook(r)
      BY DEF SaleInv
    <3> QED
      BY <1>5, <2>1, <2>2, <2>3, <3>1 DEF SaleBook
  <2>5. ClerkIs(c, to("sumDebits"))
    BY <1>6, <2>1
  <2>6. ClerkKnows(to("sumDebits"))'
    BY <1>3, <1>5, <2>1, <2>2, <2>3 DEF ClerkKnows
  <2>7. sales' = [r \in Sales |-> sales'[r]] /\ sold' = [r \in Sales |-> sold'[r]]
    BY <1>4, <2>1 DEF SaleShape
  <2> HIDE DEF to
  <2> QED
    BY <1>2, <2>4, <2>5, <2>6, <2>7, SaleKeeps, WalletIdles
<1> QED
  BY <1>7, <1>8, <1>9

\* The rows of the ledger: a sale's debit, and what is given back of it.
LEMMA SaleCharges ==
  ASSUME OneTill, WalletInv, SaleInv, NEW c \in Clerks, DebitForSale(c)
  PROVE  WalletInv' /\ SaleInv'
<1>1. PICK q : q = sreq[c]
  OBVIOUS
<1>2. /\ ClerkKnows(q) /\ q.pc = "debit"
      /\ UNCHANGED WalletCalls /\ UNCHANGED <<sales, sold, indexed>>
  BY <1>1 DEF SaleInv, DebitForSale, AtS
<1>3. PICK s : s \in Sales /\ s = q.sale
  BY <1>2 DEF ClerkKnows
<1>4. CASE EndS(c) /\ UNCHANGED <<wallet, ledger, lately>>
  BY <1>2, <1>4, SaleReads DEF walletVars, WalletCalls
<1>5. CASE Commit(<<s, "debit">>, "debit", -TierPrice, None) /\ GotoS(c, "audit")
  <2>1. s \in indexed /\ RowsOf(<<s, "debit">>) = {} /\ Exists /\ -TierPrice \in Int
    BY <1>2, <1>3, SaleAssumption DEF ClerkKnows
  <2>3. PICK amount, key : amount = -TierPrice /\ key = <<s, "debit">>
    OBVIOUS
  <2>2. /\ WalletInv' /\ Exists'
        /\ \A j : j # key => RowsOf(j)' = RowsOf(j)
        /\ \E t : t.type = "debit" /\ t.amount = amount /\ RowsOf(key)' = {t}
    BY <1>2, <1>3, <1>5, <2>1, <2>3, SaleCommits
  <2>4. PICK t : t.type = "debit" /\ t.amount = amount /\ RowsOf(<<s, "debit">>)' = {t}
    BY <2>2, <2>3
  <2>5. \A r \in Sales : /\ UndoRows(r)' = UndoRows(r)
                         /\ r # s => RowsOf(<<r, "debit">>)' = RowsOf(<<r, "debit">>)
    BY <2>2, <2>3 DEF UndoRows
  <2>6. ASSUME NEW r \in Sales PROVE SaleBook(r)'
    <3>1. SaleBook(r)
      BY DEF SaleInv
    <3>2. CASE r # s
      BY <1>2, <2>5, <3>1, <3>2 DEF SaleBook
    <3>3. CASE r = s
      BY <1>2, <2>1, <2>3, <2>4, <2>5, <3>1, <3>3 DEF SaleBook
    <3> QED
      BY <3>2, <3>3
  <2> DEFINE to == [pc |-> "audit", op |-> q.op, sale |-> s, back |-> q.back]
  <2>7. ClerkIs(c, to) /\ ClerkKnows(to)'
    BY <1>1, <1>3, <1>5, SaleGoes DEF ClerkKnows
  <2>8. sales' = [r \in Sales |-> sales'[r]] /\ sold' = [r \in Sales |-> sold'[r]]
    BY <1>2 DEF SaleInv, SaleShape
  <2> HIDE DEF to
  <2> QED
    BY <2>2, <2>6, <2>7, <2>8, SaleKeeps
<1> QED
  BY <1>1, <1>3, <1>4, <1>5 DEF DebitForSale, SaleOf

LEMMA SaleGivesBack ==
  ASSUME OneTill, WalletInv, SaleInv, NEW c \in Clerks, sreq[c].op \in {"void", "refund"}, GiveBack(c)
  PROVE  WalletInv' /\ SaleInv'
<1>1. PICK q : q = sreq[c]
  OBVIOUS
<1>2. /\ ClerkKnows(q) /\ q.pc = "giveBack" /\ q.op \in {"void", "refund"}
      /\ UNCHANGED WalletCalls /\ UNCHANGED <<sales, sold, indexed>>
  BY <1>1 DEF SaleInv, GiveBack, AtS
<1>3. PICK s, kind : s \in Sales /\ s = q.sale /\ kind \in {"void", "refund"} /\ kind = q.op
  BY <1>2 DEF ClerkKnows
<1>4. PICK back \in Int : back = q.back /\ back <= TierPrice
  BY <1>2 DEF ClerkKnows
<1>5. /\ UndoRows(s) = {} /\ RowsOf(<<s, "debit">>) # {} /\ sales[s] # "active" /\ Exists
  BY <1>2, <1>3 DEF ClerkKnows
<1>6. RowsOf(<<s, kind>>) = {}
  BY <1>3, <1>5 DEF UndoRows
<1>7. Commit(<<s, kind>>, "refund", back, None) /\ GotoS(c, "audit")
  BY <1>1, <1>3, <1>4 DEF GiveBack, SaleOf
<1>15. PICK key : key = <<s, kind>>
  OBVIOUS
<1>16. /\ WalletInv' /\ Exists'
       /\ \A j : j # key => RowsOf(j)' = RowsOf(j)
       /\ \E t : t.type = "refund" /\ t.amount = back /\ RowsOf(key)' = {t}
  BY <1>2, <1>3, <1>5, <1>6, <1>7, <1>15, SaleCommits
<1>8. /\ WalletInv' /\ Exists'
      /\ \A k : k # <<s, kind>> => RowsOf(k)' = RowsOf(k)
  BY <1>15, <1>16
<1>9. PICK t : t.amount = back /\ RowsOf(<<s, kind>>)' = {t}
  BY <1>15, <1>16
<1>10. /\ \A r \in Sales : RowsOf(<<r, "debit">>)' = RowsOf(<<r, "debit">>)
       /\ \A r \in Sales : r # s => UndoRows(r)' = UndoRows(r)
  BY <1>3, <1>8 DEF UndoRows
<1>11. UndoRows(s)' = {t}
  <2>1. ASSUME NEW other \in {"void", "refund"}, other # kind PROVE RowsOf(<<s, other>>)' = {}
    BY <1>5, <1>8, <2>1 DEF UndoRows
  <2> QED
    BY <1>3, <1>9, <2>1 DEF UndoRows
<1>12. ASSUME NEW r \in Sales PROVE SaleBook(r)'
  <2>1. SaleBook(r)
    BY DEF SaleInv
  <2>2. CASE r # s
    BY <1>2, <1>10, <2>1, <2>2 DEF SaleBook
  <2>3. CASE r = s
    BY <1>2, <1>4, <1>5, <1>9, <1>10, <1>11, <2>1, <2>3 DEF SaleBook
  <2> QED
    BY <2>2, <2>3
<1> DEFINE to == [pc |-> "audit", op |-> q.op, sale |-> s, back |-> q.back]
<1>13. ClerkIs(c, to) /\ ClerkKnows(to)'
  BY <1>1, <1>3, <1>7, SaleGoes DEF ClerkKnows
<1>14. sales' = [r \in Sales |-> sales'[r]] /\ sold' = [r \in Sales |-> sold'[r]]
  BY <1>2 DEF SaleInv, SaleShape
<1> HIDE DEF to
<1> QED
  BY <1>8, <1>12, <1>13, <1>14, SaleKeeps

\* Every step of the sales, and of the wallet beside them.
LEMMA SalesGo ==
  ASSUME OneTill, WalletInv, SaleInv, Next
  PROVE  WalletInv' /\ SaleInv'
<1>1. CASE WalletNext /\ UNCHANGED saleVars
  BY <1>1, WalletGoes, SalesStay
<1>2. CASE \E c \in Clerks, s \in Sales : SalePosted(c, s)
  BY <1>2, SaleArrives
<1>3. ASSUME NEW c \in Clerks,
             CreateWalkIn(c) \/ CreateDineIn(c) \/ VoidSale(c) \/ RefundSale(c) \/ DieSale(c)
      PROVE  WalletInv' /\ SaleInv'
  <2>1. CASE \/ FindByKey(c) \/ FindWallet(c) \/ FindSale(c) \/ SumDebits(c) \/ CheckWallet(c)
             \/ Audit(c) \/ DieSale(c)
    BY <2>1, SaleLooks
  <2>2. CASE CreateSale(c) \/ IndexSale(c) \/ MarkSale(c)
    BY <2>2, SaleStores
  <2>3. CASE DebitForSale(c)
    BY <2>3, SaleCharges
  <2>4. CASE GiveBack(c) /\ sreq[c].op \in {"void", "refund"}
    BY <2>4, SaleGivesBack
  <2> QED
    BY <1>3, <2>1, <2>2, <2>3, <2>4
       DEF CreateWalkIn, CreateDineIn, VoidSale, RefundSale, Creating, Undoing
<1> QED
  BY <1>1, <1>2, <1>3 DEF Next, SaleNext

\* The invariant of the wallet and of the sales.  Two tills break it: a sale asked for
\* as a walk-in and as a dine-in under one key at the same time debits twice.
MoneyInv == part # "sales" \/ OneTill => WalletInv /\ SaleInv

LEMMA MoneyStarts == DoorInit => MoneyInv
<1> SUFFICES ASSUME DoorInit PROVE WalletInv /\ SaleInv
  BY DEF MoneyInv
<1>1. Init
  BY DEF DoorInit
<1>2. WalletInv
  BY <1>1, WalletStarts DEF Init
<1>3. ledger = {} \/ ledger = {OpeningRow}
  BY <1>1 DEF Init, WalletInit
<1>4. \A s \in Sales, kind \in {"debit", "void", "refund"} : RowsOf(<<s, kind>>) = {}
  BY <1>3, SaleAssumption DEF RowsOf, OpeningRow
<1>5. \A s \in Sales : SaleBook(s)
  BY <1>1, <1>4 DEF Init, SaleBook, UndoRows
<1>6. \A c \in Clerks : sreq[c] = NoSale
  BY <1>1 DEF Init
<1>7. ClerkKnows(NoSale)
  BY DEF ClerkKnows, NoSale
<1> QED
  BY <1>1, <1>2, <1>5, <1>6, <1>7 DEF SaleInv, SaleShape, Init

LEMMA MoneyGoes == MoneyInv /\ [DoorNext]_doorVars => MoneyInv'
<1> SUFFICES ASSUME MoneyInv, [DoorNext]_doorVars, part' # "sales" \/ OneTill
             PROVE  WalletInv' /\ SaleInv'
  BY DEF MoneyInv, OneTill
<1>1. part' = part
  BY DEF DoorNext, doorVars
<1>2. WalletInv /\ SaleInv
  BY <1>1 DEF MoneyInv
<1>3. CASE UNCHANGED vars
  <2>1. UNCHANGED walletVars /\ UNCHANGED saleVars
    BY <1>3 DEF vars, walletVars, saleVars
  <2>2. SaleRowsStay
    BY <2>1 DEF walletVars, SaleRowsStay, Exists, RowsOf
  <2> QED
    BY <1>2, <2>1, <2>2, WalletIdles, SalesStay
<1>4. CASE part = "wallet" /\ WalletNext /\ UNCHANGED saleVars
  BY <1>2, <1>4, WalletGoes, SalesStay
<1>5. CASE part = "sales" /\ Next
  BY <1>1, <1>2, <1>5, SalesGo
<1> QED
  BY <1>3, <1>4, <1>5 DEF DoorNext, doorVars

\* However requests to the wallet interleave, die and are sent again, and those of a
\* till beside them, a key moves the balance once, and the balance is what the rows
\* say came in and went out (CoverWallet's MovedOnce, for any keys and amounts).
THEOREM WalletMovesOnce == DoorSpec => [](part # "sales" \/ OneTill => MovedOnce)
<1>1. MoneyInv => (part # "sales" \/ OneTill => MovedOnce)
  <2> SUFFICES ASSUME WalletInv PROVE MovedOnce
    BY DEF MoneyInv
  <2>1. BookInv
    BY DEF WalletInv
  <2>2. ASSUME NEW k \in TxnKeys PROVE Cardinality(RowsOf(k)) <= 1
    <3>1. CASE RowsOf(k) = {}
      BY <3>1, FS_EmptySet
    <3>2. CASE RowsOf(k) # {}
      <4>1. PICK t : RowsOf(k) = {t}
        BY <2>1, <3>2 DEF BookInv, RowsOf
      <4>2. Cardinality({t}) = 1
        BY FS_Singleton
      <4> QED
        BY <4>1, <4>2
    <3> QED
      BY <3>1, <3>2
  <2>3. ASSUME OpeningRow \in ledger PROVE GetEventStats.netFlow = wallet.balance
    <3> DEFINE rest == ledger \ {OpeningRow}
    <3>1. OpeningRow.amount = Opening /\ Opening \in Int
      BY WalletAssumption DEF OpeningRow
    <3>2. Amounted(rest) /\ OpeningRow \notin rest /\ ledger = rest \cup {OpeningRow}
      BY <2>1, <2>3, FS_Subset DEF BookInv, Amounted
    <3>3. wallet.balance = Opening + Total(rest)
      BY <2>1, <2>3 DEF BookInv
    <3> HIDE DEF rest
    <3>4. Total(rest) \in Int /\ Total(ledger) = Total(rest) + Opening
      BY <3>1, <3>2, TotalTakes
    <3> QED
      BY <3>1, <3>3, <3>4 DEF GetEventStats
  <2> QED
    BY <2>2, <2>3 DEF MovedOnce
<1> QED
  BY <1>1, MoneyStarts, MoneyGoes, PTL DEF DoorSpec

\* A sum of terms that are at most k times others' is at most k times theirs.
LEMMA SumScales ==
  ASSUME NEW S, IsFiniteSet(S), NEW w, NEW v, NEW k \in Nat,
         \A x \in S : w[x] \in Int /\ v[x] \in Int /\ w[x] <= v[x] * k
  PROVE  Sum(w, S) <= Sum(v, S) * k
<1> DEFINE good == {T \in SUBSET S : Sum(w, T) <= Sum(v, T) * k}
<1>1. ASSUME NEW T \in SUBSET S, \A R \in SUBSET T : R # T => R \in good
      PROVE  T \in good
  <2>0. IsFiniteSet(T)
    <3> HIDE DEF good
    <3> QED
      BY FS_Subset
  <2>1. CASE T = {}
    <3>1. Sum(w, {}) = 0 /\ Sum(v, {}) = 0
      BY <2>0, SumTakes
    <3> QED
      BY <2>1, <3>1
  <2>2. CASE T # {}
    <3>1. PICK x : x \in T
      BY <2>2
    <3>2. Sum(w, T \ {x}) <= Sum(v, T \ {x}) * k
      BY <1>1, <3>1
    <3>3. /\ Sum(w, T \ {x}) \in Int /\ Sum(w, T) = w[x] + Sum(w, T \ {x})
          /\ Sum(v, T \ {x}) \in Int /\ Sum(v, T) = v[x] + Sum(v, T \ {x})
      <4> HIDE DEF good
      <4> QED
        BY <2>0, <3>1, SumSplits
    <3>4. PICK a \in Int, b \in Int, c \in Int, d \in Int :
            a = w[x] /\ b = v[x] /\ c = Sum(w, T \ {x}) /\ d = Sum(v, T \ {x})
      BY <3>1, <3>3
    <3>5. a <= b * k /\ c <= d * k
      BY <3>1, <3>2, <3>4
    <3>6. a + c <= (b + d) * k
      BY <3>5
    <3> QED
      BY <3>3, <3>4, <3>6
  <2> QED
    BY <2>1, <2>2
<1>2. \A T \in SUBSET S : T \in good
  <2>1. \A T \in SUBSET S : (\A R \in SUBSET T : R # T => R \in good) => T \in good
    BY <1>1
  <2> HIDE DEF good
  <2> QED
    BY <2>1, SubsetsAllIn
<1> QED
  BY <1>2

LEMMA DebitedSum == MapThenSumSet(Debited, Sales) = Sum([s \in Sales |-> Debited(s)], Sales)
<1> DEFINE w == [s \in Sales |-> Debited(s)]
           folds(g) == g = [s \in SUBSET Sales |->
                         IF s = {} THEN 0
                         ELSE Debited(CHOOSE x \in s : TRUE) + g[s \ {CHOOSE x \in s : TRUE}]]
           fold == CHOOSE g : folds(g)
<1>1. MapThenSumSet(Debited, Sales) = fold[Sales]
  BY DEF MapThenSumSet, MapThenFoldSet
<1>2. ASSUME NEW s \in SUBSET Sales, s # {}
      PROVE  w[Pick(s)] = Debited(CHOOSE x \in s : TRUE)
  BY <1>2 DEF Pick
<1> HIDE DEF w
<1>3. ASSUME NEW g PROVE Sums(g, w, Sales) <=> folds(g)
  BY <1>2 DEF Sums, Pick
<1> HIDE DEF folds
<1>4. PICK h : Sums(h, w, Sales)
  BY SumsExist, SaleAssumption
<1>5. folds(fold)
  BY <1>3, <1>4
<1> HIDE DEF fold
<1> QED
  BY <1>1, <1>3, <1>5, SumOf, SaleAssumption DEF w

LEMMA SoldSum == MapThenSumSet(LAMBDA s : sold[s], Sales) = Sum([s \in Sales |-> sold[s]], Sales)
<1> DEFINE w == [s \in Sales |-> sold[s]]
           folds(g) == g = [s \in SUBSET Sales |->
                         IF s = {} THEN 0
                         ELSE sold[CHOOSE x \in s : TRUE] + g[s \ {CHOOSE x \in s : TRUE}]]
           fold == CHOOSE g : folds(g)
<1>1. MapThenSumSet(LAMBDA s : sold[s], Sales) = fold[Sales]
  BY DEF MapThenSumSet, MapThenFoldSet
<1>2. ASSUME NEW s \in SUBSET Sales, s # {}
      PROVE  w[Pick(s)] = sold[CHOOSE x \in s : TRUE]
  BY <1>2 DEF Pick
<1> HIDE DEF w
<1>3. ASSUME NEW g PROVE Sums(g, w, Sales) <=> folds(g)
  BY <1>2 DEF Sums, Pick
<1> HIDE DEF folds
<1>4. PICK h : Sums(h, w, Sales)
  BY SumsExist, SaleAssumption
<1>5. folds(fold)
  BY <1>3, <1>4
<1> HIDE DEF fold
<1> QED
  BY <1>1, <1>3, <1>5, SumOf, SaleAssumption DEF w

\* A void or a refund gives back no more than the wallet was debited for its sale,
\* and the debits are in the revenue the event's statistics show, for any sales and
\* prices, whatever dies on the way (DoorSales' RefundsNeedDebits).
THEOREM RefundsAreCovered == DoorSpec => [](part # "sales" \/ OneTill => RefundsNeedDebits)
<1>1. MoneyInv => (part # "sales" \/ OneTill => RefundsNeedDebits)
  <2> SUFFICES ASSUME WalletInv, SaleInv PROVE RefundsNeedDebits
    BY DEF MoneyInv
  <2>1. \A s \in Sales : /\ SaleBook(s)
                         /\ Debited(s) = IF RowsOf(<<s, "debit">>) = {} THEN 0 ELSE TierPrice
    BY DebitedIs DEF SaleInv
  <2>2. TierPrice \in Nat /\ IsFiniteSet(Sales)
    BY SaleAssumption
  <2>3. ASSUME NEW s \in Sales PROVE GivenBack(s) <= Debited(s)
    <3>1. /\ SaleBook(s) /\ GivenBack(s) = Total(UndoRows(s))
          /\ \A t \in UndoRows(s) : t.amount \in Int
      BY <2>1 DEF GivenBack, UndoRows, WalletInv, BookInv, Amounted, RowsOf
    <3>2. /\ UndoRows(s) = {} => Total(UndoRows(s)) = 0
          /\ \A t \in UndoRows(s) : Total(UndoRows(s)) = t.amount
      <4>1. \A t, u \in UndoRows(s) : t = u
        BY <3>1 DEF SaleBook
      <4> QED
        BY <3>1, <4>1, TotalOfOne
    <3>3. CASE UndoRows(s) = {}
      <4>1. Debited(s) \in {0, TierPrice}
        BY <2>1
      <4>2. GivenBack(s) = 0
        BY <3>1, <3>2, <3>3
      <4> QED
        BY <2>2, <4>1, <4>2
    <3>4. CASE UndoRows(s) # {}
      <4>1. PICK t \in UndoRows(s) : t.amount <= TierPrice
        BY <3>1, <3>4 DEF SaleBook
      <4>2. Debited(s) = TierPrice
        BY <2>1, <3>1, <3>4 DEF SaleBook
      <4> QED
        BY <3>1, <3>2, <4>1, <4>2
    <3> QED
      BY <3>3, <3>4
  <2>4. MapThenSumSet(Debited, Sales) <= DoorSaleStats.totalRevenue
    <3> DEFINE w == [s \in Sales |-> Debited(s)]
               v == [s \in Sales |-> sold[s]]
    <3>1. ASSUME NEW s \in Sales PROVE w[s] \in Int /\ v[s] \in Int /\ w[s] <= v[s] * TierPrice
      <4>1. sold[s] \in Nat /\ (RowsOf(<<s, "debit">>) # {} => sold[s] >= 1)
        BY <2>1 DEF SaleBook
      <4>2. PICK n \in Nat : n = sold[s]
        BY <4>1
      <4>3. n * TierPrice \in Nat /\ (n >= 1 => TierPrice <= n * TierPrice)
        BY <2>2
      <4> QED
        BY <2>1, <2>2, <4>1, <4>2, <4>3
    <3>2. Sum(w, Sales) <= Sum(v, Sales) * TierPrice
      <4> HIDE DEF w, v
      <4> QED
        BY <2>2, <3>1, SumScales
    <3>3. MapThenSumSet(Debited, Sales) = Sum(w, Sales)
      BY DebitedSum
    <3>4. DoorSaleStats.totalRevenue = Sum(v, Sales) * TierPrice
      BY SoldSum DEF DoorSaleStats
    <3> HIDE DEF w, v
    <3> QED
      BY <3>2, <3>3, <3>4
  <2> QED
    BY <2>3, <2>4 DEF RefundsNeedDebits
<1> QED
  BY <1>1, MoneyStarts, MoneyGoes, PTL DEF DoorSpec

---------------------------------------------------------------------------
(* Shifts: devices, sessions and the calls that change or use them.        *)

\* What a call knows of its device and of the sessions it is to end.  A driver that
\* checks the version of every row it stores keeps a row that was read apart from
\* every later one.
CallKnows(q) ==
  /\ q.pc \in {"readDevice", "saveDevice", "readCode", "expireCode", "count", "replace", "create",
               "auth", "bound", "claim"} => q.device \in ShiftDevices
  /\ q.pc = "replace" => q.session \in Sessions /\ session[q.session].state # "none"
  /\ q.pc = "saveDevice" /\ q.op \in {"bind", "start"} => q.read.status # "unbound"
  /\ Driver = "memory" /\ q.pc \in {"saveDevice", "auth", "bound", "claim"} =>
       /\ q.read.version <= device[q.device].version
       /\ q.read.version = device[q.device].version => device[q.device] = q.read
  /\ Driver = "memory" /\ q.pc = "claim" /\ q.op = "scan" /\ q.read.status = "unbound" =>
       q.read.version # device[q.device].version
  /\ q.pc \in {"list", "revoke"} => \A s \in q.must : session[s].state # "none"
  /\ q.pc = "list" /\ q.op = "unbind" => \A s \in q.must : session[s].device = q.device
  /\ q.pc = "revoke" => /\ \A s \in q.todo : session[s].state # "none"
                        /\ \A s \in q.must : session[s].state = "live" => s \in q.todo

ShiftInv ==
  /\ Shift!TypeOK
  /\ \A d \in ShiftDevices : device[d].version = 0 => device[d].status = "none"
  /\ \A s \in ended : session[s].state \notin {"none", "live"}
  /\ \A k \in Calls : CallKnows(call[k])

\* Versions only grow, and an opened session stays its device's and, once over, over.
RowsGrow ==
  /\ device' \in [ShiftDevices -> Shift!Device] /\ session' \in [Sessions -> Shift!Session]
  /\ \A d \in ShiftDevices :
       \/ device'[d] = device[d]
       \/ /\ device'[d].version # 0
          /\ Driver = "memory" => device'[d].version > device[d].version
  /\ \A s \in Sessions :
       session[s].state # "none" =>
         /\ session'[s].state # "none" /\ session'[s].device = session[s].device
         /\ session[s].state # "live" => session'[s].state # "live"

LEMMA CallsKeep ==
  ASSUME ShiftInv, RowsGrow, NEW q \in Shift!Call, CallKnows(q)
  PROVE  CallKnows(q)'
<1>1. /\ device \in [ShiftDevices -> Shift!Device] /\ session \in [Sessions -> Shift!Session]
      /\ q.read \in Shift!Device /\ q.must \subseteq Sessions /\ q.todo \subseteq Sessions
  BY DEF ShiftInv, Shift!TypeOK, Shift!Call
<1>2. q.device \in ShiftDevices => /\ device[q.device] \in Shift!Device
                                   /\ device'[q.device] \in Shift!Device
  BY <1>1 DEF RowsGrow
<1>3. ASSUME NEW d \in ShiftDevices, Driver = "memory", q.read.version <= device[d].version,
             q.read.version = device[d].version => device[d] = q.read
      PROVE  /\ q.read.version <= device'[d].version
             /\ q.read.version = device'[d].version => device'[d] = q.read
             /\ q.read.version # device[d].version => q.read.version # device'[d].version
  <2>1. q.read.version \in Nat /\ device[d].version \in Nat /\ device'[d].version \in Nat
    BY <1>1 DEF RowsGrow, Shift!Device
  <2> QED
    BY <1>3, <2>1 DEF RowsGrow
<1>4. \A s \in q.must \cup q.todo : session[s].state # "none" =>
        /\ session'[s].state # "none" /\ session'[s].device = session[s].device
        /\ session[s].state # "live" => session'[s].state # "live"
  BY <1>1 DEF RowsGrow
<1>5. \A s \in Sessions : session[s].state # "none" => session'[s].state # "none"
  BY DEF RowsGrow
<1> QED
  BY <1>1, <1>3, <1>4, <1>5 DEF CallKnows

\* A step of one call, by what it makes of the call and of the rows.
LEMMA ShiftKeeps ==
  ASSUME ShiftInv, RowsGrow, NEW k \in Calls, NEW q \in Shift!Call, Shift!Set(k, q), CallKnows(q)',
         code' \in Shift!Code, late' \in BOOLEAN, closed' \in BOOLEAN, ended' \subseteq Sessions,
         \A s \in ended' : s \in ended \/ session'[s].state \notin {"none", "live"},
         \A d \in ShiftDevices : device'[d].version = 0 => device'[d].status = "none"
  PROVE  ShiftInv'
<1>1. call \in [Calls -> Shift!Call] /\ ended \subseteq Sessions
  BY DEF ShiftInv, Shift!TypeOK
<1>2. call' \in [Calls -> Shift!Call] /\ call'[k] = q /\ \A j \in Calls : j # k => call'[j] = call[j]
  BY <1>1 DEF Shift!Set
<1>3. Shift!TypeOK'
  BY <1>2 DEF Shift!TypeOK, RowsGrow
<1>4. ASSUME NEW j \in Calls PROVE CallKnows(call[j])'
  <2>1. PICK p \in Shift!Call : p = call[j] /\ CallKnows(p)
    BY <1>1 DEF ShiftInv
  <2>2. CallKnows(p)'
    BY <2>1, CallsKeep
  <2>3. call'[j] = IF j = k THEN q ELSE p
    BY <1>2, <2>1
  <2> QED
    BY <2>2, <2>3
<1>5. \A s \in ended' : session'[s].state \notin {"none", "live"}
  <2>1. \A s \in ended : session'[s].state \notin {"none", "live"}
    BY <1>1 DEF ShiftInv, RowsGrow
  <2> QED
    BY <2>1
<1> QED
  BY <1>3, <1>4, <1>5 DEF ShiftInv

LEMMA RowsStay ==
  ASSUME ShiftInv, UNCHANGED <<device, session>>
  PROVE  RowsGrow /\ \A d \in ShiftDevices : device'[d].version = 0 => device'[d].status = "none"
BY DEF ShiftInv, RowsGrow, Shift!TypeOK

\* The same of a step that leaves the rows alone.
LEMMA ShiftReads ==
  ASSUME ShiftInv, UNCHANGED <<device, session, closed, ended, late>>, code' \in Shift!Code,
         NEW k \in Calls, NEW q \in Shift!Call, Shift!Set(k, q), CallKnows(q)
  PROVE  ShiftInv'
<1>1. RowsGrow /\ \A d \in ShiftDevices : device'[d].version = 0 => device'[d].status = "none"
  BY RowsStay
<1>2. CallKnows(q)'
  BY <1>1, CallsKeep
<1>3. late' \in BOOLEAN /\ closed' \in BOOLEAN /\ ended' \subseteq Sessions /\ ended' = ended
  BY DEF ShiftInv, Shift!TypeOK
<1> QED
  BY <1>1, <1>2, <1>3, ShiftKeeps

LEMMA CallRows ==
  /\ Shift!Idle \in Shift!Call /\ Shift!Finished \in Shift!Call
  /\ Shift!Finished.pc = "done" /\ Shift!NoDevice \in Shift!Device
BY DEF Shift!Idle, Shift!Finished, Shift!Call, Shift!Device, Shift!NoDevice

\* A call is made.
LEMMA ShiftPosts ==
  ASSUME ShiftInv, NEW k \in Calls, Shift!Posted(k)
  PROVE  ShiftInv'
<1>0. Requests \subseteq Shift!Kinds
  BY DoorAssumption DEF Shift!ShiftAssumption
<1>1. ASSUME NEW op, NEW c, Shift!Arrives(k, op, c), c \in Shift!Call,
             op \in Shift!Kinds => CallKnows([c EXCEPT !.op = op])
      PROVE  ShiftInv'
  <2>1. op \in Shift!Kinds /\ UNCHANGED <<code, device, session, closed, ended, late>>
    BY <1>0, <1>1 DEF Shift!Arrives, Shift!Begin
  <2> DEFINE q == [c EXCEPT !.op = op]
  <2>2. Shift!Set(k, q) /\ CallKnows(q)
    BY <1>1, <2>1 DEF Shift!Arrives
  <2>3. q \in Shift!Call
    BY <1>1, <2>1 DEF Shift!Call
  <2>4. code' \in Shift!Code
    BY <2>1 DEF ShiftInv, Shift!TypeOK
  <2> HIDE DEF q
  <2> QED
    BY <2>1, <2>2, <2>3, <2>4, ShiftReads
<1>2. ASSUME NEW op, NEW d \in ShiftDevices, Shift!PostOnDevice(k, op, d) PROVE ShiftInv'
  <2> DEFINE c == [Shift!Idle EXCEPT !.pc = "readDevice", !.device = d]
  <2>1. c \in Shift!Call /\ Shift!Arrives(k, op, c)
    BY <1>2 DEF Shift!PostOnDevice, Shift!Idle, Shift!Call, Shift!Device, Shift!NoDevice
  <2>2. CallKnows([c EXCEPT !.op = op])
    BY DEF CallKnows, Shift!Idle
  <2> HIDE DEF c
  <2> QED
    BY <1>1, <2>1, <2>2
<1>3. ASSUME NEW op, NEW s \in Sessions, session[s].state # "none",
             Shift!Arrives(k, op, [Shift!Idle EXCEPT !.pc = "auth", !.session = s, !.device = session[s].device,
                                     !.read = device[session[s].device], !.shut = closed])
      PROVE  ShiftInv'
  <2>1. PICK d : d = session[s].device
    OBVIOUS
  <2>2. d \in ShiftDevices
    BY <1>3, <2>1 DEF ShiftInv, Shift!TypeOK, Shift!Session, Shift!SessionRow
  <2>3. PICK row \in Shift!Device, shut \in BOOLEAN : row = device[d] /\ shut = closed
    BY <2>2 DEF ShiftInv, Shift!TypeOK
  <2> DEFINE c == [Shift!Idle EXCEPT !.pc = "auth", !.session = s, !.device = d, !.read = row, !.shut = shut]
  <2>4. c \in Shift!Call /\ Shift!Arrives(k, op, c)
    BY <1>3, <2>1, <2>2, <2>3 DEF Shift!Idle, Shift!Call, Shift!Device, Shift!NoDevice
  <2>5. CallKnows([c EXCEPT !.op = op])
    BY <2>2, <2>3 DEF CallKnows, Shift!Idle, Shift!Device
  <2> HIDE DEF c
  <2> QED
    BY <1>1, <2>4, <2>5
<1>4. ASSUME NEW op, Shift!PostUse(k, op) PROVE ShiftInv'
  BY <1>3, <1>4 DEF Shift!PostUse
<1>5. ASSUME NEW op, NEW pc \in {"makeCode", "revokeCode"},
             Shift!Arrives(k, op, [Shift!Idle EXCEPT !.pc = pc])
      PROVE  ShiftInv'
  <2> DEFINE c == [Shift!Idle EXCEPT !.pc = pc]
  <2>1. c \in Shift!Call /\ CallKnows([c EXCEPT !.op = op])
    BY DEF CallKnows, Shift!Idle, Shift!Call, Shift!Device, Shift!NoDevice
  <2> HIDE DEF c
  <2> QED
    BY <1>1, <1>5, <2>1 DEF c
<1>6. CASE Shift!PostSessionRevocation(k)
  <2>1. PICK s \in Sessions :
          /\ session[s].state # "none"
          /\ Shift!Arrives(k, "revokeSession", [Shift!Idle EXCEPT !.pc = "revoke", !.todo = {s}, !.must = {s}])
    BY <1>6 DEF Shift!PostSessionRevocation
  <2> DEFINE c == [Shift!Idle EXCEPT !.pc = "revoke", !.todo = {s}, !.must = {s}]
  <2>2. c \in Shift!Call
    BY DEF Shift!Idle, Shift!Call, Shift!Device, Shift!NoDevice
  <2>3. CallKnows([c EXCEPT !.op = "revokeSession"])
    BY <2>1 DEF CallKnows, Shift!Idle
  <2> HIDE DEF c
  <2> QED
    BY <1>1, <2>1, <2>2, <2>3 DEF c
<1> QED
  BY <1>2, <1>4, <1>5, <1>6
     DEF Shift!Posted, Shift!PostDevice, Shift!PostShift, Shift!PostReauthorization,
         Shift!PostUnbinding, Shift!PostCode, Shift!PostCodeRevocation, Shift!PostScan,
         Shift!PostOfflineSync, Shift!PostStaffDeny, Shift!PostHeartbeat, Shift!PostWalletCharge,
         Shift!PostTicketSale

\* The steps that read, and those on the code.
LEMMA ShiftLooks ==
  ASSUME ShiftInv, NEW k \in Calls,
         \/ Shift!ReadDevice(k) \/ Shift!ReadCode(k) \/ Shift!ExpireCode(k) \/ Shift!CountShifts(k)
         \/ Shift!MakeCode(k) \/ (Shift!RevokeCode(k) /\ call[k].op # "unbind")
         \/ Shift!ListSessions(k) \/ Shift!Authenticate(k) \/ Shift!RequireBound(k) \/ Shift!Claim(k)
  PROVE  ShiftInv'
<1>0. PICK c \in Shift!Call : c = call[k]
  BY DEF ShiftInv, Shift!TypeOK
<1>1. CallKnows(c) /\ code \in Shift!Code /\ session \in [Sessions -> Shift!Session]
      /\ device \in [ShiftDevices -> Shift!Device]
  BY <1>0 DEF ShiftInv, Shift!TypeOK
<1>2. UNCHANGED <<device, session, closed, ended, late>>
  BY DEF Shift!ReadDevice, Shift!ReadCode, Shift!ExpireCode, Shift!CountShifts, Shift!MakeCode,
         Shift!RevokeCode, Shift!ListSessions, Shift!Authenticate, Shift!RequireBound, Shift!Claim
<1>3. code' \in Shift!Code
  <2>1. \/ code' = code \/ \E type \in CodeTypes : code' = Shift!Made(type)
        \/ \E status \in {"expired", "revoked"} : Shift!UpdateStatus(status)
    BY DEF Shift!ReadDevice, Shift!ReadCode, Shift!ExpireCode, Shift!CountShifts, Shift!MakeCode,
           Shift!RevokeCode, Shift!ListSessions, Shift!Authenticate, Shift!RequireBound, Shift!Claim
  <2> QED
    BY <1>1, <2>1 DEF Shift!UpdateStatus, Shift!Made, Shift!Code
<1>4. ASSUME NEW q \in Shift!Call, Shift!Set(k, q), CallKnows(q) PROVE ShiftInv'
  BY <1>2, <1>3, <1>4, ShiftReads
<1>5. CASE Shift!Set(k, Shift!Finished)
  <2>1. CallKnows(Shift!Finished)
    BY CallRows DEF CallKnows
  <2> QED
    BY <1>4, <1>5, <2>1, CallRows
<1>6. ASSUME NEW pc \in {"count", "expireCode", "create"}, Shift!Set(k, [c EXCEPT !.pc = pc]),
             c.pc \in {"readCode", "count"}
      PROVE  ShiftInv'
  <2>1. [c EXCEPT !.pc = pc] \in Shift!Call /\ CallKnows([c EXCEPT !.pc = pc])
    BY <1>1, <1>6 DEF Shift!Call, CallKnows
  <2> QED
    BY <1>4, <1>6, <2>1
<1>7. CASE Shift!ReadDevice(k) /\ ~Shift!Set(k, Shift!Finished)
  <2>1. c.pc = "readDevice" /\ c.device \in ShiftDevices
    BY <1>0, <1>1, <1>7 DEF Shift!ReadDevice, CallKnows
  <2>2. PICK row \in Shift!Device : row = device[c.device]
    BY <1>1, <2>1
  <2> DEFINE q == [c EXCEPT !.pc = "saveDevice", !.read = row]
  <2>3. Shift!Set(k, q) /\ ~Shift!Refused(c.op, row)
    BY <1>0, <1>7, <2>2 DEF Shift!ReadDevice
  <2>4. q \in Shift!Call
    BY DEF Shift!Call
  <2>5. CallKnows(q)
    BY <2>1, <2>2, <2>3 DEF CallKnows, Shift!Refused, Shift!Call, Shift!Device
  <2> HIDE DEF q
  <2> QED
    BY <1>4, <2>3, <2>4, <2>5
<1>8. CASE Shift!ReadCode(k) \/ Shift!ExpireCode(k)
  BY <1>0, <1>5, <1>6, <1>8 DEF Shift!ReadCode, Shift!ExpireCode
<1>9. CASE Shift!CountShifts(k)
  <2>1. c.pc = "count" /\ c.device \in ShiftDevices
    BY <1>0, <1>1, <1>9 DEF Shift!CountShifts, CallKnows
  <2>2. CASE \E s \in Shift!LiveOn(c.device) : Shift!Set(k, [c EXCEPT !.pc = "replace", !.session = s])
    <3>1. PICK s \in Sessions : /\ session[s].state # "none"
                                /\ Shift!Set(k, [c EXCEPT !.pc = "replace", !.session = s])
      BY <2>2 DEF Shift!LiveOn, Shift!Live
    <3> DEFINE q == [c EXCEPT !.pc = "replace", !.session = s]
    <3>2. q \in Shift!Call /\ CallKnows(q)
      BY <2>1, <3>1 DEF Shift!Call, CallKnows
    <3> HIDE DEF q
    <3> QED
      BY <1>4, <3>1, <3>2 DEF q
  <2> QED
    BY <1>0, <1>5, <1>6, <1>9, <2>1, <2>2 DEF Shift!CountShifts
<1>10. CASE Shift!MakeCode(k) \/ Shift!Claim(k)
  BY <1>5, <1>10 DEF Shift!MakeCode, Shift!Claim
<1>11. CASE Shift!RevokeCode(k) /\ call[k].op # "unbind"
  <2> DEFINE q == [c EXCEPT !.pc = "list", !.must = Shift!Live]
  <2>1. Shift!Set(k, q) /\ c.op # "unbind"
    BY <1>0, <1>11 DEF Shift!RevokeCode
  <2>2. q \in Shift!Call
    BY DEF Shift!Call, Shift!Live
  <2>3. CallKnows(q)
    BY <2>1 DEF CallKnows, Shift!Call, Shift!Live
  <2> HIDE DEF q
  <2> QED
    BY <1>4, <2>1, <2>2, <2>3
<1>12. CASE Shift!ListSessions(k)
  <2>1. PICK todo : todo = Shift!Listed(c)
    OBVIOUS
  <2> DEFINE q == [c EXCEPT !.pc = "revoke", !.todo = todo]
  <2>2. Shift!Set(k, q) /\ c.pc = "list"
    BY <1>0, <1>12, <2>1 DEF Shift!ListSessions
  <2>3. todo \subseteq Sessions
    BY <2>1 DEF Shift!Listed, Shift!Live, Shift!LiveOn
  <2>4. ASSUME NEW s \in c.must, session[s].state = "live" PROVE s \in todo
    <3>1. s \in Shift!Live /\ (c.op = "unbind" => session[s].device = c.device)
      BY <1>1, <2>2, <2>4 DEF CallKnows, Shift!Call, Shift!Live
    <3> QED
      BY <2>1, <3>1 DEF Shift!Listed, Shift!LiveOn
  <2>5. q \in Shift!Call
    BY <2>3 DEF Shift!Call
  <2>6. \A s \in todo : session[s].state # "none"
    BY <2>1 DEF Shift!Listed, Shift!Live, Shift!LiveOn
  <2>7. CallKnows(q)
    BY <1>1, <2>2, <2>4, <2>6 DEF CallKnows, Shift!Call
  <2> HIDE DEF q
  <2> QED
    BY <1>4, <2>2, <2>5, <2>7
<1>13. CASE Shift!Authenticate(k) /\ ~Shift!Set(k, Shift!Finished)
  <2>1. PICK pc \in {"bound", "claim"} :
          Shift!Set(k, [c EXCEPT !.pc = pc]) /\ c.pc = "auth" /\ (c.op = "scan" => pc = "bound")
    BY <1>0, <1>13 DEF Shift!Authenticate, Shift!AfterAuth
  <2> DEFINE q == [c EXCEPT !.pc = pc]
  <2>2. q \in Shift!Call /\ CallKnows(q)
    BY <1>1, <2>1 DEF Shift!Call, CallKnows
  <2> HIDE DEF q
  <2> QED
    BY <1>4, <2>1, <2>2 DEF q
<1>14. CASE Shift!RequireBound(k) /\ ~Shift!Set(k, Shift!Finished)
  <2> DEFINE q == [c EXCEPT !.pc = "claim"]
  <2>1. Shift!Set(k, q) /\ c.pc = "bound" /\ device[c.device].status = "active"
    BY <1>0, <1>14 DEF Shift!RequireBound
  <2>2. q \in Shift!Call /\ CallKnows(q)
    BY <1>1, <2>1 DEF Shift!Call, CallKnows
  <2> HIDE DEF q
  <2> QED
    BY <1>4, <2>1, <2>2
<1> QED
  BY <1>5, <1>7, <1>8, <1>9, <1>10, <1>11, <1>12, <1>13, <1>14

\* A device's row is stored, or was changed since it was read.
LEMMA ShiftSaves ==
  ASSUME ShiftInv, NEW k \in Calls, Shift!SaveDevice(k)
  PROVE  ShiftInv'
<1>0. PICK c \in Shift!Call : c = call[k]
  BY DEF ShiftInv, Shift!TypeOK
<1>1. /\ CallKnows(c) /\ c.pc = "saveDevice" /\ session \in [Sessions -> Shift!Session]
      /\ device \in [ShiftDevices -> Shift!Device]
      /\ UNCHANGED <<code, late, session, closed, ended>>
  BY <1>0 DEF ShiftInv, Shift!TypeOK, Shift!SaveDevice
<1>2. PICK d \in ShiftDevices : d = c.device
  BY <1>1 DEF CallKnows
<1>7. Shift!NextRow(c.op, c.read) \in Shift!Device
  <2>1. c.read.version \in Nat
    BY DEF Shift!Call, Shift!Device
  <2> QED
    BY <2>1 DEF Shift!NextRow, Shift!Device
<1>3. PICK next \in Shift!Device : next = Shift!NextRow(c.op, c.read)
  BY <1>7
<1>4. next.version = c.read.version + 1 /\ c.read.version \in Nat
  BY <1>3 DEF Shift!NextRow, Shift!Device, Shift!Call
<1>5. CASE ~Shift!CasHolds(device[d], next)
  <2>1. Shift!Set(k, Shift!Finished) /\ device' = device
    BY <1>0, <1>2, <1>3, <1>5 DEF Shift!SaveDevice
  <2>2. CallKnows(Shift!Finished) /\ code' \in Shift!Code
    BY <1>1, CallRows DEF CallKnows, ShiftInv, Shift!TypeOK
  <2> QED
    BY <1>1, <2>1, <2>2, CallRows, ShiftReads
<1>6. CASE Shift!CasHolds(device[d], next)
  <2>1. device' = [device EXCEPT ![d] = next]
    BY <1>0, <1>2, <1>3, <1>6 DEF Shift!SaveDevice
  <2>2. next.version \in Nat /\ next.version # 0 /\ (Driver = "memory" => next.version > device[d].version)
    BY <1>1, <1>4, <1>6 DEF Shift!CasHolds, Shift!Device
  <2>3. RowsGrow
    BY <1>1, <2>1, <2>2 DEF RowsGrow
  <2>4. \A e \in ShiftDevices : device'[e].version = 0 => device'[e].status = "none"
    BY <1>1, <2>1, <2>2 DEF ShiftInv
  <2>5. PICK q : /\ Shift!Set(k, q)
                 /\ \/ c.op = "start" /\ q = [c EXCEPT !.pc = "readCode"]
                    \/ c.op = "unbind" /\ q = [c EXCEPT !.pc = "list", !.must = Shift!LiveOn(d)]
                    \/ q = Shift!Finished
    BY <1>0, <1>2, <1>3, <1>6 DEF Shift!SaveDevice
  <2>6. q \in Shift!Call
    <3>1. [c EXCEPT !.pc = "readCode"] \in Shift!Call
      BY DEF Shift!Call
    <3>2. Shift!LiveOn(d) \in SUBSET Sessions
      BY DEF Shift!LiveOn, Shift!Live
    <3>3. [c EXCEPT !.pc = "list", !.must = Shift!LiveOn(d)] \in Shift!Call
      BY <3>2 DEF Shift!Call
    <3> QED
      BY <2>5, <3>1, <3>3, CallRows
  <2>7. CallKnows(q)'
    <3>1. CASE c.op = "start" /\ q = [c EXCEPT !.pc = "readCode"]
      BY <1>1, <1>2, <3>1 DEF CallKnows, Shift!Call
    <3>2. CASE c.op = "unbind" /\ q = [c EXCEPT !.pc = "list", !.must = Shift!LiveOn(d)]
      <4>1. q.pc = "list" /\ q.must = Shift!LiveOn(d) /\ q.device = d
        BY <1>2, <3>2 DEF Shift!Call
      <4>2. \A s \in Shift!LiveOn(d) : session[s].state # "none" /\ session[s].device = d
        BY DEF Shift!LiveOn, Shift!Live
      <4> QED
        BY <1>1, <4>1, <4>2 DEF CallKnows
    <3>3. CASE q = Shift!Finished
      BY <3>3, CallRows DEF CallKnows
    <3> QED
      BY <2>5, <3>1, <3>2, <3>3
  <2>8. /\ code' \in Shift!Code /\ late' \in BOOLEAN /\ closed' \in BOOLEAN /\ ended' \subseteq Sessions
        /\ ended' = ended
    BY <1>1 DEF ShiftInv, Shift!TypeOK
  <2> QED
    BY <2>3, <2>4, <2>5, <2>6, <2>7, <2>8, ShiftKeeps
<1> QED
  BY <1>5, <1>6

\* One session is opened, or an opened one is over.
LEMMA SessionMoves ==
  ASSUME ShiftInv, NEW s \in Sessions, device' = device,
         \/ /\ session[s].state # "none"
            /\ \E state \in {"revoked", "expired"} : session' = [session EXCEPT ![s].state = state]
         \/ /\ session[s].state = "none"
            /\ \E d \in ShiftDevices : session' = [session EXCEPT ![s] = Shift!CreateScannerSession(d)]
  PROVE  /\ RowsGrow /\ \A e \in ShiftDevices : device'[e].version = 0 => device'[e].status = "none"
         /\ \A r \in Sessions : r # s => session'[r] = session[r]
         /\ session[s].state # "none" => session'[s].state \notin {"none", "live"}
<1>1. session \in [Sessions -> Shift!Session] /\ device \in [ShiftDevices -> Shift!Device]
  BY DEF ShiftInv, Shift!TypeOK
<1>2. None \notin ShiftDevices
  BY DoorAssumption DEF Shift!ShiftAssumption
<1>3. /\ session' \in [Sessions -> Shift!Session]
      /\ session[s].state # "none" => /\ session'[s].state \notin {"none", "live"}
                                      /\ session'[s].device = session[s].device
      /\ \A r \in Sessions : r # s => session'[r] = session[r]
  BY <1>1, <1>2 DEF Shift!Session, Shift!SessionRow, Shift!CreateScannerSession
<1> QED
  BY <1>1, <1>3 DEF RowsGrow, ShiftInv

LEMMA ShiftOpens ==
  ASSUME ShiftInv, NEW k \in Calls,
         Shift!Replace(k) \/ Shift!Create(k) \/ Shift!RevokeNext(k) \/ Shift!EndRevocation(k)
  PROVE  ShiftInv'
<1>0. PICK c \in Shift!Call : c = call[k]
  BY DEF ShiftInv, Shift!TypeOK
<1>1. /\ CallKnows(c) /\ device' = device /\ code' \in Shift!Code /\ late' \in BOOLEAN
      /\ ended \subseteq Sessions /\ closed \in BOOLEAN /\ session \in [Sessions -> Shift!Session]
  BY <1>0 DEF ShiftInv, Shift!TypeOK, Shift!Replace, Shift!Create, Shift!RevokeNext, Shift!EndRevocation
<1>2. CallKnows(Shift!Finished)'
  BY CallRows DEF CallKnows
<1>3. CASE Shift!Replace(k)
  <2> DEFINE q == [c EXCEPT !.pc = "create", !.session = None]
  <2>1. /\ Shift!Set(k, q) /\ c.pc = "replace" /\ UNCHANGED <<closed, ended>>
        /\ session' = [session EXCEPT ![c.session].state = "revoked"]
    BY <1>0, <1>3 DEF Shift!Replace
  <2>2. c.session \in Sessions /\ session[c.session].state # "none" /\ c.device \in ShiftDevices
    BY <1>1, <2>1 DEF CallKnows
  <2>3. RowsGrow /\ \A e \in ShiftDevices : device'[e].version = 0 => device'[e].status = "none"
    BY <1>1, <2>1, <2>2, SessionMoves
  <2>4. q \in Shift!Call /\ CallKnows(q)'
    BY <2>2 DEF Shift!Call, CallKnows
  <2> HIDE DEF q
  <2> QED
    BY <1>1, <2>1, <2>3, <2>4, ShiftKeeps
<1>4. CASE Shift!Create(k)
  <2>1. PICK s \in Sessions :
          /\ session[s].state = "none" /\ c.pc = "create"
          /\ session' = [session EXCEPT ![s] = Shift!CreateScannerSession(c.device)]
    BY <1>0, <1>4 DEF Shift!Create
  <2>2. c.device \in ShiftDevices /\ Shift!Set(k, Shift!Finished) /\ UNCHANGED <<closed, ended>>
    BY <1>1, <1>4, <2>1 DEF CallKnows, Shift!Create
  <2>3. RowsGrow /\ \A e \in ShiftDevices : device'[e].version = 0 => device'[e].status = "none"
    BY <1>1, <2>1, <2>2, SessionMoves
  <2> QED
    BY <1>1, <1>2, <2>2, <2>3, CallRows, ShiftKeeps
<1>5. CASE Shift!RevokeNext(k)
  <2>1. PICK s \in c.todo : /\ session' = [session EXCEPT ![s].state = "revoked"]
                            /\ Shift!Set(k, [c EXCEPT !.todo = @ \ {s}]) /\ c.pc = "revoke"
    BY <1>0, <1>5 DEF Shift!RevokeNext
  <2> DEFINE q == [c EXCEPT !.todo = @ \ {s}]
  <2>2. s \in Sessions /\ session[s].state # "none" /\ UNCHANGED <<closed, ended>>
    BY <1>1, <1>5, <2>1 DEF CallKnows, Shift!Call, Shift!RevokeNext
  <2>3. /\ RowsGrow /\ \A e \in ShiftDevices : device'[e].version = 0 => device'[e].status = "none"
        /\ \A r \in Sessions : r # s => session'[r] = session[r]
        /\ session'[s].state \notin {"none", "live"}
    BY <1>1, <2>1, <2>2, SessionMoves
  <2>4. q \in Shift!Call /\ q.pc = "revoke" /\ q.must = c.must /\ q.todo = c.todo \ {s}
    BY <2>1 DEF Shift!Call
  <2>5. c.must \subseteq Sessions /\ c.todo \subseteq Sessions
    BY DEF Shift!Call
  <2> HIDE DEF q
  <2>6. CallKnows(q)'
    BY <1>1, <2>1, <2>2, <2>3, <2>4, <2>5 DEF CallKnows
  <2> QED
    BY <1>1, <2>1, <2>2, <2>3, <2>4, <2>6, ShiftKeeps DEF q
<1>6. CASE Shift!EndRevocation(k)
  <2>1. /\ Shift!Set(k, Shift!Finished) /\ c.pc = "revoke" /\ c.todo = {} /\ session' = session
        /\ ended' = ended \cup c.must
    BY <1>0, <1>6 DEF Shift!EndRevocation
  <2>2. closed' \in BOOLEAN
    BY <1>6 DEF Shift!EndRevocation
  <2>3. c.must \subseteq Sessions /\ \A s \in c.must : session[s].state \notin {"none", "live"}
    BY <1>1, <2>1 DEF CallKnows, Shift!Call
  <2>4. RowsGrow /\ \A e \in ShiftDevices : device'[e].version = 0 => device'[e].status = "none"
    BY <1>1, <2>1, RowsStay
  <2> QED
    BY <1>1, <1>2, <2>1, <2>2, <2>3, <2>4, CallRows, ShiftKeeps
<1> QED
  BY <1>3, <1>4, <1>5, <1>6

LEMMA ShiftGoes ==
  ASSUME ShiftInv, Shift!Next
  PROVE  ShiftInv'
<1>1. ASSUME NEW k \in Calls, Shift!Posted(k) PROVE ShiftInv'
  BY <1>1, ShiftPosts
<1>2. ASSUME NEW k \in Calls, Shift!Step(k) PROVE ShiftInv'
  <2>1. CASE Shift!SaveDevice(k)
    BY <2>1, ShiftSaves
  <2>2. CASE Shift!Replace(k) \/ Shift!Create(k) \/ Shift!RevokeNext(k) \/ Shift!EndRevocation(k)
    BY <2>2, ShiftOpens
  <2>3. CASE \/ Shift!ReadDevice(k) \/ Shift!ReadCode(k) \/ Shift!ExpireCode(k) \/ Shift!CountShifts(k)
             \/ Shift!MakeCode(k) \/ (Shift!RevokeCode(k) /\ call[k].op # "unbind")
             \/ Shift!ListSessions(k) \/ Shift!Authenticate(k) \/ Shift!RequireBound(k)
             \/ Shift!Claim(k)
    BY <2>3, ShiftLooks
  <2> QED
    BY <1>2, <2>1, <2>2, <2>3
       DEF Shift!Step, Shift!BindDevice, Shift!StartShift, Shift!OpenSession, Shift!ReauthorizeDevice,
           Shift!UnbindDevice, Shift!Revoking, Shift!CreateEventCode, Shift!RevokeEventCode,
           Shift!RevokeSession, Shift!Scan, Shift!SyncOfflineScans, Shift!RecordStaffDeny,
           Shift!Heartbeat, Shift!ChargeWallet, Shift!SellAtDoor, Shift!Using, Shift!Of
<1>3. ASSUME RowsGrow, call' = call, UNCHANGED <<code, closed, ended>>, late' \in BOOLEAN, device' = device
      PROVE  ShiftInv'
  <2>1. ASSUME NEW k \in Calls PROVE CallKnows(call[k])'
    <3>1. PICK q \in Shift!Call : q = call[k] /\ CallKnows(q)
      BY DEF ShiftInv, Shift!TypeOK
    <3>2. CallKnows(q)'
      BY <1>3, <3>1, CallsKeep
    <3> QED
      BY <1>3, <3>1, <3>2
  <2>2. Shift!TypeOK' /\ \A s \in ended' : session'[s].state \notin {"none", "live"}
    BY <1>3 DEF ShiftInv, Shift!TypeOK, RowsGrow
  <2> QED
    BY <1>3, <2>1, <2>2 DEF ShiftInv
<1>4. CASE Shift!PassTime
  BY <1>3, <1>4, RowsStay DEF Shift!PassTime
<1>5. ASSUME NEW s \in Sessions, Shift!ExpireSession(s) PROVE ShiftInv'
  <2>1. RowsGrow
    BY <1>5, SessionMoves DEF Shift!ExpireSession
  <2> QED
    BY <1>3, <1>5, <2>1 DEF Shift!ExpireSession, ShiftInv, Shift!TypeOK
<1> QED
  BY <1>1, <1>2, <1>4, <1>5 DEF Shift!Next

LEMMA ShiftStarts == ASSUME Shift!Init PROVE ShiftInv
<1>0. PICK first : /\ code = first
                   /\ first \in {[status |-> "none", type |-> None]} \cup
                               {Shift!Made(type) : type \in CodeTypes}
  BY DEF Shift!Init
<1>4. first \in Shift!Code
  BY <1>0 DEF Shift!Code, Shift!Made
<1>5. Shift!NoSession \in Shift!Session
  BY DEF Shift!NoSession, Shift!Session, Shift!SessionRow
<1>1. Shift!TypeOK
  BY <1>0, <1>4, <1>5, CallRows DEF Shift!Init, Shift!TypeOK
<1>2. CallKnows(Shift!Idle)
  BY DEF CallKnows, Shift!Idle
<1>3. Shift!NoDevice.status = "none"
  BY DEF Shift!NoDevice
<1> QED
  BY <1>1, <1>2, <1>3 DEF Shift!Init, ShiftInv

ShiftPartInv == part = "shift" => ShiftInv

LEMMA ShiftPartGoes ==
  /\ DoorInit => ShiftPartInv
  /\ ShiftPartInv /\ [DoorNext]_doorVars => ShiftPartInv'
<1>1. DoorInit => ShiftPartInv
  BY ShiftStarts DEF DoorInit, ShiftPartInv
<1>2. ASSUME ShiftInv, UNCHANGED shiftVars PROVE ShiftInv'
  <2>1. /\ code' = code /\ late' = late /\ device' = device /\ session' = session
        /\ closed' = closed /\ ended' = ended /\ call' = call
    BY <1>2 DEF shiftVars
  <2> QED
    BY <1>2, <2>1 DEF ShiftInv, Shift!TypeOK, CallKnows
<1>3. ASSUME ShiftPartInv, [DoorNext]_doorVars PROVE ShiftPartInv'
  <2>1. part' = part
    BY <1>3 DEF DoorNext, doorVars
  <2>2. part = "shift" => Shift!Next \/ UNCHANGED shiftVars
    BY <1>3 DEF DoorNext, doorVars
  <2> QED
    BY <1>2, <1>3, <2>1, <2>2, ShiftGoes DEF ShiftPartInv
<1> QED
  BY <1>1, <1>3

\* Whatever devices are bound, launched and unbound at the same time, a session that
\* an unbinding or a revocation was to end is over when that call has answered, and no
\* later call brings it back; with either driver.
THEOREM RevokedSessionsStayEnded ==
  DoorSpec => [](part = "shift" => Shift!TypeOK /\ Shift!RevokedShiftsEnd)
<1>1. ShiftPartInv => (part = "shift" => Shift!TypeOK /\ Shift!RevokedShiftsEnd)
  BY DEF ShiftPartInv, ShiftInv, Shift!RevokedShiftsEnd
<1> QED
  BY <1>1, ShiftPartGoes, PTL DEF DoorSpec

\* With the driver that checks every version, no scan that began with its device
\* unbound admits anybody either (ScannerShift's ScansNeedBinding; the other driver
\* lets a first binding be written over an unbound row).
THEOREM ScansStopAtUnbinding == DoorSpec => [](Driver = "memory" => RevokedShiftsEnd)
<1>1. ASSUME ShiftPartInv, Driver = "memory", part = "shift"
      PROVE  Shift!RevokedShiftsEnd /\ Shift!ScansNeedBinding
  <2>1. ShiftInv
    BY <1>1 DEF ShiftPartInv
  <2>2. ASSUME NEW k \in Calls, call[k].pc = "claim", call[k].op = "scan" PROVE ~Shift!Unbound(call[k])
    <3>1. PICK c : c = call[k] /\ CallKnows(c)
      BY <2>1 DEF ShiftInv
    <3> QED
      BY <1>1, <2>2, <3>1 DEF CallKnows, Shift!Unbound
  <2> QED
    BY <2>1, <2>2 DEF ShiftInv, Shift!RevokedShiftsEnd, Shift!ScansNeedBinding
<1>2. ShiftPartInv => (Driver = "memory" => RevokedShiftsEnd)
  BY <1>1 DEF RevokedShiftsEnd
<1> QED
  BY <1>2, ShiftPartGoes, PTL DEF DoorSpec

\* And no launch of the app, however late, turns a device on again that a manager has
\* unbound: only a manager's reauthorization does.
THEOREM UnboundDevicesStay == Driver = "memory" => (DoorSpec => UnboundStaysUnbound)
<1> SUFFICES ASSUME Driver = "memory" PROVE DoorSpec => UnboundStaysUnbound
  OBVIOUS
<1>1. ASSUME ShiftInv, Shift!Next, NEW d \in ShiftDevices,
             device[d].status = "unbound", device'[d].status = "active"
      PROVE  \E k \in Calls : /\ call[k].op = "reauthorize" /\ call[k].device = d
                              /\ call[k].pc = "saveDevice" /\ call'[k].pc = "done"
  <2>1. device' # device
    BY <1>1
  <2>2. PICK k \in Calls : /\ Shift!SaveDevice(k)
                           /\ call[k].op \in {"bind", "start", "reauthorize", "unbind"}
    <3>1. PICK k \in Calls : Shift!Posted(k) \/ Shift!Step(k)
      BY <1>1, <2>1 DEF Shift!Next, Shift!PassTime, Shift!ExpireSession
    <3>2. Shift!Posted(k) => device' = device
      BY DEF Shift!Posted, Shift!PostDevice, Shift!PostShift, Shift!PostReauthorization,
             Shift!PostUnbinding, Shift!PostCode, Shift!PostCodeRevocation, Shift!PostScan,
             Shift!PostOfflineSync, Shift!PostStaffDeny, Shift!PostHeartbeat,
             Shift!PostWalletCharge, Shift!PostTicketSale, Shift!PostUse, Shift!PostOnDevice,
             Shift!PostSessionRevocation, Shift!Arrives
    <3>3. \/ Shift!ReadDevice(k) \/ Shift!ReadCode(k) \/ Shift!ExpireCode(k) \/ Shift!CountShifts(k)
          \/ Shift!Replace(k) \/ Shift!Create(k) \/ Shift!MakeCode(k) \/ Shift!RevokeCode(k)
          \/ Shift!ListSessions(k) \/ Shift!RevokeNext(k) \/ Shift!EndRevocation(k)
          \/ Shift!Authenticate(k) \/ Shift!RequireBound(k) \/ Shift!Claim(k)
          => device' = device
      BY DEF Shift!ReadDevice, Shift!ReadCode, Shift!ExpireCode, Shift!CountShifts, Shift!Replace,
             Shift!Create, Shift!MakeCode, Shift!RevokeCode, Shift!ListSessions, Shift!RevokeNext,
             Shift!EndRevocation, Shift!Authenticate, Shift!RequireBound, Shift!Claim
    <3> QED
      BY <2>1, <3>1, <3>2, <3>3
         DEF Shift!Step, Shift!BindDevice, Shift!StartShift, Shift!OpenSession,
             Shift!ReauthorizeDevice, Shift!UnbindDevice, Shift!Revoking, Shift!CreateEventCode,
             Shift!RevokeEventCode, Shift!RevokeSession, Shift!Scan, Shift!SyncOfflineScans,
             Shift!RecordStaffDeny, Shift!Heartbeat, Shift!ChargeWallet, Shift!SellAtDoor,
             Shift!Using, Shift!Of
  <2>3. PICK c \in Shift!Call : c = call[k] /\ CallKnows(c)
    BY <1>1 DEF ShiftInv, Shift!TypeOK
  <2>4. device \in [ShiftDevices -> Shift!Device] /\ call \in [Calls -> Shift!Call]
    BY <1>1 DEF ShiftInv, Shift!TypeOK
  <2>5. PICK next : /\ next = Shift!NextRow(c.op, c.read) /\ c.pc = "saveDevice"
                    /\ Shift!CasHolds(device[c.device], next)
                    /\ device' = [device EXCEPT ![c.device] = next]
    BY <2>1, <2>2, <2>3 DEF Shift!SaveDevice
  <2>6. c.device = d /\ next.status = "active" /\ next.version = c.read.version + 1
    BY <1>1, <2>4, <2>5 DEF Shift!NextRow
  <2>7. c.read.version \in Nat /\ device[d].version \in Nat
    BY <2>4 DEF Shift!Call, Shift!Device
  <2>8. c.read.version = device[d].version
    BY <1>1, <2>5, <2>6, <2>7 DEF Shift!CasHolds, ShiftInv
  <2>9. c.read.status = "unbound"
    BY <1>1, <2>3, <2>5, <2>6, <2>8 DEF CallKnows
  <2>10. c.op = "reauthorize"
    BY <2>2, <2>3, <2>5, <2>6, <2>9 DEF CallKnows, Shift!NextRow
  <2>11. Shift!Set(k, Shift!Finished)
    BY <2>2, <2>3, <2>5, <2>10 DEF Shift!SaveDevice
  <2> QED
    BY <2>3, <2>4, <2>5, <2>6, <2>10, <2>11, CallRows DEF Shift!Set
<1>2. ASSUME ShiftPartInv, [DoorNext]_doorVars PROVE [part = "shift" => Shift!UnboundKept]_doorVars
  <2>1. ASSUME part = "shift", DoorNext PROVE Shift!UnboundKept
    <3>1. ShiftInv /\ Shift!Next
      BY <1>2, <2>1 DEF ShiftPartInv, DoorNext
    <3> QED
      BY <1>1, <3>1 DEF Shift!UnboundKept
  <2> QED
    BY <1>2, <2>1
<1> QED
  BY <1>2, ShiftPartGoes, PTL DEF DoorSpec, UnboundStaysUnbound

---------------------------------------------------------------------------
(* Admissions: the seats spent, and the people on the ledger.              *)

\* A sum over a set whose other members count for nothing.
LEMMA SumOn ==
  ASSUME NEW S, IsFiniteSet(S), NEW T \in SUBSET S, NEW w, \A x \in S : w[x] \in Int,
         \A x \in S : x \notin T => w[x] = 0
  PROVE  Sum(w, S) = Sum(w, T)
<1> DEFINE good == {R \in SUBSET S : Sum(w, R) = Sum(w, R \cap T)}
<1>1. ASSUME NEW R \in SUBSET S, \A Q \in SUBSET R : Q # R => Q \in good
      PROVE  R \in good
  <2>0. IsFiniteSet(R) /\ IsFiniteSet(R \cap T)
    <3> HIDE DEF good
    <3> QED
      BY FS_Subset
  <2>1. CASE R = {}
    BY <2>1
  <2>2. CASE R # {}
    <3>1. PICK x : x \in R
      BY <2>2
    <3>2. Sum(w, R \ {x}) = Sum(w, (R \ {x}) \cap T)
      BY <1>1, <3>1
    <3>3. Sum(w, R \ {x}) \in Int /\ Sum(w, R) = w[x] + Sum(w, R \ {x})
      <4> HIDE DEF good
      <4> QED
        BY <2>0, <3>1, SumSplits
    <3>4. CASE x \in T
      <4>1. (R \cap T) \ {x} = (R \ {x}) \cap T /\ x \in R \cap T
        BY <3>1, <3>4
      <4>2. Sum(w, R \cap T) = w[x] + Sum(w, (R \cap T) \ {x})
        <5> HIDE DEF good
        <5> QED
          BY <2>0, <4>1, SumSplits
      <4> QED
        BY <3>2, <3>3, <4>1, <4>2
    <3>5. CASE x \notin T
      <4>1. (R \ {x}) \cap T = R \cap T /\ w[x] = 0
        BY <3>1, <3>5
      <4>2. Sum(w, R \ {x}) = Sum(w, R \cap T)
        BY <3>2, <4>1
      <4> QED
        BY <3>3, <4>1, <4>2
    <3> QED
      BY <3>4, <3>5
  <2> QED
    BY <2>1, <2>2
<1>2. S \in good
  <2>1. \A R \in SUBSET S : (\A Q \in SUBSET R : Q # R => Q \in good) => R \in good
    BY <1>1
  <2> HIDE DEF good
  <2> QED
    BY <2>1, SubsetsAllIn
<1>3. S \cap T = T
  OBVIOUS
<1> QED
  BY <1>2, <1>3

\* What a call has claimed of a ticket and not recorded.
Owed(t, c) == IF c.pc \in {"record", "dead"} /\ Head(c.batch) = t THEN c.seats ELSE 0

OwedTo(t) == [k \in Calls |-> Owed(t, entry[k])]

\* A call holds seats between its claim and its record only.
EntryKnows(c) ==
  /\ c.pc \notin {"idle", "done"} => c.batch # << >>
  /\ c.pc \notin {"record", "dead"} => c.seats = 0

SeatsInv ==
  \A t \in Entry!Tickets :
    /\ admitted[t] + Sum(OwedTo(t), Calls) = ticket[t].scans
    /\ ticket[t].scans <= Entry!Allowed(t)

EntryInv ==
  /\ Entry!TypeOK /\ entry = [k \in Calls |-> entry[k]]
  /\ \A k \in Calls : EntryKnows(entry[k])
  /\ SeatsInv

\* The rows, typed; what LedgerAgrees is not about is typed only.
EntryRows ==
  /\ ticket \in [Entry!Tickets -> Entry!Ticket] /\ presented \subseteq Couples
  /\ admitted \in [Entry!Tickets -> Nat] /\ refused \in [Entry!Payloads -> Nat]
  /\ waved \in [Entry!Payloads -> Nat] /\ offline \in [Entry!Tickets -> Nat]

\* A step of one call: what it puts on the ledger and what it owes from now on come
\* to the seats it takes.
LEMMA EntryMoves ==
  ASSUME EntryInv, NEW k \in Calls, NEW q \in Entry!Call, Entry!Set(k, q), EntryKnows(q), EntryRows',
         \A t \in Entry!Tickets :
           /\ (admitted'[t] + Owed(t, q)) - ticket'[t].scans
                = (admitted[t] + Owed(t, entry[k])) - ticket[t].scans
           /\ ticket'[t].scans <= Entry!Allowed(t)
  PROVE  EntryInv'
<1>1. /\ entry' = [j \in Calls |-> entry'[j]] /\ entry'[k] = q
      /\ \A j \in Calls : j # k => entry'[j] = entry[j]
  BY DEF EntryInv, Entry!Set
<1>2. Entry!TypeOK' /\ \A j \in Calls : EntryKnows(entry'[j])
  BY <1>1 DEF EntryInv, Entry!TypeOK, EntryRows
<1>3. IsFiniteSet(Calls)
  BY DoorAssumption DEF Entry!AdmissionAssumption, Entry!IsFiniteSet, IsFiniteSet
<1>4. ASSUME NEW t \in Entry!Tickets
      PROVE  admitted'[t] + Sum(OwedTo(t)', Calls) = ticket'[t].scans
  <2>1. PICK w, v : w = OwedTo(t) /\ v = OwedTo(t)'
    OBVIOUS
  <2>9. \A c \in Entry!Call : Owed(t, c) \in Int
    BY DEF Owed, Entry!Call
  <2>10. \A j \in Calls : entry[j] \in Entry!Call /\ entry'[j] \in Entry!Call
    BY <1>2 DEF EntryInv, Entry!TypeOK
  <2>2. \A j \in Calls : /\ w[j] = Owed(t, entry[j]) /\ v[j] = Owed(t, entry'[j])
                         /\ w[j] \in Int /\ v[j] \in Int
    BY <2>1, <2>9, <2>10 DEF OwedTo
  <2>3. Sum(w, Calls) \in Int /\ Sum(v, Calls) = Sum(w, Calls) - w[k] + v[k]
    <3>1. \A j \in Calls : (w[j] \in Int /\ v[j] \in Int) /\ (j # k => v[j] = w[j])
      BY <1>1, <2>2
    <3>2. Sum(w, Calls) \in Int
      BY <1>3, <3>1, SumSplits
    <3> QED
      BY <1>3, <3>1, <3>2, SumMoves
  <2>4. /\ admitted[t] \in Nat /\ admitted'[t] \in Nat /\ ticket[t].scans \in Nat
        /\ ticket'[t].scans \in Nat
    BY <1>2 DEF EntryInv, Entry!TypeOK, Entry!Ticket
  <2>5. w[k] = Owed(t, entry[k]) /\ v[k] = Owed(t, q) /\ w[k] \in Int /\ v[k] \in Int
    BY <1>1, <2>2
  <2>11. PICK a \in Nat, b \in Nat, m \in Nat, n \in Nat :
           a = admitted[t] /\ b = admitted'[t] /\ m = ticket[t].scans /\ n = ticket'[t].scans
    BY <2>4
  <2>12. PICK sum \in Int, old \in Int, new \in Int : sum = Sum(w, Calls) /\ old = w[k] /\ new = v[k]
    BY <2>3, <2>5
  <2>7. a + sum = m /\ (b + new) - n = (a + old) - m
    BY <2>1, <2>5, <2>11, <2>12 DEF EntryInv, SeatsInv
  <2>8. b + (sum - old + new) = n
    BY <2>7
  <2> QED
    BY <2>1, <2>3, <2>8, <2>11, <2>12
<1> QED
  BY <1>1, <1>2, <1>4 DEF EntryInv, SeatsInv

\* A step that takes no seat and records none.
LEMMA EntryReads ==
  ASSUME EntryInv, NEW k \in Calls, NEW q \in Entry!Call, Entry!Set(k, q), EntryKnows(q),
         UNCHANGED <<ticket, admitted, offline>>, presented' \subseteq Couples,
         refused' \in [Entry!Payloads -> Nat], waved' \in [Entry!Payloads -> Nat],
         \/ q.seats = 0 /\ entry[k].seats = 0
         \/ \A t : Owed(t, q) = Owed(t, entry[k])
  PROVE  EntryInv'
<1>1. EntryRows' /\ \A t \in Entry!Tickets : ticket[t].scans <= Entry!Allowed(t)
  BY DEF EntryInv, EntryRows, Entry!TypeOK, SeatsInv
<1>2. \A t : Owed(t, q) = Owed(t, entry[k])
  BY DEF Owed
<1> QED
  BY <1>1, <1>2, EntryMoves

LEMMA EntryCalls ==
  /\ Entry!Finished \in Entry!Call /\ Entry!Finished.seats = 0 /\ Entry!Finished.pc = "done"
  /\ EntryKnows(Entry!Finished)
  /\ Entry!Idle \in Entry!Call /\ EntryKnows(Entry!Idle) /\ Entry!Idle.seats = 0
<1>1. << >> \in Seq(Entry!Payloads)
  OBVIOUS
<1>2. PICK none \in Seq(Entry!Payloads) : none = << >>
  BY <1>1
<1>3. Entry!Idle = [pc |-> "idle", op |-> "scan", batch |-> none, yes |-> TRUE, seats |-> 0]
  BY <1>2 DEF Entry!Idle
<1>4. Entry!Idle \in Entry!Call
  BY <1>3 DEF Entry!Call, Entry!Kinds
<1>5. PICK r \in Entry!Call : r = Entry!Idle
  BY <1>4
<1>6. /\ [r EXCEPT !.pc = "done"] \in Entry!Call /\ [r EXCEPT !.pc = "done"].pc = "done"
      /\ [r EXCEPT !.pc = "done"].seats = r.seats
  BY DEF Entry!Call
<1>7. Entry!Finished = [r EXCEPT !.pc = "done"]
  BY <1>5 DEF Entry!Finished
<1>8. Entry!Idle.pc = "idle" /\ Entry!Idle.seats = 0
  BY <1>3
<1>9. /\ Entry!Finished \in Entry!Call /\ Entry!Finished.pc = "done"
      /\ Entry!Finished.seats = 0
  BY <1>5, <1>6, <1>7, <1>8
<1> QED
  BY <1>4, <1>8, <1>9 DEF EntryKnows

\* A call is made.
LEMMA EntryPosts ==
  ASSUME EntryInv, NEW k \in Calls, Entry!Posted(k)
  PROVE  EntryInv'
<1>0. /\ EntryRequests \subseteq Entry!Kinds
      /\ Batches \subseteq Seq(Entry!Payloads)
  BY DoorAssumption DEF Entry!AdmissionAssumption, Entry!Payloads, Entry!Tickets, Entry!Kinds
<1>1. ASSUME NEW op, NEW pc \in {"preview", "verify", "record", "claim", "wave"},
             NEW batch \in Seq(Entry!Payloads), batch # << >>,
             NEW yes \in BOOLEAN, Entry!Begin(k, op, pc, batch, yes)
      PROVE  EntryInv'
  <2>1. op \in Entry!Kinds /\ entry[k].pc = "idle"
        /\ UNCHANGED <<ticket, presented, admitted, refused, waved, offline>>
    BY <1>0, <1>1 DEF Entry!Begin
  <2>2. PICK r \in Entry!Call : r = Entry!Idle /\ r.seats = 0
    BY EntryCalls
  <2> DEFINE q == [r EXCEPT !.pc = pc, !.op = op, !.batch = batch, !.yes = yes]
  <2>5. Entry!Set(k, q)
    BY <1>1, <2>2 DEF Entry!Begin
  <2>3. q \in Entry!Call /\ EntryKnows(q) /\ q.seats = 0
    BY <1>1, <2>1, <2>2 DEF Entry!Call, EntryKnows
  <2>4. /\ entry[k].seats = 0 /\ presented' \subseteq Couples
        /\ refused' \in [Entry!Payloads -> Nat] /\ waved' \in [Entry!Payloads -> Nat]
    BY <2>1 DEF EntryInv, Entry!TypeOK, EntryKnows
  <2> HIDE DEF q
  <2> QED
    BY <2>1, <2>3, <2>4, <2>5, EntryReads
<1>2. \A p \in Entry!Payloads : <<p>> \in Seq(Entry!Payloads) /\ <<p>> # << >>
  OBVIOUS
<1>3. Entry!Tickets \subseteq Entry!Payloads /\ Couples \subseteq Entry!Payloads
  BY DEF Entry!Tickets, Entry!Payloads
<1>4. CASE Entry!PostScan(k)
  BY <1>1, <1>2, <1>4 DEF Entry!PostScan
<1>5. CASE Entry!PostConfirm(k)
  BY <1>1, <1>2, <1>3, <1>5 DEF Entry!PostConfirm
<1>6. CASE Entry!PostStaffDeny(k)
  BY <1>1, <1>2, <1>6 DEF Entry!PostStaffDeny
<1>7. CASE Entry!PostManualCheckIn(k)
  BY <1>1, <1>2, <1>3, <1>7 DEF Entry!PostManualCheckIn
<1>8. CASE Entry!PostOfflineSync(k)
  BY <1>0, <1>1, <1>8 DEF Entry!PostOfflineSync
<1>9. CASE Entry!PostOverride(k)
  BY <1>1, <1>2, <1>9 DEF Entry!PostOverride
<1> QED
  BY <1>4, <1>5, <1>6, <1>7, <1>8, <1>9 DEF Entry!Posted

\* The steps before a claim, and a call's death.
LEMMA EntryLooks ==
  ASSUME EntryInv, NEW k \in Calls,
         Entry!Preview(k) \/ Entry!Verify(k) \/ Entry!PassUnread(k) \/ Entry!Die(k)
  PROVE  EntryInv'
<1>0. PICK c \in Entry!Call : c = entry[k]
  BY DEF EntryInv, Entry!TypeOK
<1>1. EntryKnows(c) /\ UNCHANGED <<ticket, admitted, refused, waved, offline>>
  BY <1>0 DEF EntryInv, Entry!Preview, Entry!Verify, Entry!PassUnread, Entry!Die
<1>2. /\ presented \subseteq Couples /\ refused' \in [Entry!Payloads -> Nat]
      /\ waved' \in [Entry!Payloads -> Nat]
  BY <1>1 DEF EntryInv, Entry!TypeOK
<1>3. presented' \subseteq Couples
  BY <1>2 DEF Entry!Preview, Entry!Verify, Entry!PassUnread, Entry!Die, Entry!MustAsk,
              Entry!MintConfirmationToken
<1>4. ASSUME NEW pc \in {"claim", "record"}, Entry!Set(k, [c EXCEPT !.pc = pc]),
             c.pc \in {"preview", "verify", "claim"}
      PROVE  EntryInv'
  <2> DEFINE q == [c EXCEPT !.pc = pc]
  <2>1. q \in Entry!Call /\ EntryKnows(q) /\ q.seats = 0 /\ entry[k].seats = 0
    BY <1>0, <1>1, <1>4 DEF Entry!Call, EntryKnows
  <2> HIDE DEF q
  <2> QED
    BY <1>1, <1>2, <1>3, <1>4, <2>1, EntryReads DEF q
<1>5. CASE Entry!Set(k, Entry!Finished) /\ c.pc \notin {"record", "dead"}
  <2>1. entry[k].seats = 0
    BY <1>0, <1>1, <1>5 DEF EntryKnows
  <2> QED
    BY <1>1, <1>2, <1>3, <1>5, <2>1, EntryCalls, EntryReads
<1>6. CASE Entry!Preview(k) \/ Entry!Verify(k) \/ Entry!PassUnread(k)
  BY <1>0, <1>4, <1>5, <1>6 DEF Entry!Preview, Entry!Verify, Entry!PassUnread
<1>7. CASE Entry!Die(k) /\ c.pc = "record"
  <2> DEFINE q == [c EXCEPT !.pc = "dead"]
  <2>1. Entry!Set(k, q)
    BY <1>0, <1>7 DEF Entry!Die
  <2>2. q \in Entry!Call /\ EntryKnows(q) /\ \A t : Owed(t, q) = Owed(t, entry[k])
    BY <1>0, <1>1, <1>7 DEF Entry!Call, EntryKnows, Owed
  <2> HIDE DEF q
  <2> QED
    BY <1>1, <1>2, <1>3, <2>1, <2>2, EntryReads
<1>8. CASE Entry!Die(k) /\ c.pc # "record"
  BY <1>0, <1>5, <1>8 DEF Entry!Die
<1> QED
  BY <1>6, <1>7, <1>8

LEMMA EntryWaves ==
  ASSUME EntryInv, NEW k \in Calls, Entry!Wave(k)
  PROVE  EntryInv'
<1>0. PICK c \in Entry!Call : c = entry[k] /\ EntryKnows(c)
  BY DEF EntryInv, Entry!TypeOK
<1>1. c.pc = "wave" /\ c.batch # << >> /\ c.seats = 0
  BY <1>0 DEF Entry!Wave, EntryKnows
<1>2. PICK p \in Entry!Payloads : p = Head(c.batch)
  BY <1>1 DEF Entry!Call
<1>3. /\ refused \in [Entry!Payloads -> Nat] /\ waved \in [Entry!Payloads -> Nat]
      /\ presented \subseteq Couples
  BY DEF EntryInv, Entry!TypeOK
<1>4. Entry!Max({0, 1}) = 1
  BY DEF Entry!Max
<1>5. /\ Entry!Set(k, Entry!Finished) /\ UNCHANGED <<ticket, presented, admitted, offline>>
      /\ \/ /\ refused[p] > 0 /\ refused' = [refused EXCEPT ![p] = @ - 1]
            /\ waved' = [waved EXCEPT ![p] = @ + 1]
         \/ UNCHANGED <<refused, waved>>
  BY <1>0, <1>2, <1>4 DEF Entry!Wave, Entry!OverrideRow, Entry!CreateScanLedger
<1>6. refused' \in [Entry!Payloads -> Nat] /\ waved' \in [Entry!Payloads -> Nat]
  BY <1>2, <1>3, <1>5
<1> QED
  BY <1>0, <1>1, <1>3, <1>5, <1>6, EntryCalls, EntryReads

\* A claim's seats are owed until they are recorded.
LEMMA EntryClaims ==
  ASSUME EntryInv, NEW k \in Calls, Entry!Claim(k)
  PROVE  EntryInv'
<1>0. PICK c \in Entry!Call : c = entry[k] /\ EntryKnows(c)
  BY DEF EntryInv, Entry!TypeOK
<1>1. c.pc = "claim" /\ c.batch # << >> /\ c.seats = 0
  BY <1>0 DEF Entry!Claim, EntryKnows
<1>2. Head(c.batch) \in Entry!Payloads
  BY <1>1 DEF Entry!Call
<1>3. PICK t \in Entry!Tickets : t = Head(c.batch)
  BY <1>0, <1>2 DEF Entry!Claim, Entry!Verifies, Entry!Payloads
<1>4. /\ ticket \in [Entry!Tickets -> Entry!Ticket] /\ offline \in [Entry!Tickets -> Nat]
      /\ admitted \in [Entry!Tickets -> Nat] /\ EntryRows
  BY DEF EntryInv, Entry!TypeOK, EntryRows
<1>5. PICK seats \in 0..2 : seats = Entry!AdmitSeats(c.op, t)
  BY DEF Entry!AdmitSeats, Entry!Wanted
<1>6. ticket[t].scans \in 0..2
  BY <1>4 DEF Entry!Ticket
<1>7. ticket[t].scans + seats <= Entry!Allowed(t) /\ Entry!Allowed(t) \in 1..2
  <2>1. ticket[t].scans <= Entry!Allowed(t) /\ Entry!Allowed(t) \in 1..2
    BY DEF EntryInv, SeatsInv, Entry!Allowed
  <2> QED
    BY <1>5, <1>6, <2>1 DEF Entry!AdmitSeats
<1>8. /\ ticket' = [ticket EXCEPT ![t].scans = @ + seats]
      /\ offline' \in [Entry!Tickets -> Nat] /\ UNCHANGED <<presented, admitted, refused, waved>>
  BY <1>0, <1>3, <1>4, <1>5 DEF Entry!Claim
<1>9. /\ ticket' \in [Entry!Tickets -> Entry!Ticket] /\ ticket'[t].scans = ticket[t].scans + seats
      /\ \A r \in Entry!Tickets : r # t => ticket'[r] = ticket[r]
  BY <1>4, <1>6, <1>7, <1>8 DEF Entry!Ticket
<1>10. PICK q : /\ Entry!Set(k, q)
                /\ \/ seats = 0 /\ q = Entry!Finished
                   \/ q = [c EXCEPT !.pc = "record", !.seats = seats]
  BY <1>0, <1>3, <1>5 DEF Entry!Claim
<1>11. q \in Entry!Call /\ EntryKnows(q)
  BY <1>0, <1>1, <1>10, EntryCalls DEF Entry!Call, EntryKnows
<1>12. ASSUME NEW r \in Entry!Tickets
       PROVE  Owed(r, q) = (IF r = t THEN seats ELSE 0) /\ Owed(r, entry[k]) = 0
  <2>1. CASE seats = 0 /\ q = Entry!Finished
    BY <1>0, <1>1, <2>1, EntryCalls DEF Owed
  <2>2. CASE q = [c EXCEPT !.pc = "record", !.seats = seats]
    <3>1. q.pc = "record" /\ q.seats = seats /\ q.batch = c.batch
      BY <2>2 DEF Entry!Call
    <3> QED
      BY <1>0, <1>1, <1>3, <3>1 DEF Owed
  <2> QED
    BY <1>10, <2>1, <2>2
<1>13. EntryRows'
  BY <1>4, <1>8, <1>9 DEF EntryRows
<1>14. ASSUME NEW r \in Entry!Tickets
       PROVE  /\ (admitted'[r] + Owed(r, q)) - ticket'[r].scans
                   = (admitted[r] + Owed(r, entry[k])) - ticket[r].scans
              /\ ticket'[r].scans <= Entry!Allowed(r)
  <2>1. admitted'[r] = admitted[r] /\ admitted[r] \in Nat /\ ticket[r].scans \in Nat
    BY <1>4, <1>8 DEF Entry!Ticket
  <2>2. ticket[r].scans <= Entry!Allowed(r)
    BY DEF EntryInv, SeatsInv
  <2>3. ticket'[r].scans = ticket[r].scans + (IF r = t THEN seats ELSE 0)
    BY <1>9, <2>1
  <2> QED
    BY <1>7, <1>9, <1>12, <2>1, <2>2, <2>3
<1> QED
  BY <1>10, <1>11, <1>13, <1>14, EntryMoves

LEMMA EntryRecords ==
  ASSUME EntryInv, NEW k \in Calls, Entry!Record(k)
  PROVE  EntryInv'
<1>0. PICK c \in Entry!Call : c = entry[k] /\ EntryKnows(c)
  BY DEF EntryInv, Entry!TypeOK
<1>1. c.pc = "record" /\ c.batch # << >> /\ c.batch \in Seq(Entry!Payloads) /\ c.seats \in 0..2
  BY <1>0 DEF Entry!Record, EntryKnows, Entry!Call
<1>2. PICK p \in Entry!Payloads : p = Head(c.batch)
  BY <1>1
<1>3. EntryRows
  BY DEF EntryInv, Entry!TypeOK, EntryRows
<1>4. Entry!CreateScanLedger(Entry!Counted(c)).admittedCount = c.seats
  BY DEF Entry!CreateScanLedger, Entry!Counted
<1>5. /\ UNCHANGED <<ticket, presented, waved, offline>>
      /\ admitted' = IF Entry!Verifies(p) THEN [admitted EXCEPT ![p] = @ + c.seats] ELSE admitted
      /\ refused' = refused \/ refused' = [refused EXCEPT ![p] = @ + 1]
  BY <1>0, <1>2, <1>4 DEF Entry!Record
<1>6. p \in Entry!Tickets \/ (p = unread /\ admitted' = admitted)
  BY <1>2, <1>5 DEF Entry!Payloads, Entry!Verifies
<1>7. EntryRows'
  <2>1. admitted' \in [Entry!Tickets -> Nat]
    <3>1. admitted \in [Entry!Tickets -> Nat]
      BY <1>3 DEF EntryRows
    <3>2. CASE p \in Entry!Tickets
      BY <1>1, <1>5, <3>1, <3>2
    <3> QED
      BY <1>6, <3>1, <3>2
  <2>2. refused' \in [Entry!Payloads -> Nat]
    BY <1>2, <1>3, <1>5 DEF EntryRows
  <2> QED
    BY <1>3, <1>5, <2>1, <2>2 DEF EntryRows
<1>8. PICK q : /\ Entry!Set(k, q)
               /\ \/ q = Entry!Finished
                  \/ Len(c.batch) # 1 /\ q = [c EXCEPT !.pc = "claim", !.batch = Tail(c.batch), !.seats = 0]
  BY <1>0 DEF Entry!Record
<1>9. q \in Entry!Call /\ EntryKnows(q) /\ q.seats = 0
  <2>1. Tail(c.batch) \in Seq(Entry!Payloads) /\ (Len(c.batch) # 1 => Tail(c.batch) # << >>)
    <3>1. PICK s \in Seq(Entry!Payloads) : s = c.batch /\ s # << >>
      BY <1>1
    <3>2. Tail(s) \in Seq(Entry!Payloads) /\ Len(Tail(s)) = Len(s) - 1 /\ Len(s) \in Nat
      BY <3>1, HeadTailProperties
    <3>3. PICK rest \in Seq(Entry!Payloads) : rest = Tail(s)
      BY <3>2
    <3>4. rest = << >> => Len(rest) = 0
      OBVIOUS
    <3> QED
      BY <3>1, <3>2, <3>3, <3>4
  <2> QED
    BY <1>8, <2>1, EntryCalls DEF Entry!Call, EntryKnows
<1>10. unread \notin Entry!Tickets
  BY DoorAssumption DEF Entry!AdmissionAssumption, Entry!Tickets
<1>11. ASSUME NEW r \in Entry!Tickets
       PROVE  /\ (admitted'[r] + Owed(r, q)) - ticket'[r].scans
                   = (admitted[r] + Owed(r, entry[k])) - ticket[r].scans
              /\ ticket'[r].scans <= Entry!Allowed(r)
  <2>1. Owed(r, q) = 0 /\ Owed(r, entry[k]) = IF p = r THEN c.seats ELSE 0
    BY <1>0, <1>1, <1>2, <1>9 DEF Owed
  <2>2. admitted[r] \in Nat /\ ticket[r].scans \in Nat
    BY <1>3 DEF EntryRows, Entry!Ticket
  <2>3. admitted'[r] = admitted[r] + (IF p = r THEN c.seats ELSE 0)
    <3>1. CASE p \in Entry!Tickets
      <4>1. Entry!Verifies(p)
        BY <1>10, <3>1 DEF Entry!Verifies
      <4> QED
        BY <1>3, <1>5, <2>2, <3>1, <4>1 DEF EntryRows
    <3>2. CASE p = unread /\ admitted' = admitted
      BY <1>10, <2>2, <3>2
    <3> QED
      BY <1>6, <3>1, <3>2
  <2> QED
    BY <1>1, <1>5, <2>1, <2>2, <2>3 DEF EntryInv, SeatsInv
<1> QED
  BY <1>7, <1>8, <1>9, <1>11, EntryMoves

\* A refund withdraws a ticket; its seats stay spent.
LEMMA EntryVoids ==
  ASSUME EntryInv, NEW t \in Entry!Tickets, Entry!Void(t)
  PROVE  EntryInv'
<1>1. ticket \in [Entry!Tickets -> Entry!Ticket] /\ entry = [k \in Calls |-> entry[k]]
  BY DEF EntryInv, Entry!TypeOK
<1>2. /\ ticket' = [ticket EXCEPT ![t].void = TRUE]
      /\ presented' = presented /\ admitted' = admitted /\ refused' = refused
      /\ waved' = waved /\ offline' = offline /\ entry' = entry
  BY DEF Entry!Void
<1>3. /\ ticket' \in [Entry!Tickets -> Entry!Ticket]
      /\ \A r \in Entry!Tickets : ticket'[r].scans = ticket[r].scans
  BY <1>1, <1>2 DEF Entry!Ticket
<1>4. \A r \in Entry!Tickets : OwedTo(r)' = OwedTo(r)
  BY <1>2 DEF OwedTo, Owed
<1>5. SeatsInv'
  BY <1>2, <1>3, <1>4 DEF EntryInv, SeatsInv
<1> QED
  BY <1>2, <1>3, <1>5 DEF EntryInv, Entry!TypeOK, EntryKnows

LEMMA EntryGoes ==
  ASSUME EntryInv, Entry!Next
  PROVE  EntryInv'
<1>1. ASSUME NEW k \in Calls, Entry!Posted(k) PROVE EntryInv'
  BY <1>1, EntryPosts
<1>2. ASSUME NEW k \in Calls, Entry!Step(k) PROVE EntryInv'
  <2>1. CASE Entry!Preview(k) \/ Entry!Verify(k) \/ Entry!PassUnread(k) \/ Entry!Die(k)
    BY <2>1, EntryLooks
  <2>2. CASE Entry!Claim(k)
    BY <2>2, EntryClaims
  <2>3. CASE Entry!Record(k)
    BY <2>3, EntryRecords
  <2>4. CASE Entry!Wave(k)
    BY <2>4, EntryWaves
  <2> QED
    BY <1>2, <2>1, <2>2, <2>3, <2>4
       DEF Entry!Step, Entry!Scan, Entry!ConfirmCouple, Entry!RecordStaffDeny,
           Entry!ManualCheckIn, Entry!SyncOfflineScans, Entry!OverrideScan
<1>3. ASSUME NEW t \in Entry!Tickets, Entry!Void(t) PROVE EntryInv'
  BY <1>3, EntryVoids
<1>4. ASSUME NEW t \in Entry!Tickets, Entry!ExpireToken(t) PROVE EntryInv'
  <2>1. presented' \subseteq presented /\ UNCHANGED <<ticket, admitted, refused, waved, offline, entry>>
    BY <1>4 DEF Entry!ExpireToken
  <2>2. \A r : OwedTo(r)' = OwedTo(r)
    BY <2>1 DEF OwedTo, Owed
  <2> QED
    BY <2>1, <2>2 DEF EntryInv, SeatsInv, Entry!TypeOK, EntryKnows
<1> QED
  BY <1>1, <1>2, <1>3, <1>4 DEF Entry!Next

LEMMA EntryStarts == ASSUME Entry!Init PROVE EntryInv
<1>1. \A r \in Entry!Tickets : ticket[r] = [scans |-> 0, void |-> FALSE]
  BY DEF Entry!Init
<1>2. Entry!TypeOK
  BY EntryCalls DEF Entry!Init, Entry!TypeOK, Entry!Ticket
<1>3. ASSUME NEW t \in Entry!Tickets PROVE Sum(OwedTo(t), Calls) = 0
  <2>1. PICK w : w = OwedTo(t)
    OBVIOUS
  <2>2. Entry!Idle.pc = "idle"
    BY DEF Entry!Idle
  <2>3. \A k \in Calls : w[k] = 0
    BY <2>1, <2>2 DEF OwedTo, Owed, Entry!Init
  <2>4. IsFiniteSet(Calls)
    BY DoorAssumption DEF Entry!AdmissionAssumption, Entry!IsFiniteSet, IsFiniteSet
  <2>5. Sum(w, {}) = 0
    BY SumTakes, FS_EmptySet
  <2>6. {} \in SUBSET Calls /\ \A k \in Calls : w[k] \in Int
    BY <2>3
  <2>7. Sum(w, Calls) = Sum(w, {})
    BY <2>3, <2>4, <2>6, SumOn
  <2> QED
    BY <2>1, <2>5, <2>7
<1>4. SeatsInv
  BY <1>1, <1>3 DEF SeatsInv, Entry!Init, Entry!Allowed
<1> QED
  BY <1>2, <1>4, EntryCalls DEF EntryInv, Entry!Init

EntryPartInv == part = "entry" => EntryInv

LEMMA EntryPartGoes ==
  /\ DoorInit => EntryPartInv
  /\ EntryPartInv /\ [DoorNext]_doorVars => EntryPartInv'
<1>1. DoorInit => EntryPartInv
  BY EntryStarts DEF DoorInit, EntryPartInv
<1>2. ASSUME EntryInv, UNCHANGED entryVars PROVE EntryInv'
  <2>1. /\ ticket' = ticket /\ presented' = presented /\ admitted' = admitted
        /\ refused' = refused /\ waved' = waved /\ offline' = offline /\ entry' = entry
    BY <1>2 DEF entryVars
  <2>2. \A r : OwedTo(r)' = OwedTo(r)
    BY <2>1 DEF OwedTo, Owed
  <2> QED
    BY <1>2, <2>1, <2>2 DEF EntryInv, SeatsInv, Entry!TypeOK, EntryKnows
<1>3. ASSUME EntryPartInv, [DoorNext]_doorVars PROVE EntryPartInv'
  <2>1. part' = part
    BY <1>3 DEF DoorNext, doorVars
  <2>2. part = "entry" => Entry!Next \/ UNCHANGED entryVars
    BY <1>3 DEF DoorNext, doorVars
  <2> QED
    BY <1>2, <1>3, <2>1, <2>2, EntryGoes DEF EntryPartInv
<1> QED
  BY <1>1, <1>3

---------------------------------------------------------------------------
(* The statistics' sums.                                                   *)

LEMMA EntryFinite ==
  IsFiniteSet(Calls) /\ IsFiniteSet(Entry!Tickets) /\ IsFiniteSet(Entry!Payloads)
<1>1. IsFiniteSet(Calls) /\ IsFiniteSet(Singles) /\ IsFiniteSet(Couples)
  BY DoorAssumption DEF Entry!AdmissionAssumption, Entry!IsFiniteSet, IsFiniteSet
<1>2. IsFiniteSet(Entry!Tickets)
  BY <1>1, FS_Union DEF Entry!Tickets
<1> QED
  BY <1>1, <1>2, FS_AddElement DEF Entry!Payloads

LEMMA LedgerSums ==
  /\ Entry!MapThenSumSet(LAMBDA t : admitted[t], Entry!Tickets) = Sum(admitted, Entry!Tickets)
  /\ Entry!MapThenSumSet(LAMBDA p : waved[p], Entry!Payloads) = Sum(waved, Entry!Payloads)
BY DEF Entry!MapThenSumSet, Entry!MapThenFoldSet, Sum, Sums, Pick

\* The seats of some of the calls.
LEMMA SeatsSum ==
  ASSUME NEW T, IsFiniteSet(T), NEW w, \A k \in T : w[k] = entry[k].seats
  PROVE  Entry!MapThenSumSet(LAMBDA k : entry[k].seats, T) = Sum(w, T)
<1> DEFINE folds(g) == g = [s \in SUBSET T |->
                         IF s = {} THEN 0
                         ELSE entry[CHOOSE x \in s : TRUE].seats + g[s \ {CHOOSE x \in s : TRUE}]]
           fold == CHOOSE g : folds(g)
<1>1. Entry!MapThenSumSet(LAMBDA k : entry[k].seats, T) = fold[T]
  BY DEF Entry!MapThenSumSet, Entry!MapThenFoldSet
<1>2. ASSUME NEW s \in SUBSET T, s # {}
      PROVE  w[Pick(s)] = entry[CHOOSE x \in s : TRUE].seats
  BY <1>2 DEF Pick
<1>3. ASSUME NEW g PROVE Sums(g, w, T) <=> folds(g)
  BY <1>2 DEF Sums, Pick
<1> HIDE DEF folds
<1>4. PICK h : Sums(h, w, T)
  BY SumsExist
<1>5. folds(fold)
  BY <1>3, <1>4
<1> HIDE DEF fold
<1> QED
  BY <1>1, <1>3, <1>5, SumOf

LEMMA ScansSum ==
  ASSUME NEW T, IsFiniteSet(T), NEW w, \A t \in T : w[t] = ticket[t].scans
  PROVE  Entry!MapThenSumSet(LAMBDA t : ticket[t].scans, T) = Sum(w, T)
<1> DEFINE folds(g) == g = [s \in SUBSET T |->
                         IF s = {} THEN 0
                         ELSE ticket[CHOOSE x \in s : TRUE].scans + g[s \ {CHOOSE x \in s : TRUE}]]
           fold == CHOOSE g : folds(g)
<1>1. Entry!MapThenSumSet(LAMBDA t : ticket[t].scans, T) = fold[T]
  BY DEF Entry!MapThenSumSet, Entry!MapThenFoldSet
<1>2. ASSUME NEW s \in SUBSET T, s # {}
      PROVE  w[Pick(s)] = ticket[CHOOSE x \in s : TRUE].scans
  BY <1>2 DEF Pick
<1>3. ASSUME NEW g PROVE Sums(g, w, T) <=> folds(g)
  BY <1>2 DEF Sums, Pick
<1> HIDE DEF folds
<1>4. PICK h : Sums(h, w, T)
  BY SumsExist
<1>5. folds(fold)
  BY <1>3, <1>4
<1> HIDE DEF fold
<1> QED
  BY <1>1, <1>3, <1>5, SumOf

LEMMA PendingSum ==
  ASSUME NEW T, IsFiniteSet(T), NEW w, \A t \in T : w[t] = Entry!Pending(t)
  PROVE  Entry!MapThenSumSet(Entry!Pending, T) = Sum(w, T)
<1> DEFINE folds(g) == g = [s \in SUBSET T |->
                         IF s = {} THEN 0
                         ELSE Entry!Pending(CHOOSE x \in s : TRUE) + g[s \ {CHOOSE x \in s : TRUE}]]
           fold == CHOOSE g : folds(g)
<1>1. Entry!MapThenSumSet(Entry!Pending, T) = fold[T]
  BY DEF Entry!MapThenSumSet, Entry!MapThenFoldSet
<1>2. ASSUME NEW s \in SUBSET T, s # {}
      PROVE  w[Pick(s)] = Entry!Pending(CHOOSE x \in s : TRUE)
  BY <1>2 DEF Pick
<1>3. ASSUME NEW g PROVE Sums(g, w, T) <=> folds(g)
  BY <1>2 DEF Sums, Pick
<1> HIDE DEF folds
<1>4. PICK h : Sums(h, w, T)
  BY SumsExist
<1>5. folds(fold)
  BY <1>3, <1>4
<1> HIDE DEF fold
<1> QED
  BY <1>1, <1>3, <1>5, SumOf

\* What is owed to a ticket is what the calls at its record step have claimed of it.
LEMMA PendingIsOwed ==
  ASSUME Entry!TypeOK, NEW t
  PROVE  Entry!Pending(t) = Sum(OwedTo(t), Calls)
<1> DEFINE at == {k \in Calls : entry[k].pc \in {"record", "dead"} /\ Head(entry[k].batch) = t}
<1>1. PICK w : w = OwedTo(t)
  OBVIOUS
<1>2. \A k \in at : w[k] = entry[k].seats
  BY <1>1 DEF OwedTo, Owed
<1>3. \A k \in Calls : w[k] \in Int /\ (k \notin at => w[k] = 0)
  BY <1>1 DEF OwedTo, Owed, Entry!TypeOK, Entry!Call
<1>4. at \in SUBSET Calls /\ IsFiniteSet(at)
  BY EntryFinite, FS_Subset
<1>5. Entry!Pending(t) = Entry!MapThenSumSet(LAMBDA k : entry[k].seats, at)
  BY DEF Entry!Pending
<1> HIDE DEF at
<1>6. Entry!MapThenSumSet(LAMBDA k : entry[k].seats, at) = Sum(w, at)
  BY <1>2, <1>4, SeatsSum
<1>7. Sum(w, Calls) = Sum(w, at)
  BY <1>3, <1>4, EntryFinite, SumOn
<1> QED
  BY <1>1, <1>5, <1>6, <1>7

\* However scanners, offline devices, manual check-ins, overrides, withdrawals and
\* deaths interleave, for any tickets and any number of requests: a ticket's people on
\* the ledger and the seats claimed for it and not recorded are the seats spent on it,
\* none is overspent, and the statistics read from the ledger differ from those read
\* from the tickets by what is not recorded and what was waved through (Admission's
\* LedgerAgrees).
THEOREM LedgerAgreesWithSeats == DoorSpec => []LedgerAgrees
<1>1. ASSUME EntryInv PROVE Entry!LedgerAgrees
  <2>1. Entry!TypeOK /\ SeatsInv
    BY <1>1 DEF EntryInv
  <2>2. ASSUME NEW t \in Entry!Tickets
        PROVE  /\ admitted[t] \in Int /\ ticket[t].scans \in Int /\ Entry!Pending(t) \in Int
               /\ admitted[t] + Entry!Pending(t) = ticket[t].scans
    <3>1. admitted[t] \in Int /\ ticket[t].scans \in Int
      BY <2>1 DEF Entry!TypeOK, Entry!Ticket
    <3>2. PICK w : w = OwedTo(t)
      OBVIOUS
    <3>3. \A k \in Calls : w[k] \in Int
      BY <2>1, <3>2 DEF OwedTo, Owed, Entry!TypeOK, Entry!Call
    <3>4. Sum(w, Calls) \in Int
      BY <3>3, EntryFinite, SumSplits
    <3> QED
      BY <2>1, <3>1, <3>2, <3>4, PendingIsOwed DEF SeatsInv
  <2>3. Entry!DoorStats.prebooked = Entry!Recorded
    <3> DEFINE p == [t \in Entry!Tickets |-> Entry!Pending(t)]
               s == [t \in Entry!Tickets |-> ticket[t].scans]
    <3>1. \A t \in Entry!Tickets :
            /\ admitted[t] \in Int /\ p[t] \in Int /\ s[t] \in Int
            /\ s[t] = admitted[t] + p[t]
      BY <2>2
    <3>2. /\ \A t \in Entry!Tickets : p[t] = Entry!Pending(t)
          /\ \A t \in Entry!Tickets : s[t] = ticket[t].scans
      OBVIOUS
    <3> HIDE DEF p, s
    <3>3. Sum(s, Entry!Tickets) = Sum(admitted, Entry!Tickets) + Sum(p, Entry!Tickets)
      BY <3>1, EntryFinite, SumsAdd
    <3>4. /\ Sum(s, Entry!Tickets) \in Int /\ Sum(admitted, Entry!Tickets) \in Int
          /\ Sum(p, Entry!Tickets) \in Int
      BY <3>1, EntryFinite, SumSplits
    <3>5. Sum(waved, Entry!Payloads) \in Int
      <4>1. \A q \in Entry!Payloads : waved[q] \in Int
        BY <2>1 DEF Entry!TypeOK
      <4> QED
        BY <4>1, EntryFinite, SumSplits
    <3>6. Entry!DoorStats.prebooked = Sum(admitted, Entry!Tickets) + Sum(waved, Entry!Payloads)
      BY LedgerSums DEF Entry!DoorStats, Entry!AdmissionStats
    <3>7. Entry!AttendanceReport.admittedCount = Sum(s, Entry!Tickets)
      BY <3>2, ScansSum, EntryFinite DEF Entry!AttendanceReport
    <3>8. Entry!MapThenSumSet(Entry!Pending, Entry!Tickets) = Sum(p, Entry!Tickets)
      BY <3>2, PendingSum, EntryFinite
    <3>9. Entry!Recorded
            = Sum(s, Entry!Tickets) - Sum(p, Entry!Tickets) + Sum(waved, Entry!Payloads)
      BY <3>7, <3>8, LedgerSums DEF Entry!Recorded
    <3> QED
      BY <3>3, <3>4, <3>5, <3>6, <3>9
  <2>4. Entry!OfflineManifest = {p \in Entry!Payloads : Entry!Resolve(p) = "valid"}
    <3>1. unread \notin Entry!Tickets
      BY DoorAssumption DEF Entry!AdmissionAssumption, Entry!Tickets
    <3> QED
      BY <3>1 DEF Entry!OfflineManifest, Entry!Resolve, Entry!Verifies, Entry!EvaluateAdmission,
                  Entry!Payloads
  <2> QED
    BY <2>1, <2>2, <2>3, <2>4 DEF Entry!LedgerAgrees, SeatsInv
<1>2. EntryPartInv => LedgerAgrees
  BY <1>1 DEF EntryPartInv, LedgerAgrees
<1> QED
  BY <1>2, EntryPartGoes, PTL DEF DoorSpec
=============================================================================
