-------------------------- MODULE BudgetLedgerProofs --------------------------
(***************************************************************************)
(* What is proved of the budget ledger, for any number of calls, runs and  *)
(* meters and any runs directory: the ceilings, the record of what was     *)
(* billed, the durability of tokens, that the ledger keeps BudgetContract, *)
(* and that an atomic run which its check let in is not stranded.          *)
(***************************************************************************)
EXTENDS AtomicRuns, FiniteSetTheorems, WellFoundedInduction, SequenceTheorems, TLAPS

\* The sum of a function over a set: SumOver and the contract's Total are of this form.
Total(f, S) == MapThenSumSet(LAMBDA c : f[c], S)

(***************************************************************************)
(* Induction over the subsets of a finite set.                             *)
(***************************************************************************)

LEMMA Minimal ==
  ASSUME NEW S, IsFiniteSet(S), NEW T, T \subseteq SUBSET S, T # {}
  PROVE  \E x \in T : \A y \in T : ~ (y \subseteq x /\ y # x)
<1>1. IsWellFoundedOn(StrictSubsetOrdering(S), FiniteSubsetsOf(S))
  BY FS_StrictSubsetOrderingWellFounded
<1>2. T \subseteq FiniteSubsetsOf(S)
  BY FS_FiniteSubsetsOfFinite
<1>3. PICK x \in T : \A y \in T : ~ (<<y, x>> \in StrictSubsetOrdering(S))
  BY <1>1, <1>2, WFMin
<1>. QED BY <1>3 DEF StrictSubsetOrdering

LEMMA SubsetInduction ==
  ASSUME NEW S, IsFiniteSet(S), NEW P, {} \in P,
         \A U \in SUBSET S : U # {} /\ (\A x \in U : U \ {x} \in P) => U \in P
  PROVE  \A U \in SUBSET S : U \in P
<1>. DEFINE T == {U \in SUBSET S : U \notin P}
<1>1. SUFFICES ASSUME T # {} PROVE FALSE
  OBVIOUS
<1>2. PICK U \in T : \A y \in T : ~ (y \subseteq U /\ y # U)
  <2>. T \subseteq SUBSET S  OBVIOUS
  <2>. HIDE DEF T
  <2>. QED BY <1>1, Minimal
<1>3. \A x \in U : U \ {x} \in P
  BY <1>2
<1>. QED BY <1>2, <1>3

-----------------------------------------------------------------------------
(***************************************************************************)
(* The fold behind a sum: its recursive function exists, it is unique, and *)
(* so the sum of a finite set can be taken apart at any of its elements.   *)
(***************************************************************************)

pick(s) == CHOOSE x \in s : TRUE
IsIter(g, f, S) ==
  g = [s \in SUBSET S |-> IF s = {} THEN 0 ELSE f[pick(s)] + g[s \ {pick(s)}]]
Iter(f, S) == CHOOSE g : IsIter(g, f, S)

LEMMA PickIn == ASSUME NEW s, s # {} PROVE pick(s) \in s
BY DEF pick

LEMMA IterStep ==
  ASSUME NEW f, NEW S, NEW g, IsIter(g, f, S), NEW s \in SUBSET S
  PROVE  g[s] = IF s = {} THEN 0 ELSE f[pick(s)] + g[s \ {pick(s)}]
<1>. DEFINE h == [t \in SUBSET S |-> IF t = {} THEN 0 ELSE f[pick(t)] + g[t \ {pick(t)}]]
<1>1. g = h BY DEF IsIter
<1>2. h[s] = IF s = {} THEN 0 ELSE f[pick(s)] + g[s \ {pick(s)}] OBVIOUS
<1>3. g[s] = h[s] BY <1>1
<1>. HIDE DEF h
<1>. QED BY <1>2, <1>3

LEMMA IterUnique ==
  ASSUME NEW f, NEW S, IsFiniteSet(S), NEW U \in SUBSET S, NEW W \in SUBSET S,
         NEW g, IsIter(g, f, U), NEW h, IsIter(h, f, W)
  PROVE  \A s \in SUBSET S : s \subseteq U /\ s \subseteq W => g[s] = h[s]
<1>. DEFINE P == {s \in SUBSET S : s \subseteq U /\ s \subseteq W => g[s] = h[s]}
<1>1. {} \in P
  BY IterStep
<1>2. ASSUME NEW s \in SUBSET S, s # {}, \A x \in s : s \ {x} \in P
      PROVE  s \in P
  <2>1. SUFFICES ASSUME s \subseteq U, s \subseteq W PROVE g[s] = h[s]
    OBVIOUS
  <2>2. s \ {pick(s)} \in P
    BY <1>2, PickIn
  <2>3. g[s \ {pick(s)}] = h[s \ {pick(s)}]
    BY <2>1, <2>2
  <2>. HIDE DEF P
  <2>4. g[s] = f[pick(s)] + g[s \ {pick(s)}]
    BY <1>2, <2>1, IterStep
  <2>5. h[s] = f[pick(s)] + h[s \ {pick(s)}]
    BY <1>2, <2>1, IterStep
  <2>. QED BY <2>3, <2>4, <2>5
<1>3. \A s \in SUBSET S : s \in P
  <2>. HIDE DEF P
  <2>. QED BY <1>1, <1>2, SubsetInduction
<1>. QED BY <1>3

LEMMA IterExists ==
  ASSUME NEW f, NEW S, IsFiniteSet(S)
  PROVE  \A U \in SUBSET S : IsIter(Iter(f, U), f, U)
<1>. DEFINE P == {U \in SUBSET S : IsIter(Iter(f, U), f, U)}
<1>1. {} \in P
  <2>. DEFINE g == [s \in SUBSET {} |-> 0]
  <2>1. g = [s \in SUBSET {} |-> IF s = {} THEN 0 ELSE f[pick(s)] + g[s \ {pick(s)}]]
    OBVIOUS
  <2>2. IsIter(g, f, {})
    BY <2>1 DEF IsIter
  <2>. QED BY <2>2 DEF Iter
<1>2. ASSUME NEW U \in SUBSET S, U # {}, \A x \in U : U \ {x} \in P
      PROVE  U \in P
  <2>. DEFINE G(s) == LET x == CHOOSE x \in U : x \notin s IN Iter(f, U \ {x})[s]
              g == [s \in SUBSET U |-> IF s = U THEN f[pick(U)] + G(U \ {pick(U)}) ELSE G(s)]
  <2>1. \A x \in U : IsIter(Iter(f, U \ {x}), f, U \ {x})
    BY <1>2
  <2>. HIDE DEF P
  <2>2. ASSUME NEW s \in SUBSET U, NEW x \in U, x \notin s
        PROVE  G(s) = Iter(f, U \ {x})[s]
    <3>1. PICK y \in U : y \notin s /\ G(s) = Iter(f, U \ {y})[s]
      BY <2>2
    <3>2. U \ {x} \in SUBSET S /\ U \ {y} \in SUBSET S /\ s \in SUBSET S
          /\ s \subseteq U \ {x} /\ s \subseteq U \ {y}
      BY <2>2, <3>1
    <3>3. Iter(f, U \ {y})[s] = Iter(f, U \ {x})[s]
      BY <2>1, <3>2, IterUnique
    <3>. QED BY <3>1, <3>3
  <2>. HIDE DEF G
  <2>3. ASSUME NEW s \in SUBSET U
        PROVE  g[s] = IF s = {} THEN 0 ELSE f[pick(s)] + g[s \ {pick(s)}]
    <3>1. CASE s = U
      <4>1. pick(U) \in U /\ U \ {pick(U)} # U
        BY <1>2, PickIn
      <4>2. g[U \ {pick(U)}] = G(U \ {pick(U)})
        BY <4>1
      <4>. QED BY <1>2, <3>1, <4>2
    <3>2. CASE s # U
      <4>1. PICK x \in U : x \notin s
        BY <3>2
      <4>2. g[s] = Iter(f, U \ {x})[s]
        BY <2>2, <3>2, <4>1
      <4>3. CASE s = {}
        BY <2>1, <4>1, <4>2, <4>3, IterStep
      <4>4. CASE s # {}
        <5>1. g[s \ {pick(s)}] = Iter(f, U \ {x})[s \ {pick(s)}]
          BY <2>2, <4>1, <3>2
        <5>2. Iter(f, U \ {x})[s] = f[pick(s)] + Iter(f, U \ {x})[s \ {pick(s)}]
          BY <2>1, <4>1, <4>4, IterStep
        <5>. HIDE DEF g
        <5>. QED BY <4>2, <4>4, <5>1, <5>2
      <4>. QED BY <4>3, <4>4
    <3>. QED BY <3>1, <3>2
  <2>4. IsIter(g, f, U)
    BY <2>3 DEF IsIter
  <2>5. IsIter(Iter(f, U), f, U)
    <3>. HIDE DEF g
    <3>. QED BY <2>4 DEF Iter
  <2>. QED BY <2>5 DEF P
<1>3. \A U \in SUBSET S : U \in P
  <2>. HIDE DEF P
  <2>. QED BY <1>1, <1>2, SubsetInduction
<1>. QED BY <1>3

-----------------------------------------------------------------------------
LEMMA TotalIsIter == ASSUME NEW f, NEW S PROVE Total(f, S) = Iter(f, S)[S]
BY DEF Total, Iter, IsIter, MapThenSumSet, MapThenFoldSet, pick

LEMMA TotalEmpty == ASSUME NEW f PROVE Total(f, {}) = 0
BY TotalIsIter, IterExists, IterStep, FS_EmptySet

LEMMA TotalStep ==
  ASSUME NEW f, NEW S, IsFiniteSet(S), S # {}
  PROVE  Total(f, S) = f[pick(S)] + Total(f, S \ {pick(S)})
<1>1. IsIter(Iter(f, S), f, S) /\ IsIter(Iter(f, S \ {pick(S)}), f, S \ {pick(S)})
  BY IterExists
<1>2. Iter(f, S)[S] = f[pick(S)] + Iter(f, S)[S \ {pick(S)}]
  BY <1>1, IterStep
<1>3. Iter(f, S)[S \ {pick(S)}] = Iter(f, S \ {pick(S)})[S \ {pick(S)}]
  <2>. DEFINE V == S \ {pick(S)}
  <2>1. V \in SUBSET S /\ S \in SUBSET S
    OBVIOUS
  <2>2. IsIter(Iter(f, V), f, V)
    BY <1>1
  <2>. HIDE DEF V
  <2>3. \A s \in SUBSET S : s \subseteq S /\ s \subseteq V => Iter(f, S)[s] = Iter(f, V)[s]
    BY <1>1, <2>1, <2>2, IterUnique
  <2>4. Iter(f, S)[V] = Iter(f, V)[V]
    BY <2>1, <2>3
  <2>. QED BY <2>4 DEF V
<1>. QED BY <1>2, <1>3, TotalIsIter

LEMMA TotalNat ==
  ASSUME NEW f, NEW S, IsFiniteSet(S), \A x \in S : f[x] \in Nat
  PROVE  \A U \in SUBSET S : Total(f, U) \in Nat
<1>. DEFINE P == {U \in SUBSET S : Total(f, U) \in Nat}
<1>1. {} \in P
  BY TotalEmpty
<1>2. ASSUME NEW U \in SUBSET S, U # {}, \A x \in U : U \ {x} \in P
      PROVE  U \in P
  <2>1. pick(U) \in U
    BY <1>2, PickIn
  <2>2. Total(f, U) = f[pick(U)] + Total(f, U \ {pick(U)})
    BY <1>2, FS_Subset, TotalStep
  <2>. QED BY <1>2, <2>1, <2>2
<1>3. \A U \in SUBSET S : U \in P
  <2>. HIDE DEF P
  <2>. QED BY <1>1, <1>2, SubsetInduction
<1>. QED BY <1>3

LEMMA TotalTakeOut ==
  ASSUME NEW f, NEW S, IsFiniteSet(S), \A x \in S : f[x] \in Nat
  PROVE  \A U \in SUBSET S : \A x \in U : Total(f, U) = f[x] + Total(f, U \ {x})
<1>. DEFINE P == {U \in SUBSET S : \A x \in U : Total(f, U) = f[x] + Total(f, U \ {x})}
<1>1. {} \in P
  OBVIOUS
<1>2. ASSUME NEW U \in SUBSET S, U # {}, \A x \in U : U \ {x} \in P
      PROVE  U \in P
  <2>1. PICK p \in U : Total(f, U) = f[p] + Total(f, U \ {p})
    <3>1. IsFiniteSet(U)
      BY FS_Subset
    <3>2. pick(U) \in U
      BY <1>2, PickIn
    <3>3. Total(f, U) = f[pick(U)] + Total(f, U \ {pick(U)})
      BY <1>2, <3>1, TotalStep
    <3>. QED BY <3>2, <3>3
  <2>2. ASSUME NEW x \in U, x # p PROVE Total(f, U) = f[x] + Total(f, U \ {x})
    <3>. DEFINE rest == Total(f, (U \ {p}) \ {x})
    <3>1. Total(f, U \ {p}) = f[x] + rest
      BY <1>2, <2>2
    <3>2. Total(f, U \ {x}) = f[p] + rest
      <4>1. (U \ {p}) \ {x} = (U \ {x}) \ {p}
        OBVIOUS
      <4>. QED BY <1>2, <2>2, <4>1
    <3>3. f[p] \in Nat /\ f[x] \in Nat /\ rest \in Nat
      BY TotalNat
    <3>. HIDE DEF rest
    <3>. QED BY <2>1, <3>1, <3>2, <3>3
  <2>. QED BY <2>1, <2>2
<1>3. \A U \in SUBSET S : U \in P
  <2>. HIDE DEF P
  <2>. QED BY <1>1, <1>2, SubsetInduction
<1>. QED BY <1>3

LEMMA TotalSame ==
  ASSUME NEW f, NEW g, NEW S, IsFiniteSet(S), \A x \in S : f[x] = g[x]
  PROVE  \A U \in SUBSET S : Total(f, U) = Total(g, U)
<1>. DEFINE P == {U \in SUBSET S : Total(f, U) = Total(g, U)}
<1>1. {} \in P
  BY TotalEmpty
<1>2. ASSUME NEW U \in SUBSET S, U # {}, \A x \in U : U \ {x} \in P
      PROVE  U \in P
  <2>1. pick(U) \in U /\ f[pick(U)] = g[pick(U)]
    BY <1>2, PickIn
  <2>2. /\ Total(f, U) = f[pick(U)] + Total(f, U \ {pick(U)})
        /\ Total(g, U) = g[pick(U)] + Total(g, U \ {pick(U)})
    BY <1>2, FS_Subset, TotalStep
  <2>. QED BY <1>2, <2>1, <2>2
<1>3. \A U \in SUBSET S : U \in P
  <2>. HIDE DEF P
  <2>. QED BY <1>1, <1>2, SubsetInduction
<1>. QED BY <1>3

\* Two functions that differ in one argument.
LEMMA TotalChange ==
  ASSUME NEW f, NEW g, NEW S, IsFiniteSet(S), NEW x \in S,
         \A y \in S : f[y] \in Nat /\ g[y] \in Nat, \A y \in S \ {x} : f[y] = g[y]
  PROVE  Total(g, S) + f[x] = Total(f, S) + g[x]
<1>1. Total(f, S \ {x}) = Total(g, S \ {x})
  <2>1. IsFiniteSet(S \ {x})
    BY FS_Subset
  <2>. QED BY <2>1, TotalSame
<1>2. Total(f, S) = f[x] + Total(f, S \ {x}) /\ Total(g, S) = g[x] + Total(g, S \ {x})
  BY TotalTakeOut
<1>3. f[x] \in Nat /\ g[x] \in Nat /\ Total(f, S \ {x}) \in Nat
  BY TotalNat
<1>. QED BY <1>1, <1>2, <1>3

-------------------------------------------------------------------------------
(***************************************************************************)
(* The sums of the ledger.                                                 *)
(***************************************************************************)
Amounts == [c \in Call |-> Amount(c)]
Excesses == [c \in Call |-> Excess(c)]

LEMMA SumOverIsTotal ==
  \A S \in SUBSET Call : SumOver(S) = Total(Amounts, S)
<1>. SUFFICES ASSUME NEW S \in SUBSET Call PROVE SumOver(S) = Total(Amounts, S)
  OBVIOUS
<1>. DEFINE F(g) == [s \in SUBSET S |-> IF s = {} THEN 0 ELSE Amount(pick(s)) + g[s \ {pick(s)}]]
            H(g) == [s \in SUBSET S |-> IF s = {} THEN 0 ELSE Amounts[pick(s)] + g[s \ {pick(s)}]]
<1>1. SumOver(S) = (CHOOSE g : g = F(g))[S]
  BY DEF SumOver, MapThenSumSet, MapThenFoldSet, pick
<1>2. Total(Amounts, S) = (CHOOSE g : g = H(g))[S]
  BY DEF Total, MapThenSumSet, MapThenFoldSet, pick
<1>3. ASSUME NEW s \in SUBSET S, s # {} PROVE Amount(pick(s)) = Amounts[pick(s)]
  <2>1. pick(s) \in Call
    BY <1>3, PickIn
  <2>. QED BY <2>1 DEF Amounts
<1>4. \A g : F(g) = H(g)
  BY <1>3
<1>. HIDE DEF F, H
<1>5. (CHOOSE g : g = F(g)) = (CHOOSE g : g = H(g))
  BY <1>4
<1>. QED BY <1>1, <1>2, <1>5

LEMMA ExcessOverIsTotal ==
  \A S \in SUBSET Call : ExcessOver(S) = Total(Excesses, S)
<1>. SUFFICES ASSUME NEW S \in SUBSET Call PROVE ExcessOver(S) = Total(Excesses, S)
  OBVIOUS
<1>. DEFINE F(g) == [s \in SUBSET S |-> IF s = {} THEN 0 ELSE Excess(pick(s)) + g[s \ {pick(s)}]]
            H(g) == [s \in SUBSET S |-> IF s = {} THEN 0 ELSE Excesses[pick(s)] + g[s \ {pick(s)}]]
<1>1. ExcessOver(S) = (CHOOSE g : g = F(g))[S]
  BY DEF ExcessOver, MapThenSumSet, MapThenFoldSet, pick
<1>2. Total(Excesses, S) = (CHOOSE g : g = H(g))[S]
  BY DEF Total, MapThenSumSet, MapThenFoldSet, pick
<1>3. ASSUME NEW s \in SUBSET S, s # {} PROVE Excess(pick(s)) = Excesses[pick(s)]
  <2>1. pick(s) \in Call
    BY <1>3, PickIn
  <2>. QED BY <2>1 DEF Excesses
<1>4. \A g : F(g) = H(g)
  BY <1>3
<1>. HIDE DEF F, H
<1>5. (CHOOSE g : g = F(g)) = (CHOOSE g : g = H(g))
  BY <1>4
<1>. QED BY <1>1, <1>2, <1>5

\* The last line of a call is one of its lines.
LEMMA MaxIn ==
  ASSUME NEW n \in Nat, NEW S \in SUBSET (1 .. n), S # {}
  PROVE  Max(S) \in S /\ \A y \in S : Max(S) >= y
<1>. DEFINE P == {U \in SUBSET (1 .. n) : U = {} \/ \E m \in U : \A y \in U : m >= y}
<1>1. {} \in P
  OBVIOUS
<1>2. ASSUME NEW U \in SUBSET (1 .. n), U # {}, \A x \in U : U \ {x} \in P
      PROVE  U \in P
  <2>1. PICK x \in U : TRUE
    BY <1>2
  <2>2. CASE U \ {x} = {}
    BY <2>1, <2>2
  <2>3. CASE U \ {x} # {}
    <3>1. PICK m \in U \ {x} : \A y \in U \ {x} : m >= y
      BY <1>2, <2>3
    <3>2. m \in 1 .. n /\ x \in 1 .. n
      OBVIOUS
    <3>3. CASE m >= x
      BY <3>1, <3>3
    <3>4. CASE x > m
      BY <3>1, <3>2, <3>4
    <3>. QED BY <3>2, <3>3, <3>4
  <2>. QED BY <2>2, <2>3
<1>3. \A U \in SUBSET (1 .. n) : U \in P
  <2>1. IsFiniteSet(1 .. n)
    BY FS_Interval
  <2>. HIDE DEF P
  <2>. QED BY <1>1, <1>2, <2>1, SubsetInduction
<1>4. \E m \in S : \A y \in S : m >= y
  BY <1>3
<1>. QED BY <1>4 DEF Max

LEMMA MaxNew ==
  ASSUME NEW n \in Nat, NEW S \in SUBSET (1 .. n)
  PROVE  Max(S \cup {n + 1}) = n + 1
<1>1. S \cup {n + 1} \in SUBSET (1 .. n + 1)
  OBVIOUS
<1>2. Max(S \cup {n + 1}) \in S \cup {n + 1} /\ Max(S \cup {n + 1}) >= n + 1
  BY <1>1, MaxIn
<1>. DEFINE m == Max(S \cup {n + 1})
<1>3. m \in S \cup {n + 1} /\ m >= n + 1
  BY <1>2
<1>. HIDE DEF m
<1>4. m = n + 1
  BY <1>3
<1>. QED BY <1>4 DEF m

LedgerLine == [token : Call, kind : {"reserved", "actual"}, amount : Nat, day : 1 .. Days]
LedgerOK == ledger \in Seq(LedgerLine)

LEMMA LinesAreIn ==
  ASSUME LedgerOK
  PROVE  /\ Len(ledger) \in Nat /\ DOMAIN ledger = 1 .. Len(ledger)
         /\ \A i \in DOMAIN ledger : ledger[i] \in LedgerLine
         /\ \A c, k : LinesOf(c, k) \in SUBSET (1 .. Len(ledger))
         /\ \A c, k : LinesOf(c, k) # {} => Max(LinesOf(c, k)) \in LinesOf(c, k)
<1>1. Len(ledger) \in Nat /\ DOMAIN ledger = 1 .. Len(ledger)
  BY DEF LedgerOK
<1>2. \A i \in DOMAIN ledger : ledger[i] \in LedgerLine
  BY DEF LedgerOK
<1>3. \A c, k : LinesOf(c, k) \in SUBSET (1 .. Len(ledger))
  BY <1>1 DEF LinesOf
<1>. QED BY <1>1, <1>2, <1>3, MaxIn

AmountsTyped == \A c : Amount(c) \in Nat /\ DayOf(c) \in 0 .. Days

LEMMA AmountIsNat == LedgerOK => AmountsTyped
<1>. SUFFICES ASSUME LedgerOK, NEW c PROVE Amount(c) \in Nat /\ DayOf(c) \in 0 .. Days
  BY DEF AmountsTyped
<1>1. ASSUME NEW k, LinesOf(c, k) # {}
      PROVE  /\ ledger[Max(LinesOf(c, k))].amount \in Nat
             /\ ledger[Max(LinesOf(c, k))].day \in 1 .. Days
  BY <1>1, LinesAreIn DEF LedgerLine
<1>2. Amount(c) \in Nat
  BY <1>1 DEF Amount, Reserved
<1>3. DayOf(c) \in 0 .. Days
  <2>1. CASE Reserved(c)
    BY <1>1, <2>1, BudgetAssumption DEF DayOf, Reserved, BudgetAssumption
  <2>2. CASE ~Reserved(c)
    BY <2>2, BudgetAssumption DEF DayOf, BudgetAssumption
  <2>. QED BY <2>1, <2>2
<1>. QED BY <1>2, <1>3

SumsTyped == \A S \in SUBSET Call : SumOver(S) \in Nat /\ ExcessOver(S) \in Nat

LEMMA SumsAreNat == LedgerOK => SumsTyped
<1>. SUFFICES ASSUME LedgerOK PROVE SumsTyped
  OBVIOUS
<1>0. IsFiniteSet(Call) /\ \A c \in Call : Estimate[c] \in Nat
  BY BudgetAssumption DEF BudgetAssumption
<1>1. \A c \in Call : Amounts[c] \in Nat
  BY AmountIsNat DEF Amounts, AmountsTyped
<1>2. \A c \in Call : Excesses[c] \in Nat
  <2>1. \A c \in Call : Excess(c) \in Nat
    BY <1>0, AmountIsNat DEF Excess, AmountsTyped
  <2>. QED BY <2>1 DEF Excesses
<1>3. \A S \in SUBSET Call : Total(Amounts, S) \in Nat
  BY <1>1, <1>0, TotalNat
<1>4. \A S \in SUBSET Call : Total(Excesses, S) \in Nat
  BY <1>2, <1>0, TotalNat
<1>. QED BY <1>3, <1>4, SumOverIsTotal, ExcessOverIsTotal DEF SumsTyped

-------------------------------------------------------------------------------
(***************************************************************************)
(* What a new line changes.                                                *)
(***************************************************************************)

\* A step that writes no line changes nothing the ledger says.
LEMMA NoNewLine ==
  ASSUME UNCHANGED ledger
  PROVE  /\ \A c, k : LinesOf(c, k)' = LinesOf(c, k)
         /\ \A c : /\ Reserved(c)' = Reserved(c)
                   /\ Amount(c)' = Amount(c) /\ DayOf(c)' = DayOf(c) /\ Excess(c)' = Excess(c)
         /\ \A S \in SUBSET Call : SumOver(S)' = SumOver(S) /\ ExcessOver(S)' = ExcessOver(S)
<1>1. \A c, k : LinesOf(c, k)' = LinesOf(c, k)
  BY DEF LinesOf
<1>2. \A c : Reserved(c)' = Reserved(c) /\ Amount(c)' = Amount(c) /\ DayOf(c)' = DayOf(c)
  BY <1>1 DEF Reserved, Amount, DayOf
<1>3. \A c : Excess(c)' = Excess(c)
  BY <1>2 DEF Excess
<1>4. Amounts' = Amounts /\ Excesses' = Excesses
  BY <1>2, <1>3 DEF Amounts, Excesses
<1>5. (\A S \in SUBSET Call : SumOver(S) = Total(Amounts, S))'
  BY SumOverIsTotal, PTL
<1>6. (\A S \in SUBSET Call : ExcessOver(S) = Total(Excesses, S))'
  BY ExcessOverIsTotal, PTL
<1>. QED BY <1>1, <1>2, <1>3, <1>4, <1>5, <1>6, SumOverIsTotal, ExcessOverIsTotal

NewLine(c, k, amount, d) ==
  ledger' = Append(ledger, [token |-> c, kind |-> k, amount |-> amount, day |-> d])

LEMMA NewLineOf ==
  ASSUME LedgerOK, NEW c \in Call, NEW k \in {"reserved", "actual"}, NEW amount \in Nat,
         NEW d \in 1 .. Days, NewLine(c, k, amount, d)
  PROVE  /\ LedgerOK'
         /\ DOMAIN ledger' = DOMAIN ledger \cup {Len(ledger) + 1}
         /\ \A i \in DOMAIN ledger : ledger'[i] = ledger[i]
         /\ ledger'[Len(ledger) + 1] = [token |-> c, kind |-> k, amount |-> amount, day |-> d]
         /\ LinesOf(c, k)' = LinesOf(c, k) \cup {Len(ledger) + 1}
         /\ \A x, j : x # c \/ j # k => LinesOf(x, j)' = LinesOf(x, j)
<1>. DEFINE ln == [token |-> c, kind |-> k, amount |-> amount, day |-> d]
<1>1. ln \in LedgerLine
  BY DEF LedgerLine
<1>2. /\ LedgerOK' /\ DOMAIN ledger' = DOMAIN ledger \cup {Len(ledger) + 1}
      /\ \A i \in DOMAIN ledger : ledger'[i] = ledger[i]
      /\ ledger'[Len(ledger) + 1] = ln
  BY <1>1 DEF LedgerOK, NewLine
<1>3. ln.token = c /\ ln.kind = k
  OBVIOUS
<1>. HIDE DEF ln
<1>4. LinesOf(c, k)' = LinesOf(c, k) \cup {Len(ledger) + 1}
  BY <1>2, <1>3 DEF LinesOf
<1>5. \A x, j : x # c \/ j # k => LinesOf(x, j)' = LinesOf(x, j)
  BY <1>2, <1>3 DEF LinesOf
<1>. QED BY <1>2, <1>4, <1>5 DEF ln

\* The calls the line is not of count for what they counted.
LEMMA NewLineOthers ==
  ASSUME LedgerOK, NEW c \in Call, NEW k \in {"reserved", "actual"}, NEW amount \in Nat,
         NEW d \in 1 .. Days, NewLine(c, k, amount, d)
  PROVE  \A x : x # c => /\ Amount(x)' = Amount(x) /\ DayOf(x)' = DayOf(x)
                         /\ Excess(x)' = Excess(x) /\ Reserved(x)' = Reserved(x)
<1>. SUFFICES ASSUME NEW x, x # c
              PROVE  /\ Amount(x)' = Amount(x) /\ DayOf(x)' = DayOf(x)
                     /\ Excess(x)' = Excess(x) /\ Reserved(x)' = Reserved(x)
  OBVIOUS
<1>0. \A y, j : y # c \/ j # k => LinesOf(y, j)' = LinesOf(y, j)
  BY NewLineOf
<1>1. \A j : LinesOf(x, j)' = LinesOf(x, j)
  BY <1>0
<1>2. \A j : LinesOf(x, j) # {} =>
             ledger'[Max(LinesOf(x, j))] = ledger[Max(LinesOf(x, j))]
  BY NewLineOf, LinesAreIn
<1>3. Reserved(x)' = Reserved(x)
  BY <1>1 DEF Reserved
<1>4. Amount(x)' = Amount(x)
  BY <1>1, <1>2 DEF Amount, Reserved
<1>5. DayOf(x)' = DayOf(x)
  BY <1>1, <1>2 DEF DayOf, Reserved
<1>. QED BY <1>3, <1>4, <1>5 DEF Excess

\* The sums move by what the call's own amount moves.
LEMMA NewLineSums ==
  ASSUME LedgerOK, NEW c \in Call, NEW k \in {"reserved", "actual"}, NEW amount \in Nat,
         NEW d \in 1 .. Days, NewLine(c, k, amount, d)
  PROVE  \A S \in SUBSET Call :
           /\ c \in S => /\ SumOver(S)' + Amount(c) = SumOver(S) + Amount(c)'
                         /\ ExcessOver(S)' + Excess(c) = ExcessOver(S) + Excess(c)'
           /\ c \notin S => SumOver(S)' = SumOver(S) /\ ExcessOver(S)' = ExcessOver(S)
<1>1. (\A S \in SUBSET Call : SumOver(S) = Total(Amounts, S))'
  BY SumOverIsTotal, PTL
<1>2. (\A S \in SUBSET Call : ExcessOver(S) = Total(Excesses, S))'
  BY ExcessOverIsTotal, PTL
<1>3. LedgerOK'
  BY NewLineOf
<1>4. /\ \A x \in Call : Amounts[x] = Amount(x) /\ Amounts'[x] = Amount(x)'
      /\ \A x \in Call : Excesses[x] = Excess(x) /\ Excesses'[x] = Excess(x)'
  BY DEF Amounts, Excesses
<1>5. (\A x : Amount(x) \in Nat)'
  <2>1. (LedgerOK => AmountsTyped)'
    BY AmountIsNat, PTL
  <2>. QED BY <1>3, <2>1 DEF AmountsTyped
<1>6. \A x : Amount(x) \in Nat /\ Amount(x)' \in Nat
  BY <1>5, AmountIsNat DEF AmountsTyped
<1>7. \A x \in Call : Excess(x) \in Nat /\ Excess(x)' \in Nat
  BY <1>6, BudgetAssumption DEF Excess, BudgetAssumption
<1>8. \A x \in Call : x # c => Amounts[x] = Amounts'[x] /\ Excesses[x] = Excesses'[x]
  BY <1>4, NewLineOthers
<1>9. ASSUME NEW S \in SUBSET Call, c \in S
      PROVE  /\ SumOver(S)' + Amount(c) = SumOver(S) + Amount(c)'
             /\ ExcessOver(S)' + Excess(c) = ExcessOver(S) + Excess(c)'
  <2>1. IsFiniteSet(S)
    BY FS_Subset, BudgetAssumption DEF BudgetAssumption
  <2>2. \A x \in S : Amounts[x] \in Nat /\ Amounts'[x] \in Nat
    BY <1>4, <1>6
  <2>3. \A x \in S : Excesses[x] \in Nat /\ Excesses'[x] \in Nat
    BY <1>4, <1>7
  <2>4. Total(Amounts', S) + Amounts[c] = Total(Amounts, S) + Amounts'[c]
    BY <1>8, <1>9, <2>1, <2>2, TotalChange
  <2>5. Total(Excesses', S) + Excesses[c] = Total(Excesses, S) + Excesses'[c]
    BY <1>8, <1>9, <2>1, <2>3, TotalChange
  <2>. QED BY <1>1, <1>2, <1>4, <2>4, <2>5, SumOverIsTotal, ExcessOverIsTotal
<1>10. ASSUME NEW S \in SUBSET Call, c \notin S
       PROVE  SumOver(S)' = SumOver(S) /\ ExcessOver(S)' = ExcessOver(S)
  <2>1. IsFiniteSet(S)
    BY FS_Subset, BudgetAssumption DEF BudgetAssumption
  <2>2. \A x \in S : Amounts[x] = Amounts'[x] /\ Excesses[x] = Excesses'[x]
    BY <1>8, <1>10
  <2>3. Total(Amounts', S) = Total(Amounts, S) /\ Total(Excesses', S) = Total(Excesses, S)
    BY <2>1, <2>2, TotalSame
  <2>. QED BY <1>1, <1>2, <2>3, SumOverIsTotal, ExcessOverIsTotal
<1>. QED BY <1>9, <1>10

-------------------------------------------------------------------------------
(***************************************************************************)
(* The inductive invariant.                                                *)
(***************************************************************************)

\* The lock file excludes: whoever reads the sums or writes has it.
LockHeld == \A c \in Call : pc[c] \in {"check", "append", "amend"} <=> lock = c

\* No line is younger than the clock, and a reservation is of the call's estimate.
LinesAreTrue ==
  \A i \in DOMAIN ledger :
    /\ ledger[i].day <= today
    /\ ledger[i].kind = "reserved" => ledger[i].amount = Estimate[ledger[i].token]

\* What the ledger has of a call, by where the call is.
LinesOfPlace ==
  \A c \in Call :
    /\ pc[c] \in {"idle", "check", "append"} => ~Reserved(c) /\ billed[c] = 0
    /\ pc[c] \in {"held", "sent", "settle", "amend"} => Reserved(c) /\ LinesOf(c, "actual") = {}
    /\ pc[c] = "held" => billed[c] = 0
    /\ billed[c] > 0 \/ LinesOf(c, "actual") # {} => Reserved(c)

\* What is about to be written is the price or the estimate.
SettlesTrue ==
  \A c \in Call : /\ pc[c] \in {"settle", "amend"} /\ billed[c] > 0
                  /\ Caller[c] # "block"
                  => settle[c] \in {billed[c], Estimate[c]}

\* Nothing that could use up the room a call was promised happens before its line is there.
RoomIsKept == \A c \in Call : pc[c] = "append" => Allowed(c)

BudgetInv == /\ TypeOK /\ LockHeld /\ LinesAreTrue /\ LinesOfPlace /\ SettlesTrue
             /\ RoomIsKept /\ CeilingsHold /\ ChargesAreCounted


LEMMA BudgetFacts ==
  /\ IsFiniteSet(Call) /\ Days \in Nat /\ VideoCeiling \in Nat /\ Nobody \notin Call
  /\ \A c \in Call : /\ Estimate[c] \in Nat \ {0} /\ Price[c] \in Nat \ {0}
                     /\ DayCeiling[MeterOf[c]] \in Nat /\ RunCeiling[MeterOf[c]] \in Nat
BY BudgetAssumption DEF BudgetAssumption

LEMMA TypedLedger == ASSUME TypeOK PROVE LedgerOK
BY DEF TypeOK, LedgerOK, LedgerLine

\* What a call counts for before its reservation, and with its reservation alone.
LEMMA AmountOfPlace ==
  ASSUME TypeOK, LinesAreTrue, NEW c \in Call
  PROVE  /\ DayOf(c) <= today
         /\ ~Reserved(c) => DayOf(c) = 0
         /\ Reserved(c) => DayOf(c) # 0
         /\ ~Reserved(c) /\ LinesOf(c, "actual") = {} => Amount(c) = 0 /\ Excess(c) = 0
         /\ Reserved(c) /\ LinesOf(c, "actual") = {} => Amount(c) = Estimate[c] /\ Excess(c) = 0
<1>1. LedgerOK /\ Estimate[c] \in Nat \ {0} /\ today \in Nat
  BY TypedLedger, BudgetFacts DEF TypeOK
<1>2. Reserved(c) => /\ Max(LinesOf(c, "reserved")) \in DOMAIN ledger
                     /\ ledger[Max(LinesOf(c, "reserved"))].token = c
                     /\ ledger[Max(LinesOf(c, "reserved"))].kind = "reserved"
  <2>1. Reserved(c) => Max(LinesOf(c, "reserved")) \in LinesOf(c, "reserved")
    BY <1>1, LinesAreIn DEF Reserved
  <2>2. \A i \in LinesOf(c, "reserved") : /\ i \in DOMAIN ledger /\ ledger[i].token = c
                                          /\ ledger[i].kind = "reserved"
    BY DEF LinesOf
  <2>. QED BY <2>1, <2>2
<1>3. DayOf(c) <= today
  BY <1>1, <1>2 DEF DayOf, LinesAreTrue
<1>4. ~Reserved(c) /\ LinesOf(c, "actual") = {} => Amount(c) = 0
  BY DEF Amount
<1>5. Reserved(c) /\ LinesOf(c, "actual") = {} => Amount(c) = Estimate[c]
  BY <1>2 DEF Amount, LinesAreTrue
<1>6. Reserved(c) => DayOf(c) # 0
  <2>1. Reserved(c) => ledger[Max(LinesOf(c, "reserved"))].day \in 1 .. Days
    BY <1>1, <1>2, LinesAreIn DEF LedgerLine
  <2>. QED BY <2>1, BudgetFacts DEF DayOf
<1>7. ~Reserved(c) => DayOf(c) = 0
  BY DEF DayOf
<1>8. Amount(c) <= Estimate[c] => Excess(c) = 0
  <2>1. Amount(c) \in Nat
    BY <1>1, AmountIsNat DEF AmountsTyped
  <2>. QED BY <1>1, <2>1 DEF Excess
<1>. QED BY <1>1, <1>3, <1>4, <1>5, <1>6, <1>7, <1>8

\* A sum over one more call.
LEMMA SumOverAdd ==
  ASSUME TypeOK, NEW S \in SUBSET Call, NEW c \in Call, c \notin S
  PROVE  SumOver(S \cup {c}) = SumOver(S) + Amount(c)
<1>1. IsFiniteSet(Call) /\ \A x \in Call : Amounts[x] \in Nat
  BY TypedLedger, AmountIsNat, BudgetFacts DEF AmountsTyped, Amounts
<1>2. Total(Amounts, S \cup {c}) = Amounts[c] + Total(Amounts, (S \cup {c}) \ {c})
  BY <1>1, TotalTakeOut
<1>3. (S \cup {c}) \ {c} = S
  OBVIOUS
<1>4. Amounts[c] = Amount(c) /\ Amount(c) \in Nat /\ Total(Amounts, S) \in Nat
  BY <1>1, TotalNat DEF Amounts
<1>. QED BY <1>2, <1>3, <1>4, SumOverIsTotal

LEMMA SumOverNone == SumOver({}) = 0
BY SumOverIsTotal, TotalEmpty

-------------------------------------------------------------------------------
(* The steps that write.                                                   *)

\* The line of a reservation is there, whether its writer knows or not.
Reserves(c) ==
  /\ pc[c] = "append"
  /\ NewLine(c, "reserved", Estimate[c], today)
  /\ \E p \in {"held", "done"} : pc' = [pc EXCEPT ![c] = p]
  /\ lock' = Nobody /\ torn' \in BOOLEAN
  /\ UNCHANGED <<today, kill, settle, billed>>

\* The line of a reconciliation is there.
Amends(c) ==
  /\ pc[c] = "amend"
  /\ NewLine(c, "actual", settle[c], today)
  /\ pc' = [pc EXCEPT ![c] = "done"]
  /\ lock' = Nobody /\ torn' \in BOOLEAN
  /\ UNCHANGED <<today, kill, settle, billed>>

LEMMA ReservesLines ==
  ASSUME BudgetInv, NEW c \in Call, Reserves(c)
  PROVE  /\ NewLine(c, "reserved", Estimate[c], today) /\ today' = today
         /\ Estimate[c] \in Nat /\ today \in 1 .. Days /\ LedgerOK /\ lock = c
         /\ ~Reserved(c) /\ LinesOf(c, "actual") = {}
         /\ Amount(c) = 0 /\ DayOf(c) = 0 /\ Excess(c) = 0
         /\ Reserved(c)' /\ LinesOf(c, "actual")' = {}
         /\ Amount(c)' = Estimate[c] /\ DayOf(c)' = today /\ Excess(c)' = 0
<1>1. /\ NewLine(c, "reserved", Estimate[c], today) /\ today' = today
      /\ Estimate[c] \in Nat /\ today \in 1 .. Days /\ LedgerOK /\ lock = c
  BY TypedLedger, BudgetFacts DEF Reserves, BudgetInv, LockHeld, TypeOK
<1>2. ~Reserved(c) /\ LinesOf(c, "actual") = {}
  BY DEF Reserves, BudgetInv, LinesOfPlace
<1>3. Amount(c) = 0 /\ DayOf(c) = 0 /\ Excess(c) = 0
  BY <1>2, AmountOfPlace DEF BudgetInv
<1>4. LinesOf(c, "reserved") = {}
  BY <1>2 DEF Reserved
<1>5. /\ LinesOf(c, "reserved")' = {Len(ledger) + 1}
      /\ LinesOf(c, "actual")' = {}
      /\ ledger'[Len(ledger) + 1] = [token |-> c, kind |-> "reserved",
                                     amount |-> Estimate[c], day |-> today]
  <2>1. LinesOf(c, "reserved")' = LinesOf(c, "reserved") \cup {Len(ledger) + 1}
    BY <1>1, NewLineOf
  <2>2. \A x, j : x # c \/ j # "reserved" => LinesOf(x, j)' = LinesOf(x, j)
    BY <1>1, NewLineOf
  <2>3. ledger'[Len(ledger) + 1] = [token |-> c, kind |-> "reserved",
                                     amount |-> Estimate[c], day |-> today]
    BY <1>1, NewLineOf
  <2>. QED BY <1>2, <1>4, <2>1, <2>2, <2>3
<1>6. Max({Len(ledger) + 1}) = Len(ledger) + 1
  <2>1. Max({} \cup {Len(ledger) + 1}) = Len(ledger) + 1
    BY <1>1, LinesAreIn, MaxNew
  <2>2. {} \cup {Len(ledger) + 1} = {Len(ledger) + 1}
    OBVIOUS
  <2>. QED BY <2>1, <2>2
<1>7. Reserved(c)'
  BY <1>5 DEF Reserved
<1>8. Amount(c)' = Estimate[c] /\ DayOf(c)' = today
  <2>1. Amount(c)' = ledger'[Max(LinesOf(c, "reserved")')].amount
    BY <1>5, <1>7 DEF Amount
  <2>2. DayOf(c)' = ledger'[Max(LinesOf(c, "reserved")')].day
    BY <1>7 DEF DayOf
  <2>3. Max(LinesOf(c, "reserved")') = Len(ledger) + 1
    BY <1>5, <1>6
  <2>4. Amount(c)' = ledger'[Len(ledger) + 1].amount /\ DayOf(c)' = ledger'[Len(ledger) + 1].day
    BY <2>1, <2>2, <2>3
  <2>. QED BY <1>5, <2>4
<1>9. Excess(c)' = 0
  BY <1>1, <1>8 DEF Excess
<1>. QED BY <1>1, <1>2, <1>3, <1>5, <1>7, <1>8, <1>9

LEMMA AmendsLines ==
  ASSUME BudgetInv, NEW c \in Call, Amends(c)
  PROVE  /\ NewLine(c, "actual", settle[c], today) /\ today' = today
         /\ settle[c] \in Nat /\ today \in 1 .. Days /\ LedgerOK /\ lock = c
         /\ Reserved(c) /\ Amount(c) = Estimate[c] /\ Excess(c) = 0
         /\ Reserved(c)' /\ Amount(c)' = settle[c] /\ DayOf(c)' = DayOf(c)
         /\ Excess(c)' = IF settle[c] > Estimate[c] THEN settle[c] - Estimate[c] ELSE 0
<1>1. /\ NewLine(c, "actual", settle[c], today) /\ today' = today
      /\ settle[c] \in Nat /\ today \in 1 .. Days /\ LedgerOK /\ lock = c
  BY TypedLedger DEF Amends, BudgetInv, LockHeld, TypeOK
<1>2. Reserved(c) /\ LinesOf(c, "actual") = {}
  BY DEF Amends, BudgetInv, LinesOfPlace
<1>3. Amount(c) = Estimate[c] /\ Excess(c) = 0
  BY <1>2, AmountOfPlace DEF BudgetInv
<1>4. /\ LinesOf(c, "actual")' = {Len(ledger) + 1}
      /\ LinesOf(c, "reserved")' = LinesOf(c, "reserved")
      /\ \A i \in DOMAIN ledger : ledger'[i] = ledger[i]
      /\ ledger'[Len(ledger) + 1] = [token |-> c, kind |-> "actual",
                                     amount |-> settle[c], day |-> today]
  <2>1. LinesOf(c, "actual")' = LinesOf(c, "actual") \cup {Len(ledger) + 1}
    BY <1>1, NewLineOf
  <2>2. \A x, j : x # c \/ j # "actual" => LinesOf(x, j)' = LinesOf(x, j)
    BY <1>1, NewLineOf
  <2>3. /\ \A i \in DOMAIN ledger : ledger'[i] = ledger[i]
        /\ ledger'[Len(ledger) + 1] = [token |-> c, kind |-> "actual",
                                       amount |-> settle[c], day |-> today]
    BY <1>1, NewLineOf
  <2>. QED BY <1>2, <2>1, <2>2, <2>3
<1>5. Max({Len(ledger) + 1}) = Len(ledger) + 1
  <2>1. Max({} \cup {Len(ledger) + 1}) = Len(ledger) + 1
    BY <1>1, LinesAreIn, MaxNew
  <2>2. {} \cup {Len(ledger) + 1} = {Len(ledger) + 1}
    OBVIOUS
  <2>. QED BY <2>1, <2>2
<1>6. Reserved(c)'
  BY <1>2, <1>4 DEF Reserved
<1>7. Amount(c)' = settle[c]
  <2>1. Amount(c)' = ledger'[Max(LinesOf(c, "actual")')].amount
    BY <1>4 DEF Amount
  <2>. QED BY <1>4, <1>5, <2>1
<1>8. DayOf(c)' = DayOf(c)
  <2>1. Max(LinesOf(c, "reserved")) \in DOMAIN ledger
    <3>1. Max(LinesOf(c, "reserved")) \in LinesOf(c, "reserved")
      BY <1>1, <1>2, LinesAreIn DEF Reserved
    <3>2. LinesOf(c, "reserved") \subseteq DOMAIN ledger
      BY DEF LinesOf
    <3>. QED BY <3>1, <3>2
  <2>. QED BY <1>2, <1>4, <1>6, <2>1 DEF DayOf
<1>9. Excess(c)' = IF settle[c] > Estimate[c] THEN settle[c] - Estimate[c] ELSE 0
  BY <1>7 DEF Excess
<1>. QED BY <1>1, <1>2, <1>3, <1>6, <1>7, <1>8, <1>9

-------------------------------------------------------------------------------
(***************************************************************************)
(* The ceilings, said of the calls a sum is over.                          *)
(***************************************************************************)
OfDay(m, d) == {x \in Call : MeterOf[x] = m /\ DayOf(x) = d}
OfRun(c) == {x \in Call : MeterOf[x] = MeterOf[c] /\ RunOf[x] = RunOf[c]}
OfVideo(c) == {x \in Call : RunOf[x][2] = RunOf[c][2] /\ VideoOf[x] = VideoOf[c]}

Under(S, ceiling) == SumOver(S) <= ceiling + ExcessOver(S)

CeilingsByCall ==
  \A c \in Call : /\ \A d \in 1 .. Days : Under(OfDay(MeterOf[c], d), DayCeiling[MeterOf[c]])
                  /\ Under(OfRun(c), RunCeiling[MeterOf[c]])
                  /\ Under(OfVideo(c), VideoCeiling)

LEMMA CeilingsAreByCall == CeilingsHold <=> CeilingsByCall
BY DEF CeilingsHold, CeilingsByCall, OfDay, OfRun, OfVideo, Under

AllowedByCall ==
  \A c \in Call :
    Allowed(c) <=> /\ SumOver(OfDay(MeterOf[c], today)) + Estimate[c] <= DayCeiling[MeterOf[c]]
                   /\ SumOver(OfRun(c)) + Estimate[c] <= RunCeiling[MeterOf[c]]
                   /\ SumOver(OfVideo(c)) + Estimate[c] <= VideoCeiling

LEMMA AllowedIsByCall == AllowedByCall
<1>. SUFFICES ASSUME NEW c \in Call
              PROVE  /\ DaySum(MeterOf[c], today) = SumOver(OfDay(MeterOf[c], today))
                     /\ RunSum(RunOf[c], MeterOf[c]) = SumOver(OfRun(c))
                     /\ VideoSum(RunOf[c][2], VideoOf[c]) = SumOver(OfVideo(c))
  BY DEF AllowedByCall, Allowed
<1>1. /\ {x \in Call : RunOf[x] = RunOf[c] /\ MeterOf[x] = MeterOf[c]} = OfRun(c)
      /\ {x \in Call : RunOf[x][2] = RunOf[c][2] /\ VideoOf[x] = VideoOf[c]} = OfVideo(c)
      /\ {x \in Call : MeterOf[x] = MeterOf[c] /\ DayOf(x) = today} = OfDay(MeterOf[c], today)
  BY DEF OfRun, OfVideo, OfDay
<1>. QED BY <1>1 DEF DaySum, RunSum, VideoSum

\* What has to be shown of a step, with the sets of calls held fixed.
LEMMA CeilingsAfter ==
  ASSUME \A c \in Call :
           /\ \A d \in 1 .. Days :
                \A S \in SUBSET Call :
                  S = OfDay(MeterOf[c], d)' => Under(S, DayCeiling[MeterOf[c]])'
           /\ Under(OfRun(c), RunCeiling[MeterOf[c]])'
           /\ Under(OfVideo(c), VideoCeiling)'
  PROVE  CeilingsHold'
<1>1. ASSUME NEW c \in Call, NEW d \in 1 .. Days
      PROVE  Under(OfDay(MeterOf[c], d), DayCeiling[MeterOf[c]])'
  <2>1. OfDay(MeterOf[c], d)' \in SUBSET Call
    BY DEF OfDay
  <2>2. PICK S \in SUBSET Call : S = OfDay(MeterOf[c], d)'
    BY <2>1
  <2>3. Under(S, DayCeiling[MeterOf[c]])'
    BY <2>2
  <2>. QED BY <2>2, <2>3 DEF Under
<1>2. CeilingsByCall'
  BY <1>1 DEF CeilingsByCall
<1>3. (CeilingsHold <=> CeilingsByCall)'
  BY CeilingsAreByCall, PTL
<1>. QED BY <1>2, <1>3

\* A call for which there is room.
LEMMA AllowedAfter ==
  ASSUME NEW c \in Call,
         \A S \in SUBSET Call : S = OfDay(MeterOf[c], today)' =>
           SumOver(S)' + Estimate[c] <= DayCeiling[MeterOf[c]],
         SumOver(OfRun(c))' + Estimate[c] <= RunCeiling[MeterOf[c]],
         SumOver(OfVideo(c))' + Estimate[c] <= VideoCeiling
  PROVE  Allowed(c)'
<1>1. PICK S \in SUBSET Call : S = OfDay(MeterOf[c], today)'
  <2>1. OfDay(MeterOf[c], today)' \in SUBSET Call
    BY DEF OfDay
  <2>. QED BY <2>1
<1>2. SumOver(OfDay(MeterOf[c], today))' + Estimate[c] <= DayCeiling[MeterOf[c]]
  BY <1>1
<1>3. AllowedByCall'
  BY AllowedIsByCall, PTL
<1>. QED BY <1>2, <1>3 DEF AllowedByCall

-------------------------------------------------------------------------------
(***************************************************************************)
(* A step that writes no line.                                             *)
(***************************************************************************)

LEMMA SilentSums ==
  ASSUME BudgetInv, UNCHANGED ledger
  PROVE  CeilingsHold' /\ LedgerOK'
<1>1. /\ \A c : DayOf(c)' = DayOf(c)
      /\ \A S \in SUBSET Call : SumOver(S)' = SumOver(S) /\ ExcessOver(S)' = ExcessOver(S)
  BY NoNewLine
<1>2. CeilingsByCall
  BY CeilingsAreByCall DEF BudgetInv
<1>3. LedgerOK'
  BY TypedLedger DEF BudgetInv, LedgerOK
<1>4. ASSUME NEW c \in Call
      PROVE  /\ \A d \in 1 .. Days :
                  \A S \in SUBSET Call :
                    S = OfDay(MeterOf[c], d)' => Under(S, DayCeiling[MeterOf[c]])'
             /\ Under(OfRun(c), RunCeiling[MeterOf[c]])'
             /\ Under(OfVideo(c), VideoCeiling)'
  <2>1. \A d : OfDay(MeterOf[c], d)' = OfDay(MeterOf[c], d)
    BY <1>1 DEF OfDay
  <2>2. OfRun(c) \in SUBSET Call /\ OfVideo(c) \in SUBSET Call
    BY DEF OfRun, OfVideo
  <2>. QED BY <1>1, <1>2, <2>1, <2>2 DEF CeilingsByCall, Under
<1>5. CeilingsHold'
  BY <1>4, CeilingsAfter
<1>. QED BY <1>3, <1>5

\* As long as no line is written the room stays, over a midnight too: the new day is empty.
LEMMA AllowedStays ==
  ASSUME BudgetInv, UNCHANGED ledger, today' = today \/ Midnight, NEW c \in Call, Allowed(c)
  PROVE  Allowed(c)'
<1>1. /\ \A x : DayOf(x)' = DayOf(x)
      /\ \A S \in SUBSET Call : SumOver(S)' = SumOver(S)
  BY NoNewLine
<1>2. /\ SumOver(OfDay(MeterOf[c], today)) + Estimate[c] <= DayCeiling[MeterOf[c]]
      /\ SumOver(OfRun(c)) + Estimate[c] <= RunCeiling[MeterOf[c]]
      /\ SumOver(OfVideo(c)) + Estimate[c] <= VideoCeiling
  BY AllowedIsByCall DEF AllowedByCall
<1>3. OfRun(c) \in SUBSET Call /\ OfVideo(c) \in SUBSET Call
  BY DEF OfRun, OfVideo
<1>4. ASSUME NEW S \in SUBSET Call, S = OfDay(MeterOf[c], today)'
      PROVE  SumOver(S)' + Estimate[c] <= DayCeiling[MeterOf[c]]
  <2>1. CASE today' = today
    <3>1. S = OfDay(MeterOf[c], today)
      BY <1>1, <1>4, <2>1 DEF OfDay
    <3>. QED BY <1>1, <1>2, <3>1
  <2>2. CASE Midnight
    <3>1. today' = today + 1 /\ today \in Nat
      BY <2>2 DEF Midnight, BudgetInv, TypeOK
    <3>2. \A x \in Call : DayOf(x) <= today /\ DayOf(x) \in Nat
      BY TypedLedger, AmountOfPlace, AmountIsNat DEF BudgetInv, AmountsTyped
    <3>3. S = {}
      BY <1>1, <1>4, <3>1, <3>2 DEF OfDay
    <3>4. SumOver(S)' = 0
      BY <1>1, <3>3, SumOverNone
    <3>5. SumOver(OfDay(MeterOf[c], today)) \in Nat
      <4>1. OfDay(MeterOf[c], today) \in SUBSET Call
        BY DEF OfDay
      <4>. QED BY <4>1, TypedLedger, SumsAreNat DEF BudgetInv, SumsTyped
    <3>. QED BY <1>2, <3>4, <3>5, BudgetFacts
  <2>. QED BY <2>1, <2>2
<1>5. /\ SumOver(OfRun(c))' + Estimate[c] <= RunCeiling[MeterOf[c]]
      /\ SumOver(OfVideo(c))' + Estimate[c] <= VideoCeiling
  <2>1. OfRun(c)' = OfRun(c) /\ OfVideo(c)' = OfVideo(c)
    BY DEF OfRun, OfVideo
  <2>. QED BY <1>1, <1>2, <1>3, <2>1
<1>. QED BY <1>4, <1>5, AllowedAfter

-------------------------------------------------------------------------------
(***************************************************************************)
(* The steps that write, and the ceilings.                                 *)
(***************************************************************************)

LEMMA ReservesCeilings ==
  ASSUME BudgetInv, NEW c \in Call, Reserves(c)
  PROVE  CeilingsHold'
<1>1. /\ today \in 1 .. Days /\ LedgerOK /\ Estimate[c] \in Nat
      /\ NewLine(c, "reserved", Estimate[c], today)
      /\ Amount(c) = 0 /\ DayOf(c) = 0 /\ Excess(c) = 0
      /\ Amount(c)' = Estimate[c] /\ DayOf(c)' = today /\ Excess(c)' = 0
  BY ReservesLines
<1>2. \A x : x # c => DayOf(x)' = DayOf(x)
  BY <1>1, NewLineOthers
<1>3. \A S \in SUBSET Call :
        /\ c \in S => SumOver(S)' = SumOver(S) + Estimate[c] /\ ExcessOver(S)' = ExcessOver(S)
        /\ c \notin S => SumOver(S)' = SumOver(S) /\ ExcessOver(S)' = ExcessOver(S)
        /\ SumOver(S) \in Nat /\ ExcessOver(S) \in Nat
        /\ SumOver(S)' \in Nat /\ ExcessOver(S)' \in Nat
  <2>1. \A S \in SUBSET Call : SumOver(S) \in Nat /\ ExcessOver(S) \in Nat
    BY <1>1, SumsAreNat DEF SumsTyped
  <2>2. \A S \in SUBSET Call : SumOver(S)' \in Nat /\ ExcessOver(S)' \in Nat
    <3>1. LedgerOK'
      BY <1>1, NewLineOf
    <3>2. (LedgerOK => SumsTyped)'
      BY SumsAreNat, PTL
    <3>. QED BY <3>1, <3>2 DEF SumsTyped
  <2>3. \A S \in SUBSET Call :
          /\ c \in S => /\ SumOver(S)' + Amount(c) = SumOver(S) + Amount(c)'
                        /\ ExcessOver(S)' + Excess(c) = ExcessOver(S) + Excess(c)'
          /\ c \notin S => SumOver(S)' = SumOver(S) /\ ExcessOver(S)' = ExcessOver(S)
    BY <1>1, NewLineSums
  <2>. QED BY <1>1, <2>1, <2>2, <2>3
<1>4. /\ SumOver(OfDay(MeterOf[c], today)) + Estimate[c] <= DayCeiling[MeterOf[c]]
      /\ SumOver(OfRun(c)) + Estimate[c] <= RunCeiling[MeterOf[c]]
      /\ SumOver(OfVideo(c)) + Estimate[c] <= VideoCeiling
  BY AllowedIsByCall DEF AllowedByCall, BudgetInv, RoomIsKept, Reserves
<1>5. CeilingsByCall
  BY CeilingsAreByCall DEF BudgetInv
<1>6. ASSUME NEW x \in Call
      PROVE  Under(OfRun(x), RunCeiling[MeterOf[x]])'
  <2>1. OfRun(x) \in SUBSET Call /\ OfRun(x)' = OfRun(x) /\ RunCeiling[MeterOf[x]] \in Nat
    BY BudgetFacts DEF OfRun
  <2>2. CASE c \in OfRun(x)
    <3>1. OfRun(x) = OfRun(c) /\ MeterOf[x] = MeterOf[c]
      BY <2>2 DEF OfRun
    <3>. QED BY <1>3, <1>4, <2>1, <2>2, <3>1 DEF Under
  <2>3. CASE c \notin OfRun(x)
    BY <1>3, <1>5, <2>1, <2>3 DEF Under, CeilingsByCall
  <2>. QED BY <2>2, <2>3
<1>7. ASSUME NEW x \in Call
      PROVE  Under(OfVideo(x), VideoCeiling)'
  <2>1. OfVideo(x) \in SUBSET Call /\ OfVideo(x)' = OfVideo(x) /\ VideoCeiling \in Nat
    BY BudgetFacts DEF OfVideo
  <2>2. CASE c \in OfVideo(x)
    <3>1. OfVideo(x) = OfVideo(c)
      BY <2>2 DEF OfVideo
    <3>. QED BY <1>3, <1>4, <2>1, <2>2, <3>1 DEF Under
  <2>3. CASE c \notin OfVideo(x)
    BY <1>3, <1>5, <2>1, <2>3 DEF Under, CeilingsByCall
  <2>. QED BY <2>2, <2>3
<1>8. ASSUME NEW x \in Call, NEW d \in 1 .. Days,
             NEW S \in SUBSET Call, S = OfDay(MeterOf[x], d)'
      PROVE  Under(S, DayCeiling[MeterOf[x]])'
  <2>. DEFINE old == OfDay(MeterOf[x], d)
  <2>1. old \in SUBSET Call /\ c \notin old
    BY <1>1 DEF OfDay
  <2>2. Under(old, DayCeiling[MeterOf[x]])
    BY <1>5 DEF CeilingsByCall
  <2>3. CASE MeterOf[c] = MeterOf[x] /\ d = today
    <3>1. S = old \cup {c}
      BY <1>1, <1>2, <1>8, <2>3 DEF OfDay
    <3>2. SumOver(S) = SumOver(old)
      <4>1. SumOver(old \cup {c}) = SumOver(old) + Amount(c)
        <5>. HIDE DEF old
        <5>. QED BY <2>1, SumOverAdd DEF BudgetInv
      <4>. QED BY <1>1, <1>3, <2>1, <3>1, <4>1
    <3>3. SumOver(S)' = SumOver(old) + Estimate[c]
      BY <1>3, <3>1, <3>2
    <3>4. SumOver(old) + Estimate[c] <= DayCeiling[MeterOf[x]]
      BY <1>4, <2>3
    <3>. HIDE DEF old
    <3>. QED BY <1>3, <3>3, <3>4, BudgetFacts DEF Under
  <2>4. CASE ~ (MeterOf[c] = MeterOf[x] /\ d = today)
    <3>1. S = old
      BY <1>1, <1>2, <1>8, <2>4 DEF OfDay
    <3>. HIDE DEF old
    <3>. QED BY <1>3, <2>1, <2>2, <3>1 DEF Under
  <2>. QED BY <2>3, <2>4
<1>. QED BY <1>6, <1>7, <1>8, CeilingsAfter

LEMMA AmendsCeilings ==
  ASSUME BudgetInv, NEW c \in Call, Amends(c)
  PROVE  CeilingsHold'
<1>1. /\ today \in 1 .. Days /\ LedgerOK /\ settle[c] \in Nat
      /\ NewLine(c, "actual", settle[c], today)
      /\ Amount(c) = Estimate[c] /\ Excess(c) = 0 /\ Estimate[c] \in Nat
      /\ Amount(c)' = settle[c] /\ DayOf(c)' = DayOf(c)
      /\ Excess(c)' = IF settle[c] > Estimate[c] THEN settle[c] - Estimate[c] ELSE 0
  BY AmendsLines, BudgetFacts
<1>2. \A x : DayOf(x)' = DayOf(x)
  BY <1>1, NewLineOthers
<1>3. LedgerOK'
  BY <1>1, NewLineOf
\* What the sum gains, the excess gains.
<1>4. ASSUME NEW S \in SUBSET Call, NEW K \in Nat, Under(S, K)
      PROVE  Under(S, K)'
  <2>1. SumOver(S) \in Nat /\ ExcessOver(S) \in Nat
    BY <1>1, SumsAreNat DEF SumsTyped
  <2>2. SumOver(S)' \in Nat /\ ExcessOver(S)' \in Nat
    <3>1. (LedgerOK => SumsTyped)'
      BY SumsAreNat, PTL
    <3>. QED BY <1>3, <3>1 DEF SumsTyped
  <2>3. /\ c \in S => /\ SumOver(S)' + Amount(c) = SumOver(S) + Amount(c)'
                      /\ ExcessOver(S)' + Excess(c) = ExcessOver(S) + Excess(c)'
        /\ c \notin S => SumOver(S)' = SumOver(S) /\ ExcessOver(S)' = ExcessOver(S)
    BY <1>1, NewLineSums
  <2>4. SumOver(S) <= K + ExcessOver(S)
    BY <1>4 DEF Under
  <2>5. SumOver(S)' <= K + ExcessOver(S)'
    <3>1. CASE c \in S
      BY <1>1, <2>1, <2>2, <2>3, <2>4, <3>1
    <3>2. CASE c \notin S
      BY <2>3, <2>4, <3>2
    <3>. QED BY <3>1, <3>2
  <2>. QED BY <2>5 DEF Under
<1>5. CeilingsByCall
  BY CeilingsAreByCall DEF BudgetInv
<1>6. ASSUME NEW x \in Call
      PROVE  /\ \A d \in 1 .. Days :
                  \A S \in SUBSET Call :
                    S = OfDay(MeterOf[x], d)' => Under(S, DayCeiling[MeterOf[x]])'
             /\ Under(OfRun(x), RunCeiling[MeterOf[x]])'
             /\ Under(OfVideo(x), VideoCeiling)'
  <2>1. \A d : OfDay(MeterOf[x], d)' = OfDay(MeterOf[x], d)
    BY <1>2 DEF OfDay
  <2>2. /\ OfRun(x) \in SUBSET Call /\ OfVideo(x) \in SUBSET Call
        /\ OfRun(x)' = OfRun(x) /\ OfVideo(x)' = OfVideo(x)
    BY DEF OfRun, OfVideo
  <2>. QED BY <1>4, <1>5, <2>1, <2>2, BudgetFacts DEF CeilingsByCall, Under
<1>. QED BY <1>6, CeilingsAfter

-------------------------------------------------------------------------------
(***************************************************************************)
(* The rest of the invariant, step by step.                                *)
(***************************************************************************)

\* What the proofs below say of one call, where it is and what it settles.
CallInv(c) ==
  /\ pc[c] \in {"check", "append", "amend"} <=> lock = c
  /\ pc[c] \in {"idle", "check", "append"} => ~Reserved(c) /\ billed[c] = 0
  /\ pc[c] \in {"held", "sent", "settle", "amend"} => Reserved(c) /\ LinesOf(c, "actual") = {}
  /\ pc[c] = "held" => billed[c] = 0
  /\ billed[c] > 0 \/ LinesOf(c, "actual") # {} => Reserved(c)
  /\ pc[c] \in {"settle", "amend"} /\ billed[c] > 0 /\ Caller[c] # "block"
     => settle[c] \in {billed[c], Estimate[c]}
  /\ billed[c] > 0 /\ Caller[c] # "block" => Amount(c) \in {billed[c], Estimate[c]}

CallsInv == \A c \in Call : CallInv(c)

LEMMA CallInvIs ==
  CallsInv <=> LockHeld /\ LinesOfPlace /\ SettlesTrue /\ ChargesAreCounted
BY Zenon DEF CallsInv, CallInv, LockHeld, LinesOfPlace, SettlesTrue, ChargesAreCounted

\* The steps of a call that write no line, and where they leave it.
Moves(c) ==
  \/ Enter(c) \/ Check(c) \/ Dispatch(c) \/ Abandon(c) \/ Serve(c) \/ Answered(c)
  \/ Refused(c) \/ Failed(c) \/ EnterReconcile(c)
  \/ (WriteFails(c) \/ Crash(c)) /\ UNCHANGED ledger

LEMMA MovesType ==
  ASSUME BudgetInv, NEW c \in Call, Moves(c)
  PROVE  /\ torn' \in BOOLEAN /\ lock' \in Call \cup {Nobody}
         /\ pc' \in [Call -> Position] /\ settle' \in [Call -> Nat] /\ billed' \in [Call -> Nat]
         /\ UNCHANGED <<ledger, today, kill>>
         /\ \A x \in Call : x # c => /\ pc'[x] = pc[x] /\ settle'[x] = settle[x]
                                     /\ billed'[x] = billed[x]
<1>. USE BudgetFacts DEF BudgetInv, TypeOK, Position
<1>1. CASE Enter(c) \/ Dispatch(c) \/ EnterReconcile(c)
  BY <1>1 DEF Enter, Dispatch, EnterReconcile, Go
<1>2. CASE Check(c)
  BY <1>2 DEF Check, Go
<1>3. CASE Serve(c)
  BY <1>3 DEF Serve
<1>4. CASE Abandon(c)
  BY <1>4 DEF Abandon, ToSettle, Go
<1>5. CASE Answered(c)
  BY <1>5 DEF Answered, ToSettle, Go
<1>6. CASE Refused(c)
  BY <1>6 DEF Refused, ToSettle, Go
<1>7. CASE Failed(c)
  <2>1. CASE Caller[c] = "block"
    <3>1. ToSettle(c, "sent", 0)
      BY <1>7, <2>1 DEF Failed
    <3>. QED BY <3>1 DEF ToSettle, Go
  <2>2. CASE Caller[c] # "block"
    BY <1>7, <2>2 DEF Failed, Go
  <2>. QED BY <2>1, <2>2
<1>8. CASE (WriteFails(c) \/ Crash(c)) /\ UNCHANGED ledger
  BY <1>8 DEF WriteFails, Crash, Unfinished, Write
<1>. QED BY <1>1, <1>2, <1>3, <1>4, <1>5, <1>6, <1>7, <1>8 DEF Moves

LEMMA MovesCall ==
  ASSUME BudgetInv, NEW c \in Call, Moves(c)
  PROVE  \A x \in Call : CallInv(x)'
<1>1. /\ UNCHANGED ledger
      /\ \A x \in Call : x # c => /\ pc'[x] = pc[x] /\ settle'[x] = settle[x]
                                  /\ billed'[x] = billed[x]
  BY MovesType
<1>2. \A x : /\ Reserved(x)' = Reserved(x) /\ Amount(x)' = Amount(x)
             /\ LinesOf(x, "actual")' = LinesOf(x, "actual")
  BY <1>1, NoNewLine
<1>3. \A x \in Call : CallInv(x)
  BY CallInvIs DEF BudgetInv, CallsInv
<1>4. /\ pc \in [Call -> Position] /\ lock \in Call \cup {Nobody}
      /\ settle \in [Call -> Nat] /\ billed \in [Call -> Nat]
  BY DEF BudgetInv, TypeOK
<1>5. Reserved(c) /\ LinesOf(c, "actual") = {} => Amount(c) = Estimate[c]
  BY AmountOfPlace DEF BudgetInv
\* The lock goes only to a call that found it free, and from the call that has it.
<1>6. \A x \in Call : pc'[x] \in {"check", "append", "amend"} <=> lock' = x
  <2>. USE <1>3, <1>4, BudgetFacts DEF CallInv
  <2>1. CASE Enter(c) \/ EnterReconcile(c)
    BY <2>1 DEF Enter, EnterReconcile, Go
  <2>2. CASE Check(c)
    BY <2>2 DEF Check, Go
  <2>3. CASE Dispatch(c) \/ Serve(c)
    BY <2>3 DEF Dispatch, Serve, Go
  <2>4. CASE Abandon(c) \/ Answered(c) \/ Refused(c) \/ Failed(c)
    BY <2>4 DEF Abandon, Answered, Refused, Failed, ToSettle, Go
  <2>5. CASE WriteFails(c)
    BY <2>5 DEF WriteFails
  <2>6. CASE Crash(c)
    BY <2>6 DEF Crash
  <2>. QED BY <2>1, <2>2, <2>3, <2>4, <2>5, <2>6 DEF Moves
<1>7. CallInv(c)'
  <2>1. /\ pc'[c] \in {"idle", "check", "append"} => ~Reserved(c) /\ billed'[c] = 0
        /\ pc'[c] \in {"held", "sent", "settle", "amend"}
             => Reserved(c) /\ LinesOf(c, "actual") = {}
        /\ pc'[c] = "held" => billed'[c] = 0
        /\ billed'[c] > 0 \/ LinesOf(c, "actual") # {} => Reserved(c)
        /\ pc'[c] \in {"settle", "amend"} /\ billed'[c] > 0 /\ Caller[c] # "block"
           => settle'[c] \in {billed'[c], Estimate[c]}
        /\ billed'[c] > 0 /\ Caller[c] # "block" => Amount(c) \in {billed'[c], Estimate[c]}
    <3>0. CallInv(c)
      BY <1>3
    <3>. USE <1>4, <1>5, <3>0, BudgetFacts DEF CallInv
    <3>1. CASE Enter(c) \/ EnterReconcile(c) \/ Dispatch(c)
      BY <3>1 DEF Enter, EnterReconcile, Dispatch, Go
    <3>2. CASE Check(c)
      BY <3>2 DEF Check, Go
    <3>3. CASE Serve(c)
      BY <3>3 DEF Serve
    <3>4. CASE Abandon(c)
      BY <3>4 DEF Abandon, ToSettle, Go
    <3>5. CASE Answered(c)
      BY <3>5 DEF Answered, ToSettle, Go
    <3>6. CASE Refused(c)
      BY <3>6 DEF Refused, ToSettle, Go
    <3>7. CASE Failed(c)
      BY <3>7 DEF Failed, ToSettle, Go
    <3>8. CASE WriteFails(c) \/ Crash(c)
      BY <3>8 DEF WriteFails, Crash
    <3>. QED BY <3>1, <3>2, <3>3, <3>4, <3>5, <3>6, <3>7, <3>8 DEF Moves
  <2>. QED BY <1>2, <1>6, <2>1 DEF CallInv
<1>8. ASSUME NEW x \in Call, x # c PROVE CallInv(x)'
  BY <1>1, <1>2, <1>3, <1>6, <1>8 DEF CallInv
<1>. QED BY <1>7, <1>8

LEMMA WritesCall ==
  ASSUME BudgetInv, NEW c \in Call, Reserves(c) \/ Amends(c)
  PROVE  \A x \in Call : CallInv(x)'
<1>1. \A x \in Call : CallInv(x)
  BY CallInvIs DEF BudgetInv, CallsInv
<1>2. /\ pc \in [Call -> Position] /\ lock = c /\ lock' = Nobody /\ Nobody \notin Call
      /\ settle' = settle /\ billed' = billed /\ billed \in [Call -> Nat]
      /\ \A x \in Call : x # c => pc'[x] = pc[x]
      /\ pc'[c] \in {"held", "done"} /\ Estimate[c] \in Nat
  BY ReservesLines, AmendsLines, BudgetFacts DEF Reserves, Amends, BudgetInv, TypeOK
<1>3. ASSUME NEW x \in Call, x # c PROVE CallInv(x)'
  <2>1. Reserved(x)' = Reserved(x) /\ Amount(x)' = Amount(x)
    BY <1>3, ReservesLines, AmendsLines, NewLineOthers
  <2>2. LinesOf(x, "actual")' = LinesOf(x, "actual")
    <3>1. ASSUME Reserves(c)
          PROVE  \A y, j : y # c \/ j # "reserved" => LinesOf(y, j)' = LinesOf(y, j)
      BY <3>1, ReservesLines, NewLineOf
    <3>2. ASSUME Amends(c) PROVE \A y, j : y # c \/ j # "actual" => LinesOf(y, j)' = LinesOf(y, j)
      BY <3>2, AmendsLines, NewLineOf
    <3>. QED BY <1>3, <3>1, <3>2
  <2>. QED BY <1>1, <1>2, <1>3, <2>1, <2>2 DEF CallInv
<1>4. CallInv(c)'
  <2>1. CASE Reserves(c)
    <3>1. /\ Reserved(c)' /\ LinesOf(c, "actual")' = {} /\ Amount(c)' = Estimate[c]
      BY <2>1, ReservesLines
    <3>2. billed[c] = 0
      BY <1>1, <2>1 DEF CallInv, Reserves
    <3>. QED BY <1>2, <3>1, <3>2 DEF CallInv
  <2>2. CASE Amends(c)
    <3>1. Reserved(c)' /\ Amount(c)' = settle[c] /\ pc'[c] = "done"
      BY <1>2, <2>2, AmendsLines DEF Amends
    <3>2. billed[c] > 0 /\ Caller[c] # "block" => settle[c] \in {billed[c], Estimate[c]}
      BY <1>1, <2>2 DEF CallInv, Amends
    <3>. QED BY <1>2, <3>1, <3>2 DEF CallInv
  <2>. QED BY <2>1, <2>2
<1>. QED BY <1>3, <1>4

LEMMA WritesLines ==
  ASSUME BudgetInv, NEW c \in Call, Reserves(c) \/ Amends(c)
  PROVE  TypeOK' /\ LinesAreTrue' /\ RoomIsKept'
<1>1. LedgerOK /\ LinesAreTrue /\ TypeOK /\ LockHeld
  BY TypedLedger DEF BudgetInv
<1>2. TypeOK'
  <2>1. LedgerOK'
    BY ReservesLines, AmendsLines, NewLineOf
  <2>. QED BY <1>1, <2>1 DEF Reserves, Amends, TypeOK, Position, LedgerOK, LedgerLine
<1>3. LinesAreTrue'
  <2>1. /\ DOMAIN ledger' = DOMAIN ledger \cup {Len(ledger) + 1}
        /\ \A i \in DOMAIN ledger : ledger'[i] = ledger[i]
    BY ReservesLines, AmendsLines, NewLineOf
  <2>2. \/ ledger'[Len(ledger) + 1]
             = [token |-> c, kind |-> "reserved", amount |-> Estimate[c], day |-> today]
        \/ ledger'[Len(ledger) + 1]
             = [token |-> c, kind |-> "actual", amount |-> settle[c], day |-> today]
    BY ReservesLines, AmendsLines, NewLineOf
  <2>3. today' = today /\ today \in Nat
    BY <1>1 DEF Reserves, Amends, TypeOK
  <2>. QED BY <1>1, <2>1, <2>2, <2>3 DEF LinesAreTrue
<1>4. RoomIsKept'
  <2>1. \A x \in Call : pc'[x] # "append"
    <3>1. lock = c /\ \A x \in Call : x # c => pc'[x] = pc[x]
      BY <1>1, ReservesLines, AmendsLines DEF Reserves, Amends, TypeOK
    <3>2. pc'[c] # "append"
      BY <1>1 DEF Reserves, Amends, TypeOK
    <3>. QED BY <1>1, <3>1, <3>2 DEF LockHeld
  <2>. QED BY <2>1 DEF RoomIsKept
<1>. QED BY <1>2, <1>3, <1>4

LEMMA MovesLines ==
  ASSUME BudgetInv, NEW c \in Call, Moves(c)
  PROVE  TypeOK' /\ LinesAreTrue' /\ RoomIsKept'
<1>1. /\ torn' \in BOOLEAN /\ lock' \in Call \cup {Nobody}
      /\ pc' \in [Call -> Position] /\ settle' \in [Call -> Nat] /\ billed' \in [Call -> Nat]
      /\ UNCHANGED <<ledger, today, kill>>
      /\ \A x \in Call : x # c => pc'[x] = pc[x]
  BY MovesType
<1>2. TypeOK' /\ LinesAreTrue'
  BY <1>1 DEF BudgetInv, TypeOK, LinesAreTrue
<1>3. pc'[c] = "append" => Allowed(c)
  <2>. USE DEF BudgetInv, TypeOK
  <2>1. CASE Enter(c) \/ EnterReconcile(c) \/ Dispatch(c) \/ Serve(c)
    BY <2>1 DEF Enter, EnterReconcile, Dispatch, Serve, Go, RoomIsKept
  <2>2. CASE Check(c)
    BY <2>2 DEF Check, Go
  <2>3. CASE Abandon(c) \/ Answered(c) \/ Refused(c)
    BY <2>3 DEF Abandon, Answered, Refused, ToSettle, Go
  <2>4. CASE Failed(c)
    BY <2>4 DEF Failed, ToSettle, Go
  <2>5. CASE WriteFails(c) \/ Crash(c)
    BY <2>5 DEF WriteFails, Crash
  <2>. QED BY <2>1, <2>2, <2>3, <2>4, <2>5 DEF Moves
<1>4. \A x \in Call : pc'[x] = "append" => Allowed(x)
  BY <1>1, <1>3 DEF BudgetInv, RoomIsKept
<1>5. RoomIsKept'
  BY <1>1, <1>4, AllowedStays DEF RoomIsKept
<1>. QED BY <1>2, <1>5

\* The clock, the operator, and a run that is refused: no call that is under way moves.
Rests ==
  /\ UNCHANGED <<ledger, torn, lock, settle, billed>>
  /\ today' = today \/ Midnight
  /\ kill' \in BOOLEAN
  /\ \E calls \in SUBSET Call :
       /\ \A c \in calls : pc[c] \in {"idle", "done"}
       /\ pc' = [c \in Call |-> IF c \in calls THEN "done" ELSE pc[c]]

LEMMA RestsPreserves ==
  ASSUME BudgetInv, Rests
  PROVE  BudgetInv'
<1>1. UNCHANGED ledger /\ TypeOK /\ LinesAreTrue
  BY DEF Rests, BudgetInv
<1>2. PICK calls \in SUBSET Call :
        /\ \A c \in calls : pc[c] \in {"idle", "done"}
        /\ pc' = [c \in Call |-> IF c \in calls THEN "done" ELSE pc[c]]
  BY DEF Rests
<1>3. today' \in 1 .. Days /\ today' >= today /\ today \in Nat
  BY <1>1, BudgetFacts DEF Rests, Midnight, TypeOK
<1>4. TypeOK'
  BY <1>1, <1>2, <1>3 DEF Rests, TypeOK, Position
<1>5. LinesAreTrue'
  <2>1. \A i \in DOMAIN ledger : ledger[i].day \in Nat
    BY TypedLedger, LinesAreIn DEF BudgetInv, LedgerLine
  <2>. QED BY <1>1, <1>3, <2>1 DEF LinesAreTrue
<1>6. \A x \in Call : pc'[x] = "append" => Allowed(x)
  BY <1>2 DEF BudgetInv, RoomIsKept
<1>7. RoomIsKept'
  BY <1>1, <1>6, AllowedStays DEF RoomIsKept, Rests
<1>8. CeilingsHold'
  BY <1>1, SilentSums
<1>9. \A x \in Call : CallInv(x)'
  <2>1. \A x \in Call : CallInv(x)
    BY CallInvIs DEF BudgetInv, CallsInv
  <2>2. \A x : /\ Reserved(x)' = Reserved(x) /\ Amount(x)' = Amount(x)
               /\ LinesOf(x, "actual")' = LinesOf(x, "actual")
    BY <1>1, NoNewLine
  <2>. QED BY <1>2, <2>1, <2>2 DEF CallInv, Rests
<1>10. (CallsInv <=> LockHeld /\ LinesOfPlace /\ SettlesTrue /\ ChargesAreCounted)'
  BY CallInvIs, PTL
<1>. QED BY <1>4, <1>5, <1>7, <1>8, <1>9, <1>10 DEF BudgetInv, CallsInv

LEMMA StepIsOne ==
  ASSUME BudgetInv, [Next]_vars
  PROVE  \/ Rests
         \/ \E c \in Call : Moves(c) \/ Reserves(c) \/ Amends(c)
<1>1. ASSUME NEW c \in Call,
             \/ Enter(c) \/ Check(c) \/ AppendReserved(c) \/ Dispatch(c) \/ Abandon(c) \/ Serve(c)
             \/ Answered(c) \/ Refused(c) \/ Failed(c) \/ EnterReconcile(c) \/ AppendActual(c)
             \/ WriteFails(c) \/ Crash(c)
      PROVE  Moves(c) \/ Reserves(c) \/ Amends(c)
  <2>1. pc[c] \in {"append", "amend"} => lock = c
    BY DEF BudgetInv, LockHeld
  <2>2. CASE AppendReserved(c)
    BY <2>2 DEF AppendReserved, Go, Write, Line, Reserves, NewLine
  <2>3. CASE AppendActual(c)
    BY <2>3 DEF AppendActual, Go, Write, Line, Amends, NewLine
  <2>4. CASE WriteFails(c)
    <3>1. UNCHANGED ledger \/ Reserves(c) \/ Amends(c)
      BY <2>4 DEF WriteFails, Unfinished, Write, Line, Reserves, Amends, NewLine
    <3>. QED BY <2>4, <3>1 DEF Moves
  <2>5. CASE Crash(c)
    <3>1. UNCHANGED ledger \/ Reserves(c) \/ Amends(c)
      BY <2>1, <2>5 DEF Crash, Unfinished, Write, Line, Reserves, Amends, NewLine
    <3>. QED BY <2>5, <3>1 DEF Moves
  <2>. QED BY <1>1, <2>2, <2>3, <2>4, <2>5 DEF Moves
<1>2. ASSUME Midnight \/ EngageKillSwitch \/ Quiescent \/ UNCHANGED vars
      PROVE  Rests
  <2>1. pc' = [c \in Call |-> IF c \in {} THEN "done" ELSE pc[c]]
    BY <1>2 DEF Midnight, EngageKillSwitch, Quiescent, vars, BudgetInv, TypeOK
  <2>2. /\ UNCHANGED <<ledger, torn, lock, settle, billed>>
        /\ today' = today \/ Midnight
        /\ kill' \in BOOLEAN
    BY <1>2 DEF Midnight, EngageKillSwitch, Quiescent, vars, BudgetInv, TypeOK
  <2>3. {} \in SUBSET Call /\ \A c \in {} : pc[c] \in {"idle", "done"}
    OBVIOUS
  <2>. QED BY <2>1, <2>2, <2>3 DEF Rests
<1>. QED BY <1>1, <1>2 DEF Next

LEMMA BudgetStep ==
  ASSUME BudgetInv, [Next]_vars
  PROVE  BudgetInv'
<1>1. ASSUME NEW c \in Call, Moves(c) \/ Reserves(c) \/ Amends(c)
      PROVE  BudgetInv'
  <2>1. \A x \in Call : CallInv(x)'
    BY <1>1, MovesCall, WritesCall
  <2>2. TypeOK' /\ LinesAreTrue' /\ RoomIsKept'
    BY <1>1, MovesLines, WritesLines
  <2>3. CeilingsHold'
    BY <1>1, MovesType, SilentSums, ReservesCeilings, AmendsCeilings
  <2>4. (CallsInv <=> LockHeld /\ LinesOfPlace /\ SettlesTrue /\ ChargesAreCounted)'
    BY CallInvIs, PTL
  <2>. QED BY <2>1, <2>2, <2>3, <2>4 DEF BudgetInv, CallsInv
<1>. QED BY <1>1, StepIsOne, RestsPreserves

-------------------------------------------------------------------------------
(***************************************************************************)
(* The theorems.                                                           *)
(***************************************************************************)

LEMMA NothingSummed ==
  ASSUME ledger = <<>>
  PROVE  /\ \A c, k : LinesOf(c, k) = {}
         /\ \A c : ~Reserved(c) /\ Amount(c) = 0 /\ DayOf(c) = 0
         /\ \A S \in SUBSET Call : SumOver(S) = ExcessOver(S)
<1>1. \A c, k : LinesOf(c, k) = {}
  BY DEF LinesOf
<1>2. \A c : ~Reserved(c) /\ Amount(c) = 0 /\ DayOf(c) = 0
  BY <1>1 DEF Reserved, Amount, DayOf
<1>3. \A c \in Call : Amounts[c] = Excesses[c]
  BY <1>2, BudgetFacts DEF Amounts, Excesses, Excess
<1>4. \A S \in SUBSET Call : Total(Amounts, S) = Total(Excesses, S)
  BY <1>3, TotalSame, BudgetFacts
<1>. QED BY <1>1, <1>2, <1>4, SumOverIsTotal, ExcessOverIsTotal

LEMMA BudgetBegins == Init => BudgetInv
<1>. SUFFICES ASSUME Init PROVE BudgetInv
  OBVIOUS
<1>1. ledger = <<>>
  BY DEF Init
<1>2. TypeOK
  <2>1. 1 \in 1 .. Days
    BY BudgetAssumption DEF BudgetAssumption
  <2>2. ledger \in Seq(LedgerLine)
    BY <1>1
  <2>. QED BY <2>1, <2>2 DEF Init, TypeOK, Position, LedgerLine
<1>3. LinesAreTrue /\ RoomIsKept
  BY DEF Init, LinesAreTrue, RoomIsKept
<1>4. \A c \in Call : CallInv(c)
  BY <1>1, NothingSummed, BudgetFacts DEF Init, CallInv
<1>5. CeilingsHold
  <2>1. \A S \in SUBSET Call : SumOver(S) = ExcessOver(S) /\ ExcessOver(S) \in Nat
    BY <1>1, <1>2, NothingSummed, TypedLedger, SumsAreNat DEF SumsTyped
  <2>2. \A S \in SUBSET Call : \A K \in Nat : Under(S, K)
    BY <2>1 DEF Under
  <2>3. CeilingsByCall
    <3>1. \A c \in Call : /\ \A d : OfDay(MeterOf[c], d) \in SUBSET Call
                          /\ OfRun(c) \in SUBSET Call /\ OfVideo(c) \in SUBSET Call
      BY DEF OfDay, OfRun, OfVideo
    <3>. QED BY <2>2, <3>1, BudgetFacts DEF CeilingsByCall
  <2>. QED BY <2>3, CeilingsAreByCall
<1>. QED BY <1>2, <1>3, <1>4, <1>5, CallInvIs DEF BudgetInv, CallsInv

\* The ledger by itself: in whatever order its callers work, die and are refused, its records
\* are typed and a token is handed out only for a line that readers see.
THEOREM LedgerSafety == Spec => []LedgerInv
<1>1. BudgetInv => LedgerInv
  BY Zenon DEF BudgetInv, LedgerInv, TokenIsDurable, LinesOfPlace
<1>. QED BY <1>1, BudgetBegins, BudgetStep, PTL DEF Spec

\* A run that waits for its check has no call under way.
LaunchInv ==
  /\ launch \in [{RunOf[c] : c \in Call} -> {"waiting", "running", "refused"}]
  /\ \A c \in Call : launch[RunOf[c]] # "running" => pc[c] \in {"idle", "done"}

LEMMA AtomicBegins == AtomicInit => BudgetInv /\ LaunchInv
BY BudgetBegins DEF AtomicInit, Init, LaunchInv

LEMMA PreflightStep ==
  ASSUME BudgetInv, LaunchInv, NEW r \in Atomic, Preflight(r)
  PROVE  BudgetInv' /\ LaunchInv'
<1>1. CASE /\ launch' = [launch EXCEPT ![r] = "running"]
           /\ UNCHANGED vars
  <2>1. BudgetInv'
    BY <1>1, BudgetStep
  <2>2. LaunchInv'
    BY <1>1 DEF LaunchInv, vars
  <2>. QED BY <2>1, <2>2
<1>2. CASE /\ launch[r] = "waiting"
           /\ launch' = [launch EXCEPT ![r] = "refused"]
           /\ pc' = [c \in Call |-> IF RunOf[c] = r THEN "done" ELSE pc[c]]
           /\ UNCHANGED <<ledger, torn, lock, today, kill, settle, billed>>
  <2>. DEFINE calls == {c \in Call : RunOf[c] = r}
  <2>1. \A c \in calls : pc[c] \in {"idle", "done"}
    BY <1>2 DEF LaunchInv
  <2>2. pc' = [c \in Call |-> IF c \in calls THEN "done" ELSE pc[c]]
    BY <1>2
  <2>3. kill' \in BOOLEAN
    BY <1>2 DEF BudgetInv, TypeOK
  <2>4. calls \in SUBSET Call
    OBVIOUS
  <2>5. Rests
    <3>. HIDE DEF calls
    <3>. QED BY <1>2, <2>1, <2>2, <2>3, <2>4 DEF Rests
  <2>6. LaunchInv'
    BY <1>2 DEF LaunchInv
  <2>. QED BY <2>5, <2>6, RestsPreserves
<1>. QED BY <1>1, <1>2 DEF Preflight

LEMMA AtomicStep ==
  ASSUME BudgetInv, LaunchInv, [AtomicNext]_<<vars, atomicVars>>
  PROVE  BudgetInv' /\ LaunchInv'
<1>1. CASE Work
  <2>1. BudgetInv'
    BY <1>1, BudgetStep DEF Work
  <2>2. LaunchInv'
    BY <1>1 DEF Work, LaunchInv, atomicVars
  <2>. QED BY <2>1, <2>2
<1>2. CASE UNCHANGED <<vars, atomicVars>>
  <2>1. BudgetInv'
    BY <1>2, BudgetStep
  <2>2. LaunchInv'
    BY <1>2 DEF vars, atomicVars, LaunchInv
  <2>. QED BY <2>1, <2>2
<1>. QED BY <1>1, <1>2, PreflightStep DEF AtomicNext

LEMMA AtomicAlways == AtomicSpec => []BudgetInv
BY AtomicBegins, AtomicStep, PTL DEF AtomicSpec

\* The ceilings of the day, the run and the video hold in every interleaving of reserve() and
\* reconcile(), up to what prices exceeded estimates, beside runs refused by their check too.
THEOREM CeilingsAreHeld == AtomicSpec => []CeilingsHold
<1>1. BudgetInv => CeilingsHold
  BY DEF BudgetInv
<1>. QED BY <1>1, AtomicAlways, PTL

\* A billed call of llm or search counts for its price or for its estimate, whatever became
\* of its process, its answer and its write.
THEOREM NoChargeEvades == AtomicSpec => []ChargesAreCounted
<1>1. BudgetInv => ChargesAreCounted
  BY DEF BudgetInv
<1>. QED BY <1>1, AtomicAlways, PTL

\* A written line is one step of the contract, and nothing else is a step of it: a reservation
\* grants the call its estimate on the day of the line, a reconciliation amends the grant.
LEMMA StepKeepsTheContract ==
  ASSUME BudgetInv, UNCHANGED ledger \/ \E c \in Call : Reserves(c) \/ Amends(c)
  PROVE  [Contract!ContractNext]_<<[c \in Call |-> Amount(c)], [c \in Call |-> DayOf(c)]>>
<1>. DEFINE charge == [c \in Call |-> Amount(c)]
            day == [c \in Call |-> DayOf(c)]
<1>1. CASE UNCHANGED ledger
  BY <1>1, NoNewLine
<1>2. ASSUME NEW c \in Call, Reserves(c)
      PROVE  Contract!Grant(c, today)
  <2>1. /\ Amount(c) = 0 /\ DayOf(c) = 0 /\ Amount(c)' = Estimate[c] /\ DayOf(c)' = today
        /\ \A x : x # c => Amount(x)' = Amount(x) /\ DayOf(x)' = DayOf(x)
    BY <1>2, ReservesLines, NewLineOthers
  <2>2. Contract!Fits(c, today)
    <3>1. \A S \in SUBSET Call : SumOver(S) = Contract!Total(charge, S)
      <4>1. \A f, S : Contract!Total(f, S) = Total(f, S)
        BY DEF Contract!Total, Total, MapThenSumSet, MapThenFoldSet,
               Contract!MapThenSumSet, Contract!MapThenFoldSet
      <4>. QED BY <4>1, SumOverIsTotal DEF Amounts
    <3>2. /\ Contract!OfDay(c, today) = OfDay(MeterOf[c], today)
          /\ Contract!OfRun(c) = OfRun(c) /\ Contract!OfVideo(c) = OfVideo(c)
      BY DEF Contract!OfDay, Contract!OfRun, Contract!OfVideo, OfDay, OfRun, OfVideo
    <3>3. /\ OfDay(MeterOf[c], today) \in SUBSET Call
          /\ OfRun(c) \in SUBSET Call /\ OfVideo(c) \in SUBSET Call
      BY DEF OfDay, OfRun, OfVideo
    <3>4. Allowed(c)
      BY <1>2 DEF BudgetInv, RoomIsKept, Reserves
    <3>. HIDE DEF charge
    <3>. QED BY <3>1, <3>2, <3>3, <3>4, AllowedIsByCall DEF Contract!Fits, AllowedByCall, charge
  <2>. QED BY <2>1, <2>2 DEF Contract!Grant
<1>3. ASSUME NEW c \in Call, Amends(c)
      PROVE  Contract!Reconcile(c)
  <2>1. /\ Reserved(c) /\ settle[c] \in Nat /\ Amount(c)' = settle[c] /\ DayOf(c)' = DayOf(c)
        /\ \A x : x # c => Amount(x)' = Amount(x) /\ DayOf(x)' = DayOf(x)
    BY <1>3, AmendsLines, NewLineOthers
  <2>2. DayOf(c) # 0
    BY <2>1, AmountOfPlace DEF BudgetInv
  <2>. QED BY <2>1, <2>2 DEF Contract!Reconcile
<1>4. today \in 1 .. Days
  BY DEF BudgetInv, TypeOK
<1>. QED BY <1>1, <1>2, <1>3, <1>4 DEF Contract!ContractNext

\* The detailed ledger implements the atomic charge of BudgetContract: lock, clock and file
\* never let two calls be granted room that only one of them had.
THEOREM ContractIsKept == AtomicSpec => LedgerKeepsTheContract
<1>1. AtomicInit => Contract!ContractInit
  BY NothingSummed DEF AtomicInit, Init, Contract!ContractInit
<1>2. BudgetInv /\ LaunchInv /\ [AtomicNext]_<<vars, atomicVars>>
        => [Contract!ContractNext]_Contract!contract
  <2>. SUFFICES ASSUME BudgetInv, LaunchInv, [AtomicNext]_<<vars, atomicVars>>
                PROVE  UNCHANGED ledger \/ \E c \in Call : Reserves(c) \/ Amends(c)
    BY StepKeepsTheContract DEF Contract!contract
  <2>1. CASE [Next]_vars
    BY <2>1, StepIsOne, MovesType DEF Rests
  <2>2. CASE \E r \in Atomic : Preflight(r)
    BY <2>2 DEF Preflight, vars
  <2>. QED BY <2>1, <2>2 DEF AtomicNext, Work, atomicVars
<1>3. AtomicSpec => [](BudgetInv /\ LaunchInv)
  BY AtomicBegins, AtomicStep, PTL DEF AtomicSpec
<1>. QED BY <1>1, <1>2, <1>3, PTL DEF AtomicSpec, LedgerKeepsTheContract, Contract!ContractSpec

-------------------------------------------------------------------------------
(***************************************************************************)
(* The estimate and the promise.                                           *)
(***************************************************************************)

LEMMA MinIn ==
  ASSUME NEW S \in SUBSET Nat, S # {}
  PROVE  Min(S) \in S /\ \A y \in S : Min(S) <= y
<1>1. PICK n \in S : TRUE
  OBVIOUS
<1>. DEFINE P == {U \in SUBSET (0 .. n) : U = {} \/ \E m \in U : \A y \in U : m <= y}
<1>2. {} \in P
  OBVIOUS
<1>3. ASSUME NEW U \in SUBSET (0 .. n), U # {}, \A x \in U : U \ {x} \in P
      PROVE  U \in P
  <2>1. PICK x \in U : TRUE
    BY <1>3
  <2>2. CASE U \ {x} = {}
    BY <2>1, <2>2
  <2>3. CASE U \ {x} # {}
    <3>1. PICK m \in U \ {x} : \A y \in U \ {x} : m <= y
      BY <1>3, <2>3
    <3>2. m \in 0 .. n /\ x \in 0 .. n
      OBVIOUS
    <3>3. CASE m <= x
      BY <3>1, <3>3
    <3>4. CASE x < m
      BY <3>1, <3>2, <3>4
    <3>. QED BY <3>2, <3>3, <3>4
  <2>. QED BY <2>2, <2>3
<1>4. \A U \in SUBSET (0 .. n) : U \in P
  <2>1. IsFiniteSet(0 .. n)
    BY FS_Interval
  <2>. HIDE DEF P
  <2>. QED BY <1>2, <1>3, <2>1, SubsetInduction
<1>5. PICK m \in S \cap (0 .. n) : \A y \in S \cap (0 .. n) : m <= y
  <2>1. n \in S \cap (0 .. n)
    OBVIOUS
  <2>2. S \cap (0 .. n) \in P
    BY <1>4
  <2>. QED BY <2>1, <2>2
<1>6. \A y \in S : m <= y
  BY <1>5
<1>7. \E x \in S : \A y \in S : x =< y
  BY <1>5, <1>6
<1>. QED BY <1>7 DEF Min

\* A sum of at least K each.
LEMMA TotalAtLeast ==
  ASSUME NEW f, NEW S, IsFiniteSet(S), NEW K \in Nat, \A x \in S : f[x] \in Nat /\ f[x] >= K
  PROVE  \A U \in SUBSET S : Total(f, U) >= K * Cardinality(U)
<1>. DEFINE P == {U \in SUBSET S : Total(f, U) >= K * Cardinality(U)}
<1>1. {} \in P
  BY TotalEmpty, FS_EmptySet
<1>2. ASSUME NEW U \in SUBSET S, U # {}, \A x \in U : U \ {x} \in P
      PROVE  U \in P
  <2>1. PICK x \in U : TRUE
    BY <1>2
  <2>2. Total(f, U) = f[x] + Total(f, U \ {x})
    BY TotalTakeOut
  <2>3. IsFiniteSet(U)
    BY FS_Subset
  <2>4. /\ Cardinality(U \ {x}) = Cardinality(U) - 1
        /\ Cardinality(U) \in Nat /\ Cardinality(U \ {x}) \in Nat
    BY <2>3, FS_RemoveElement, FS_CardinalityType
  <2>5. Total(f, U \ {x}) >= K * Cardinality(U \ {x}) /\ Total(f, U \ {x}) \in Nat
    BY <1>2, TotalNat
  <2>6. \A k \in Nat : K * (k + 1) = K * k + K
    OBVIOUS
  <2>. DEFINE k == Cardinality(U \ {x})
  <2>7. K * Cardinality(U) = K * k + K
    BY <2>4, <2>6
  <2>8. K * k \in Nat
    BY <2>4
  <2>. HIDE DEF k
  <2>9. f[x] + Total(f, U \ {x}) >= K * k + K
    BY <2>5, <2>8 DEF k
  <2>. QED BY <2>2, <2>7, <2>9
<1>3. \A U \in SUBSET S : U \in P
  <2>. HIDE DEF P
  <2>. QED BY <1>1, <1>2, SubsetInduction
<1>. QED BY <1>3

LEMMA SumFunctionIsTotal == ASSUME NEW f PROVE SumFunction(f) = Total(f, DOMAIN f)
BY DEF SumFunction, SumFunctionOnSet, FoldFunctionOnSet, Total, MapThenSumSet, MapThenFoldSet

LEMMA DivNat ==
  ASSUME NEW a \in Nat, NEW n \in Nat \ {0}
  PROVE  a \div n \in Nat
OBVIOUS

LEMMA DivAtLeast ==
  ASSUME NEW a \in Nat, NEW n \in Nat \ {0}, NEW k \in Nat, a >= k * n
  PROVE  a \div n >= k
OBVIOUS

LEMMA DivMonotone ==
  ASSUME NEW a \in Nat, NEW b \in Nat, NEW n \in Nat \ {0}, a <= b
  PROVE  a \div n <= b \div n
OBVIOUS

LEMMA DivBack ==
  ASSUME NEW a \in Nat, NEW n \in Nat \ {0}
  PROVE  n * (a \div n) <= a
OBVIOUS

LEMMA MeanAtLeast ==
  ASSUME NEW f, IsFiniteSet(DOMAIN f), \A i \in DOMAIN f : f[i] \in Nat
  PROVE  /\ Mean(f) \in Nat
         /\ \A k \in Nat : DOMAIN f # {} /\ (\A i \in DOMAIN f : f[i] >= k) => Mean(f) >= k
<1>1. CASE DOMAIN f = {}
  BY <1>1 DEF Mean
<1>2. CASE DOMAIN f # {}
  <2>. DEFINE n == Cardinality(DOMAIN f)
  <2>1. n \in Nat \ {0}
    BY <1>2, FS_CardinalityType, FS_EmptySet
  <2>2. SumFunction(f) \in Nat
    BY SumFunctionIsTotal, TotalNat
  <2>3. Mean(f) = SumFunction(f) \div n
    BY <1>2 DEF Mean
  <2>4. ASSUME NEW k \in Nat, \A i \in DOMAIN f : f[i] >= k
        PROVE  SumFunction(f) >= k * n
    BY <2>4, SumFunctionIsTotal, TotalAtLeast
  <2>. HIDE DEF n
  <2>. QED BY <1>2, <2>1, <2>2, <2>3, <2>4, DivNat, DivAtLeast
<1>. QED BY <1>1, <1>2

\* The runs the estimate and the promise are both made from.
Chosen(h) == LET matched == {i \in Candidates(h) : h[i].same}
             IN  IF matched # {} THEN matched ELSE Candidates(h)

LEMMA PoolIsChosen ==
  ASSUME NEW h, IsHistory(h)
  PROVE  /\ Pool(h) \subseteq Chosen(h) /\ Chosen(h) \subseteq DOMAIN h
         /\ IsFiniteSet(Pool(h))
         /\ Chosen(h) # {} => Pool(h) # {}
         /\ Comparable(h) = {h[i] : i \in Chosen(h)}
         /\ \A i \in Chosen(h) : Complete(h[i]) # {}
<1>1. Pool(h) = {i \in Chosen(h) : Cardinality({j \in Chosen(h) : j <= i}) <= MaxHistory}
  BY DEF Pool, Newest, Chosen
<1>2. Chosen(h) \subseteq Candidates(h) /\ Candidates(h) \subseteq DOMAIN h
  BY DEF Chosen, Candidates
<1>3. IsFiniteSet(Pool(h))
  BY <1>1, <1>2, FS_Subset DEF IsHistory
<1>4. ASSUME Chosen(h) # {}
      PROVE  Pool(h) # {}
  <2>. DEFINE i == Min(Chosen(h))
  <2>1. Chosen(h) \in SUBSET Nat
    BY <1>2 DEF IsHistory
  <2>2. i \in Chosen(h) /\ \A j \in Chosen(h) : i <= j
    BY <1>4, <2>1, MinIn
  <2>3. {j \in Chosen(h) : j <= i} = {i}
    BY <2>1, <2>2
  <2>4. Cardinality({i}) = 1
    BY FS_Singleton
  <2>. HIDE DEF i
  <2>. QED BY <1>1, <2>2, <2>3, <2>4, AtomicAssumption DEF AtomicAssumption
<1>5. Comparable(h) = {h[i] : i \in Chosen(h)}
  BY DEF Comparable, Chosen, Candidates
<1>6. \A i \in Chosen(h) : Complete(h[i]) # {}
  BY <1>2 DEF Candidates, IsHistory
<1>. QED BY <1>1, <1>2, <1>3, <1>4, <1>5, <1>6

LEMMA LeastIs ==
  ASSUME NEW S \in SUBSET Nat
  PROVE  /\ LeastOr0(S) \in Nat
         /\ \A x \in S : LeastOr0(S) <= x
         /\ LeastOr0(S) > 0 => S # {}
<1>1. CASE S = {}
  BY <1>1 DEF LeastOr0
<1>2. CASE S # {}
  <2>1. LeastOr0(S) = Min(S)
    BY <1>2 DEF LeastOr0
  <2>2. Min(S) \in S /\ \A y \in S : Min(S) <= y
    BY <1>2, MinIn
  <2>. QED BY <1>2, <2>1, <2>2
<1>. QED BY <1>1, <1>2

\* The cheapest comparable video is no dearer than the estimate's mean, and where it costs
\* anything the estimate speaks of the meter.
LEMMA VideoAtLeast ==
  ASSUME NEW h, IsHistory(h), NEW m \in Meter
  PROVE  /\ CheapestVideo(h, m) \in Nat /\ MeanUncached(h, m) \in Nat
         /\ CheapestVideo(h, m) <= MeanUncached(h, m)
         /\ CheapestVideo(h, m) > 0 => m \in Estimated(h)
<1>. DEFINE k == CheapestVideo(h, m)
            costs == UNION {{Cost(run.videos[i].uncached, m) : i \in Complete(run)} :
                              run \in Comparable(h)}
            named == {j \in Pool(h) : Naming(h[j], m) # {}}
            f == [i \in named |-> RunUncached(h[i], m)]
<1>1. \A i \in DOMAIN h : \A j \in DOMAIN h[i].videos : Cost(h[i].videos[j].uncached, m) \in Nat
  BY DEF IsHistory, IsCost, Cost
<1>2. \A i \in Chosen(h) : \A j \in Complete(h[i]) : Cost(h[i].videos[j].uncached, m) \in costs
  BY PoolIsChosen
<1>3. costs \in SUBSET Nat
  BY <1>1, PoolIsChosen DEF Complete
<1>4. k = LeastOr0(costs)
  BY DEF CheapestVideo
<1>5. k \in Nat /\ (\A x \in costs : k <= x) /\ (k > 0 => costs # {})
  <2>. HIDE DEF costs, k
  <2>. QED BY <1>3, <1>4, LeastIs
<1>6. \A i \in named :
        /\ Cardinality(Complete(h[i])) \in Nat \ {0}
        /\ IsFiniteSet(Naming(h[i], m))
        /\ \A j \in Naming(h[i], m) : h[i].videos[j].uncached[m] \in Nat
  <2>. SUFFICES ASSUME NEW i \in named
                PROVE  /\ Cardinality(Complete(h[i])) \in Nat \ {0}
                       /\ IsFiniteSet(Naming(h[i], m))
                       /\ \A j \in Naming(h[i], m) : h[i].videos[j].uncached[m] \in Nat
    OBVIOUS
  <2>1. i \in DOMAIN h /\ Naming(h[i], m) # {}
    BY PoolIsChosen
  <2>2. /\ Complete(h[i]) \subseteq DOMAIN h[i].videos
        /\ Naming(h[i], m) \subseteq Complete(h[i])
    BY DEF Complete, Naming
  <2>3. IsFiniteSet(Complete(h[i])) /\ IsFiniteSet(Naming(h[i], m))
    BY <2>1, <2>2, FS_Subset DEF IsHistory
  <2>4. Cardinality(Complete(h[i])) \in Nat \ {0}
    BY <2>1, <2>2, <2>3, FS_CardinalityType, FS_EmptySet
  <2>. QED BY <2>1, <2>2, <2>3, <2>4 DEF Naming, IsHistory, IsCost
<1>7. \A i \in named : Uncached(h[i], m) \in Nat /\ RunUncached(h[i], m) \in Nat
  <2>. SUFFICES ASSUME NEW i \in named
                PROVE  Uncached(h[i], m) \in Nat /\ RunUncached(h[i], m) \in Nat
    OBVIOUS
  <2>. DEFINE g == [j \in Naming(h[i], m) |-> h[i].videos[j].uncached[m]]
  <2>1. IsFiniteSet(Naming(h[i], m)) /\ \A j \in Naming(h[i], m) : g[j] \in Nat
    BY <1>6
  <2>2. Total(g, Naming(h[i], m)) \in Nat
    <3>. HIDE DEF g
    <3>. QED BY <2>1, TotalNat
  <2>3. Uncached(h[i], m) = Total(g, Naming(h[i], m))
    <3>1. DOMAIN g = Naming(h[i], m) /\ Uncached(h[i], m) = SumFunction(g)
      BY DEF Uncached
    <3>. HIDE DEF g
    <3>. QED BY <3>1, SumFunctionIsTotal
  <2>. QED BY <1>6, <2>2, <2>3, DivNat DEF RunUncached
<1>8. DOMAIN f = named /\ IsFiniteSet(named) /\ \A i \in named : f[i] \in Nat
  <2>1. named \subseteq Pool(h)
    OBVIOUS
  <2>. QED BY <1>7, <2>1, PoolIsChosen, FS_Subset
<1>9. MeanUncached(h, m) = Mean(f)
  BY DEF MeanUncached
<1>10. Mean(f) \in Nat
  <2>. HIDE DEF f
  <2>. QED BY <1>8, MeanAtLeast
<1>11. ASSUME k > 0
       PROVE  Mean(f) >= k /\ m \in Estimated(h)
  <2>1. \A i \in Chosen(h) : \A j \in Complete(h[i]) :
          m \in DOMAIN h[i].videos[j].uncached /\ h[i].videos[j].uncached[m] >= k
    <3>. SUFFICES ASSUME NEW i \in Chosen(h), NEW j \in Complete(h[i])
                  PROVE  m \in DOMAIN h[i].videos[j].uncached /\ h[i].videos[j].uncached[m] >= k
      OBVIOUS
    <3>1. Cost(h[i].videos[j].uncached, m) \in Nat /\ Cost(h[i].videos[j].uncached, m) >= k
      <4>. HIDE DEF k, costs
      <4>. QED BY <1>2, <1>3, <1>5
    <3>. HIDE DEF k
    <3>. QED BY <1>5, <1>11, <3>1 DEF Cost
  <2>2. \A i \in Chosen(h) : Naming(h[i], m) = Complete(h[i])
    BY <2>1 DEF Naming
  <2>3. Chosen(h) # {}
    <3>1. costs # {}
      <4>. HIDE DEF costs, k
      <4>. QED BY <1>5, <1>11
    <3>. QED BY <3>1, PoolIsChosen
  <2>4. named = Pool(h) /\ named # {}
    BY <2>2, <2>3, PoolIsChosen
  <2>5. \A i \in named : f[i] >= k
    <3>. SUFFICES ASSUME NEW i \in named PROVE RunUncached(h[i], m) >= k
      OBVIOUS
    <3>. DEFINE g == [j \in Naming(h[i], m) |-> h[i].videos[j].uncached[m]]
                n == Cardinality(Complete(h[i]))
    <3>1. i \in Chosen(h)
      BY PoolIsChosen
    <3>2. Naming(h[i], m) = Complete(h[i])
      BY <2>2, <3>1
    <3>3. /\ IsFiniteSet(Naming(h[i], m)) /\ n \in Nat \ {0}
          /\ \A j \in Naming(h[i], m) : g[j] \in Nat /\ g[j] >= k
          /\ DOMAIN g = Naming(h[i], m) /\ Uncached(h[i], m) = SumFunction(g)
      BY <1>6, <2>1, <3>1, <3>2 DEF Uncached
    <3>4. Uncached(h[i], m) >= k * n
      <4>1. Uncached(h[i], m) = Total(g, Naming(h[i], m))
        <5>. HIDE DEF g
        <5>. QED BY <3>3, SumFunctionIsTotal
      <4>2. Total(g, Naming(h[i], m)) >= k * Cardinality(Naming(h[i], m))
        <5>. HIDE DEF g, k
        <5>. QED BY <1>5, <3>3, TotalAtLeast
      <4>. QED BY <3>2, <4>1, <4>2
    <3>5. RunUncached(h[i], m) = Uncached(h[i], m) \div n /\ Uncached(h[i], m) \in Nat
      BY <1>7 DEF RunUncached
    <3>. HIDE DEF k, n
    <3>. QED BY <1>5, <3>3, <3>4, <3>5, DivAtLeast
  <2>6. Mean(f) >= k
    <3>. HIDE DEF f, k
    <3>. QED BY <1>5, <1>8, <2>4, <2>5, MeanAtLeast
  <2>. QED BY <2>4, <2>6 DEF Estimated
<1>. HIDE DEF f
<1>. QED BY <1>5, <1>9, <1>10, <1>11

LEMMA PrepareAtLeast ==
  ASSUME NEW h, IsHistory(h), NEW m \in Meter
  PROVE  /\ CheapestPrepare(h, m) \in Nat /\ MeanPrepare(h, m) \in Nat
         /\ CheapestPrepare(h, m) <= MeanPrepare(h, m)
         /\ CheapestPrepare(h, m) > 0 => m \in Estimated(h)
<1>. DEFINE k == CheapestPrepare(h, m)
            costs == {Cost(run.prepare, m) : run \in Comparable(h)}
            named == {j \in Pool(h) : m \in DOMAIN h[j].prepare}
            f == [i \in named |-> h[i].prepare[m]]
<1>1. \A i \in Chosen(h) : Cost(h[i].prepare, m) \in Nat /\ Cost(h[i].prepare, m) \in costs
  BY PoolIsChosen DEF IsHistory, IsCost, Cost
<1>2. costs \in SUBSET Nat
  BY <1>1, PoolIsChosen
<1>3. k = LeastOr0(costs)
  BY DEF CheapestPrepare
<1>4. k \in Nat /\ (\A x \in costs : k <= x) /\ (k > 0 => costs # {})
  <2>. HIDE DEF costs, k
  <2>. QED BY <1>2, <1>3, LeastIs
<1>5. DOMAIN f = named /\ IsFiniteSet(named) /\ \A i \in named : f[i] \in Nat
  <2>1. named \subseteq Pool(h)
    OBVIOUS
  <2>2. \A i \in named : h[i].prepare[m] \in Nat
    BY PoolIsChosen DEF IsHistory, IsCost
  <2>. QED BY <2>1, <2>2, PoolIsChosen, FS_Subset
<1>6. MeanPrepare(h, m) = Mean(f)
  BY DEF MeanPrepare
<1>7. Mean(f) \in Nat
  <2>. HIDE DEF f
  <2>. QED BY <1>5, MeanAtLeast
<1>8. ASSUME k > 0
      PROVE  Mean(f) >= k /\ m \in Estimated(h)
  <2>1. \A i \in Chosen(h) : m \in DOMAIN h[i].prepare /\ h[i].prepare[m] >= k
    <3>. SUFFICES ASSUME NEW i \in Chosen(h)
                  PROVE  m \in DOMAIN h[i].prepare /\ h[i].prepare[m] >= k
      OBVIOUS
    <3>1. Cost(h[i].prepare, m) \in Nat /\ Cost(h[i].prepare, m) >= k
      <4>. HIDE DEF k, costs
      <4>. QED BY <1>1, <1>4
    <3>. HIDE DEF k
    <3>. QED BY <1>4, <1>8, <3>1 DEF Cost
  <2>2. Chosen(h) # {}
    <3>1. costs # {}
      <4>. HIDE DEF costs, k
      <4>. QED BY <1>4, <1>8
    <3>. QED BY <3>1, PoolIsChosen
  <2>3. named = Pool(h) /\ named # {}
    BY <2>1, <2>2, PoolIsChosen
  <2>4. \A i \in named : f[i] >= k
    BY <2>1, <2>3, PoolIsChosen
  <2>5. Mean(f) >= k
    <3>. HIDE DEF f, k
    <3>. QED BY <1>4, <1>5, <2>3, <2>4, MeanAtLeast
  <2>. QED BY <2>3, <2>5 DEF Estimated
<1>. HIDE DEF f
<1>. QED BY <1>4, <1>6, <1>7, <1>8

LEMMA TimesMonotone ==
  ASSUME NEW a \in Nat, NEW b \in Nat, a <= b
  PROVE  Times(a) \in Nat /\ Times(b) \in Nat /\ Times(a) <= Times(b) /\ Times(0) = 0
<1>1. Factor[1] \in Nat \ {0} /\ Factor[2] \in Nat \ {0}
  BY AtomicAssumption DEF AtomicAssumption
<1>2. /\ a * Factor[1] \in Nat /\ b * Factor[1] \in Nat
      /\ a * Factor[1] <= b * Factor[1] /\ 0 * Factor[1] = 0
  BY <1>1
<1>3. 0 \div Factor[2] = 0
  BY <1>1
<1>. QED BY <1>1, <1>2, <1>3, DivNat, DivMonotone DEF Times

\* Whatever the runs directory holds: what the finished runs promise is no more than what the
\* check asks room for.
LEMMA PromiseIsNeeded ==
  ASSUME NEW f \in Forecasts
  PROVE  /\ f.promise \in [Meter -> Nat]
         /\ \A m \in Meter : f.promise[m] > 0 =>
              /\ m \in DOMAIN f.need /\ f.need[m] \in Nat
              /\ Unit * f.promise[m] <= f.need[m]
<1>1. PICK h \in Histories : f = [need |-> Needs(h), promise |-> Promise(h)]
  BY DEF Forecasts
<1>2. IsHistory(h) /\ Unit \in Nat \ {0} /\ VideoCount \in Nat \ {0}
  BY AtomicAssumption DEF AtomicAssumption
<1>3. ASSUME NEW m \in Meter
      PROVE  /\ Promise(h)[m] \in Nat
             /\ Promise(h)[m] > 0 =>
                  /\ m \in Estimated(h) /\ Needs(h)[m] \in Nat
                  /\ Unit * Promise(h)[m] <= Needs(h)[m]
  <2>. DEFINE least == VideoCount * CheapestVideo(h, m) + CheapestPrepare(h, m)
  <2>1. /\ CheapestVideo(h, m) \in Nat /\ MeanUncached(h, m) \in Nat
        /\ CheapestVideo(h, m) <= MeanUncached(h, m)
        /\ CheapestVideo(h, m) > 0 => m \in Estimated(h)
        /\ CheapestPrepare(h, m) \in Nat /\ MeanPrepare(h, m) \in Nat
        /\ CheapestPrepare(h, m) <= MeanPrepare(h, m)
        /\ CheapestPrepare(h, m) > 0 => m \in Estimated(h)
    BY <1>2, VideoAtLeast, PrepareAtLeast
  <2>2. \A a, b \in Nat : a <= b =>
          VideoCount * a \in Nat /\ b * VideoCount \in Nat /\ VideoCount * a <= b * VideoCount
    BY <1>2
  <2>3. least \in Nat /\ ScaleEstimate(h, m) \in Nat /\ least <= ScaleEstimate(h, m)
    BY <2>1, <2>2 DEF ScaleEstimate
  <2>4. m \notin Estimated(h) => least = 0
    BY <1>2, <2>1
  <2>5. Promise(h)[m] = Times(least) \div Unit
    BY DEF Promise
  <2>6. m \in Estimated(h) => Needs(h)[m] = Times(ScaleEstimate(h, m))
    BY DEF Needs
  <2>. HIDE DEF least
  <2>7. /\ Times(least) \in Nat /\ Times(ScaleEstimate(h, m)) \in Nat /\ Times(0) = 0
        /\ Times(least) <= Times(ScaleEstimate(h, m))
    BY <2>3, TimesMonotone
  <2>8. /\ Times(least) \div Unit \in Nat /\ Unit * (Times(least) \div Unit) <= Times(least)
        /\ 0 \div Unit = 0
    BY <1>2, <2>7, DivNat, DivBack
  <2>9. Unit * (Times(least) \div Unit) \in Nat
    BY <1>2, <2>8
  <2>. QED BY <2>4, <2>5, <2>6, <2>7, <2>8, <2>9
<1>4. DOMAIN Needs(h) = Estimated(h) /\ Promise(h) = [m \in Meter |-> Promise(h)[m]]
  BY DEF Needs, Promise
<1>. QED BY <1>1, <1>3, <1>4

-------------------------------------------------------------------------------
(***************************************************************************)
(* What was promised stays there.                                          *)
(***************************************************************************)

LEMMA TotalSplit ==
  ASSUME NEW f, NEW S, IsFiniteSet(S), \A x \in S : f[x] \in Nat
  PROVE  \A T \in SUBSET S : Total(f, S) = Total(f, T) + Total(f, S \ T)
<1>. DEFINE P == {T \in SUBSET S : Total(f, S) = Total(f, T) + Total(f, S \ T)}
<1>1. {} \in P
  <2>1. S \ {} = S /\ Total(f, S) \in Nat
    BY TotalNat
  <2>. QED BY <2>1, TotalEmpty
<1>2. ASSUME NEW T \in SUBSET S, T # {}, \A x \in T : T \ {x} \in P
      PROVE  T \in P
  <2>1. PICK x \in T : TRUE
    BY <1>2
  <2>2. Total(f, S) = Total(f, T \ {x}) + Total(f, S \ (T \ {x}))
    BY <1>2
  <2>3. Total(f, T) = f[x] + Total(f, T \ {x})
    BY TotalTakeOut
  <2>4. Total(f, S \ (T \ {x})) = f[x] + Total(f, S \ T)
    <3>1. (S \ (T \ {x})) \ {x} = S \ T /\ x \in S \ (T \ {x}) /\ S \ (T \ {x}) \in SUBSET S
      BY <2>1
    <3>. QED BY <3>1, TotalTakeOut
  <2>5. f[x] \in Nat /\ Total(f, T \ {x}) \in Nat /\ Total(f, S \ T) \in Nat
    BY TotalNat
  <2>. QED BY <2>2, <2>3, <2>4, <2>5
<1>. HIDE DEF P
<1>3. \A T \in SUBSET S : T \in P
  BY <1>1, <1>2, SubsetInduction
<1>. QED BY <1>3 DEF P

LEMMA SumOfParts ==
  ASSUME LedgerOK, NEW S \in SUBSET Call, NEW T \in SUBSET S
  PROVE  /\ SumOver(S) = SumOver(T) + SumOver(S \ T)
         /\ SumOver(S) \in Nat /\ SumOver(T) \in Nat /\ SumOver(S \ T) \in Nat
<1>1. IsFiniteSet(S) /\ \A x \in S : Amounts[x] \in Nat
  BY BudgetFacts, FS_Subset, AmountIsNat DEF AmountsTyped, Amounts
<1>2. Total(Amounts, S) = Total(Amounts, T) + Total(Amounts, S \ T)
  BY <1>1, TotalSplit
<1>3. T \in SUBSET Call /\ S \ T \in SUBSET Call
  OBVIOUS
<1>. QED BY <1>2, <1>3, SumOverIsTotal, SumsAreNat DEF SumsTyped

LEMMA UnitCancels ==
  ASSUME NEW u \in Nat \ {0}, NEW p \in Nat, NEW s \in Nat, NEW k \in Nat,
         u * p + u * s <= u * k
  PROVE  p + s <= k
<1>1. SUFFICES ASSUME p + s >= k + 1 PROVE FALSE
  OBVIOUS
<1>2. u * (p + s) >= u * (k + 1)
  BY <1>1
<1>3. u * (p + s) = u * p + u * s /\ u * (k + 1) = u * k + u
  OBVIOUS
<1>4. u * p \in Nat /\ u * s \in Nat /\ u * k \in Nat
  OBVIOUS
<1>. QED BY <1>2, <1>3, <1>4

\* What other runs have spent of a meter on a day.
OthersOf(r, m, d) == {x \in Call : RunOf[x] # r /\ MeterOf[x] = m /\ DayOf(x) = d}

\* A promise fits under both ceilings and, as long as no other run spends beside it, what the
\* others had spent leaves it room on the day that is.
Kept(r, m) ==
  promise[r][m] > 0 =>
    /\ promise[r][m] <= RunCeiling[m] /\ promise[r][m] <= DayCeiling[m]
    /\ Alone(r) => \A S \in SUBSET Call :
                     S = OthersOf(r, m, today) => SumOver(S) + promise[r][m] <= DayCeiling[m]

PromiseInv ==
  \A r \in Atomic : launch[r] = "running" =>
    since[r] <= Len(ledger) /\ \A m \in Meter : Kept(r, m)

LEMMA MeterFacts ==
  \A m \in Meter : DayCeiling[m] \in Nat /\ RunCeiling[m] \in Nat
BY BudgetFacts DEF Meter

LEMMA PromiseBegins == AtomicInit => AtomicTypeOK /\ PromiseInv
BY AtomicAssumption DEF AtomicAssumption, AtomicInit, AtomicTypeOK, PromiseInv

LEMMA PreflightPromises ==
  ASSUME BudgetInv, AtomicTypeOK, PromiseInv, NEW r \in Atomic, Preflight(r)
  PROVE  AtomicTypeOK' /\ PromiseInv'
<1>1. /\ UNCHANGED ledger /\ today' = today
      /\ \A q \in Atomic : q # r => /\ launch'[q] = launch[q] /\ promise'[q] = promise[q]
                                    /\ since'[q] = since[q]
  <2>1. Atomic \subseteq {RunOf[c] : c \in Call}
    BY AtomicAssumption DEF AtomicAssumption
  <2>2. UNCHANGED ledger /\ today' = today
    BY DEF Preflight, vars
  <2>. QED BY <2>1, <2>2 DEF Preflight, AtomicTypeOK
<1>2. ASSUME NEW q \in Atomic, q # r, launch'[q] = "running"
      PROVE  (since[q] <= Len(ledger) /\ \A m \in Meter : Kept(q, m))'
  <2>1. since[q] <= Len(ledger) /\ \A m \in Meter : Kept(q, m)
    BY <1>1, <1>2 DEF PromiseInv
  <2>2. Alone(q)' = Alone(q)
    BY <1>1, <1>2 DEF Alone
  <2>3. \A m : OthersOf(q, m, today)' = OthersOf(q, m, today)
    BY <1>1, NoNewLine DEF OthersOf
  <2>4. ASSUME NEW m \in Meter
        PROVE  Kept(q, m)'
    <3>1. Kept(q, m)
      BY <2>1
    <3>2. \A S \in SUBSET Call : SumOver(S)' = SumOver(S)
      BY <1>1, NoNewLine
    <3>. QED BY <1>1, <1>2, <2>2, <2>3, <3>1, <3>2 DEF Kept
  <2>. QED BY <1>1, <1>2, <2>1, <2>4
<1>3. CASE launch' = [launch EXCEPT ![r] = "refused"] /\ UNCHANGED <<promise, since>>
  <2>1. launch'[r] # "running"
    BY <1>3, AtomicAssumption DEF AtomicTypeOK, AtomicAssumption
  <2>2. AtomicTypeOK'
    BY <1>3 DEF AtomicTypeOK
  <2>. QED BY <1>2, <2>1, <2>2 DEF PromiseInv
<1>4. ASSUME NEW f \in Forecasts, Fits(r, f.need),
             launch' = [launch EXCEPT ![r] = "running"],
             promise' = [promise EXCEPT ![r] = f.promise],
             since' = [since EXCEPT ![r] = Len(ledger)]
      PROVE  AtomicTypeOK' /\ PromiseInv'
  <2>1. LedgerOK /\ Len(ledger) \in Nat
    BY TypedLedger DEF BudgetInv, TypeOK
  <2>2. AtomicTypeOK'
    BY <1>4, <2>1, PromiseIsNeeded DEF AtomicTypeOK
  <2>3. promise'[r] = f.promise /\ since'[r] = Len(ledger)
    BY <1>4 DEF AtomicTypeOK
  <2>4. ASSUME NEW m \in Meter, f.promise[m] > 0
        PROVE  /\ f.promise[m] + RunSum(r, m) <= RunCeiling[m]
               /\ f.promise[m] + DaySum(m, today) <= DayCeiling[m]
               /\ f.promise[m] \in Nat /\ RunSum(r, m) \in Nat /\ DaySum(m, today) \in Nat
    <3>1. /\ f.promise[m] \in Nat /\ f.need[m] \in Nat
          /\ m \in DOMAIN f.need /\ Unit * f.promise[m] <= f.need[m]
      BY <2>4, PromiseIsNeeded
    <3>2. RunSum(r, m) \in Nat /\ DaySum(m, today) \in Nat
      <4>1. /\ {c \in Call : RunOf[c] = r /\ MeterOf[c] = m} \in SUBSET Call
            /\ {c \in Call : MeterOf[c] = m /\ DayOf(c) = today} \in SUBSET Call
        OBVIOUS
      <4>. QED BY <2>1, <4>1, SumsAreNat DEF RunSum, DaySum, SumsTyped
    <3>3. /\ f.need[m] + Unit * RunSum(r, m) <= Unit * RunCeiling[m]
          /\ f.need[m] + Unit * DaySum(m, today) <= Unit * DayCeiling[m]
      BY <1>4, <3>1 DEF Fits
    <3>4. Unit \in Nat \ {0}
      BY AtomicAssumption DEF AtomicAssumption
    <3>5. /\ Unit * f.promise[m] \in Nat
          /\ Unit * RunSum(r, m) \in Nat /\ Unit * DaySum(m, today) \in Nat
          /\ Unit * RunCeiling[m] \in Nat /\ Unit * DayCeiling[m] \in Nat
      BY <3>1, <3>2, <3>4, MeterFacts
    <3>6. /\ Unit * f.promise[m] + Unit * RunSum(r, m) <= Unit * RunCeiling[m]
          /\ Unit * f.promise[m] + Unit * DaySum(m, today) <= Unit * DayCeiling[m]
      BY <3>1, <3>3, <3>5
    <3>. QED BY <3>1, <3>2, <3>4, <3>6, MeterFacts, UnitCancels
  <2>5. ASSUME NEW m \in Meter
        PROVE  Kept(r, m)'
    <3>1. SUFFICES ASSUME f.promise[m] > 0
                   PROVE  /\ f.promise[m] <= RunCeiling[m] /\ f.promise[m] <= DayCeiling[m]
                          /\ \A S \in SUBSET Call : S = OthersOf(r, m, today)' =>
                               SumOver(S)' + f.promise[m] <= DayCeiling[m]
      BY <2>3 DEF Kept
    <3>2. f.promise[m] <= RunCeiling[m] /\ f.promise[m] <= DayCeiling[m]
      BY <2>4, <3>1, MeterFacts
    <3>3. ASSUME NEW S \in SUBSET Call, S = OthersOf(r, m, today)'
          PROVE  SumOver(S)' + f.promise[m] <= DayCeiling[m]
      <4>1. S = OthersOf(r, m, today) /\ SumOver(S)' = SumOver(S)
        BY <1>1, <3>3, NoNewLine DEF OthersOf
      <4>2. S \in SUBSET OfDay(m, today) /\ OfDay(m, today) \in SUBSET Call
        BY <4>1 DEF OthersOf, OfDay
      <4>3. DaySum(m, today) = SumOver(OfDay(m, today))
        BY DEF DaySum, OfDay
      <4>4. /\ SumOver(OfDay(m, today)) = SumOver(S) + SumOver(OfDay(m, today) \ S)
            /\ SumOver(S) \in Nat /\ SumOver(OfDay(m, today) \ S) \in Nat
        BY <2>1, <4>2, SumOfParts
      <4>. QED BY <2>4, <3>1, <4>1, <4>3, <4>4, MeterFacts
    <3>. QED BY <3>2, <3>3
  <2>6. since'[r] <= Len(ledger)'
    BY <1>1, <2>1, <2>3
  <2>. QED BY <1>2, <2>2, <2>5, <2>6 DEF PromiseInv
<1>. QED BY <1>3, <1>4 DEF Preflight

LEMMA WorkKeepsPromises ==
  ASSUME BudgetInv, AtomicTypeOK, PromiseInv, [Next]_vars, UNCHANGED atomicVars
  PROVE  PromiseInv'
<1>1. LedgerOK /\ Len(ledger) \in Nat /\ today \in Nat
  BY TypedLedger DEF BudgetInv, TypeOK
<1>2. SUFFICES ASSUME NEW r \in Atomic, launch[r] = "running",
                      since[r] <= Len(ledger), NEW m \in Meter, Kept(r, m)
               PROVE  Kept(r, m)'
  <2>1. Len(ledger) <= Len(ledger')
    <3>1. ASSUME NEW c \in Call, Reserves(c) \/ Amends(c)
          PROVE  Len(ledger) <= Len(ledger')
      <4>1. ledger \in Seq(LedgerLine)
        BY <1>1 DEF LedgerOK
      <4>2. \E line : ledger' = Append(ledger, line)
        BY <3>1 DEF Reserves, Amends, NewLine
      <4>. QED BY <1>1, <4>1, <4>2
    <3>. QED BY <1>1, <3>1, StepIsOne, MovesType DEF Rests
  <2>2. \A q \in Atomic : since[q] \in Nat
    BY DEF AtomicTypeOK
  <2>3. Len(ledger') \in Nat
    BY BudgetStep, TypedLedger DEF BudgetInv, TypeOK
  <2>. QED BY <1>1, <2>1, <2>2, <2>3 DEF PromiseInv, atomicVars
<1>3. UNCHANGED <<launch, promise, since>> /\ promise[r][m] \in Nat /\ since[r] \in Nat
  BY DEF atomicVars, AtomicTypeOK
<1>4. SUFFICES ASSUME promise[r][m] > 0, Alone(r)',
                      NEW S \in SUBSET Call, S = OthersOf(r, m, today)'
               PROVE  /\ Alone(r) => SumOver(S)' + promise[r][m] <= DayCeiling[m]
                      /\ Alone(r)
  BY <1>2, <1>3 DEF Kept
<1>5. CASE UNCHANGED ledger /\ (today' = today \/ Midnight)
  <2>1. Alone(r)
    BY <1>3, <1>4, <1>5 DEF Alone
  <2>2. SumOver(S)' = SumOver(S) /\ \A x : DayOf(x)' = DayOf(x)
    BY <1>5, NoNewLine
  <2>3. CASE today' = today
    <3>1. S = OthersOf(r, m, today)
      BY <1>4, <2>2, <2>3 DEF OthersOf
    <3>. QED BY <1>2, <1>4, <2>1, <2>2, <3>1 DEF Kept
  <2>4. CASE Midnight
    <3>1. \A x \in Call : DayOf(x) <= today
      BY AmountOfPlace DEF BudgetInv
    <3>2. \A x \in Call : DayOf(x) \in Nat
      BY <1>1, AmountIsNat, BudgetFacts DEF AmountsTyped
    <3>3. today' = today + 1
      BY <2>4 DEF Midnight
    <3>4. S = {}
      BY <1>1, <1>4, <2>2, <3>1, <3>2, <3>3 DEF OthersOf
    <3>. QED BY <1>2, <1>3, <1>4, <2>1, <2>2, <3>4, SumOverNone, MeterFacts DEF Kept
  <2>. QED BY <1>5, <2>3, <2>4
<1>6. ASSUME NEW c \in Call, Reserves(c) \/ Amends(c)
      PROVE  Alone(r) /\ (Alone(r) => SumOver(S)' + promise[r][m] <= DayCeiling[m])
  <2>1. PICK k \in {"reserved", "actual"}, amount \in Nat, d \in 1 .. Days :
          NewLine(c, k, amount, d)
    BY <1>6, ReservesLines, AmendsLines
  <2>2. /\ DOMAIN ledger' = DOMAIN ledger \cup {Len(ledger) + 1}
        /\ \A i \in DOMAIN ledger : ledger'[i] = ledger[i]
        /\ ledger'[Len(ledger) + 1].token = c
        /\ DOMAIN ledger = 1 .. Len(ledger) /\ Len(ledger') = Len(ledger) + 1
    <3>1. ledger \in Seq(LedgerLine)
      BY <1>1 DEF LedgerOK
    <3>. QED BY <1>1, <2>1, <3>1, NewLineOf DEF NewLine
  <2>3. RunOf[c] = r
    BY <1>1, <1>2, <1>3, <1>4, <2>2 DEF Alone
  <2>4. Alone(r)
    BY <1>1, <1>2, <1>3, <1>4, <2>2 DEF Alone
  <2>5. today' = today
    BY <1>6, ReservesLines, AmendsLines
  <2>6. \A x : x # c => DayOf(x)' = DayOf(x)
    BY <1>1, <2>1, NewLineOthers
  <2>7. S = OthersOf(r, m, today) /\ c \notin S
    BY <1>4, <2>3, <2>5, <2>6 DEF OthersOf
  <2>8. SumOver(S)' = SumOver(S)
    BY <1>1, <2>1, <2>7, NewLineSums
  <2>. QED BY <1>2, <1>4, <2>4, <2>7, <2>8 DEF Kept
<1>7. (UNCHANGED ledger /\ (today' = today \/ Midnight)) \/ \E c \in Call : Reserves(c) \/ Amends(c)
  BY StepIsOne, MovesType DEF Rests
<1>. QED BY <1>5, <1>6, <1>7

LEMMA PromiseIsRoom ==
  ASSUME BudgetInv, LaunchInv, AtomicTypeOK, PromiseInv
  PROVE  NotStranded
<1>. SUFFICES ASSUME NEW c \in Call, RunOf[c] \in Atomic, pc[c] = "check", Alone(RunOf[c]),
                     RunSum(RunOf[c], MeterOf[c]) + Estimate[c] <= promise[RunOf[c]][MeterOf[c]],
                     VideoSum(RunOf[c][2], VideoOf[c]) + Estimate[c] <= VideoCeiling
              PROVE  Allowed(c)
  BY DEF NotStranded
<1>. DEFINE r == RunOf[c]
            m == MeterOf[c]
            others == OthersOf(r, m, today)
            mine == OfDay(m, today) \ others
<1>1. LedgerOK /\ m \in Meter
  BY TypedLedger DEF BudgetInv, Meter
<1>2. launch[r] = "running"
  BY DEF LaunchInv
<1>3. Kept(r, m)
  BY <1>1, <1>2 DEF PromiseInv
<1>4. /\ OfRun(c) \in SUBSET Call /\ OfDay(m, today) \in SUBSET Call
      /\ mine \in SUBSET OfRun(c) /\ others \in SUBSET OfDay(m, today)
  BY DEF OfRun, OfDay, OthersOf
<1>5. RunSum(r, m) = SumOver(OfRun(c)) /\ DaySum(m, today) = SumOver(OfDay(m, today))
  <2>1. OfRun(c) = {x \in Call : RunOf[x] = r /\ MeterOf[x] = m}
    BY DEF OfRun
  <2>. QED BY <2>1 DEF RunSum, DaySum, OfDay
<1>6. /\ SumOver(OfDay(m, today)) = SumOver(others) + SumOver(mine)
      /\ SumOver(others) \in Nat /\ SumOver(mine) \in Nat
  BY <1>1, <1>4, SumOfParts
<1>7. SumOver(mine) <= SumOver(OfRun(c)) /\ SumOver(OfRun(c)) \in Nat
  <2>1. /\ SumOver(OfRun(c)) = SumOver(mine) + SumOver(OfRun(c) \ mine)
        /\ SumOver(OfRun(c) \ mine) \in Nat /\ SumOver(mine) \in Nat
    <3>. HIDE DEF mine
    <3>. QED BY <1>1, <1>4, SumOfParts
  <2>. HIDE DEF mine
  <2>. QED BY <2>1
<1>8. promise[r][m] \in Nat /\ Estimate[c] \in Nat \ {0}
  BY <1>1, BudgetFacts DEF AtomicTypeOK
<1>9. /\ promise[r][m] <= RunCeiling[m] /\ SumOver(others) + promise[r][m] <= DayCeiling[m]
  <2>1. promise[r][m] > 0
    BY <1>5, <1>7, <1>8
  <2>2. others \in SUBSET Call
    BY <1>4
  <2>. QED BY <1>3, <2>1, <2>2 DEF Kept
<1>10. RunSum(r, m) + Estimate[c] <= promise[r][m]
  OBVIOUS
<1>. HIDE DEF r, m, others, mine
<1>11. DaySum(m, today) + Estimate[c] <= DayCeiling[m]
  BY <1>1, <1>5, <1>6, <1>7, <1>8, <1>9, <1>10, MeterFacts
<1>12. RunSum(r, m) + Estimate[c] <= RunCeiling[m]
  BY <1>1, <1>5, <1>7, <1>8, <1>9, <1>10, MeterFacts
<1>. QED BY <1>11, <1>12 DEF Allowed, r, m

\* Money is not spent on half an atomic run: whatever the runs directory held and whatever
\* other runs had spent, what the check let in is never refused a call within what the finished
\* runs announced, while no other run spends beside it; and the ledger is sound under it.
THEOREM AtomicSafety == AtomicSpec => []AtomicInv
<1>. DEFINE Inv == BudgetInv /\ LaunchInv /\ AtomicTypeOK /\ PromiseInv
<1>1. AtomicInit => Inv
  BY AtomicBegins, PromiseBegins
<1>2. Inv /\ [AtomicNext]_<<vars, atomicVars>> => Inv'
  <2>. SUFFICES ASSUME Inv, [AtomicNext]_<<vars, atomicVars>> PROVE AtomicTypeOK' /\ PromiseInv'
    BY AtomicStep
  <2>1. CASE \E r \in Atomic : Preflight(r)
    BY <2>1, PreflightPromises
  <2>2. CASE [Next]_vars /\ UNCHANGED atomicVars
    <3>1. AtomicTypeOK'
      BY <2>2 DEF AtomicTypeOK, atomicVars
    <3>. QED BY <2>2, <3>1, WorkKeepsPromises
  <2>. QED BY <2>1, <2>2 DEF AtomicNext, Work
<1>3. Inv => AtomicInv
  <2>1. BudgetInv => LedgerInv
    BY Zenon DEF BudgetInv, LedgerInv, TokenIsDurable, LinesOfPlace
  <2>. QED BY <2>1, PromiseIsRoom DEF AtomicInv
<1>. QED BY <1>1, <1>2, <1>3, PTL DEF AtomicSpec
===============================================================================
