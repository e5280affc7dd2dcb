---------------------------- MODULE TelephonyProofs ----------------------------
(***************************************************************************)
(* Theorems about outbound calls, text threads and the spend gate both     *)
(* pass, for any finite set of calls and texts, any costs and caps, any    *)
(* number of sweeps and any texts of the person: type correctness, the     *)
(* invariants and the action property the runs check.  The first part is   *)
(* about the sums over the ledger; calls come before texts.                *)
(***************************************************************************)
EXTENDS CarrierCall, TextThread, FiniteSetTheorems, WellFoundedInduction, TLAPS

-----------------------------------------------------------------------------
(* Sums. *)

\* A set of naturals without a least member is empty.
LEMMA NoDescent ==
  ASSUME NEW B, B \subseteq Nat, \A n \in B : \E m \in B : m < n
  PROVE  B = {}
<1> SUFFICES ASSUME B # {} PROVE FALSE
  OBVIOUS
<1>1. PICK n \in B : \A m \in B : <<m, n>> \notin OpToRel(<, Nat)
  BY NatLessThanWellFounded, WFMin
<1>. QED
  BY <1>1 DEF OpToRel

\* The element a fold takes first.
Pick(s) == CHOOSE x \in s : TRUE

LEMMA PickOne == ASSUME NEW s, s # {} PROVE Pick(s) \in s
BY DEF Pick

LEMMA PickLess ==
  ASSUME NEW s, IsFiniteSet(s), s # {}
  PROVE  /\ Pick(s) \in s /\ IsFiniteSet(s \ {Pick(s)})
         /\ Cardinality(s) \in Nat /\ Cardinality(s \ {Pick(s)}) \in Nat
         /\ Cardinality(s \ {Pick(s)}) = Cardinality(s) - 1
BY PickOne, FS_RemoveElement, FS_CardinalityType

SumOf(f, g, s) == IF s = {} THEN 0 ELSE f[Pick(s)] + g[s \ {Pick(s)}]

\* The sums over the subsets of S, and over the small ones.
Sums(f, S, g) == g = [s \in SUBSET S |-> SumOf(f, g, s)]

UpTo(S, n) == {s \in SUBSET S : Cardinality(s) <= n}

SmallSums(f, S, n, g) == g = [s \in UpTo(S, n) |-> SumOf(f, g, s)]

LEMMA NextSums ==
  ASSUME NEW f, NEW S, IsFiniteSet(S), NEW n \in Nat, NEW g, SmallSums(f, S, n, g)
  PROVE  \E h : SmallSums(f, S, n + 1, h)
<1>. DEFINE h == [s \in UpTo(S, n + 1) |-> SumOf(f, g, s)]
<1>1. ASSUME NEW s \in UpTo(S, n + 1), s # {}
      PROVE  s \ {Pick(s)} \in UpTo(S, n) /\ s \ {Pick(s)} \in UpTo(S, n + 1)
  <2>1. s \subseteq S /\ IsFiniteSet(s) /\ Cardinality(s) <= n + 1
    BY FS_Subset DEF UpTo
  <2>. QED
    BY <1>1, <2>1, PickLess DEF UpTo
<1>2. \A s \in UpTo(S, n) : g[s] = SumOf(f, g, s)
  BY DEF SmallSums
<1>3. \A s \in UpTo(S, n) : s \in UpTo(S, n + 1) => h[s] = g[s]
  BY <1>2
<1>4. \A s \in UpTo(S, n + 1) : SumOf(f, g, s) = SumOf(f, h, s)
  BY <1>1, <1>3 DEF SumOf
<1>5. h = [s \in UpTo(S, n + 1) |-> SumOf(f, h, s)]
  BY <1>4
<1>. QED
  BY <1>5 DEF SmallSums

LEMMA SumsExist ==
  ASSUME NEW f, NEW S, IsFiniteSet(S)
  PROVE  \E g : Sums(f, S, g)
<1>. DEFINE B == {n \in Nat : ~ \E g : SmallSums(f, S, n, g)}
<1>1. 0 \notin B
  <2>1. UpTo(S, 0) = {{}}
    <3>1. \A s \in SUBSET S : Cardinality(s) <= 0 <=> s = {}
      BY FS_Subset, FS_EmptySet, FS_CardinalityType
    <3>. QED
      BY <3>1 DEF UpTo
  <2>2. SmallSums(f, S, 0, [s \in {{}} |-> 0])
    BY <2>1 DEF SmallSums, SumOf
  <2>. QED
    BY <2>2
<1>2. \A n \in B : \E m \in B : m < n
  <2> SUFFICES ASSUME NEW n \in B PROVE \E m \in B : m < n
    OBVIOUS
  <2>1. n - 1 \in Nat /\ n - 1 < n /\ (n - 1) + 1 = n
    BY <1>1
  <2>2. n - 1 \in B
    BY <2>1, NextSums
  <2>. QED
    BY <2>1, <2>2
<1>3. B = {}
  BY <1>2, NoDescent
<1>4. Cardinality(S) \in Nat /\ UpTo(S, Cardinality(S)) = SUBSET S
  BY FS_Subset, FS_CardinalityType DEF UpTo
<1>5. PICK g : SmallSums(f, S, Cardinality(S), g)
  BY <1>3, <1>4
<1>6. Sums(f, S, g)
  BY <1>4, <1>5 DEF SmallSums, Sums
<1>. QED
  BY <1>6

LEMMA SumsAgree ==
  ASSUME NEW f, NEW S, IsFiniteSet(S), NEW T \in SUBSET S,
         NEW g, NEW h, Sums(f, S, g), Sums(f, T, h)
  PROVE  g[T] = h[T]
<1>. DEFINE B == {n \in Nat : \E s \in SUBSET T : Cardinality(s) = n /\ g[s] # h[s]}
<1>1. ASSUME NEW s \in SUBSET T, g[s] # h[s]
      PROVE  \E t \in SUBSET T : Cardinality(t) < Cardinality(s) /\ g[t] # h[t]
                                 /\ Cardinality(t) \in Nat
  <2>1. g[s] = SumOf(f, g, s) /\ h[s] = SumOf(f, h, s)
    BY DEF Sums
  <2>2. s # {} /\ IsFiniteSet(s)
    BY <1>1, <2>1, FS_Subset DEF SumOf
  <2>3. g[s \ {Pick(s)}] # h[s \ {Pick(s)}]
    BY <1>1, <2>1, <2>2 DEF SumOf
  <2>. QED
    BY <2>2, <2>3, PickLess
<1>2. \A n \in B : \E m \in B : m < n
  BY <1>1
<1>3. B = {}
  BY <1>2, NoDescent
<1>4. Cardinality(T) \in Nat
  BY FS_Subset, FS_CardinalityType
<1>. QED
  BY <1>3, <1>4

LEMMA SumsSolve ==
  ASSUME NEW f, NEW S, IsFiniteSet(S)
  PROVE  \E g : Sums(f, S, g) /\ SumFunctionOnSet(f, S) = g[S]
<1>. DEFINE g == CHOOSE g : g = [s \in SUBSET S |->
                    IF s = {} THEN 0
                    ELSE f[CHOOSE x \in s : TRUE] + g[s \ {CHOOSE x \in s : TRUE}]]
<1>1. g = [s \in SUBSET S |-> IF s = {} THEN 0
              ELSE f[CHOOSE x \in s : TRUE] + g[s \ {CHOOSE x \in s : TRUE}]]
  <2>1. PICK h : Sums(f, S, h)
    BY SumsExist
  <2>2. h = [s \in SUBSET S |-> IF s = {} THEN 0
                ELSE f[CHOOSE x \in s : TRUE] + h[s \ {CHOOSE x \in s : TRUE}]]
    BY <2>1, Zenon DEF Sums, SumOf, Pick
  <2>. QED
    BY <2>2, Zenon
<1>2. SumFunctionOnSet(f, S) = g[S]
  BY Zenon DEF SumFunctionOnSet, FoldFunctionOnSet, MapThenFoldSet
<1>3. Sums(f, S, g)
  BY <1>1 DEF Sums, SumOf, Pick
<1>. QED
  BY <1>2, <1>3

\* What the community modules' sum computes, one element at a time.
LEMMA SumEmpty == ASSUME NEW f PROVE SumFunctionOnSet(f, {}) = 0
<1>1. PICK g : Sums(f, {}, g) /\ SumFunctionOnSet(f, {}) = g[{}]
  BY SumsSolve, FS_EmptySet
<1>. QED
  BY <1>1 DEF Sums, SumOf

LEMMA SumPick ==
  ASSUME NEW f, NEW S, IsFiniteSet(S), S # {}
  PROVE  SumFunctionOnSet(f, S) = f[Pick(S)] + SumFunctionOnSet(f, S \ {Pick(S)})
<1>1. PICK g : Sums(f, S, g) /\ SumFunctionOnSet(f, S) = g[S]
  BY SumsSolve
<1>2. PICK h : Sums(f, S \ {Pick(S)}, h)
               /\ SumFunctionOnSet(f, S \ {Pick(S)}) = h[S \ {Pick(S)}]
  BY PickLess, SumsSolve
<1>3. g[S \ {Pick(S)}] = h[S \ {Pick(S)}]
  BY <1>1, <1>2, SumsAgree
<1>4. g[S] = SumOf(f, g, S)
  BY <1>1 DEF Sums
<1>. QED
  BY <1>1, <1>2, <1>3, <1>4 DEF SumOf

LEMMA SumInt ==
  ASSUME NEW D, NEW f \in [D -> Int], NEW S \in SUBSET D, IsFiniteSet(S)
  PROVE  SumFunctionOnSet(f, S) \in Int
<1>. DEFINE B == {n \in Nat : \E s \in SUBSET D :
                     IsFiniteSet(s) /\ Cardinality(s) = n /\ SumFunctionOnSet(f, s) \notin Int}
<1>1. \A n \in B : \E m \in B : m < n
  <2> SUFFICES ASSUME NEW s \in SUBSET D, IsFiniteSet(s), SumFunctionOnSet(f, s) \notin Int
               PROVE  \E m \in B : m < Cardinality(s)
    OBVIOUS
  <2>1. s # {}
    BY SumEmpty
  <2>2. SumFunctionOnSet(f, s \ {Pick(s)}) \notin Int
    BY <2>1, SumPick, PickOne
  <2>. QED
    BY <2>1, <2>2, PickLess
<1>2. B = {}
  BY <1>1, NoDescent
<1>. QED
  BY <1>2, FS_CardinalityType

LEMMA SumAdd ==
  ASSUME NEW D, NEW f \in [D -> Int], NEW S \in SUBSET D, IsFiniteSet(S), NEW a \in D \ S
  PROVE  SumFunctionOnSet(f, S \cup {a}) = SumFunctionOnSet(f, S) + f[a]
<1>. DEFINE Wrong(s, b) == SumFunctionOnSet(f, s \cup {b}) # SumFunctionOnSet(f, s) + f[b]
            B == {n \in Nat : \E s \in SUBSET D : IsFiniteSet(s) /\ Cardinality(s) = n
                                                  /\ \E b \in D \ s : Wrong(s, b)}
<1>1. \A n \in B : \E m \in B : m < n
  <2> SUFFICES ASSUME NEW s \in SUBSET D, IsFiniteSet(s), NEW b \in D \ s, Wrong(s, b)
               PROVE  \E m \in B : m < Cardinality(s)
    OBVIOUS
  <2>0. IsFiniteSet(s \cup {b}) /\ s \cup {b} # {}
    BY FS_AddElement
  <2>1. PICK x \in s \cup {b} : x = Pick(s \cup {b})
    BY <2>0, PickOne
  <2>. DEFINE t == s \ {x}
  <2>2. SumFunctionOnSet(f, s \cup {b}) = f[x] + SumFunctionOnSet(f, (s \cup {b}) \ {x})
    BY <2>0, <2>1, SumPick
  <2>3. x # b
    <3> SUFFICES ASSUME x = b PROVE FALSE
      OBVIOUS
    <3>1. (s \cup {b}) \ {b} = s
      OBVIOUS
    <3>2. SumFunctionOnSet(f, s \cup {b}) = f[b] + SumFunctionOnSet(f, s)
      BY <2>2, <3>1
    <3>3. SumFunctionOnSet(f, s) \in Int /\ f[b] \in Int
      BY SumInt
    <3>. QED
      BY <3>2, <3>3
  <2>4. x \in s /\ (s \cup {b}) \ {x} = t \cup {b} /\ t \cup {x} = s
    BY <2>1, <2>3
  <2>5. IsFiniteSet(t) /\ Cardinality(t) = Cardinality(s) - 1 /\ Cardinality(t) \in Nat
        /\ Cardinality(s) \in Nat /\ Cardinality(t) < Cardinality(s)
    <3>1. IsFiniteSet(t) /\ Cardinality(t) = Cardinality(s) - 1
      BY <2>4, FS_RemoveElement
    <3>2. Cardinality(t) \in Nat /\ Cardinality(s) \in Nat
      BY <3>1, FS_CardinalityType
    <3>. QED
      BY <3>1, <3>2
  <2>6. CASE Wrong(t, b)
    <3>1. t \in SUBSET D /\ b \in D \ t
      OBVIOUS
    <3>. QED
      BY <2>5, <2>6, <3>1
  <2>7. CASE Wrong(t, x)
    <3>1. t \in SUBSET D /\ x \in D \ t
      BY <2>4
    <3>. QED
      BY <2>5, <2>7, <3>1
  <2>8. CASE ~Wrong(t, b) /\ ~Wrong(t, x)
    <3>1. /\ SumFunctionOnSet(f, t \cup {b}) = SumFunctionOnSet(f, t) + f[b]
          /\ SumFunctionOnSet(f, s) = SumFunctionOnSet(f, t) + f[x]
      BY <2>4, <2>8
    <3>2. SumFunctionOnSet(f, t) \in Int /\ f[b] \in Int /\ f[x] \in Int
      BY <2>4, <2>5, SumInt
    <3>. QED
      BY <2>2, <2>4, <3>1, <3>2
  <2>. QED
    BY <2>6, <2>7, <2>8
<1>2. B = {}
  BY <1>1, NoDescent
<1>. QED
  BY <1>2, FS_CardinalityType

\* Where nothing is negative, more elements sum to no less.
LEMMA SumGrows ==
  ASSUME NEW D, NEW f \in [D -> Int], NEW T \in SUBSET D, IsFiniteSet(T),
         \A x \in T : f[x] >= 0, NEW S \in SUBSET T
  PROVE  SumFunctionOnSet(f, S) <= SumFunctionOnSet(f, T)
<1>. DEFINE B == {n \in Nat : \E s \in SUBSET T : S \subseteq s /\ Cardinality(s) = n
                              /\ ~(SumFunctionOnSet(f, S) <= SumFunctionOnSet(f, s))}
<1>1. \A n \in B : \E m \in B : m < n
  <2> SUFFICES ASSUME NEW s \in SUBSET T, S \subseteq s,
                      ~(SumFunctionOnSet(f, S) <= SumFunctionOnSet(f, s))
               PROVE  \E m \in B : m < Cardinality(s)
    OBVIOUS
  <2>1. IsFiniteSet(s) /\ IsFiniteSet(S)
    BY FS_Subset
  <2>2. SumFunctionOnSet(f, s) \in Int /\ SumFunctionOnSet(f, S) \in Int
    BY <2>1, SumInt
  <2>3. PICK a \in s : a \notin S
    <3>1. S # s
      BY <2>2
    <3>. QED
      BY <3>1
  <2>4. IsFiniteSet(s \ {a}) /\ Cardinality(s \ {a}) = Cardinality(s) - 1
        /\ Cardinality(s) \in Nat /\ Cardinality(s \ {a}) \in Nat
    BY <2>1, FS_RemoveElement, FS_CardinalityType
  <2>5. SumFunctionOnSet(f, s) = SumFunctionOnSet(f, s \ {a}) + f[a]
    <3>1. (s \ {a}) \cup {a} = s /\ a \in D \ (s \ {a}) /\ s \ {a} \in SUBSET D
      OBVIOUS
    <3>. QED
      BY <2>4, <3>1, SumAdd
  <2>6. SumFunctionOnSet(f, s \ {a}) \in Int /\ f[a] \in Int /\ f[a] >= 0
    BY <2>4, SumInt
  <2>7. ~(SumFunctionOnSet(f, S) <= SumFunctionOnSet(f, s \ {a}))
    BY <2>2, <2>5, <2>6
  <2>. QED
    BY <2>3, <2>4, <2>7
<1>2. B = {}
  BY <1>1, NoDescent
<1>3. Cardinality(T) \in Nat
  BY FS_CardinalityType
<1>. QED
  BY <1>2, <1>3

-----------------------------------------------------------------------------
(* The ledger: what is held, and what has gone beyond the cap. *)

USE DEF vars, spendVars, requestVars, hookVars, sweepVars, OutboundInit, Report, MarkSeen

LEMMA Types ==
  /\ IsFiniteSet(Action) /\ Cost \in [Action -> Int] /\ Estimate \in [Action -> Int]
  /\ \A a \in Action : Cost[a] > 0 /\ Estimate[a] > 0
  /\ Cap \in Nat /\ AutomationCap \in Nat /\ Prior \subseteq Nat
BY SpendAssumption

\* A sum of what is not negative is a natural number.
LEMMA SumNat ==
  ASSUME NEW D, NEW f \in [D -> Int], NEW S \in SUBSET D, IsFiniteSet(S),
         \A x \in S : f[x] >= 0
  PROVE  SumFunctionOnSet(f, S) \in Nat
<1>1. SumFunctionOnSet(f, {}) = 0 /\ {} \in SUBSET S
  BY SumEmpty
<1>2. SumFunctionOnSet(f, {}) <= SumFunctionOnSet(f, S)
  BY <1>1, SumGrows
<1>. QED
  BY <1>1, <1>2, SumInt

LEMMA CostNat ==
  ASSUME NEW S \in SUBSET Action
  PROVE  SumFunctionOnSet(Cost, S) \in Nat
<1>1. IsFiniteSet(S) /\ Cost \in [Action -> Int] /\ \A x \in S : Cost[x] >= 0
  BY Types, FS_Subset
<1>. QED
  BY <1>1, SumNat

LEMMA HeldNat ==
  ASSUME NEW A \in SUBSET Action
  PROVE  Held(A) \in Nat /\ Held(A)' \in Nat
<1>1. PICK h \in SUBSET Action : h = {a \in A : ledger[a] = "held"}
  OBVIOUS
<1>2. PICK g \in SUBSET Action : g = {a \in A : ledger'[a] = "held"}
  OBVIOUS
<1>. QED
  BY <1>1, <1>2, CostNat DEF Held

LEMMA SpentNat ==
  ASSUME SpendTypeOK
  PROVE  Spent \in Nat /\ AutomationSpent \in Nat
         /\ Held(Action) \in Nat /\ prior \in Nat
BY HeldNat, SpendAssumption DEF SpendTypeOK, Spent, AutomationSpent

LEMMA CostAdds ==
  ASSUME NEW S \in SUBSET Action, NEW a \in Action \ S
  PROVE  /\ SumFunctionOnSet(Cost, S \cup {a}) = SumFunctionOnSet(Cost, S) + Cost[a]
         /\ SumFunctionOnSet(Cost, S) \in Int /\ Cost[a] \in Int
<1>1. IsFiniteSet(S) /\ Cost \in [Action -> Int]
  BY Types, FS_Subset
<1>2. SumFunctionOnSet(Cost, S) \in Int
  BY <1>1, SumInt
<1>3. SumFunctionOnSet(Cost, S \cup {a}) = SumFunctionOnSet(Cost, S) + Cost[a]
  BY <1>1, SumAdd
<1>. QED
  BY <1>1, <1>2, <1>3

LEMMA CostGrows ==
  ASSUME NEW T \in SUBSET Action, NEW S \in SUBSET T
  PROVE  SumFunctionOnSet(Cost, S) <= SumFunctionOnSet(Cost, T)
<1>1. IsFiniteSet(T) /\ Cost \in [Action -> Int] /\ \A x \in T : Cost[x] >= 0
  BY Types, FS_Subset
<1>. QED
  BY <1>1, SumGrows

HeldIn(A) == {a \in A : ledger[a] = "held"}

\* One more row that is held.
LEMMA HeldAdds ==
  ASSUME NEW A \in SUBSET Action, NEW a \in Action,
         ledger \in [Action -> {"none", "held", "released"}],
         ledger[a] # "held", ledger' = [ledger EXCEPT ![a] = "held"]
  PROVE  Held(A)' = Held(A) + (IF a \in A THEN Cost[a] ELSE 0)
<1>1. /\ HeldIn(A) \in SUBSET Action /\ a \in Action \ HeldIn(A)
      /\ HeldIn(A)' = IF a \in A THEN HeldIn(A) \cup {a} ELSE HeldIn(A)
  BY DEF HeldIn
<1>2. PICK h \in SUBSET Action : h = HeldIn(A)
  BY <1>1
<1>3. /\ SumFunctionOnSet(Cost, h \cup {a}) = SumFunctionOnSet(Cost, h) + Cost[a]
      /\ SumFunctionOnSet(Cost, h) \in Int
  BY <1>1, <1>2, CostAdds
<1>4. Held(A) = SumFunctionOnSet(Cost, h) /\ Held(A)' = SumFunctionOnSet(Cost, HeldIn(A)')
  BY <1>2 DEF Held, HeldIn
<1>5. HeldIn(A)' = IF a \in A THEN h \cup {a} ELSE h
  BY <1>1, <1>2
<1>. QED
  BY <1>3, <1>4, <1>5

\* A row that is held no longer.
LEMMA HeldDrops ==
  ASSUME NEW A \in SUBSET Action, NEW a \in Action,
         ledger \in [Action -> {"none", "held", "released"}],
         ledger' = [ledger EXCEPT ![a] = "released"]
  PROVE  Held(A)' <= Held(A)
<1>1. HeldIn(A) \in SUBSET Action /\ HeldIn(A)' \in SUBSET HeldIn(A)
  BY DEF HeldIn
<1>2. PICK h \in SUBSET Action : h = HeldIn(A)
  BY <1>1
<1>3. PICK g \in SUBSET h : g = HeldIn(A)'
  BY <1>1, <1>2
<1>4. SumFunctionOnSet(Cost, g) <= SumFunctionOnSet(Cost, h)
  BY CostGrows
<1>5. Held(A) = SumFunctionOnSet(Cost, h) /\ Held(A)' = SumFunctionOnSet(Cost, g)
  BY <1>2, <1>3 DEF Held, HeldIn
<1>. QED
  BY <1>4, <1>5

Excess == [a \in Action |-> Cost[a] - Estimate[a]]

Underestimated(A, over) == {a \in A \ over : Cost[a] > Estimate[a]}

\* What the actions of A may exceed their bound by.
BeyondOf(A, over) ==
    SumFunctionOnSet(Cost, A \cap over) + SumFunctionOnSet(Excess, Underestimated(A, over))

LEMMA BeyondIs == \A A : Beyond(A) = BeyondOf(A, overtaken)
BY DEF Beyond, BeyondOf, Excess, Underestimated

LEMMA BeyondFacts ==
  ASSUME NEW A \in SUBSET Action, NEW over
  PROVE  /\ Excess \in [Action -> Int]
         /\ A \cap over \in SUBSET Action /\ IsFiniteSet(A \cap over)
         /\ \A x \in A \cap over : Cost[x] >= 0
         /\ Underestimated(A, over) \in SUBSET Action /\ IsFiniteSet(Underestimated(A, over))
         /\ \A x \in Underestimated(A, over) : Excess[x] >= 0
BY Types, FS_Subset DEF Excess, Underestimated

LEMMA BeyondNat ==
  ASSUME NEW A \in SUBSET Action, NEW over
  PROVE  BeyondOf(A, over) \in Nat
<1>1. SumFunctionOnSet(Cost, A \cap over) \in Nat
  BY BeyondFacts, Types, SumNat
<1>2. SumFunctionOnSet(Excess, Underestimated(A, over)) \in Nat
  BY BeyondFacts, SumNat
<1>. QED
  BY <1>1, <1>2 DEF BeyondOf

LEMMA BeyondGrows ==
  ASSUME NEW B \in SUBSET Action, NEW A \in SUBSET B, NEW over
  PROVE  BeyondOf(A, over) <= BeyondOf(B, over)
<1>1. A \cap over \in SUBSET (B \cap over)
      /\ Underestimated(A, over) \in SUBSET Underestimated(B, over)
  BY DEF Underestimated
<1>2. SumFunctionOnSet(Cost, A \cap over) <= SumFunctionOnSet(Cost, B \cap over)
  BY <1>1, BeyondFacts, Types, SumGrows
<1>3. SumFunctionOnSet(Excess, Underestimated(A, over))
        <= SumFunctionOnSet(Excess, Underestimated(B, over))
  BY <1>1, BeyondFacts, SumGrows
<1>4. /\ SumFunctionOnSet(Cost, A \cap over) \in Int
      /\ SumFunctionOnSet(Cost, B \cap over) \in Int
      /\ SumFunctionOnSet(Excess, Underestimated(A, over)) \in Int
      /\ SumFunctionOnSet(Excess, Underestimated(B, over)) \in Int
  <2>1. A \in SUBSET Action
    OBVIOUS
  <2>. QED
    BY <2>1, BeyondFacts, Types, SumInt
<1>. QED
  BY <1>2, <1>3, <1>4 DEF BeyondOf

\* An overtaken action is beyond by all it costs.
LEMMA BeyondOvertaken ==
  ASSUME NEW A \in SUBSET Action, NEW a \in Action \ A, NEW over
  PROVE  BeyondOf(A \cup {a}, over \cup {a}) = BeyondOf(A, over) + Cost[a]
<1>1. /\ (A \cup {a}) \cap (over \cup {a}) = (A \cap over) \cup {a}
      /\ a \notin A \cap over
      /\ Underestimated(A \cup {a}, over \cup {a}) = Underestimated(A, over)
  BY DEF Underestimated
<1>2. SumFunctionOnSet(Cost, (A \cap over) \cup {a}) = SumFunctionOnSet(Cost, A \cap over) + Cost[a]
  <2>1. A \cap over \in SUBSET Action /\ IsFiniteSet(A \cap over) /\ a \in Action \ (A \cap over)
    BY <1>1, BeyondFacts
  <2>2. Cost \in [Action -> Int]
    BY Types
  <2>. QED
    BY <2>1, <2>2, SumAdd
<1>3. /\ SumFunctionOnSet(Cost, A \cap over) \in Int
      /\ SumFunctionOnSet(Excess, Underestimated(A, over)) \in Int
      /\ Cost[a] \in Int
  BY BeyondFacts, Types, SumInt
<1>4. SumFunctionOnSet(Cost, (A \cup {a}) \cap (over \cup {a})) =
         SumFunctionOnSet(Cost, A \cap over) + Cost[a]
  BY <1>1, <1>2
<1>5. SumFunctionOnSet(Excess, Underestimated(A \cup {a}, over \cup {a})) =
         SumFunctionOnSet(Excess, Underestimated(A, over))
  BY <1>1
<1>. QED
  BY <1>3, <1>4, <1>5 DEF BeyondOf

\* Any other is beyond by what it costs more than its estimate.
LEMMA BeyondInTime ==
  ASSUME NEW A \in SUBSET Action, NEW a \in Action \ A, NEW over, a \notin over
  PROVE  BeyondOf(A \cup {a}, over) >= Cost[a] - Estimate[a]
<1>. DEFINE U == Underestimated(A \cup {a}, over)
<1>1. A \cup {a} \in SUBSET Action
  OBVIOUS
<1>2. BeyondOf(A \cup {a}, over) \in Nat /\ Cost[a] \in Int /\ Estimate[a] \in Int
  BY <1>1, BeyondNat, Types
<1>3. CASE Cost[a] > Estimate[a]
  <2>1. {a} \in SUBSET U /\ {a} \in SUBSET Action
    BY <1>3 DEF Underestimated
  <2>2. SumFunctionOnSet(Excess, {a}) <= SumFunctionOnSet(Excess, U)
    BY <1>1, <2>1, BeyondFacts, SumGrows
  <2>3. SumFunctionOnSet(Excess, {} \cup {a}) = SumFunctionOnSet(Excess, {}) + Excess[a]
    <3>1. {} \in SUBSET Action /\ IsFiniteSet({}) /\ a \in Action \ {}
      BY FS_EmptySet
    <3>2. Excess \in [Action -> Int]
      BY BeyondFacts
    <3>. QED
      BY <3>1, <3>2, SumAdd
  <2>4. SumFunctionOnSet(Excess, {a}) = Cost[a] - Estimate[a]
    <3>1. {} \cup {a} = {a}
      OBVIOUS
    <3>. QED
      BY <1>2, <2>3, <3>1, SumEmpty DEF Excess
  <2>5. SumFunctionOnSet(Cost, (A \cup {a}) \cap over) \in Nat
    BY <1>1, BeyondFacts, Types, SumNat
  <2>6. SumFunctionOnSet(Excess, U) \in Int
    BY <1>1, BeyondFacts, SumInt
  <2>. QED
    BY <1>2, <2>2, <2>4, <2>5, <2>6 DEF BeyondOf
<1>4. CASE ~(Cost[a] > Estimate[a])
  BY <1>2, <1>4
<1>. QED
  BY <1>3, <1>4

-----------------------------------------------------------------------------
(* The inductive invariant. *)

\* Where the request of a call is, the ledger and the carrier are too.
RequestFollows ==
    \A c \in Call :
        /\ phase[c] \in {"idle", "gated"} => ledger[c] = "none" /\ carrier[c] = "none"
        /\ phase[c] = "booked" => ledger[c] = "held" /\ carrier[c] = "none"
        /\ phase[c] = "accepted" =>
              ledger[c] = "held" /\ carrier[c] # "none" /\ c \notin lost
        /\ phase[c] = "refused" =>
              ledger[c] = "held" /\ (carrier[c] # "none" => c \in lost)
        /\ phase[c] = "done" /\ carrier[c] # "none" /\ c \notin lost => hasSid[c]
        /\ hasSid[c] => phase[c] = "done"
        /\ c \in lost => phase[c] \notin {"idle", "gated", "booked"}

\* The callbacks the carrier sent end with its present status.
CarrierReports ==
    \A c \in Call :
        /\ nonces[c] \subseteq applied[c] /\ applied[c] \subseteq sent[c]
        /\ sent[c] = {} <=> carrier[c] \in {"none", "queued"}
        /\ sent[c] # {} => carrier[c] \in sent[c]
        /\ \A s \in sent[c] : s # carrier[c] => Rank(s) < Rank(carrier[c])

\* A row none of whose callbacks went astray shows the latest one applied.
RowFollowsCallbacks ==
    \A c \in Call \ astray :
        /\ phase[c] # "done" => applied[c] = {}
        /\ hasSid[c] /\ applied[c] = {} => row[c] = "queued"
        /\ hasSid[c] /\ applied[c] # {} => row[c] \in applied[c]
        /\ hasSid[c] => \A s \in applied[c] : Rank(s) <= Rank(row[c])

\* One sweep holds a recording, and none a stored one, but for the shared.
OneSweep ==
    \A c \in Recorded :
        /\ recording[c] = "none" => attempts[c] = 0
        /\ c \notin shared =>
              /\ \A w, v \in Sweeper : c \in pass[w] /\ c \in pass[v] => w = v
              /\ recording[c] = "stored" => \A w \in Sweeper : c \notin pass[w]

Booked == {c \in Call : ledger[c] # "none"}

Dear == \E a \in Booked : Cost[a] > Estimate[a]

WarnedOrMissed == warned \/ overtaken # {} \/ Dear

\* What an action past the gate was allowed on.
WasAllowed(a) ==
    /\ saw[a].all + Estimate[a] <= Cap
    /\ a \in Automated => saw[a].automated + Estimate[a] <= AutomationCap
    /\ saw[a].all * 100 >= Cap * 80 => WarnedOrMissed

GateRead == \A c \in Call : phase[c] = "gated" => WasAllowed(c)

\* Only what is booked by now can have gone beyond.
BookedBeyond ==
    /\ overtaken \subseteq Booked
    /\ Spent <= (IF prior > Cap THEN prior ELSE Cap) + Beyond(Booked)
    /\ AutomationSpent <= AutomationCap + Beyond(Booked \cap Automated)
    /\ Spent * 100 >= Cap * 80 => WarnedOrMissed

IInv ==
    /\ TypeOK
    /\ RequestFollows
    /\ LedgerFollowsCarrier
    /\ CarrierReports
    /\ RowFollowsCallbacks
    /\ OneSweep
    /\ StrandedNeedsDeath
    /\ GateRead
    /\ BookedBeyond

-----------------------------------------------------------------------------
(* What a step leaves alone stays true. *)

LEMMA SumsStay ==
  ASSUME UNCHANGED <<prior, ledger, overtaken>>
  PROVE  /\ Booked' = Booked /\ Dear' = Dear
         /\ Spent' = Spent /\ AutomationSpent' = AutomationSpent
         /\ \A A : Beyond(A)' = Beyond(A)
<1>1. Booked' = Booked
  BY DEF Booked
<1>2. Dear' = Dear
  BY <1>1 DEF Dear
<1>3. \A A : Held(A)' = Held(A)
  BY DEF Held
<1>4. Spent' = Spent /\ AutomationSpent' = AutomationSpent
  BY <1>3 DEF Spent, AutomationSpent
<1>5. \A A : Beyond(A)' = Beyond(A)
  BY DEF Beyond
<1>. QED
  BY <1>1, <1>2, <1>4, <1>5

\* The readings of the gate are as good as they were, and so is the bound.
LEMMA SpendStays ==
  ASSUME BookedBeyond, UNCHANGED <<prior, ledger, warned, saw, overtaken>>
  PROVE  BookedBeyond' /\ \A a \in Action : WasAllowed(a) => WasAllowed(a)'
<1>1. /\ Booked' = Booked /\ Dear' = Dear
      /\ Spent' = Spent /\ AutomationSpent' = AutomationSpent
  BY SumsStay
<1>2. WarnedOrMissed' = WarnedOrMissed
  BY <1>1 DEF WarnedOrMissed
<1>3. \A a \in Action : WasAllowed(a) => WasAllowed(a)'
  BY <1>2 DEF WasAllowed
<1>4. Beyond(Booked)' = Beyond(Booked) /\ Beyond(Booked \cap Automated)' = Beyond(Booked \cap Automated)
  BY <1>1 DEF Beyond
<1>5. BookedBeyond'
  BY <1>1, <1>2, <1>4 DEF BookedBeyond
<1>. QED
  BY <1>3, <1>5

LEMMA MoneyStays ==
  ASSUME IInv, UNCHANGED <<prior, ledger, warned, saw, overtaken>>,
         \A c \in Call : phase'[c] = "gated" => phase[c] = "gated"
  PROVE  GateRead' /\ BookedBeyond'
BY SpendStays DEF IInv, GateRead, Call

\* What the gate read for an action is what there is to read.
LEMMA GateReadsSpend ==
  ASSUME SpendTypeOK, BookedBeyond, NEW a \in Action, checkOutboundAllowed(a),
         UNCHANGED <<prior, ledger, warned, overtaken>>
  PROVE  /\ BookedBeyond' /\ WasAllowed(a)'
         /\ \A b \in Action \ {a} : WasAllowed(b) => WasAllowed(b)'
<1>1. /\ saw' = [saw EXCEPT ![a] = [all |-> Spent, automated |-> AutomationSpent]]
      /\ Spent + Estimate[a] <= Cap
      /\ a \in Automated => AutomationSpent + Estimate[a] <= AutomationCap
  BY DEF checkOutboundAllowed
<1>2. /\ Booked' = Booked /\ Dear' = Dear
      /\ Spent' = Spent /\ AutomationSpent' = AutomationSpent
  BY SumsStay
<1>3. WarnedOrMissed' = WarnedOrMissed
  BY <1>2 DEF WarnedOrMissed
<1>4. BookedBeyond'
  <2>1. Beyond(Booked)' = Beyond(Booked) /\ Beyond(Booked \cap Automated)' = Beyond(Booked \cap Automated)
    BY <1>2 DEF Beyond
  <2>. QED
    BY <1>2, <1>3, <2>1 DEF BookedBeyond
<1>5. WasAllowed(a)'
  <2>1. saw'[a] = [all |-> Spent, automated |-> AutomationSpent]
    BY <1>1 DEF SpendTypeOK
  <2>. QED
    BY <1>1, <1>3, <2>1 DEF BookedBeyond, WasAllowed
<1>6. \A b \in Action \ {a} : saw'[b] = saw[b]
  BY <1>1 DEF SpendTypeOK
<1>. QED
  BY <1>3, <1>4, <1>5, <1>6 DEF WasAllowed

\* The action that is booked goes beyond its bound by what the property grants.
LEMMA BookingIsBounded ==
  ASSUME SpendTypeOK, BookedBeyond, NEW c \in Action, WasAllowed(c), ledger[c] = "none",
         recordSpend(c), prior' = prior
  PROVE  /\ BookedBeyond'
         /\ \A d \in Action \ {c} : WasAllowed(d) => WasAllowed(d)'
<1>1. c \in Action /\ c \notin Booked /\ ledger[c] = "none"
  BY DEF Booked
<1>2. /\ ledger' = [ledger EXCEPT ![c] = "held"]
      /\ warned' = (warned \/ CrossesWarning(saw[c].all, Estimate[c]))
      /\ overtaken' = IF Overtook(c) THEN overtaken \cup {c} ELSE overtaken
      /\ saw' = [saw EXCEPT ![c] = Unread]
  BY DEF recordSpend
<1>3. /\ Booked' = Booked \cup {c} /\ Booked \in SUBSET Action
      /\ overtaken \subseteq Booked /\ c \notin overtaken
  BY <1>1, <1>2 DEF BookedBeyond, SpendTypeOK, Booked, Call
<1>4. /\ Spent \in Nat /\ AutomationSpent \in Nat /\ prior \in Nat /\ Cap \in Nat
      /\ AutomationCap \in Nat /\ saw[c].all \in Nat /\ saw[c].automated \in Nat
      /\ Cost[c] \in Int /\ Estimate[c] \in Int /\ Cost[c] > 0 /\ Estimate[c] > 0
  BY <1>1, SpentNat, Types DEF SpendTypeOK, Reading
<1>5. Spent' = Spent + Cost[c]
  <2>1. Held(Action)' = Held(Action) + Cost[c] /\ Held(Action) \in Nat
    BY <1>1, <1>2, HeldAdds, HeldNat DEF SpendTypeOK
  <2>. QED
    BY <1>4, <2>1 DEF Spent
<1>6. AutomationSpent' = AutomationSpent + (IF c \in Automated THEN Cost[c] ELSE 0)
  BY <1>1, <1>2, HeldAdds, SpendAssumption DEF SpendTypeOK, AutomationSpent
<1>7. /\ saw[c].all + Estimate[c] <= Cap
      /\ c \in Automated => saw[c].automated + Estimate[c] <= AutomationCap
      /\ saw[c].all * 100 >= Cap * 80 => WarnedOrMissed
      /\ Spent <= (IF prior > Cap THEN prior ELSE Cap) + Beyond(Booked)
      /\ AutomationSpent <= AutomationCap + Beyond(Booked \cap Automated)
      /\ Spent * 100 >= Cap * 80 => WarnedOrMissed
  BY DEF WasAllowed, BookedBeyond
<1>8. PICK B \in SUBSET Action : B = Booked
  BY <1>3
<1>9. PICK over : over = overtaken
  OBVIOUS
<1>10. PICK A \in SUBSET Action : A = B \cap Automated
  OBVIOUS
<1>11. c \in Action \ B /\ c \in Action \ A /\ c \notin over
  BY <1>1, <1>3, <1>8, <1>9, <1>10
<1>12. /\ Beyond(Booked) = BeyondOf(B, over) /\ Beyond(Booked \cap Automated) = BeyondOf(A, over)
       /\ BeyondOf(B, over) \in Nat /\ BeyondOf(A, over) \in Nat
  BY <1>8, <1>9, <1>10, BeyondIs, BeyondNat
<1>13. /\ Beyond(Booked)' = BeyondOf(Booked', overtaken')
       /\ Beyond(Booked \cap Automated)' = BeyondOf(Booked' \cap Automated, overtaken')
  BY DEF Beyond, BeyondOf, Excess, Underestimated
<1>14. WarnedOrMissed => WarnedOrMissed'
  BY <1>2, <1>3 DEF WarnedOrMissed, Dear
<1>15. \A d \in Action \ {c} : WasAllowed(d) => WasAllowed(d)'
  <2>1. \A d \in Action \ {c} : saw'[d] = saw[d]
    BY <1>1, <1>2 DEF SpendTypeOK
  <2>. QED
    BY <1>14, <2>1 DEF WasAllowed
<1>16. CASE Overtook(c)
  <2>1. overtaken' = over \cup {c} /\ Booked' = B \cup {c}
    BY <1>2, <1>3, <1>8, <1>9, <1>16
  <2>2. overtaken' \subseteq Booked'
    BY <1>3, <2>1, <1>8, <1>9
  <2>3. BeyondOf(B \cup {c}, over \cup {c}) = BeyondOf(B, over) + Cost[c]
    BY <1>11, BeyondOvertaken
  <2>4. Spent' <= (IF prior > Cap THEN prior ELSE Cap) + Beyond(Booked)'
    BY <1>4, <1>5, <1>7, <1>12, <1>13, <2>1, <2>3
  <2>5. AutomationSpent' <= AutomationCap + Beyond(Booked \cap Automated)'
    <3>1. CASE c \in Automated
      <4>1. Booked' \cap Automated = A \cup {c}
        BY <1>10, <2>1, <3>1
      <4>2. BeyondOf(A \cup {c}, over \cup {c}) = BeyondOf(A, over) + Cost[c]
        BY <1>11, BeyondOvertaken
      <4>3. Beyond(Booked \cap Automated)' = BeyondOf(A \cup {c}, over \cup {c})
        BY <1>13, <2>1, <4>1
      <4>4. AutomationSpent' = AutomationSpent + Cost[c]
        BY <1>6, <3>1
      <4>. QED
        BY <1>4, <1>7, <1>12, <4>2, <4>3, <4>4
    <3>2. CASE c \notin Automated
      <4>1. Booked' \cap Automated = A
        BY <1>10, <2>1, <3>2
      <4>2. BeyondOf(A, over \cup {c}) = BeyondOf(A, over)
        <5>1. A \cap (over \cup {c}) = A \cap over
              /\ Underestimated(A, over \cup {c}) = Underestimated(A, over)
          BY <1>11 DEF Underestimated
        <5>. QED
          BY <5>1 DEF BeyondOf
      <4>3. Beyond(Booked \cap Automated)' = BeyondOf(A, over \cup {c})
        BY <1>13, <2>1, <4>1
      <4>4. AutomationSpent' = AutomationSpent
        BY <1>4, <1>6, <3>2
      <4>. QED
        BY <1>4, <1>7, <1>12, <4>2, <4>3, <4>4
    <3>. QED
      BY <3>1, <3>2
  <2>6. WarnedOrMissed'
    BY <2>1 DEF WarnedOrMissed
  <2>. QED
    BY <1>15, <2>2, <2>4, <2>5, <2>6 DEF BookedBeyond
<1>17. CASE ~Overtook(c)
  <2>1. overtaken' = over /\ Booked' = B \cup {c}
    BY <1>2, <1>3, <1>8, <1>9, <1>17
  <2>2. overtaken' \subseteq Booked'
    BY <1>3, <2>1, <1>8, <1>9
  <2>3. /\ Spent <= saw[c].all
        /\ c \in Automated => AutomationSpent <= saw[c].automated
    BY <1>4, <1>17 DEF Overtook
  <2>4. BeyondOf(B \cup {c}, over) >= Cost[c] - Estimate[c]
    BY <1>11, BeyondInTime
  <2>5. B \cup {c} \in SUBSET Action
    BY <1>1
  <2>6. BeyondOf(B \cup {c}, over) \in Nat
    BY <2>5, BeyondNat
  <2>7. Spent' <= (IF prior > Cap THEN prior ELSE Cap) + Beyond(Booked)'
    BY <1>4, <1>5, <1>7, <1>13, <2>1, <2>3, <2>4, <2>6
  <2>8. AutomationSpent' <= AutomationCap + Beyond(Booked \cap Automated)'
    <3>1. CASE c \in Automated
      <4>1. Booked' \cap Automated = A \cup {c} /\ A \cup {c} \in SUBSET Action
        BY <1>1, <1>10, <2>1, <3>1
      <4>2. BeyondOf(A \cup {c}, over) >= Cost[c] - Estimate[c]
        BY <1>11, BeyondInTime
      <4>3. BeyondOf(A \cup {c}, over) \in Nat
        BY <4>1, BeyondNat
      <4>4. Beyond(Booked \cap Automated)' = BeyondOf(A \cup {c}, over)
        BY <1>13, <2>1, <4>1
      <4>5. AutomationSpent' = AutomationSpent + Cost[c]
        BY <1>6, <3>1
      <4>. QED
        BY <1>4, <1>7, <2>3, <3>1, <4>2, <4>3, <4>4, <4>5
    <3>2. CASE c \notin Automated
      <4>1. Booked' \cap Automated = A
        BY <1>10, <2>1, <3>2
      <4>2. Beyond(Booked \cap Automated)' = BeyondOf(A, over)
        BY <1>13, <2>1, <4>1
      <4>3. AutomationSpent' = AutomationSpent
        BY <1>4, <1>6, <3>2
      <4>. QED
        BY <1>4, <1>7, <1>12, <4>2, <4>3
    <3>. QED
      BY <3>1, <3>2
  <2>9. Spent' * 100 >= Cap * 80 => WarnedOrMissed'
    <3> SUFFICES ASSUME Spent' * 100 >= Cap * 80, ~(Cost[c] > Estimate[c]), ~WarnedOrMissed
                 PROVE  warned'
      <4>1. Cost[c] > Estimate[c] => Dear'
        BY <1>3 DEF Dear
      <4>. QED
        BY <1>14, <4>1 DEF WarnedOrMissed
    <3>1. (saw[c].all + Estimate[c]) * 100 >= Cap * 80
      BY <1>4, <1>5, <2>3
    <3>2. saw[c].all * 100 < Cap * 80
      BY <1>4, <1>7
    <3>. QED
      BY <1>2, <3>1, <3>2 DEF CrossesWarning
  <2>. QED
    BY <1>15, <2>2, <2>7, <2>8, <2>9 DEF BookedBeyond
<1>. QED
  BY <1>16, <1>17

\* What bounds the rows that are booked bounds all there are.
LEMMA BookedIsBound ==
  ASSUME SpendTypeOK, BookedBeyond PROVE OverspendIsOverlap
<1>1. Booked \in SUBSET Action
  BY DEF Booked, Call
<1>2. Spent \in Nat /\ AutomationSpent \in Nat /\ prior \in Nat
      /\ Cap \in Nat /\ AutomationCap \in Nat
  BY <1>1, SpentNat, SpendAssumption
<1>3. PICK B \in SUBSET Action : B = Booked
  BY <1>1
<1>4. PICK A \in SUBSET Automated : A = B \cap Automated
  OBVIOUS
<1>5. PICK over : over = overtaken
  OBVIOUS
<1>6. Action \in SUBSET Action /\ Automated \in SUBSET Action
  BY SpendAssumption
<1>7. /\ BeyondOf(B, over) <= BeyondOf(Action, over)
      /\ BeyondOf(A, over) <= BeyondOf(Automated, over)
  BY <1>6, BeyondGrows
<1>8. /\ BeyondOf(B, over) \in Nat /\ BeyondOf(Action, over) \in Nat
      /\ BeyondOf(A, over) \in Nat /\ BeyondOf(Automated, over) \in Nat
  BY <1>6, BeyondNat
<1>9. /\ Beyond(Action) = BeyondOf(Action, over) /\ Beyond(Automated) = BeyondOf(Automated, over)
      /\ Beyond(Booked) = BeyondOf(B, over) /\ Beyond(Booked \cap Automated) = BeyondOf(A, over)
  BY <1>3, <1>4, <1>5, BeyondIs
<1>10. Spent <= (IF prior > Cap THEN prior ELSE Cap) + Beyond(Action)
  BY <1>1, <1>2, <1>7, <1>8, <1>9 DEF BookedBeyond
<1>11. AutomationSpent <= AutomationCap + Beyond(Automated)
  BY <1>1, <1>2, <1>7, <1>8, <1>9 DEF BookedBeyond
<1>12. WarnedOrMissed => \/ warned
                         \/ overtaken # {}
                         \/ \E a \in Action : ledger[a] # "none" /\ Cost[a] > Estimate[a]
  BY DEF WarnedOrMissed, Dear, Booked, Call
<1>. QED
  BY <1>1, <1>10, <1>11, <1>12 DEF BookedBeyond, OverspendIsOverlap

\* Nothing is booked at first.
LEMMA NothingIsBooked == ASSUME SpendInit PROVE BookedBeyond
<1>1. prior \in Nat /\ Cap \in Nat /\ AutomationCap \in Nat
  BY SpendAssumption DEF SpendInit
<1>2. Held(Action) = 0 /\ Held(Automated) = 0
  <2>1. \A A \in SUBSET Action : {a \in A : ledger[a] = "held"} = {}
    BY DEF SpendInit
  <2>. QED
    BY <2>1, SumEmpty, SpendAssumption DEF Held
<1>3. Spent = prior /\ AutomationSpent = 0
  BY <1>1, <1>2 DEF Spent, AutomationSpent
<1>4. Booked = {} /\ overtaken = {}
  BY DEF SpendInit, Booked, Call
<1>5. PICK b \in Nat, m \in Nat : b = Beyond(Booked) /\ m = Beyond(Booked \cap Automated)
  BY BeyondIs, BeyondNat DEF Booked, Call
<1>6. Spent <= (IF prior > Cap THEN prior ELSE Cap) + b /\ AutomationSpent <= AutomationCap + m
  BY <1>1, <1>3
<1>7. Spent * 100 >= Cap * 80 => warned
  BY <1>1, <1>3 DEF SpendInit
<1>. QED
  BY <1>4, <1>5, <1>6, <1>7 DEF BookedBeyond, WarnedOrMissed

LEMMA RequestsStay ==
  ASSUME IInv, UNCHANGED <<phase, ledger, hasSid, lost, unreleased>>,
         \A c \in Call : carrier'[c] = "none" <=> carrier[c] = "none"
  PROVE  RequestFollows' /\ LedgerFollowsCarrier'
BY DEF IInv, RequestFollows, LedgerFollowsCarrier

LEMMA CallbacksStay ==
  ASSUME IInv, UNCHANGED <<phase, row, hasSid, carrier, hookVars>>
  PROVE  CarrierReports' /\ RowFollowsCallbacks'
BY DEF IInv, CarrierReports, RowFollowsCallbacks

LEMMA SweepsStay ==
  ASSUME IInv, UNCHANGED sweepVars
  PROVE  OneSweep' /\ StrandedNeedsDeath'
BY DEF IInv, OneSweep, StrandedNeedsDeath

-----------------------------------------------------------------------------
(* placeCall. *)

LEMMA PassGateKeepsInv ==
  ASSUME IInv, NEW c \in Call, PassGate(c)
  PROVE  IInv'
<1>1. /\ phase[c] = "idle" /\ phase' = [phase EXCEPT ![c] = "gated"]
      /\ saw' = [saw EXCEPT ![c] = [all |-> Spent, automated |-> AutomationSpent]]
      /\ UNCHANGED <<active, prior, ledger, warned, overtaken, row, hasSid, played,
                     carrier, hookVars, sweepVars, crashes, lost, unreleased>>
      /\ Spent + Estimate[c] <= Cap
      /\ c \in Automated => AutomationSpent + Estimate[c] <= AutomationCap
  BY DEF PassGate, Goto, checkOutboundAllowed
<1>2. TypeOK /\ SpendTypeOK /\ Spent \in Nat /\ AutomationSpent \in Nat /\ c \in Action
  BY SpentNat DEF IInv, TypeOK, Call
<1>3. saw' \in [Action -> Reading]
  BY <1>1, <1>2 DEF SpendTypeOK, Reading
<1>4. TypeOK'
  BY <1>1, <1>2, <1>3 DEF TypeOK, SpendTypeOK
<1>5. RequestFollows' /\ LedgerFollowsCarrier'
  BY <1>1, <1>2 DEF IInv, TypeOK, RequestFollows, LedgerFollowsCarrier
<1>6. CarrierReports' /\ RowFollowsCallbacks'
  BY <1>1, <1>2 DEF IInv, TypeOK, CarrierReports, RowFollowsCallbacks
<1>7. OneSweep' /\ StrandedNeedsDeath'
  BY <1>1, SweepsStay
<1>8. GateRead' /\ BookedBeyond'
  <2>1. BookedBeyond' /\ WasAllowed(c)'
        /\ \A d \in Action \ {c} : WasAllowed(d) => WasAllowed(d)'
    BY <1>1, <1>2, GateReadsSpend DEF IInv, PassGate
  <2>2. \A d \in Call : phase'[d] = "gated" => d = c \/ phase[d] = "gated"
    BY <1>1, <1>2 DEF TypeOK
  <2>. QED
    BY <2>1, <2>2 DEF IInv, GateRead, Call
<1>. QED
  BY <1>4, <1>5, <1>6, <1>7, <1>8 DEF IInv

LEMMA BookKeepsInv ==
  ASSUME IInv, NEW c \in Call, BookCall(c)
  PROVE  IInv'
<1>1. /\ phase[c] = "gated" /\ recordSpend(c)
      /\ row' = [row EXCEPT ![c] = "queued"]
      /\ phase' = [phase EXCEPT ![c] = "booked"]
      /\ UNCHANGED <<active, prior, hasSid, played, carrier, hookVars,
                     sweepVars, crashes, lost, unreleased>>
  BY DEF BookCall, Goto
<1>2. TypeOK /\ SpendTypeOK /\ c \in Action
  BY DEF IInv, TypeOK, Call
<1>3. GateRead' /\ BookedBeyond'
  <2>1. WasAllowed(c) /\ ledger[c] = "none"
    BY <1>1 DEF IInv, GateRead, RequestFollows
  <2>2. BookedBeyond' /\ \A d \in Action \ {c} : WasAllowed(d) => WasAllowed(d)'
    BY <1>1, <1>2, <2>1, BookingIsBounded DEF IInv
  <2>3. \A d \in Call : phase'[d] = "gated" => d # c /\ phase[d] = "gated"
    BY <1>1, <1>2 DEF TypeOK
  <2>. QED
    BY <2>2, <2>3 DEF IInv, GateRead, Call
<1>4. ledger' = [ledger EXCEPT ![c] = "held"]
  BY <1>1 DEF recordSpend
<1>5. TypeOK'
  <2>1. saw' \in [Action -> Reading] /\ overtaken' \subseteq Action /\ warned' \in BOOLEAN
    BY <1>1, <1>2 DEF recordSpend, SpendTypeOK, Reading, Unread
  <2>2. ledger' \in [Action -> {"none", "held", "released"}]
    BY <1>2, <1>4 DEF SpendTypeOK
  <2>3. row' \in [Call -> CarrierStatus \cup {"none", "failed"}]
    BY <1>1, <1>2 DEF TypeOK, CarrierStatus
  <2>. QED
    BY <1>1, <1>2, <2>1, <2>2, <2>3 DEF TypeOK, SpendTypeOK
<1>6. RequestFollows' /\ LedgerFollowsCarrier'
  BY <1>1, <1>2, <1>4 DEF IInv, TypeOK, SpendTypeOK, RequestFollows, LedgerFollowsCarrier, Call
<1>7. CarrierReports' /\ RowFollowsCallbacks'
  BY <1>1, <1>2 DEF IInv, TypeOK, CarrierReports, RowFollowsCallbacks, RequestFollows
<1>8. OneSweep' /\ StrandedNeedsDeath'
  BY <1>1, SweepsStay
<1>. QED
  BY <1>3, <1>5, <1>6, <1>7, <1>8 DEF IInv

LEMMA DialKeepsInv ==
  ASSUME IInv, NEW c \in Call, Dial(c)
  PROVE  IInv'
<1>1. /\ phase[c] = "booked"
      /\ \/ /\ carrier' = [carrier EXCEPT ![c] = "queued"]
            /\ phase' = [phase EXCEPT ![c] = "accepted"] /\ lost' = lost
         \/ /\ carrier' = [carrier EXCEPT ![c] = "queued"]
            /\ phase' = [phase EXCEPT ![c] = "refused"] /\ lost' = lost \cup {c}
         \/ /\ phase' = [phase EXCEPT ![c] = "refused"]
            /\ UNCHANGED <<carrier, lost>>
      /\ UNCHANGED <<spendVars, row, hasSid, played, hookVars, sweepVars, crashes, unreleased>>
  BY DEF Dial, Goto
<1>2. TypeOK /\ carrier[c] = "none" /\ ledger[c] = "held" /\ ~hasSid[c]
  BY <1>1 DEF IInv, RequestFollows
<1>3. TypeOK'
  BY <1>1, <1>2 DEF TypeOK, SpendTypeOK, CarrierStatus
<1>4. GateRead' /\ BookedBeyond'
  <2>1. \A d \in Call : phase'[d] = "gated" => phase[d] = "gated"
    BY <1>1, <1>2 DEF TypeOK
  <2>. QED
    BY <1>1, <2>1, MoneyStays
<1>5. /\ phase'[c] \in {"accepted", "refused"} /\ carrier'[c] \in {"none", "queued"}
      /\ lost \subseteq lost' /\ (c \in lost' /\ c \notin lost => phase'[c] = "refused")
      /\ phase'[c] = "accepted" => carrier'[c] = "queued" /\ lost' = lost
      /\ phase'[c] = "refused" /\ carrier'[c] # "none" => c \in lost'
      /\ \A d \in Call \ {c} : phase'[d] = phase[d] /\ carrier'[d] = carrier[d]
                                /\ (d \in lost' <=> d \in lost)
  BY <1>1, <1>2 DEF TypeOK
<1>6. c \notin lost' \/ phase'[c] = "refused" \/ c \in lost
  BY <1>5
<1>7. RequestFollows' /\ LedgerFollowsCarrier'
  <2>1. c \notin lost
    BY <1>1 DEF IInv, RequestFollows
  <2>. QED
    BY <1>1, <1>2, <1>5, <2>1 DEF IInv, RequestFollows, LedgerFollowsCarrier
<1>8. CarrierReports' /\ RowFollowsCallbacks'
  BY <1>1, <1>2, <1>5 DEF IInv, CarrierReports, RowFollowsCallbacks
<1>9. OneSweep' /\ StrandedNeedsDeath'
  BY <1>1, SweepsStay
<1>. QED
  BY <1>3, <1>4, <1>7, <1>8, <1>9 DEF IInv

LEMMA AttachKeepsInv ==
  ASSUME IInv, NEW c \in Call, AttachSid(c)
  PROVE  IInv'
<1>1. /\ phase[c] = "accepted" /\ phase' = [phase EXCEPT ![c] = "done"]
      /\ row' = [row EXCEPT ![c] = "queued"] /\ hasSid' = [hasSid EXCEPT ![c] = TRUE]
      /\ UNCHANGED <<spendVars, played, carrier, hookVars, sweepVars, crashes, lost, unreleased>>
  BY DEF AttachSid, Goto
<1>2. TypeOK
  BY DEF IInv
<1>3. TypeOK'
  BY <1>1, <1>2 DEF TypeOK, SpendTypeOK, CarrierStatus
<1>4. GateRead' /\ BookedBeyond'
  BY <1>1, <1>2, MoneyStays DEF TypeOK
<1>5. RequestFollows' /\ LedgerFollowsCarrier'
  BY <1>1, <1>2 DEF TypeOK, IInv, RequestFollows, LedgerFollowsCarrier
<1>6. CarrierReports' /\ RowFollowsCallbacks'
  BY <1>1, <1>2 DEF TypeOK, IInv, CarrierReports, RowFollowsCallbacks
<1>7. OneSweep' /\ StrandedNeedsDeath'
  BY <1>1, SweepsStay
<1>. QED
  BY <1>3, <1>4, <1>5, <1>6, <1>7 DEF IInv

LEMMA ReleaseKeepsInv ==
  ASSUME IInv, NEW c \in Call, releaseUnplacedCall(c)
  PROVE  IInv'
<1>1. /\ phase[c] = "refused" /\ phase' = [phase EXCEPT ![c] = "done"]
      /\ \/ /\ row' = [row EXCEPT ![c] = "failed"] /\ unreleased' = unreleased
            /\ ledger' = [ledger EXCEPT ![c] = "released"]
         \/ unreleased' = unreleased \cup {c} /\ UNCHANGED <<row, ledger>>
      /\ UNCHANGED <<active, prior, warned, saw, overtaken, hasSid, played,
                     carrier, hookVars, sweepVars, crashes, lost>>
  BY DEF releaseUnplacedCall, Goto
<1>2. TypeOK /\ ledger[c] = "held" /\ ~hasSid[c] /\ (carrier[c] # "none" => c \in lost)
  BY <1>1 DEF IInv, RequestFollows
<1>3. TypeOK'
  BY <1>1, <1>2 DEF TypeOK, SpendTypeOK, CarrierStatus, Call
<1>4. GateRead' /\ BookedBeyond'
  <2>1. \A d \in Call : phase'[d] = "gated" => phase[d] = "gated"
    BY <1>1, <1>2 DEF TypeOK
  <2>2. CASE UNCHANGED ledger
    BY <1>1, <2>1, <2>2, MoneyStays
  <2>3. CASE ledger' = [ledger EXCEPT ![c] = "released"]
    <3>1. Booked' = Booked /\ c \in Action
      BY <1>2, <2>3 DEF Booked, TypeOK, SpendTypeOK, Call
    <3>2. WarnedOrMissed' = WarnedOrMissed
      BY <1>1, <3>1 DEF WarnedOrMissed, Dear
    <3>3. GateRead'
      BY <1>1, <2>1, <3>2 DEF IInv, GateRead, WasAllowed
    <3>4. Held(Action)' <= Held(Action) /\ Held(Automated)' <= Held(Automated)
      BY <1>2, <2>3, <3>1, HeldDrops, SpendAssumption DEF TypeOK, SpendTypeOK
    <3>5. /\ Held(Action) \in Nat /\ Held(Automated) \in Nat
          /\ Held(Action)' \in Nat /\ Held(Automated)' \in Nat /\ prior \in Nat
      BY <1>2, HeldNat, SpendAssumption DEF TypeOK, SpendTypeOK
    <3>6. Spent' <= Spent /\ AutomationSpent' <= AutomationSpent
          /\ Spent \in Nat /\ Spent' \in Nat
          /\ AutomationSpent \in Nat /\ AutomationSpent' \in Nat
      BY <1>1, <3>4, <3>5 DEF Spent, AutomationSpent
    <3>7. Beyond(Booked)' = Beyond(Booked) /\ Beyond(Booked \cap Automated)' = Beyond(Booked \cap Automated)
      BY <1>1, <3>1 DEF Beyond
    <3>8. PICK b \in Nat, m \in Nat : b = Beyond(Booked) /\ m = Beyond(Booked \cap Automated)
      BY BeyondIs, BeyondNat DEF Booked, Call
    <3>9. /\ overtaken \subseteq Booked /\ Spent <= (IF prior > Cap THEN prior ELSE Cap) + b
          /\ AutomationSpent <= AutomationCap + m
          /\ Spent * 100 >= Cap * 80 => WarnedOrMissed
      BY <3>8 DEF IInv, BookedBeyond
    <3>10. Spent' <= (IF prior > Cap THEN prior ELSE Cap) + b /\ AutomationSpent' <= AutomationCap + m
      BY <3>5, <3>6, <3>8, <3>9, SpendAssumption
    <3>11. Spent' * 100 >= Cap * 80 => WarnedOrMissed'
      <4>1. Spent' * 100 >= Cap * 80 => Spent * 100 >= Cap * 80
        <5>1. Cap \in Nat /\ Spent \in Nat /\ Spent' \in Nat /\ Spent' <= Spent
          BY <3>6, Types
        <5>2. \A x, y, z \in Nat : x <= y /\ x * 100 >= z * 80 => y * 100 >= z * 80
          OBVIOUS
        <5>. QED
          BY <5>1, <5>2
      <4>. QED
        BY <3>2, <3>9, <4>1
    <3>12. BookedBeyond'
      BY <1>1, <3>1, <3>7, <3>8, <3>9, <3>10, <3>11 DEF BookedBeyond
    <3>. QED
      BY <3>3, <3>12
  <2>. QED
    BY <1>1, <2>2, <2>3
<1>5. RequestFollows' /\ LedgerFollowsCarrier'
  BY <1>1, <1>2 DEF IInv, TypeOK, SpendTypeOK, Call, RequestFollows, LedgerFollowsCarrier
<1>6. CarrierReports' /\ RowFollowsCallbacks'
  BY <1>1, <1>2 DEF IInv, TypeOK, CarrierReports, RowFollowsCallbacks
<1>7. OneSweep' /\ StrandedNeedsDeath'
  BY <1>1, SweepsStay
<1>. QED
  BY <1>3, <1>4, <1>5, <1>6, <1>7 DEF IInv

LEMMA RequestDeathKeepsInv ==
  ASSUME IInv, NEW c \in Call, RequestDies(c)
  PROVE  IInv'
<1>1. /\ phase[c] \in {"gated", "booked", "accepted", "refused"}
      /\ phase' = [phase EXCEPT ![c] = "dead"]
      /\ crashes < CrashBound /\ crashes' = crashes + 1
      /\ UNCHANGED <<spendVars, row, hasSid, played, carrier, hookVars,
                     sweepVars, lost, unreleased>>
  BY DEF RequestDies, Goto
<1>2. TypeOK /\ ~hasSid[c]
  BY <1>1 DEF IInv, RequestFollows
<1>3. TypeOK'
  BY <1>1, <1>2, OutboundAssumption DEF TypeOK, SpendTypeOK
<1>4. GateRead' /\ BookedBeyond'
  BY <1>1, <1>2, MoneyStays DEF TypeOK
<1>5. RequestFollows' /\ LedgerFollowsCarrier'
  BY <1>1, <1>2 DEF IInv, TypeOK, RequestFollows, LedgerFollowsCarrier
<1>6. CarrierReports' /\ RowFollowsCallbacks'
  BY <1>1, <1>2 DEF IInv, TypeOK, CarrierReports, RowFollowsCallbacks
<1>7. OneSweep' /\ StrandedNeedsDeath'
  BY <1>1, SweepsStay
<1>. QED
  BY <1>3, <1>4, <1>5, <1>6, <1>7 DEF IInv

LEMMA FreezeKeepsInv ==
  ASSUME IInv, Freeze
  PROVE  IInv'
<1>1. /\ active' = ~active
      /\ UNCHANGED <<prior, ledger, warned, saw, overtaken, requestVars, played,
                     carrier, hookVars, sweepVars, crashes, lost, unreleased>>
  BY DEF Freeze, syncSubaccountStatus
<1>2. TypeOK'
  BY <1>1 DEF IInv, TypeOK, SpendTypeOK
<1>3. GateRead' /\ BookedBeyond'
  BY <1>1, MoneyStays
<1>4. RequestFollows' /\ LedgerFollowsCarrier'
  BY <1>1, RequestsStay
<1>5. CarrierReports' /\ RowFollowsCallbacks'
  BY <1>1, CallbacksStay
<1>6. OneSweep' /\ StrandedNeedsDeath'
  BY <1>1, SweepsStay
<1>. QED
  BY <1>2, <1>3, <1>4, <1>5, <1>6 DEF IInv

-----------------------------------------------------------------------------
(* The carrier and its webhooks. *)

LEMMA ProgressKeepsInv ==
  ASSUME IInv, NEW c \in Call, Progress(c)
  PROVE  IInv'
<1>1. PICK s \in CarrierStatus :
        /\ <<carrier[c], s>> \in Moves
        /\ carrier' = [carrier EXCEPT ![c] = s]
        /\ sent' = [sent EXCEPT ![c] = @ \cup {s}]
  BY DEF Progress
<1>2. UNCHANGED <<spendVars, requestVars, played, applied, nonces, astray,
                  sweepVars, crashes, lost, unreleased>>
  BY DEF Progress
<1>3. TypeOK
  BY DEF IInv
<1>4. TypeOK'
  BY <1>1, <1>2, <1>3 DEF TypeOK, SpendTypeOK
<1>5. /\ Rank(carrier[c]) < Rank(s) /\ s \notin {"none", "queued"} /\ carrier[c] # "none"
      /\ carrier[c] \in CarrierStatus
  BY <1>1 DEF Moves, Rank, Terminal, CarrierStatus
<1>6. \A r \in CarrierStatus : Rank(r) \in Nat
  BY DEF CarrierStatus, Rank, Terminal
<1>7. GateRead' /\ BookedBeyond'
  BY <1>2, MoneyStays
<1>8. RequestFollows' /\ LedgerFollowsCarrier'
  BY <1>1, <1>2, <1>3, <1>5, RequestsStay DEF TypeOK
<1>9. CarrierReports'
  <2> SUFFICES ASSUME NEW d \in Call
               PROVE  /\ nonces'[d] \subseteq applied'[d] /\ applied'[d] \subseteq sent'[d]
                      /\ sent'[d] = {} <=> carrier'[d] \in {"none", "queued"}
                      /\ sent'[d] # {} => carrier'[d] \in sent'[d]
                      /\ \A r \in sent'[d] : r # carrier'[d] => Rank(r) < Rank(carrier'[d])
    BY DEF CarrierReports
  <2>1. CASE d # c
    BY <1>1, <1>2, <1>3, <2>1 DEF TypeOK, IInv, CarrierReports
  <2>2. CASE d = c
    <3>1. carrier'[d] = s /\ sent'[d] = sent[c] \cup {s} /\ sent[c] \subseteq CarrierStatus
      BY <1>1, <1>3, <2>2 DEF TypeOK
    <3>2. \A r \in sent[c] : r = carrier[c] \/ Rank(r) < Rank(carrier[c])
      BY <2>2 DEF IInv, CarrierReports
    <3>3. \A r \in sent[c] : Rank(r) < Rank(s)
      BY <1>5, <1>6, <3>1, <3>2
    <3>4. nonces'[d] \subseteq applied'[d] /\ applied'[d] \subseteq sent[c]
      BY <1>2, <2>2 DEF IInv, CarrierReports
    <3>. QED
      BY <1>5, <3>1, <3>3, <3>4
  <2>. QED
    BY <2>1, <2>2
<1>10. RowFollowsCallbacks'
  BY <1>2 DEF IInv, RowFollowsCallbacks
<1>11. OneSweep' /\ StrandedNeedsDeath'
  BY <1>2, SweepsStay
<1>. QED
  BY <1>4, <1>7, <1>8, <1>9, <1>10, <1>11 DEF IInv

LEMMA StatusKeepsInv ==
  ASSUME IInv, NEW c \in Call, NEW s \in CarrierStatus, applyCallStatus(c, s)
  PROVE  IInv'
<1>1. /\ s \in sent[c]
      /\ row' = IF hasSid[c] THEN [row EXCEPT ![c] = s] ELSE row
      /\ applied' = [applied EXCEPT ![c] = @ \cup {s}]
      /\ astray' = IF phase[c] # "done" \/ Overtaken(c, s) THEN astray \cup {c} ELSE astray
      /\ UNCHANGED <<spendVars, phase, hasSid, played, carrier, sent, nonces,
                     sweepVars, crashes, lost, unreleased>>
  BY DEF applyCallStatus
<1>2. TypeOK
  BY DEF IInv
<1>3. TypeOK'
  <2>1. row' \in [Call -> CarrierStatus \cup {"none", "failed"}]
    BY <1>1, <1>2 DEF TypeOK
  <2>2. applied' \in [Call -> SUBSET CarrierStatus] /\ astray' \subseteq Call
    BY <1>1, <1>2 DEF TypeOK
  <2>. QED
    BY <1>1, <1>2, <2>1, <2>2 DEF TypeOK, SpendTypeOK
<1>4. GateRead' /\ BookedBeyond'
  BY <1>1, MoneyStays
<1>5. RequestFollows' /\ LedgerFollowsCarrier'
  BY <1>1, RequestsStay
<1>6. CarrierReports'
  BY <1>1, <1>2 DEF TypeOK, IInv, CarrierReports
<1>7. RowFollowsCallbacks'
  <2> SUFFICES ASSUME NEW d \in Call, d \notin astray'
               PROVE  /\ phase'[d] # "done" => applied'[d] = {}
                      /\ hasSid'[d] /\ applied'[d] = {} => row'[d] = "queued"
                      /\ hasSid'[d] /\ applied'[d] # {} => row'[d] \in applied'[d]
                      /\ hasSid'[d] => \A r \in applied'[d] : Rank(r) <= Rank(row'[d])
    BY DEF RowFollowsCallbacks
  <2>1. CASE d # c
    <3>1. row'[d] = row[d] /\ applied'[d] = applied[d] /\ d \notin astray
      BY <1>1, <1>2, <2>1 DEF TypeOK
    <3>. QED
      BY <1>1, <3>1 DEF IInv, RowFollowsCallbacks
  <2>2. CASE d = c
    <3>1. /\ phase[c] = "done" /\ ~Overtaken(c, s)
          /\ applied'[d] = applied[c] \cup {s} /\ applied[c] \subseteq CarrierStatus
          /\ hasSid[c] => row'[d] = s
      BY <1>1, <1>2, <2>2 DEF TypeOK
    <3>2. \A r \in CarrierStatus : Rank(r) \in Nat
      BY DEF CarrierStatus, Rank, Terminal
    <3>3. \A r \in applied[c] : Rank(r) <= Rank(s)
      BY <3>1, <3>2 DEF Overtaken
    <3>. QED
      BY <1>1, <2>2, <3>1, <3>2, <3>3
  <2>. QED
    BY <2>1, <2>2
<1>8. OneSweep' /\ StrandedNeedsDeath'
  BY <1>1, SweepsStay
<1>. QED
  BY <1>3, <1>4, <1>5, <1>6, <1>7, <1>8 DEF IInv

LEMMA NonceKeepsInv ==
  ASSUME IInv, NEW c \in Call, NEW s \in CarrierStatus, commitWebhookNonce(c, s)
  PROVE  IInv'
<1>1. /\ s \in applied[c] /\ nonces' = [nonces EXCEPT ![c] = @ \cup {s}]
      /\ UNCHANGED <<spendVars, requestVars, played, carrier, sent, applied,
                     astray, sweepVars, crashes, lost, unreleased>>
  BY DEF commitWebhookNonce
<1>2. TypeOK
  BY DEF IInv
<1>3. TypeOK'
  BY <1>1, <1>2 DEF TypeOK, SpendTypeOK
<1>4. GateRead' /\ BookedBeyond'
  BY <1>1, MoneyStays
<1>5. RequestFollows' /\ LedgerFollowsCarrier'
  BY <1>1, RequestsStay
<1>6. CarrierReports'
  BY <1>1, <1>2 DEF TypeOK, IInv, CarrierReports
<1>7. RowFollowsCallbacks'
  BY <1>1 DEF IInv, RowFollowsCallbacks
<1>8. OneSweep' /\ StrandedNeedsDeath'
  BY <1>1, SweepsStay
<1>. QED
  BY <1>3, <1>4, <1>5, <1>6, <1>7, <1>8 DEF IInv

LEMMA AnnouncementKeepsInv ==
  ASSUME IInv, NEW c \in MustAnnounce, markAnnouncementPlayed(c)
  PROVE  IInv'
<1>1. /\ played' = played \cup {c}
      /\ UNCHANGED <<spendVars, requestVars, carrier, hookVars, sweepVars, crashes,
                     lost, unreleased>>
  BY DEF markAnnouncementPlayed
<1>2. TypeOK'
  BY <1>1 DEF IInv, TypeOK, SpendTypeOK
<1>3. GateRead' /\ BookedBeyond'
  BY <1>1, MoneyStays
<1>4. RequestFollows' /\ LedgerFollowsCarrier'
  BY <1>1, RequestsStay
<1>5. CarrierReports' /\ RowFollowsCallbacks'
  BY <1>1, CallbacksStay
<1>6. OneSweep' /\ StrandedNeedsDeath'
  BY <1>1, SweepsStay
<1>. QED
  BY <1>2, <1>3, <1>4, <1>5, <1>6 DEF IInv

\* The constraint on `recordings` keeps an announcement from being late.
LEMMA RegisterKeepsInv ==
  ASSUME IInv, NEW c \in Recorded, registerRecording(c)
  PROVE  IInv'
<1>1. /\ recording[c] = "none" /\ recording' = [recording EXCEPT ![c] = "pending"]
      /\ UNCHANGED <<spendVars, requestVars, played, carrier, hookVars, attempts,
                     pass, fetched, crashes, lost, unreleased, shared, dropped>>
  BY DEF registerRecording
<1>2. TypeOK /\ attempts[c] = 0 /\ MAX_ATTEMPTS # 0
  BY <1>1, CallAssumption DEF IInv, OneSweep
<1>3. TypeOK'
  BY <1>1, <1>2 DEF TypeOK, SpendTypeOK
<1>4. GateRead' /\ BookedBeyond'
  BY <1>1, MoneyStays
<1>5. RequestFollows' /\ LedgerFollowsCarrier'
  BY <1>1, RequestsStay
<1>6. CarrierReports' /\ RowFollowsCallbacks'
  BY <1>1, CallbacksStay
<1>7. OneSweep' /\ StrandedNeedsDeath'
  BY <1>1, <1>2 DEF TypeOK, IInv, OneSweep, StrandedNeedsDeath
<1>. QED
  BY <1>3, <1>4, <1>5, <1>6, <1>7 DEF IInv

-----------------------------------------------------------------------------
(* ingestPendingRecordings. *)

LEMMA ClaimKeepsInv ==
  ASSUME IInv, NEW w \in Sweeper, claimPending(w)
  PROVE  IInv'
<1>1. /\ pass[w] = {}
      /\ attempts' = [c \in Recorded |-> IF c \in Candidates THEN attempts[c] + 1
                                                           ELSE attempts[c]]
      /\ pass' = [pass EXCEPT ![w] = Candidates]
      /\ shared' = shared \cup {c \in Candidates :
                                   \E v \in Sweeper \ {w} : c \in pass[v]}
      /\ UNCHANGED <<spendVars, requestVars, played, carrier, hookVars,
                     recording, fetched, crashes, lost, unreleased, dropped>>
  BY DEF claimPending
<1>2. TypeOK
  BY DEF IInv
<1>3. \A c \in Candidates : c \in Recorded /\ recording[c] = "pending" /\ attempts[c] < MAX_ATTEMPTS
  BY DEF Candidates, Unclaimed
<1>4. TypeOK'
  <2>1. attempts' \in [Recorded -> 0..MAX_ATTEMPTS]
    BY <1>1, <1>2, <1>3, CallAssumption DEF TypeOK
  <2>2. pass' \in [Sweeper -> SUBSET Recorded] /\ shared' \subseteq Recorded
    BY <1>1, <1>2, <1>3 DEF TypeOK
  <2>. QED
    BY <1>1, <1>2, <2>1, <2>2 DEF TypeOK, SpendTypeOK
<1>5. GateRead' /\ BookedBeyond'
  BY <1>1, MoneyStays
<1>6. RequestFollows' /\ LedgerFollowsCarrier'
  BY <1>1, RequestsStay
<1>7. CarrierReports' /\ RowFollowsCallbacks'
  BY <1>1, CallbacksStay
<1>8. OneSweep'
  <2> SUFFICES ASSUME NEW c \in Recorded
               PROVE  /\ recording'[c] = "none" => attempts'[c] = 0
                      /\ c \notin shared' =>
                            /\ \A u, v \in Sweeper : c \in pass'[u] /\ c \in pass'[v] => u = v
                            /\ recording'[c] = "stored" => \A v \in Sweeper : c \notin pass'[v]
    BY DEF OneSweep
  <2>1. recording'[c] = "none" => attempts'[c] = 0
    BY <1>1, <1>2, <1>3 DEF TypeOK, IInv, OneSweep
  <2>2. ASSUME c \notin shared', NEW u \in Sweeper, NEW v \in Sweeper,
               c \in pass'[u], c \in pass'[v]
        PROVE  u = v
    BY <1>1, <1>2, <2>2 DEF TypeOK, IInv, OneSweep
  <2>3. ASSUME c \notin shared', recording'[c] = "stored", NEW v \in Sweeper
        PROVE  c \notin pass'[v]
    BY <1>1, <1>2, <1>3, <2>3 DEF TypeOK, IInv, OneSweep
  <2>. QED
    BY <2>1, <2>2, <2>3
<1>9. StrandedNeedsDeath'
  <2> SUFFICES ASSUME NEW c \in Recorded, c \notin dropped, recording[c] = "pending",
                      attempts'[c] = MAX_ATTEMPTS
               PROVE  \E v \in Sweeper : c \in pass'[v]
    BY <1>1 DEF StrandedNeedsDeath
  <2>1. CASE c \in Candidates
    BY <1>1, <1>2, <2>1 DEF TypeOK
  <2>2. CASE c \notin Candidates
    <3>1. PICK v \in Sweeper : c \in pass[v]
      BY <1>1, <2>2 DEF IInv, StrandedNeedsDeath
    <3>. QED
      BY <1>1, <1>2, <3>1 DEF TypeOK
  <2>. QED
    BY <2>1, <2>2
<1>. QED
  BY <1>4, <1>5, <1>6, <1>7, <1>8, <1>9 DEF IInv

LEMMA FetchKeepsInv ==
  ASSUME IInv, NEW w \in Sweeper, FetchAudio(w)
  PROVE  IInv'
<1>1. /\ \E result \in {"stored", "failed"} : fetched' = [fetched EXCEPT ![w] = result]
      /\ UNCHANGED <<spendVars, requestVars, played, carrier, hookVars,
                     recording, attempts, pass, crashes, lost, unreleased,
                     shared, dropped>>
  BY DEF FetchAudio
<1>2. TypeOK'
  BY <1>1 DEF IInv, TypeOK, SpendTypeOK
<1>3. GateRead' /\ BookedBeyond'
  BY <1>1, MoneyStays
<1>4. RequestFollows' /\ LedgerFollowsCarrier'
  BY <1>1, RequestsStay
<1>5. CarrierReports' /\ RowFollowsCallbacks'
  BY <1>1, CallbacksStay
<1>6. OneSweep' /\ StrandedNeedsDeath'
  BY <1>1 DEF IInv, OneSweep, StrandedNeedsDeath
<1>. QED
  BY <1>2, <1>3, <1>4, <1>5, <1>6 DEF IInv

\* What the fetch of one recording leaves in its row.
LEMMA MarkLeaves ==
  ASSUME TypeOK, NEW w \in Sweeper, markRecording(w)
  PROVE  \E c \in pass[w], r \in {"none", "pending", "stored", "failed"} :
            /\ r \in {"stored", "failed", recording[c]}
            /\ r = recording[c] => attempts[c] < MAX_ATTEMPTS \/ r \in {"stored", "failed"}
            /\ recording' = [recording EXCEPT ![c] = r]
            /\ pass' = [pass EXCEPT ![w] = @ \ {c}]
<1>1. PICK c \in pass[w] :
         /\ recording' = [recording EXCEPT ![c] = Marked(c, fetched[w])]
         /\ pass' = [pass EXCEPT ![w] = @ \ {c}]
  BY DEF markRecording
<1>2. /\ c \in Recorded /\ fetched[w] \in {"stored", "failed"}
      /\ attempts[c] \in Nat /\ MAX_ATTEMPTS \in Nat
      /\ recording[c] \in {"none", "pending", "stored", "failed"}
  BY CallAssumption DEF TypeOK, markRecording
<1>3. Marked(c, fetched[w]) =
        IF fetched[w] = "stored" THEN "stored"
        ELSE IF attempts[c] >= MAX_ATTEMPTS THEN "failed" ELSE recording[c]
  BY <1>2 DEF Marked
<1>4. PICK r : r = Marked(c, fetched[w])
  OBVIOUS
<1>5. /\ r \in {"none", "pending", "stored", "failed"} /\ r \in {"stored", "failed", recording[c]}
      /\ r = recording[c] => attempts[c] < MAX_ATTEMPTS \/ r \in {"stored", "failed"}
  BY <1>2, <1>3, <1>4
<1>. QED
  BY <1>1, <1>4, <1>5

LEMMA MarkKeepsInv ==
  ASSUME IInv, NEW w \in Sweeper, markRecording(w)
  PROVE  IInv'
<1>1. TypeOK
  BY DEF IInv
<1>2. PICK c \in pass[w], r \in {"none", "pending", "stored", "failed"} :
        /\ r \in {"stored", "failed", recording[c]}
        /\ r = recording[c] => attempts[c] < MAX_ATTEMPTS \/ r \in {"stored", "failed"}
        /\ recording' = [recording EXCEPT ![c] = r]
        /\ pass' = [pass EXCEPT ![w] = @ \ {c}]
  BY <1>1, MarkLeaves
<1>3. /\ fetched' = [fetched EXCEPT ![w] = "none"]
      /\ UNCHANGED <<spendVars, requestVars, played, carrier, hookVars, attempts,
                     crashes, lost, unreleased, shared, dropped>>
  BY DEF markRecording
<1>4. TypeOK' /\ c \in Recorded
  BY <1>1, <1>2, <1>3 DEF TypeOK, SpendTypeOK
<1>5. GateRead' /\ BookedBeyond'
  BY <1>3, MoneyStays
<1>6. RequestFollows' /\ LedgerFollowsCarrier'
  BY <1>3, RequestsStay
<1>7. CarrierReports' /\ RowFollowsCallbacks'
  BY <1>3, CallbacksStay
<1>8. \A v \in Sweeper : pass'[v] = (IF v = w THEN pass[v] \ {c} ELSE pass[v])
  BY <1>1, <1>2 DEF TypeOK
<1>9. OneSweep'
  <2> SUFFICES ASSUME NEW d \in Recorded
               PROVE  /\ recording'[d] = "none" => attempts[d] = 0
                      /\ d \notin shared =>
                            /\ \A u, v \in Sweeper : d \in pass'[u] /\ d \in pass'[v] => u = v
                            /\ recording'[d] = "stored" => \A v \in Sweeper : d \notin pass'[v]
    BY <1>3 DEF OneSweep
  <2>1. /\ recording[d] = "none" => attempts[d] = 0
        /\ d \notin shared =>
              /\ \A u, v \in Sweeper : d \in pass[u] /\ d \in pass[v] => u = v
              /\ recording[d] = "stored" => \A v \in Sweeper : d \notin pass[v]
    BY DEF IInv, OneSweep
  <2>2. recording'[d] = "none" => recording[d] = "none"
    BY <1>1, <1>2, <1>4 DEF TypeOK
  <2>3. CASE d = c
    BY <1>2, <1>8, <2>1, <2>2, <2>3
  <2>4. CASE d # c
    <3>1. recording'[d] = recording[d] /\ \A v \in Sweeper : d \in pass'[v] <=> d \in pass[v]
      BY <1>1, <1>2, <1>8, <2>4 DEF TypeOK
    <3>. QED
      BY <2>1, <3>1
  <2>. QED
    BY <2>3, <2>4
<1>10. StrandedNeedsDeath'
  <2> SUFFICES ASSUME NEW d \in Recorded, d \notin dropped, recording'[d] = "pending",
                      attempts[d] = MAX_ATTEMPTS
               PROVE  \E v \in Sweeper : d \in pass'[v]
    BY <1>3 DEF StrandedNeedsDeath
  <2>1. d # c
    BY <1>1, <1>2, <1>4, CallAssumption DEF TypeOK
  <2>2. recording[d] = "pending"
    BY <1>1, <1>2, <2>1 DEF TypeOK
  <2>3. PICK v \in Sweeper : d \in pass[v]
    BY <2>2 DEF IInv, StrandedNeedsDeath
  <2>. QED
    BY <1>8, <2>1, <2>3
<1>. QED
  BY <1>4, <1>5, <1>6, <1>7, <1>9, <1>10 DEF IInv

LEMMA SweeperDeathKeepsInv ==
  ASSUME IInv, NEW w \in Sweeper, SweeperDies(w)
  PROVE  IInv'
<1>1. /\ crashes < CrashBound /\ crashes' = crashes + 1
      /\ dropped' = dropped \cup pass[w]
      /\ pass' = [pass EXCEPT ![w] = {}]
      /\ fetched' = [fetched EXCEPT ![w] = "none"]
      /\ UNCHANGED <<spendVars, requestVars, played, carrier, hookVars,
                     recording, attempts, lost, unreleased, shared>>
  BY DEF SweeperDies
<1>2. TypeOK
  BY DEF IInv
<1>3. TypeOK'
  <2>1. crashes' \in 0..CrashBound
    BY <1>1, <1>2, OutboundAssumption DEF TypeOK
  <2>2. pass' \in [Sweeper -> SUBSET Recorded] /\ dropped' \subseteq Recorded
        /\ fetched' \in [Sweeper -> {"none", "stored", "failed"}]
    BY <1>1, <1>2 DEF TypeOK
  <2>. QED
    BY <1>1, <1>2, <2>1, <2>2 DEF TypeOK, SpendTypeOK
<1>4. GateRead' /\ BookedBeyond'
  BY <1>1, MoneyStays
<1>5. RequestFollows' /\ LedgerFollowsCarrier'
  BY <1>1, RequestsStay
<1>6. CarrierReports' /\ RowFollowsCallbacks'
  BY <1>1, CallbacksStay
<1>7. OneSweep'
  BY <1>1, <1>2 DEF TypeOK, IInv, OneSweep
<1>8. StrandedNeedsDeath'
  BY <1>1, <1>2 DEF TypeOK, IInv, StrandedNeedsDeath
<1>. QED
  BY <1>3, <1>4, <1>5, <1>6, <1>7, <1>8 DEF IInv

-----------------------------------------------------------------------------
(* The invariant holds. *)

LEMMA InitInv == Init => IInv
<1> SUFFICES ASSUME Init PROVE IInv
  OBVIOUS
<1>1. SpendInit /\ prior \in Nat /\ Cap \in Nat /\ AutomationCap \in Nat
  BY SpendAssumption DEF Init, SpendInit
<1>2. TypeOK
  <2>1. SpendTypeOK
    BY <1>1 DEF SpendInit, SpendTypeOK, Reading, Unread
  <2>. QED
    BY <2>1, CallAssumption, OutboundAssumption DEF Init, TypeOK
<1>3. RequestFollows /\ LedgerFollowsCarrier
  BY DEF Init, SpendInit, RequestFollows, LedgerFollowsCarrier, Call
<1>4. CarrierReports /\ RowFollowsCallbacks
  BY DEF Init, CarrierReports, RowFollowsCallbacks
<1>5. OneSweep /\ StrandedNeedsDeath
  BY CallAssumption DEF Init, OneSweep, StrandedNeedsDeath
<1>6. GateRead
  BY DEF Init, GateRead
<1>7. BookedBeyond
  BY <1>1, NothingIsBooked
<1>. QED
  BY <1>2, <1>3, <1>4, <1>5, <1>6, <1>7 DEF IInv

LEMMA StutterKeepsInv == ASSUME IInv, UNCHANGED vars PROVE IInv'
<1>1. TypeOK'
  BY DEF IInv, TypeOK, SpendTypeOK
<1>2. GateRead' /\ BookedBeyond'
  BY MoneyStays
<1>3. RequestFollows' /\ LedgerFollowsCarrier'
  BY RequestsStay
<1>4. CarrierReports' /\ RowFollowsCallbacks'
  BY CallbacksStay
<1>5. OneSweep' /\ StrandedNeedsDeath'
  BY SweepsStay
<1>. QED
  BY <1>1, <1>2, <1>3, <1>4, <1>5 DEF IInv

LEMMA NextKeepsInv == IInv /\ [Next]_vars => IInv'
<1> SUFFICES ASSUME IInv, [Next]_vars PROVE IInv'
  OBVIOUS
<1>1. CASE Freeze
  BY <1>1, FreezeKeepsInv
<1>2. CASE \E c \in Call : PlaceStep(c)
  BY <1>2, PassGateKeepsInv, BookKeepsInv, DialKeepsInv, AttachKeepsInv, ReleaseKeepsInv
     DEF PlaceStep
<1>3. CASE \E c \in Call : RequestDies(c)
  BY <1>3, RequestDeathKeepsInv
<1>4. CASE \E c \in Call : Progress(c)
  BY <1>4, ProgressKeepsInv
<1>5. CASE \E c \in Call, s \in CarrierStatus : applyCallStatus(c, s)
  BY <1>5, StatusKeepsInv
<1>6. CASE \E c \in Call, s \in CarrierStatus : commitWebhookNonce(c, s)
  BY <1>6, NonceKeepsInv
<1>7. CASE \E c \in MustAnnounce : markAnnouncementPlayed(c)
  BY <1>7, AnnouncementKeepsInv
<1>8. CASE \E c \in Recorded : registerRecording(c)
  BY <1>8, RegisterKeepsInv
<1>9. CASE \E w \in Sweeper : SweepStep(w)
  BY <1>9, ClaimKeepsInv, FetchKeepsInv, MarkKeepsInv DEF SweepStep
<1>10. CASE \E w \in Sweeper : SweeperDies(w)
  BY <1>10, SweeperDeathKeepsInv
<1>11. CASE UNCHANGED vars
  BY <1>11, StutterKeepsInv
<1>. QED
  BY <1>1, <1>2, <1>3, <1>4, <1>5, <1>6, <1>7, <1>8, <1>9, <1>10, <1>11 DEF Next

LEMMA InvHolds == Spec => []IInv
BY InitInv, NextKeepsInv, PTL DEF Spec

-----------------------------------------------------------------------------

\* Calls, callbacks and sweeps keep their types: in particular a claim never
\* counts an attempt past MAX_ATTEMPTS (claimPending, recording-ingest.ts).
THEOREM TypeCorrect == Spec => []TypeOK
BY InvHolds, PTL DEF IInv

\* However many actions pass the gate at the same moment, the cap and the
\* automation allowance are exceeded only by what overtaken readings and
\* underestimated prices let through, and the warning at 80% is missed only
\* then (checkOutboundAllowed reads, recordSpend writes later, spend-gate.ts).
THEOREM SpendIsBounded == Spec => []OverspendIsOverlap
<1>1. IInv => OverspendIsOverlap
  BY BookedIsBound DEF IInv, TypeOK
<1>. QED
  BY <1>1, InvHolds, PTL

\* A call the carrier has is paid for, through every death of a request, and
\* one it never took gives its money back unless the release failed or died
\* ("a crash mid-flight can never leave a placed call unbilled", placeCall).
THEOREM PlacedCallsAreBilled == Spec => []LedgerFollowsCarrier
BY InvHolds, PTL DEF IInv

\* Once every callback has been seen the row of a call is as the carrier has
\* it, however often and late they came, but for one that overtook another or
\* the sid (applyCallStatus, webhook.service.ts).
THEOREM RowsFollow == Spec => []RowFollowsCarrier
<1>1. IInv => RowFollowsCarrier
  <2> SUFFICES ASSUME IInv, NEW c \in Call, c \notin lost, c \notin astray, Quiet(c),
                      carrier[c] # "none"
               PROVE  row[c] = carrier[c]
    BY DEF RowFollowsCarrier
  <2>1. phase[c] = "done" /\ hasSid[c] /\ applied[c] = sent[c]
    BY DEF IInv, Quiet, CarrierReports, RequestFollows
  <2>2. CASE sent[c] = {}
    BY <2>1, <2>2 DEF IInv, CarrierReports, RowFollowsCallbacks
  <2>3. CASE sent[c] # {}
    <3>1. /\ carrier[c] \in sent[c] /\ row[c] \in sent[c]
          /\ Rank(carrier[c]) <= Rank(row[c])
          /\ row[c] # carrier[c] => Rank(row[c]) < Rank(carrier[c])
      BY <2>1, <2>3 DEF IInv, CarrierReports, RowFollowsCallbacks
    <3>2. sent[c] \subseteq CarrierStatus
      BY DEF IInv, TypeOK
    <3>3. Rank(carrier[c]) \in Nat /\ Rank(row[c]) \in Nat
      BY <3>1, <3>2 DEF CarrierStatus, Rank, Terminal
    <3>. QED
      BY <3>1, <3>3
  <2>. QED
    BY <2>2, <2>3
<1>. QED
  BY <1>1, InvHolds, PTL

\* A sweep takes no recording from `stored` back to `failed` unless two sweeps
\* held it at once (markFailed looks at the attempts, not at the status).
THEOREM StoredStays == Spec => StoredIsKept
<1>1. IInv /\ [Next]_vars =>
        [\A c \in Recorded \ shared : recording[c] = "stored" => recording'[c] = "stored"]_vars
  <2> SUFFICES ASSUME IInv, Next, NEW c \in Recorded \ shared, recording[c] = "stored"
               PROVE  recording'[c] = "stored"
    OBVIOUS
  <2>1. TypeOK /\ \A w \in Sweeper : c \notin pass[w]
    BY DEF IInv, OneSweep
  <2>2. CASE \E w \in Sweeper : markRecording(w)
    <3>1. PICK w \in Sweeper : markRecording(w)
      BY <2>2
    <3>2. PICK d \in pass[w] : \E r : recording' = [recording EXCEPT ![d] = r]
      BY <2>1, <3>1, MarkLeaves
    <3>. QED
      BY <2>1, <3>2 DEF TypeOK
  <2>3. CASE \E d \in Recorded : registerRecording(d)
    BY <2>1, <2>3 DEF registerRecording, TypeOK
  <2>4. ASSUME NEW d \in Call, PlaceStep(d) \/ RequestDies(d) \/ Progress(d)
        PROVE  recording' = recording
    BY <2>4 DEF PlaceStep, PassGate, BookCall, Dial, AttachSid, releaseUnplacedCall,
                RequestDies, Progress
  <2>5. ASSUME NEW d \in Call, NEW s \in CarrierStatus,
               applyCallStatus(d, s) \/ commitWebhookNonce(d, s)
        PROVE  recording' = recording
    BY <2>5 DEF applyCallStatus, commitWebhookNonce
  <2>6. Freeze \/ (\E d \in MustAnnounce : markAnnouncementPlayed(d)) => recording' = recording
    BY DEF Freeze, markAnnouncementPlayed
  <2>7. ASSUME NEW w \in Sweeper, claimPending(w) \/ FetchAudio(w) \/ SweeperDies(w)
        PROVE  recording' = recording
    BY <2>7 DEF claimPending, FetchAudio, SweeperDies
  <2>. QED
    BY <2>2, <2>3, <2>4, <2>5, <2>6, <2>7 DEF Next, SweepStep
<1>. QED
  BY <1>1, InvHolds, PTL DEF Spec, StoredIsKept

\* A recording that has used up its attempts and still waits is in a sweep's
\* hands or one died with it (ingestPendingRecordings, recording-ingest.ts).
THEOREM NoSilentDrop == Spec => []StrandedNeedsDeath
BY InvHolds, PTL DEF IInv
-----------------------------------------------------------------------------
(* Texts: gate, ledger, request and callbacks are like those of calls, and *)
(* the person answers.                                                      *)

USE DEF textVars, inboundVars, outboundVars, Text, Goto

\* How far a request has come tells what the carrier and the tables hold of it.
SendFollows ==
    /\ \A t \in Action : row[t] # "none" <=> ledger[t] = "held"
    /\ \A t \in Action : ledger[t] # "released"
    /\ \A t \in Action : phase[t] \in {"idle", "cleared", "gated"} => carrier[t] = "none"
    /\ \A t \in Action : phase[t] = "accepted" => carrier[t] # "none"
    /\ \A t \in Action : phase[t] # "done" => row[t] = "none"
    /\ \A t \in Action \ lost :
          phase[t] = "done" => (row[t] # "none" <=> carrier[t] # "none")

\* The callbacks the carrier has sent lead up to its status of the text.
ReportsFollow ==
    \A t \in Action :
        /\ nonces[t] \subseteq applied[t] /\ applied[t] \subseteq sent[t]
        /\ carrier[t] \in {"none", "queued"} => sent[t] = {}
        /\ carrier[t] = "sent" => sent[t] = {"sent"}
        /\ carrier[t] = "delivered" => sent[t] = {"sent", "delivered"}
        /\ carrier[t] = "undelivered" => sent[t] = {"sent", "undelivered"}

\* A row that had its callbacks in order shows the latest of them.
RowShowsLatest ==
    \A t \in Action \ astray :
        /\ row[t] = "none" => applied[t] = {}
        /\ applied[t] = {} => row[t] \in {"none", "queued"}
        /\ applied[t] # {} => /\ row[t] \in applied[t]
                              /\ \A s \in applied[t] : TextRank(s) <= TextRank(row[t])

\* STOP is the latest keyword among some texts.
StopIsLast(S) ==
    \E m \in Keywords(S) :
        Says[m] = "stop" /\ \A n \in Keywords(S) : n <= m

\* The opt-out list shows the latest keyword stored.
LastWordCounts == ~stale => suppressed = StopIsLast(rows)

\* Unless two texts overlapped, one at a time is being received, and what it
\* counted is what there will be once it is stored.
CountIsCurrent ==
    /\ IsFiniteSet(rows)
    /\ \A m \in Inbound : counting[m] # 0 => m \in texted
    /\ ~overlapped =>
          /\ unread = Cardinality(rows)
          /\ \A m, n \in Inbound : counting[m] # 0 /\ counting[n] # 0 => m = n
          /\ \A m \in Inbound : counting[m] # 0 => counting[m] = Cardinality(rows \cup {m})

\* A text is booked on what the gate read before the carrier was asked.
TextsWereAllowed ==
    \A t \in Action : phase[t] \in {"gated", "accepted"} => WasAllowed(t)

ThreadInv ==
    /\ TextTypeOK
    /\ SendFollows /\ ReportsFollow /\ RowShowsLatest
    /\ LastWordCounts /\ CountIsCurrent
    /\ TextsWereAllowed /\ BookedBeyond

LEMMA InitThreadInv == ASSUME TextInit PROVE ThreadInv
<1>. USE DEF TextInit
<1>1. TextTypeOK
  <2>1. SpendTypeOK
    BY DEF SpendInit, SpendTypeOK, Unread, Reading
  <2>2. /\ texted \subseteq Inbound /\ rows \subseteq texted /\ seen \subseteq rows
        /\ unread \in Nat /\ counting \in [Inbound -> Nat]
    OBVIOUS
  <2>3. crashes \in 0..CrashBound
    BY TextAssumption, OutboundAssumption
  <2>4. /\ thread \in BOOLEAN /\ suppressed \in BOOLEAN
        /\ stale \in BOOLEAN /\ overlapped \in BOOLEAN
    OBVIOUS
  <2>5. /\ phase \in [Action -> {"idle", "cleared", "gated", "accepted", "done", "dead"}]
        /\ row \in [Action -> Reported \cup {"none", "queued"}]
        /\ carrier \in [Action -> Reported \cup {"none", "queued"}]
    OBVIOUS
  <2>6. /\ sent \in [Action -> SUBSET Reported]
        /\ applied \in [Action -> SUBSET Reported]
        /\ nonces \in [Action -> SUBSET Reported]
        /\ lost \subseteq Action /\ astray \subseteq Action
    OBVIOUS
  <2>. QED
    BY <2>1, <2>2, <2>3, <2>4, <2>5, <2>6 DEF TextTypeOK
<1>2. SendFollows /\ ReportsFollow /\ RowShowsLatest
  BY DEF SpendInit, SendFollows, ReportsFollow, RowShowsLatest
<1>3. LastWordCounts
  BY DEF LastWordCounts, StopIsLast, Keywords
<1>4. CountIsCurrent
  BY FS_EmptySet DEF CountIsCurrent
<1>5. TextsWereAllowed
  BY DEF TextsWereAllowed
<1>6. BookedBeyond
  BY NothingIsBooked
<1>. QED
  BY <1>1, <1>2, <1>3, <1>4, <1>5, <1>6 DEF ThreadInv

LEMMA InboundStays ==
  ASSUME LastWordCounts, CountIsCurrent, UNCHANGED inboundVars
  PROVE  LastWordCounts' /\ CountIsCurrent'
BY DEF LastWordCounts, StopIsLast, Keywords, CountIsCurrent

LEMMA TextsStayAllowed ==
  ASSUME TextsWereAllowed, BookedBeyond, UNCHANGED spendVars,
         \A t \in Action : phase'[t] \in {"gated", "accepted"} => phase[t] \in {"gated", "accepted"}
  PROVE  TextsWereAllowed' /\ BookedBeyond'
BY SpendStays DEF TextsWereAllowed

LEMMA SendsStay ==
  ASSUME SendFollows, UNCHANGED <<row, ledger, phase, carrier, lost>>
  PROVE  SendFollows'
BY DEF SendFollows

LEMMA ReportsStay ==
  ASSUME ReportsFollow, RowShowsLatest,
         UNCHANGED <<sent, carrier, applied, nonces, row, astray>>
  PROVE  ReportsFollow' /\ RowShowsLatest'
BY DEF ReportsFollow, RowShowsLatest

LEMMA CheckKeepsInv ==
  ASSUME ThreadInv, NEW t \in Action, CheckOptOut(t)
  PROVE  ThreadInv'
<1>. USE DEF ThreadInv, CheckOptOut
<1>1. TextTypeOK'
  BY DEF TextTypeOK, SpendTypeOK
<1>2. SendFollows'
  BY DEF SendFollows, TextTypeOK
<1>3. TextsWereAllowed' /\ BookedBeyond'
  BY TextsStayAllowed DEF TextTypeOK
<1>. QED
  BY <1>1, <1>2, <1>3, ReportsStay, InboundStays

LEMMA GateKeepsInv ==
  ASSUME ThreadInv, NEW t \in Action, PassTextGate(t)
  PROVE  ThreadInv'
<1>. USE DEF ThreadInv, PassTextGate
<1>1. TextTypeOK'
  <2>1. Spent \in Nat /\ AutomationSpent \in Nat
    BY SpentNat DEF TextTypeOK
  <2>2. saw' \in [Action -> Reading]
    BY <2>1 DEF checkOutboundAllowed, TextTypeOK,
       SpendTypeOK, Reading
  <2>. QED
    BY <2>2 DEF TextTypeOK, SpendTypeOK
<1>2. SendFollows'
  BY DEF SendFollows, TextTypeOK
<1>3. TextsWereAllowed' /\ BookedBeyond'
  <2>1. checkOutboundAllowed(t) /\ SpendTypeOK
    BY DEF TextTypeOK
  <2>2. BookedBeyond' /\ WasAllowed(t)'
        /\ \A u \in Action \ {t} : WasAllowed(u) => WasAllowed(u)'
    BY <2>1, GateReadsSpend
  <2>3. \A u \in Action \ {t} : phase'[u] = phase[u]
    BY DEF TextTypeOK
  <2>. QED
    BY <2>2, <2>3 DEF TextsWereAllowed
<1>. QED
  BY <1>1, <1>2, <1>3, ReportsStay, InboundStays

LEMMA SendKeepsInv ==
  ASSUME ThreadInv, NEW t \in Action, SendText(t)
  PROVE  ThreadInv'
<1>. USE DEF ThreadInv, SendText
<1>1. TextTypeOK'
  BY DEF TextTypeOK, SpendTypeOK
<1>2. SendFollows'
  BY DEF SendFollows, TextTypeOK
<1>3. ReportsFollow' /\ RowShowsLatest'
  BY DEF SendFollows, ReportsFollow, RowShowsLatest, TextTypeOK
<1>4. TextsWereAllowed' /\ BookedBeyond'
  BY TextsStayAllowed DEF TextTypeOK
<1>. QED
  BY <1>1, <1>2, <1>3, <1>4, InboundStays

\* The row and what it costs are written together.
LEMMA RecordKeepsInv ==
  ASSUME ThreadInv, NEW t \in Action, RecordText(t)
  PROVE  ThreadInv'
<1>. USE DEF ThreadInv, RecordText
<1>1. TextTypeOK'
  BY DEF TextTypeOK, SpendTypeOK, recordSpend, Unread, Reading
<1>2. SendFollows'
  BY DEF SendFollows, TextTypeOK, SpendTypeOK, recordSpend
<1>3. ReportsFollow' /\ RowShowsLatest'
  <2>1. row[t] = "none" /\ row' = [row EXCEPT ![t] = "queued"]
    BY DEF SendFollows, TextTypeOK
  <2>. QED
    BY <2>1 DEF ReportsFollow, RowShowsLatest, TextTypeOK
<1>4. TextsWereAllowed' /\ BookedBeyond'
  <2>1. recordSpend(t) /\ SpendTypeOK
    BY DEF TextTypeOK
  <2>2. WasAllowed(t) /\ ledger[t] = "none"
    BY <2>1 DEF TextsWereAllowed, SendFollows, SpendTypeOK
  <2>3. BookedBeyond' /\ \A u \in Action \ {t} : WasAllowed(u) => WasAllowed(u)'
    BY <2>1, <2>2, BookingIsBounded
  <2>4. phase'[t] = "done" /\ \A u \in Action \ {t} : phase'[u] = phase[u]
    BY DEF TextTypeOK
  <2>. QED
    BY <2>3, <2>4 DEF TextsWereAllowed
<1>. QED
  BY <1>1, <1>2, <1>3, <1>4, InboundStays

LEMMA DeathKeepsInv ==
  ASSUME ThreadInv, NEW t \in Action, TextRequestDies(t)
  PROVE  ThreadInv'
<1>. USE DEF ThreadInv, TextRequestDies
<1>1. TextTypeOK'
  BY TextAssumption, OutboundAssumption DEF TextTypeOK, SpendTypeOK
<1>2. SendFollows'
  BY DEF SendFollows, TextTypeOK
<1>3. TextsWereAllowed' /\ BookedBeyond'
  BY TextsStayAllowed DEF TextTypeOK
<1>. QED
  BY <1>1, <1>2, <1>3, ReportsStay, InboundStays

LEMMA FreezingKeepsInv ==
  ASSUME ThreadInv, FreezeTexts
  PROVE  ThreadInv'
<1>. USE DEF ThreadInv, FreezeTexts, syncSubaccountStatus
<1>1. TextTypeOK'
  BY DEF TextTypeOK, SpendTypeOK
<1>2. TextsWereAllowed' /\ BookedBeyond'
  BY SpendStays DEF TextsWereAllowed
<1>. QED
  BY <1>1, <1>2, SendsStay, ReportsStay, InboundStays

\* The carrier reports.
LEMMA ReportKeepsInv ==
  ASSUME ThreadInv, NEW t \in Action, TextProgress(t)
  PROVE  ThreadInv'
<1>. USE DEF ThreadInv
<1>1. PICK s \in Reported :
        /\ <<carrier[t], s>> \in {<<"queued", "sent">>, <<"sent", "delivered">>,
                                 <<"sent", "undelivered">>}
        /\ carrier' = [carrier EXCEPT ![t] = s]
        /\ sent' = [sent EXCEPT ![t] = @ \cup {s}]
  BY DEF TextProgress
<1>2. UNCHANGED <<spendVars, thread, inboundVars, phase, row, applied, nonces,
                  astray, crashes, lost>>
  BY DEF TextProgress
<1>3. TextTypeOK'
  BY <1>1, <1>2 DEF TextTypeOK, SpendTypeOK, Reported
<1>4. SendFollows'
  BY <1>1, <1>2 DEF SendFollows, TextTypeOK, Reported
<1>5. ReportsFollow' /\ RowShowsLatest'
  BY <1>1, <1>2 DEF ReportsFollow, RowShowsLatest, TextTypeOK, Reported
<1>6. TextsWereAllowed' /\ BookedBeyond'
  BY <1>2, TextsStayAllowed DEF TextTypeOK
<1>. QED
  BY <1>2, <1>3, <1>4, <1>5, <1>6, InboundStays

\* A callback is applied, once more perhaps, perhaps before its row is there.
LEMMA CallbackKeepsInv ==
  ASSUME ThreadInv, NEW t \in Action, NEW s \in Reported, applyMessageStatus(t, s)
  PROVE  ThreadInv'
<1>. USE DEF ThreadInv, applyMessageStatus
<1>1. TextTypeOK'
  BY DEF TextTypeOK, SpendTypeOK
<1>2. SendFollows'
  BY DEF SendFollows, TextTypeOK, Reported
<1>3. ReportsFollow'
  BY DEF ReportsFollow, TextTypeOK
<1>4. RowShowsLatest'
  <2> SUFFICES ASSUME NEW u \in Action \ astray'
               PROVE  /\ row'[u] = "none" => applied'[u] = {}
                      /\ applied'[u] = {} => row'[u] \in {"none", "queued"}
                      /\ applied'[u] # {} =>
                            /\ row'[u] \in applied'[u]
                            /\ \A r \in applied'[u] : TextRank(r) <= TextRank(row'[u])
    BY DEF RowShowsLatest
  <2>1. CASE u # t
    BY <2>1 DEF RowShowsLatest, TextTypeOK
  <2>2. CASE u = t
    <3>1. row[t] # "none" /\ \A r \in applied[t] : ~(TextRank(r) > TextRank(s))
      BY <2>2
    <3>2. row'[t] = s /\ applied'[t] = applied[t] \cup {s} /\ s # "none"
      BY <3>1 DEF TextTypeOK, Reported
    <3>3. \A r : TextRank(r) \in Nat
      BY DEF TextRank
    <3>. QED
      BY <2>2, <3>1, <3>2, <3>3
  <2>. QED
    BY <2>1, <2>2
<1>5. TextsWereAllowed' /\ BookedBeyond'
  BY TextsStayAllowed DEF TextTypeOK
<1>. QED
  BY <1>1, <1>2, <1>3, <1>4, <1>5, InboundStays

LEMMA CallbackSeenKeepsInv ==
  ASSUME ThreadInv, NEW t \in Action, NEW s \in Reported, commitStatusNonce(t, s)
  PROVE  ThreadInv'
<1>. USE DEF ThreadInv, commitStatusNonce
<1>1. TextTypeOK'
  BY DEF TextTypeOK, SpendTypeOK
<1>2. ReportsFollow' /\ RowShowsLatest'
  BY DEF ReportsFollow, RowShowsLatest, TextTypeOK
<1>3. TextsWereAllowed' /\ BookedBeyond'
  BY TextsStayAllowed DEF TextTypeOK
<1>. QED
  BY <1>1, <1>2, <1>3, SendsStay, InboundStays

\* What the person texts.
LEMMA TextKeepsInv ==
  ASSUME ThreadInv, NEW m \in Inbound, PersonTexts(m)
  PROVE  ThreadInv'
<1>. USE DEF ThreadInv, PersonTexts
<1>1. TextTypeOK'
  BY DEF TextTypeOK, SpendTypeOK
<1>2. LastWordCounts' /\ CountIsCurrent'
  BY DEF LastWordCounts, StopIsLast, Keywords, CountIsCurrent
<1>3. TextsWereAllowed' /\ BookedBeyond'
  BY TextsStayAllowed DEF TextTypeOK
<1>. QED
  BY <1>1, <1>2, <1>3, SendsStay, ReportsStay

\* The count another transaction has not committed yet is not in it.
LEMMA CountKeepsInv ==
  ASSUME ThreadInv, NEW m \in Inbound, StoreAndCount(m)
  PROVE  ThreadInv'
<1>. USE DEF ThreadInv
<1>1. /\ m \in texted
      /\ counting' = [counting EXCEPT ![m] = Cardinality(rows \cup {m})]
      /\ UNCHANGED <<outboundVars, thread, texted, rows, unread, suppressed, seen, stale>>
  BY DEF StoreAndCount
<1>2. overlapped' = (overlapped \/ \E n \in Inbound : counting[n] # 0)
  BY DEF StoreAndCount
<1>3. overlapped' \in BOOLEAN
      /\ (~overlapped' => ~overlapped /\ \A n \in Inbound : counting[n] = 0)
  BY <1>2, Zenon DEF TextTypeOK
<1>4. IsFiniteSet(rows) /\ Cardinality(rows \cup {m}) \in Nat
  BY FS_AddElement, FS_CardinalityType DEF CountIsCurrent
<1>5. TextTypeOK'
  BY <1>1, <1>3, <1>4 DEF TextTypeOK, SpendTypeOK
<1>6. LastWordCounts'
  BY <1>1 DEF LastWordCounts, StopIsLast, Keywords
<1>7. CountIsCurrent'
  BY <1>1, <1>3 DEF CountIsCurrent, TextTypeOK
<1>8. TextsWereAllowed' /\ BookedBeyond'
  BY <1>1, TextsStayAllowed DEF TextTypeOK
<1>. QED
  BY <1>1, <1>5, <1>6, <1>7, <1>8, SendsStay, ReportsStay

\* The newest keyword decides, unless a newer one was stored before.
LEMMA CommitKeepsInv ==
  ASSUME ThreadInv, NEW m \in Inbound, CommitText(m)
  PROVE  ThreadInv'
<1>. USE DEF ThreadInv, CommitText
<1>1. TextTypeOK'
  <2>1. suppressed' \in BOOLEAN
    BY TextAssumption DEF TextTypeOK, OptOut
  <2>2. /\ unread' \in Nat /\ counting' \in [Inbound -> Nat]
        /\ rows' \subseteq texted' /\ seen' \subseteq rows' /\ thread' \in BOOLEAN
    BY DEF TextTypeOK, Count, CountIsCurrent
  <2>. QED
    BY <2>1, <2>2 DEF TextTypeOK, SpendTypeOK, outboundVars
<1>2. LastWordCounts'
  <2> SUFFICES ASSUME ~stale' PROVE suppressed' = StopIsLast(rows')
    BY DEF LastWordCounts, StopIsLast, Keywords
  <2>1. CASE Says[m] = "none"
    <3>1. Keywords(rows') = Keywords(rows)
      BY <2>1 DEF Keywords
    <3>2. suppressed' = suppressed /\ ~stale
      BY <2>1 DEF OptOut
    <3>. QED
      BY <3>1, <3>2 DEF LastWordCounts, StopIsLast
  <2>2. CASE Says[m] # "none"
    <3>1. \A n \in Keywords(rows) : ~(n > m)
      BY <2>2
    <3>2. Keywords(rows') = Keywords(rows) \cup {m}
          /\ Keywords(rows') \subseteq Nat
      <4>1. rows' = rows \cup {m} /\ rows' \subseteq Inbound /\ Inbound \subseteq Nat
        BY <1>1, TextAssumption DEF TextTypeOK
      <4>. QED
        BY <2>2, <4>1 DEF Keywords
    <3>3. m \in Nat /\ \A n \in Keywords(rows') : n <= m
      BY <3>1, <3>2, TextAssumption, OutboundAssumption
    <3>4. StopIsLast(rows') <=> Says[m] = "stop"
      BY <3>2, <3>3 DEF StopIsLast
    <3>5. suppressed' = (Says[m] = "stop")
      BY <2>2, TextAssumption, OutboundAssumption DEF OptOut
    <3>. QED
      BY <3>4, <3>5 DEF StopIsLast
  <2>. QED
    BY <2>1, <2>2
<1>3. CountIsCurrent'
  <2>1. IsFiniteSet(rows') /\ rows' = rows \cup {m} /\ m \in texted
    BY FS_AddElement DEF CountIsCurrent
  <2>2. counting' = [counting EXCEPT ![m] = 0] /\ unread' = counting[m]
    BY DEF Count
  <2>. QED
    BY <2>1, <2>2 DEF CountIsCurrent, TextTypeOK
<1>4. TextsWereAllowed' /\ BookedBeyond'
  BY TextsStayAllowed DEF TextTypeOK
<1>. QED
  BY <1>1, <1>2, <1>3, <1>4, SendsStay, ReportsStay

LEMMA TextSeenKeepsInv ==
  ASSUME ThreadInv, NEW m \in Inbound, commitTextNonce(m)
  PROVE  ThreadInv'
<1>. USE DEF ThreadInv, commitTextNonce
<1>1. TextTypeOK'
  BY DEF TextTypeOK, SpendTypeOK
<1>2. LastWordCounts' /\ CountIsCurrent'
  BY DEF LastWordCounts, StopIsLast, Keywords, CountIsCurrent
<1>3. TextsWereAllowed' /\ BookedBeyond'
  BY TextsStayAllowed DEF TextTypeOK
<1>. QED
  BY <1>1, <1>2, <1>3, SendsStay, ReportsStay

LEMMA NextKeepsThreadInv ==
  ASSUME ThreadInv, [TextNext]_textVars
  PROVE  ThreadInv'
<1>1. CASE UNCHANGED textVars
  <2>1. TextTypeOK'
    BY <1>1 DEF ThreadInv, TextTypeOK, SpendTypeOK
  <2>. QED
    BY <1>1, <2>1, SendsStay, ReportsStay, InboundStays, TextsStayAllowed DEF ThreadInv
<1>2. CASE TextNext
  BY <1>2, FreezingKeepsInv, CheckKeepsInv, GateKeepsInv, SendKeepsInv, RecordKeepsInv,
     DeathKeepsInv, ReportKeepsInv, CallbackKeepsInv, CallbackSeenKeepsInv, TextKeepsInv,
     CountKeepsInv, CommitKeepsInv, TextSeenKeepsInv
     DEF TextNext, SendStep, ReceiveStep
<1>. QED
  BY <1>1, <1>2

LEMMA ThreadInvHolds == TextSpec => []ThreadInv
<1>1. TextInit => ThreadInv
  BY InitThreadInv
<1>2. ThreadInv /\ [TextNext]_textVars => ThreadInv'
  BY NextKeepsThreadInv
<1>. QED
  BY <1>1, <1>2, PTL DEF TextSpec

\* Every variable of a thread keeps its type.
THEOREM ThreadTypeCorrect == TextSpec => []TextTypeOK
BY ThreadInvHolds, PTL DEF ThreadInv

\* However many texts pass the gate before one of them is booked, the caps are
\* exceeded only by what the readings missed (sendSms books a text after the
\* carrier took it).
THEOREM TextSpendIsBounded == TextSpec => []OverspendIsOverlap
<1>1. ThreadInv => OverspendIsOverlap
  BY BookedIsBound DEF ThreadInv, TextTypeOK
<1>. QED
  BY <1>1, ThreadInvHolds, PTL

\* With every text stored, the person is opted out exactly if STOP was their
\* last word, unless an older one was applied after it (recordOptOut,
\* suppression.ts).
THEOREM StopStands == TextSpec => []OptOutStands
<1>1. ThreadInv => OptOutStands
  <2> SUFFICES ASSUME ThreadInv, Keywords(texted) \subseteq rows, ~stale
               PROVE  suppressed = StopIsLast(texted)
    BY DEF OptOutStands, StopIsLast
  <2>1. Keywords(texted) = Keywords(rows)
    BY DEF ThreadInv, TextTypeOK, Keywords
  <2>. QED
    BY <2>1 DEF ThreadInv, LastWordCounts, StopIsLast
<1>. QED
  BY <1>1, ThreadInvHolds, PTL

\* The unread count is off only if two texts were being received at once
\* (receiveSms recomputes it from what its transaction can see).
THEOREM UnreadIsRecomputed == TextSpec => []UnreadNeedsOverlap
<1>1. ThreadInv => (overlapped \in BOOLEAN /\ (~overlapped => unread = Cardinality(rows)))
  BY DEF ThreadInv, CountIsCurrent, TextTypeOK
<1>2. ThreadInv => UnreadNeedsOverlap
  BY <1>1 DEF UnreadNeedsOverlap
<1>. QED
  BY <1>2, ThreadInvHolds, PTL

\* The thread and the ledger hold what the carrier took, and in the end its
\* status, whatever the order of callbacks, but for answers that were lost and
\* requests that died (sendSms, applyMessageStatus).
THEOREM ThreadFollows == TextSpec => []ThreadFollowsCarrier
<1>1. ThreadInv => ThreadFollowsCarrier
  <2> SUFFICES ASSUME ThreadInv, NEW t \in Action \ lost
               PROVE  /\ row[t] # "none" <=> ledger[t] = "held"
                      /\ phase[t] = "done" => (row[t] # "none" <=> carrier[t] # "none")
                      /\ phase[t] = "done" /\ sent[t] \subseteq nonces[t] /\ t \notin astray
                            => row[t] = carrier[t]
    BY DEF ThreadFollowsCarrier
  <2>1. /\ row[t] # "none" <=> ledger[t] = "held"
        /\ phase[t] = "done" => (row[t] # "none" <=> carrier[t] # "none")
    BY DEF ThreadInv, SendFollows
  <2>2. ASSUME phase[t] = "done", sent[t] \subseteq nonces[t], t \notin astray
        PROVE  row[t] = carrier[t]
    <3>1. applied[t] = sent[t]
      BY <2>2 DEF ThreadInv, ReportsFollow
    <3>2. carrier[t] \in {"none", "queued", "sent", "delivered", "undelivered"}
      BY DEF ThreadInv, TextTypeOK, Reported
    <3>. QED
      BY <2>1, <2>2, <3>1, <3>2 DEF ThreadInv, ReportsFollow, RowShowsLatest, TextRank
  <2>. QED
    BY <2>1, <2>2
<1>. QED
  BY <1>1, ThreadInvHolds, PTL

=============================================================================
