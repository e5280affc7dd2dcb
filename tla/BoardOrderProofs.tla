--------------------------- MODULE BoardOrderProofs ---------------------------
(***************************************************************************)
(* Theorems about the order of a board, for any base and range of heads,   *)
(* any finite set of cards, any lists, requests and boards to begin with:  *)
(* type correctness and the invariant and the two action properties the    *)
(* run checks.                                                             *)
(*                                                                         *)
(* The first half is about ranks (BetweenIs: what between gives lies in    *)
(* between; RankSequenceIs) and about sorted lists (SplicedIsListed,       *)
(* OnlyOneOrder).  The second is about requests: one that nobody overtook  *)
(* still has before it the board it was made on (Fresh).                   *)
(***************************************************************************)
EXTENDS BoardOrder, SequenceTheorems, FiniteSetTheorems, WellFoundedInduction, TLAPS

-----------------------------------------------------------------------------
(* Ranks: an integer and a fraction. *)

Digits(s) == \A i \in 1..Len(s) : s[i] \in 0..Last

IsFraction(f) ==
    /\ f \in Seq(Int) /\ Digits(f)
    /\ f # <<>> => f[Len(f)] # 0

IsInteger(x) ==
    /\ x \in Seq(Int) /\ Len(x) >= 1
    /\ x[1] \in Lowest..Highest /\ Len(x) = integerLength(x[1])
    /\ \A i \in 2..Len(x) : x[i] \in 0..Last

LEMMA Lens ==
  ASSUME NEW s \in Seq(Int)
  PROVE  Len(s) \in Nat /\ (Len(s) = 0 <=> s = <<>>) /\ \A i \in 1..Len(s) : s[i] \in Int
BY LenProperties, EmptySeq, ElementOfSeq

LEMMA Joined ==
  ASSUME NEW s \in Seq(Int), NEW t \in Seq(Int)
  PROVE  /\ s \o t \in Seq(Int) /\ Len(s) \in Nat /\ Len(t) \in Nat
         /\ Len(s \o t) = Len(s) + Len(t)
         /\ \A i \in 1..Len(s) : (s \o t)[i] = s[i]
         /\ \A i \in 1..Len(t) : (s \o t)[Len(s) + i] = t[i]
<1>1. Len(s) \in Nat /\ Len(t) \in Nat
  BY Lens
<1>2. /\ s \o t \in Seq(Int) /\ Len(s \o t) = Len(s) + Len(t)
      /\ \A i \in 1..(Len(s) + Len(t)) : (s \o t)[i] = IF i <= Len(s) THEN s[i] ELSE t[i - Len(s)]
  BY ConcatProperties
<1>3. \A i \in 1..Len(t) : (s \o t)[Len(s) + i] = t[i]
  <2> SUFFICES ASSUME NEW i \in 1..Len(t) PROVE (s \o t)[Len(s) + i] = t[i]
    OBVIOUS
  <2>1. Len(s) + i \in 1..(Len(s) + Len(t)) /\ ~(Len(s) + i <= Len(s)) /\ (Len(s) + i) - Len(s) = i
    BY <1>1
  <2>. QED
    BY <1>2, <2>1
<1>. QED
  BY <1>1, <1>2, <1>3

LEMMA Slice ==
  ASSUME NEW s \in Seq(Int), NEW m \in Nat, NEW n \in Nat, m <= n, n <= Len(s)
  PROVE  /\ SubSeq(s, m + 1, n) \in Seq(Int) /\ Len(SubSeq(s, m + 1, n)) = n - m
         /\ \A i \in 1..(n - m) : SubSeq(s, m + 1, n)[i] = s[m + i]
<1>1. Len(s) \in Nat /\ \A i \in (m + 1)..n : s[i] \in Int
  BY Lens
<1>2. m + 1 \in Int /\ n \in Int
  OBVIOUS
<1>3. /\ SubSeq(s, m + 1, n) \in Seq(Int)
      /\ Len(SubSeq(s, m + 1, n)) = IF m + 1 <= n THEN n - (m + 1) + 1 ELSE 0
      /\ \A i \in 1..(n - (m + 1) + 1) : SubSeq(s, m + 1, n)[i] = s[(m + 1) + i - 1]
  BY <1>1, <1>2, SubSeqProperties
<1>4. n - (m + 1) + 1 = n - m
  OBVIOUS
<1>5. \A i \in 1..(n - m) : (m + 1) + i - 1 = m + i
  OBVIOUS
<1>. QED
  BY <1>3, <1>4, <1>5

LEMMA Prefix ==
  ASSUME NEW s \in Seq(Int), NEW n \in Nat, n <= Len(s)
  PROVE  /\ SubSeq(s, 1, n) \in Seq(Int) /\ Len(SubSeq(s, 1, n)) = n
         /\ \A i \in 1..n : SubSeq(s, 1, n)[i] = s[i]
<1>1. Len(s) \in Nat /\ \A i \in 1..n : s[i] \in Int
  BY Lens
<1>2. /\ SubSeq(s, 1, n) \in Seq(Int)
      /\ Len(SubSeq(s, 1, n)) = IF 1 <= n THEN n - 1 + 1 ELSE 0
      /\ \A i \in 1..(n - 1 + 1) : SubSeq(s, 1, n)[i] = s[1 + i - 1]
  BY <1>1, SubSeqProperties
<1>3. n - 1 + 1 = n /\ \A i \in 1..n : 1 + i - 1 = i
  OBVIOUS
<1>. QED
  BY <1>2, <1>3

LEMMA SameSeq ==
  ASSUME NEW s \in Seq(Int), NEW t \in Seq(Int), Len(s) = Len(t),
         \A i \in 1..Len(s) : s[i] = t[i]
  PROVE  s = t
BY SeqEqual

LEMMA LengthIs ==
  ASSUME NEW h \in Int PROVE integerLength(h) \in Nat /\ integerLength(h) >= 2
BY DEF integerLength

LEMMA Split ==
  ASSUME NEW r, isRank(r)
  PROVE  /\ IsInteger(integerPartOf(r)) /\ IsFraction(FractionOf(r))
         /\ r = integerPartOf(r) \o FractionOf(r)
<1>1. /\ r \in Seq(Int) /\ r[1] \in Lowest..Highest /\ Len(r) \in Nat
      /\ \A i \in 2..Len(r) : r[i] \in 0..Last
  BY Lens DEF isRank
<1>2. PICK n \in Nat : n = integerLength(r[1]) /\ n >= 2
  <2>1. r[1] \in Int
    BY <1>1, RankAssumption
  <2>. QED
    BY <2>1, LengthIs
<1>3. n <= Len(r) /\ (FractionOf(r) # <<>> => r[Len(r)] # 0)
  BY <1>1, <1>2 DEF isRank
<1>4. PICK x : x = integerPartOf(r) /\ x = SubSeq(r, 1, n)
  BY <1>2 DEF integerPartOf
<1>5. PICK f : f = FractionOf(r) /\ f = SubSeq(r, n + 1, Len(r))
  BY <1>2 DEF FractionOf
<1>6. x \in Seq(Int) /\ Len(x) = n /\ \A i \in 1..n : x[i] = r[i]
  BY <1>1, <1>3, <1>4, Prefix
<1>7. /\ f \in Seq(Int) /\ Len(f) = Len(r) - n
      /\ \A i \in 1..(Len(r) - n) : f[i] = r[n + i]
  <2>1. r \in Seq(Int) /\ n \in Nat /\ Len(r) \in Nat /\ n <= Len(r) /\ Len(r) <= Len(r)
    BY <1>1, <1>3
  <2>. QED
    BY <1>5, <2>1, Slice
<1>8. IsInteger(x)
  <2>1. x[1] = r[1] /\ Len(x) = integerLength(x[1]) /\ x[1] \in Lowest..Highest
    BY <1>1, <1>2, <1>6
  <2>2. \A i \in 2..Len(x) : x[i] \in 0..Last
    <3> SUFFICES ASSUME NEW i \in 2..n PROVE x[i] \in 0..Last
      BY <1>6
    <3>1. i \in 1..n /\ i \in 2..Len(r)
      BY <1>1, <1>2, <1>3
    <3>. QED
      BY <1>1, <1>6, <3>1
  <2>. QED
    BY <1>2, <1>6, <2>1, <2>2 DEF IsInteger
<1>9. IsFraction(f)
  <2>1. Digits(f)
    <3> SUFFICES ASSUME NEW i \in 1..(Len(r) - n) PROVE f[i] \in 0..Last
      BY <1>7 DEF Digits
    <3>1. n + i \in 2..Len(r)
      BY <1>1, <1>2, <1>3
    <3>. QED
      BY <1>1, <1>7, <3>1
  <2>2. f # <<>> => Len(f) \in Nat /\ Len(f) # 0
    BY <1>7, Lens
  <2>3. ASSUME f # <<>> PROVE f[Len(f)] = r[Len(r)]
    <3>1. Len(f) \in 1..(Len(r) - n) /\ n + Len(f) = Len(r)
      BY <1>1, <1>2, <1>7, <2>2, <2>3
    <3>. QED
      BY <1>7, <3>1
  <2>. QED
    BY <1>3, <1>5, <1>7, <2>1, <2>3 DEF IsFraction
<1>10. r = x \o f
  <2>1. /\ x \o f \in Seq(Int) /\ Len(x \o f) = Len(r)
        /\ \A i \in 1..n : (x \o f)[i] = r[i]
        /\ \A i \in 1..(Len(r) - n) : (x \o f)[n + i] = r[n + i]
    <3>1. /\ x \o f \in Seq(Int) /\ Len(x \o f) = Len(x) + Len(f)
          /\ \A i \in 1..Len(x) : (x \o f)[i] = x[i]
          /\ \A i \in 1..Len(f) : (x \o f)[Len(x) + i] = f[i]
      BY <1>6, <1>7, Joined
    <3>2. Len(x) = n /\ Len(f) = Len(r) - n /\ Len(x) + Len(f) = Len(r)
      BY <1>1, <1>2, <1>6, <1>7
    <3>3. \A i \in 1..(Len(r) - n) : (x \o f)[n + i] = f[i]
      BY <3>1, <3>2
    <3>. QED
      BY <1>6, <1>7, <3>1, <3>2, <3>3
  <2>2. \A i \in 1..Len(r) : (x \o f)[i] = r[i]
    <3> SUFFICES ASSUME NEW i \in 1..Len(r), i > n PROVE (x \o f)[i] = r[i]
      BY <2>1
    <3>1. i - n \in 1..(Len(r) - n) /\ n + (i - n) = i
      BY <1>1, <1>3
    <3>. QED
      BY <2>1, <3>1
  <2>. QED
    BY <1>1, <2>1, <2>2, SameSeq
<1>. QED
  BY <1>4, <1>5, <1>8, <1>9, <1>10

LEMMA Join ==
  ASSUME NEW x, IsInteger(x), NEW f, IsFraction(f)
  PROVE  /\ isRank(x \o f) /\ integerPartOf(x \o f) = x /\ FractionOf(x \o f) = f
<1>1. /\ x \in Seq(Int) /\ Len(x) \in Nat /\ Len(x) >= 1
      /\ f \in Seq(Int) /\ Len(f) \in Nat
      /\ x[1] \in Lowest..Highest /\ (\A i \in 2..Len(x) : x[i] \in 0..Last)
      /\ (\A i \in 1..Len(f) : f[i] \in 0..Last)
      /\ (f # <<>> => Len(f) # 0 /\ f[Len(f)] # 0)
  BY Lens DEF IsInteger, IsFraction, Digits
<1>2. PICK n \in Nat : n = Len(x) /\ n = integerLength(x[1]) /\ n >= 2
  <2>1. x[1] \in Int
    BY <1>1, RankAssumption
  <2>. QED
    BY <1>1, <2>1, LengthIs DEF IsInteger
<1>3. PICK r : r = x \o f
  OBVIOUS
<1>4. /\ r \in Seq(Int) /\ Len(r) = n + Len(f) /\ Len(r) \in Nat
      /\ \A i \in 1..n : r[i] = x[i]
      /\ \A i \in 1..Len(f) : r[n + i] = f[i]
  <2>1. /\ r \in Seq(Int) /\ Len(r) = Len(x) + Len(f)
        /\ \A i \in 1..Len(x) : r[i] = x[i]
        /\ \A i \in 1..Len(f) : r[Len(x) + i] = f[i]
    BY <1>1, <1>3, Joined
  <2>2. Len(r) = n + Len(f) /\ Len(r) \in Nat
    <3>1. Len(x) \in Nat /\ Len(f) \in Nat
      BY <1>1
    <3>2. Len(r) = Len(x) + Len(f)
      BY <2>1
    <3>3. n = Len(x)
      BY <1>2
    <3>. QED
      BY <3>1, <3>2, <3>3
  <2>3. \A i \in 1..n : r[i] = x[i]
    BY <1>2, <2>1
  <2>4. \A i \in 1..Len(f) : r[n + i] = f[i]
    BY <1>2, <2>1
  <2>. QED
    BY <2>1, <2>2, <2>3, <2>4
<1>5. n <= Len(r) /\ r[1] = x[1] /\ r[1] \in Lowest..Highest /\ integerLength(r[1]) = n
  BY <1>1, <1>2, <1>4
<1>6. \A i \in 2..Len(r) : r[i] \in 0..Last
  <2> SUFFICES ASSUME NEW i \in 2..Len(r) PROVE r[i] \in 0..Last
    OBVIOUS
  <2>1. CASE i <= n
    <3>1. i \in 2..Len(x) /\ i \in 1..n
      BY <1>2, <1>4, <2>1
    <3>. QED
      BY <1>1, <1>4, <3>1
  <2>2. CASE i > n
    <3>1. PICK k \in 1..Len(f) : i = n + k
      <4>1. i - n \in 1..Len(f) /\ i = n + (i - n)
        BY <1>1, <1>4, <2>2
      <4>. QED
        BY <4>1
    <3>. QED
      BY <1>1, <1>4, <3>1
  <2>. QED
    BY <2>1, <2>2
<1>7. SubSeq(r, 1, n) = x
  <2>1. SubSeq(r, 1, n) \in Seq(Int) /\ Len(SubSeq(r, 1, n)) = n
        /\ \A i \in 1..n : SubSeq(r, 1, n)[i] = r[i]
    BY <1>4, <1>5, Prefix
  <2>2. PICK p : p = SubSeq(r, 1, n)
    OBVIOUS
  <2>3. p \in Seq(Int) /\ Len(p) = Len(x) /\ \A i \in 1..Len(p) : p[i] = x[i]
    BY <1>1, <1>2, <1>4, <2>1, <2>2
  <2>. QED
    BY <1>1, <2>2, <2>3, SameSeq
<1>8. SubSeq(r, n + 1, Len(r)) = f
  <2>1. SubSeq(r, n + 1, Len(r)) \in Seq(Int) /\ Len(SubSeq(r, n + 1, Len(r))) = Len(r) - n
        /\ \A i \in 1..(Len(r) - n) : SubSeq(r, n + 1, Len(r))[i] = r[n + i]
    <3>1. r \in Seq(Int) /\ n \in Nat /\ Len(r) \in Nat /\ n <= Len(r) /\ Len(r) <= Len(r)
      BY <1>4, <1>5
    <3>. QED
      BY <3>1, Slice
  <2>2. Len(r) - n = Len(f)
    BY <1>1, <1>4
  <2>3. PICK p : p = SubSeq(r, n + 1, Len(r))
    OBVIOUS
  <2>4. p \in Seq(Int) /\ Len(p) = Len(f) /\ \A i \in 1..Len(p) : p[i] = f[i]
    BY <1>4, <2>1, <2>2, <2>3
  <2>. QED
    BY <1>1, <2>3, <2>4, SameSeq
<1>9. integerPartOf(r) = x /\ FractionOf(r) = f
  BY <1>2, <1>5, <1>7, <1>8 DEF integerPartOf, FractionOf
<1>10. f # <<>> => r[Len(r)] # 0
  <2> SUFFICES ASSUME f # <<>> PROVE r[Len(r)] # 0
    OBVIOUS
  <2>1. Len(f) \in 1..Len(f) /\ f[Len(f)] # 0
    BY <1>1
  <2>2. r[n + Len(f)] = f[Len(f)]
    BY <1>4, <2>1
  <2>. QED
    BY <1>4, <2>1, <2>2
<1>11. isRank(r)
  <2>1. r # Null
    BY <1>2, <1>4, <1>5, Lens DEF Null
  <2>. QED
    BY <1>1, <1>2, <1>4, <1>5, <1>6, <1>9, <1>10, <2>1 DEF isRank
<1>. QED
  BY <1>3, <1>9, <1>11

LEMMA IntegerIsRank ==
  ASSUME NEW x, IsInteger(x)
  PROVE  isRank(x) /\ integerPartOf(x) = x /\ FractionOf(x) = <<>>
<1>1. IsFraction(<<>>)
  BY EmptySeq DEF IsFraction, Digits
<1>2. x \o <<>> = x
  BY ConcatEmptySeq DEF IsInteger
<1>. QED
  BY <1>1, <1>2, Join

-----------------------------------------------------------------------------
(* The order of ranks is that of strings. *)

\* The two differ before either ends.
Under(x, y) ==
    \E i \in 1..Len(x) :
        /\ i <= Len(y) /\ x[i] < y[i]
        /\ \A j \in 1..(i - 1) : x[j] = y[j]

LEMMA UnderJoins ==
  ASSUME NEW x \in Seq(Int), NEW y \in Seq(Int), NEW f \in Seq(Int), NEW g \in Seq(Int),
         Under(x, y)
  PROVE  Less(x \o f, y \o g)
<1>1. PICK i \in 1..Len(x) : /\ i <= Len(y) /\ x[i] < y[i]
                             /\ \A j \in 1..(i - 1) : x[j] = y[j]
  BY DEF Under
<1>2. /\ Len(x) \in Nat /\ Len(y) \in Nat /\ Len(f) \in Nat /\ Len(g) \in Nat
      /\ Len(x \o f) = Len(x) + Len(f) /\ Len(y \o g) = Len(y) + Len(g)
  BY LenProperties, ConcatProperties
<1>3. /\ \A j \in 1..(Len(x) + Len(f)) : (x \o f)[j] = IF j <= Len(x) THEN x[j] ELSE f[j - Len(x)]
      /\ \A j \in 1..(Len(y) + Len(g)) : (y \o g)[j] = IF j <= Len(y) THEN y[j] ELSE g[j - Len(y)]
  BY ConcatProperties
<1>4. \A j \in 1..i : (x \o f)[j] = x[j] /\ (y \o g)[j] = y[j]
  BY <1>1, <1>2, <1>3
<1>5. i \in 1..Len(y \o g) /\ i <= Len(x \o f) /\ (x \o f)[i] < (y \o g)[i]
  BY <1>1, <1>2, <1>4
<1>6. \A j \in 1..(i - 1) : j <= Len(x \o f) /\ (x \o f)[j] = (y \o g)[j]
  BY <1>1, <1>2, <1>4
<1>. QED
  BY <1>5, <1>6 DEF Less

LEMMA UnderIsLess ==
  ASSUME NEW x \in Seq(Int), NEW y \in Seq(Int), Under(x, y)
  PROVE  Less(x, y)
<1>1. x \o <<>> = x /\ y \o <<>> = y /\ <<>> \in Seq(Int)
  BY ConcatEmptySeq, EmptySeq
<1>2. Less(x \o <<>>, y \o <<>>)
  BY <1>1, UnderJoins
<1>. QED
  BY <1>1, <1>2

LEMMA TailsDecide ==
  ASSUME NEW x \in Seq(Int), NEW f \in Seq(Int), NEW g \in Seq(Int)
  PROVE  Less(x \o f, x \o g) <=> Less(f, g)
<1>1. /\ Len(x) \in Nat /\ Len(f) \in Nat /\ Len(g) \in Nat
      /\ Len(x \o f) = Len(x) + Len(f) /\ Len(x \o g) = Len(x) + Len(g)
  BY Joined
<1>3. /\ \A j \in 1..Len(x) : (x \o f)[j] = x[j] /\ (x \o g)[j] = x[j]
      /\ \A j \in 1..Len(f) : (x \o f)[Len(x) + j] = f[j]
      /\ \A j \in 1..Len(g) : (x \o g)[Len(x) + j] = g[j]
  BY Joined
<1>4. ASSUME Less(f, g) PROVE Less(x \o f, x \o g)
  <2>1. PICK i \in 1..Len(g) : /\ \A j \in 1..(i - 1) : j <= Len(f) /\ f[j] = g[j]
                               /\ i > Len(f) \/ f[i] < g[i]
    BY <1>4 DEF Less
  <2>2. \A j \in 1..(Len(x) + i - 1) : j <= Len(x \o f) /\ (x \o f)[j] = (x \o g)[j]
    <3> SUFFICES ASSUME NEW j \in 1..(Len(x) + i - 1)
                 PROVE  j <= Len(x \o f) /\ (x \o f)[j] = (x \o g)[j]
      OBVIOUS
    <3>1. CASE j <= Len(x)
      BY <1>1, <1>3, <3>1
    <3>2. CASE j > Len(x)
      <4>1. PICK k \in 1..(i - 1) : j = Len(x) + k
        <5>1. j - Len(x) \in 1..(i - 1) /\ j = Len(x) + (j - Len(x))
          BY <1>1, <3>2
        <5>. QED
          BY <5>1
      <4>. QED
        BY <1>1, <1>3, <2>1, <4>1
    <3>. QED
      BY <1>1, <3>1, <3>2
  <2>3. Len(x) + i \in 1..Len(x \o g)
        /\ (Len(x) + i > Len(x \o f) \/ (x \o f)[Len(x) + i] < (x \o g)[Len(x) + i])
    BY <1>1, <1>3, <2>1
  <2>4. PICK n \in 1..Len(x \o g) : n = Len(x) + i
    BY <2>3
  <2>5. /\ \A j \in 1..(n - 1) : j <= Len(x \o f) /\ (x \o f)[j] = (x \o g)[j]
        /\ n > Len(x \o f) \/ (x \o f)[n] < (x \o g)[n]
    BY <2>2, <2>3, <2>4
  <2>. QED
    BY <2>5 DEF Less
<1>5. ASSUME Less(x \o f, x \o g) PROVE Less(f, g)
  <2>1. PICK i \in 1..Len(x \o g) :
           /\ \A j \in 1..(i - 1) : j <= Len(x \o f) /\ (x \o f)[j] = (x \o g)[j]
           /\ i > Len(x \o f) \/ (x \o f)[i] < (x \o g)[i]
    BY <1>5 DEF Less
  <2>2. i > Len(x)
    <3>1. ASSUME i <= Len(x) PROVE FALSE
      <4>1. \A j \in 1..Len(x) : x[j] \in Int
        BY ElementOfSeq
      <4>. QED
        BY <1>1, <1>3, <2>1, <3>1, <4>1
    <3>. QED
      BY <1>1, <2>1, <3>1
  <2>3. PICK k \in 1..Len(g) : i = Len(x) + k
    <3>1. i - Len(x) \in 1..Len(g) /\ i = Len(x) + (i - Len(x))
      BY <1>1, <2>1, <2>2
    <3>. QED
      BY <3>1
  <2>4. \A j \in 1..(k - 1) : j <= Len(f) /\ f[j] = g[j]
    <3> SUFFICES ASSUME NEW j \in 1..(k - 1) PROVE j <= Len(f) /\ f[j] = g[j]
      OBVIOUS
    <3>1. Len(x) + j \in 1..(i - 1)
      BY <1>1, <2>3
    <3>2. Len(x) + j <= Len(x \o f) /\ (x \o f)[Len(x) + j] = (x \o g)[Len(x) + j]
      BY <2>1, <3>1
    <3>. QED
      BY <1>1, <1>3, <2>3, <3>2
  <2>5. k > Len(f) \/ f[k] < g[k]
    BY <1>1, <1>3, <2>1, <2>3
  <2>. QED
    BY <2>4, <2>5 DEF Less
<1>. QED
  BY <1>4, <1>5

LEMMA IntegersDecide ==
  ASSUME NEW x, IsInteger(x), NEW y, IsInteger(y), x # y,
         NEW f \in Seq(Int), NEW g \in Seq(Int), Less(x \o f, y \o g)
  PROVE  Under(x, y)
<1>1. /\ x \in Seq(Int) /\ y \in Seq(Int)
      /\ Len(x) \in Nat /\ Len(y) \in Nat /\ Len(f) \in Nat /\ Len(g) \in Nat
      /\ Len(x) >= 1 /\ Len(y) >= 1
      /\ Len(x \o f) = Len(x) + Len(f) /\ Len(y \o g) = Len(y) + Len(g)
  BY LenProperties, ConcatProperties DEF IsInteger
<1>2. /\ \A j \in 1..(Len(x) + Len(f)) : (x \o f)[j] = IF j <= Len(x) THEN x[j] ELSE f[j - Len(x)]
      /\ \A j \in 1..(Len(y) + Len(g)) : (y \o g)[j] = IF j <= Len(y) THEN y[j] ELSE g[j - Len(y)]
  BY <1>1, ConcatProperties
<1>3. /\ \A j \in 1..Len(x) : (x \o f)[j] = x[j]
      /\ \A j \in 1..Len(y) : (y \o g)[j] = y[j]
  BY <1>1, <1>2
<1>4. PICK i \in 1..Len(y \o g) :
         /\ \A j \in 1..(i - 1) : j <= Len(x \o f) /\ (x \o f)[j] = (y \o g)[j]
         /\ i > Len(x \o f) \/ (x \o f)[i] < (y \o g)[i]
  BY DEF Less
<1>5. CASE i = 1
  <2>1. 1 <= Len(x \o f) /\ (x \o f)[1] = x[1] /\ (y \o g)[1] = y[1]
    BY <1>1, <1>3
  <2>2. x[1] < y[1] /\ 1 \in 1..Len(x)
    BY <1>1, <1>4, <1>5, <2>1
  <2>. QED
    BY <1>1, <2>2 DEF Under
<1>6. CASE i > 1
  <2>1. 1 \in 1..(i - 1)
    BY <1>6
  <2>2. x[1] = y[1]
    BY <1>1, <1>3, <1>4, <2>1
  <2>3. Len(x) = Len(y)
    BY <2>2 DEF IsInteger
  <2>4. CASE i <= Len(x)
    <3>1. x[i] < y[i]
      BY <1>1, <1>3, <1>4, <2>3, <2>4
    <3>2. \A j \in 1..(i - 1) : x[j] = y[j]
      BY <1>1, <1>3, <1>4, <2>3, <2>4
    <3>3. i \in 1..Len(x)
      BY <1>4, <2>4
    <3>. QED
      BY <3>1, <3>2, <3>3, <2>3 DEF Under
  <2>5. CASE i > Len(x)
    <3>1. \A j \in 1..Len(x) : x[j] = y[j]
      <4> SUFFICES ASSUME NEW j \in 1..Len(x) PROVE x[j] = y[j]
        OBVIOUS
      <4>1. j \in 1..(i - 1) /\ j \in 1..Len(y)
        BY <1>1, <2>3, <2>5
      <4>. QED
        BY <1>3, <1>4, <4>1
    <3>2. x = y
      BY <1>1, <2>3, <3>1, SeqEqual
    <3>. QED
      BY <3>2
  <2>. QED
    BY <1>1, <1>4, <2>4, <2>5
<1>. QED
  BY <1>4, <1>5, <1>6

-----------------------------------------------------------------------------
(* Integers: one more, and one less. *)

LEMMA NoDescent ==
  ASSUME NEW B, B \subseteq Nat, \A n \in B : \E m \in B : m < n
  PROVE  B = {}
<1> SUFFICES ASSUME B # {} PROVE FALSE
  OBVIOUS
<1>1. PICK n \in B : \A m \in B : <<m, n>> \notin OpToRel(<, Nat)
  BY NatLessThanWellFounded, WFMin
<1>. QED
  BY <1>1 DEF OpToRel

LEMMA Greatest ==
  ASSUME NEW n \in Nat, NEW at, at \subseteq 1..n, at # {}
  PROVE  \E k \in at : \A j \in at : j <= k
<1> SUFFICES ASSUME \A k \in at : \E j \in at : j > k PROVE FALSE
  <2>1. \A j, k \in at : j \in Int /\ k \in Int
    OBVIOUS
  <2>. QED
    BY <2>1
<1>. DEFINE B == {m \in Nat : \E k \in at : m = n - k}
<1>1. ASSUME NEW m \in B PROVE \E i \in B : i < m
  <2>1. PICK k \in at : m = n - k
    OBVIOUS
  <2>2. PICK j \in at : j > k
    OBVIOUS
  <2>3. j \in 1..n /\ k \in 1..n
    OBVIOUS
  <2>4. n - j \in Nat /\ n - j < m
    BY <2>1, <2>2, <2>3
  <2>. QED
    BY <2>4
<1>2. B = {}
  BY <1>1, NoDescent
<1>3. PICK k : k \in at
  OBVIOUS
<1>4. n - k \in Nat
  BY <1>3
<1>. QED
  BY <1>2, <1>3, <1>4

LEMMA FilledIs ==
  ASSUME NEW h \in Lowest..Highest, NEW d \in 0..Last
  PROVE  /\ IsInteger(Filled(h, d)) /\ Filled(h, d)[1] = h
         /\ \A i \in 2..Len(Filled(h, d)) : Filled(h, d)[i] = d
<1>1. PICK n \in Nat : n = integerLength(h) /\ n >= 2
  BY LengthIs, RankAssumption
<1>2. PICK x : x = [i \in 1..n |-> IF i = 1 THEN h ELSE d] /\ x = Filled(h, d)
  BY <1>1 DEF Filled
<1>3. h \in Int /\ d \in Int
  BY RankAssumption DEF Last
<1>4. x \in [1..n -> Int]
  BY <1>2, <1>3
<1>5. x \in Seq(Int)
  BY <1>4, IsASeq
<1>6. Len(x) = n
  BY <1>4, <1>5, LenProperties
<1>7. x[1] = h /\ \A i \in 2..n : x[i] = d
  BY <1>1, <1>2
<1>8. IsInteger(x)
  BY <1>1, <1>5, <1>6, <1>7 DEF IsInteger
<1>. QED
  BY <1>2, <1>6, <1>7, <1>8

MayCarry(x, at, step) ==
    /\ at # {} /\ at \subseteq 2..Len(x)
    /\ \A k \in at : x[k] + step \in 0..Last

CarriesTo(x, at, step, y) ==
    /\ IsInteger(y) /\ Len(y) = Len(x)
    /\ \E k \in at : /\ y[k] = x[k] + step
                     /\ \A j \in 1..(k - 1) : y[j] = x[j]

LEMMA CarriedIs ==
  ASSUME NEW x, IsInteger(x), NEW at, NEW step \in Int, MayCarry(x, at, step),
         NEW wrapped \in 0..Last
  PROVE  CarriesTo(x, at, step, Carried(x, at, step, wrapped))
<1>. USE DEF MayCarry
<1>1. x \in Seq(Int) /\ Len(x) \in Nat /\ Len(x) >= 1 /\ DOMAIN x = 1..Len(x)
      /\ \A i \in 1..Len(x) : x[i] \in Int
  BY Lens, LenProperties DEF IsInteger
<1>2. PICK k : k = CHOOSE m \in at : \A j \in at : j <= m
  OBVIOUS
<1>3. k \in at
  <2>1. at \subseteq 1..Len(x)
    BY <1>1
  <2>2. \E m \in at : \A j \in at : j <= m
    BY <1>1, <2>1, Greatest
  <2>. QED
    BY <1>2, <2>2
<1>4. k \in 2..Len(x) /\ x[k] + step \in 0..Last
  BY <1>3
<1>5. PICK n \in Nat : n = Len(x)
  BY <1>1
<1>6. PICK y : y = [i \in 1..n |-> IF i < k THEN x[i] ELSE IF i = k THEN x[i] + step ELSE wrapped]
  OBVIOUS
<1>7. Carried(x, at, step, wrapped) = y
  <2>1. Carried(x, at, step, wrapped)
          = [i \in DOMAIN x |-> CASE i < k -> x[i]
                                  [] i = k -> x[i] + step
                                  [] i > k -> wrapped]
    BY <1>2 DEF Carried
  <2>2. \A i \in 1..n : (CASE i < k -> x[i]
                           [] i = k -> x[i] + step
                           [] i > k -> wrapped)
                        = IF i < k THEN x[i] ELSE IF i = k THEN x[i] + step ELSE wrapped
    <3> SUFFICES ASSUME NEW i \in 1..n
                 PROVE  (CASE i < k -> x[i]
                           [] i = k -> x[i] + step
                           [] i > k -> wrapped)
                        = IF i < k THEN x[i] ELSE IF i = k THEN x[i] + step ELSE wrapped
      OBVIOUS
    <3>1. k \in Int /\ i \in Int
      BY <1>4
    <3>2. CASE i < k
      BY <3>1, <3>2
    <3>3. CASE i = k
      BY <3>1, <3>3
    <3>4. CASE i > k
      BY <3>1, <3>4
    <3>. QED
      BY <3>1, <3>2, <3>3, <3>4
  <2>. QED
    BY <1>1, <1>5, <1>6, <2>1, <2>2
<1>8. \A i \in 1..n : y[i] \in Int
  BY <1>1, <1>4, <1>5, <1>6 DEF Last
<1>9. y \in Seq(Int) /\ Len(y) = n
  <2>1. y \in [1..n -> Int]
    BY <1>6, <1>8
  <2>2. y \in Seq(Int)
    BY <2>1, IsASeq
  <2>. QED
    BY <2>1, <2>2, LenProperties
<1>10. (\A j \in 1..(k - 1) : y[j] = x[j]) /\ y[k] = x[k] + step
  BY <1>4, <1>5, <1>6
<1>11. y[1] = x[1]
  BY <1>4, <1>10
<1>12. \A i \in 2..n : y[i] \in 0..Last
  <2> SUFFICES ASSUME NEW i \in 2..n PROVE y[i] \in 0..Last
    OBVIOUS
  <2>1. y[i] = IF i < k THEN x[i] ELSE IF i = k THEN x[i] + step ELSE wrapped
    BY <1>6
  <2>2. x[i] \in 0..Last
    BY <1>5 DEF IsInteger
  <2>. QED
    BY <1>4, <2>1, <2>2
<1>13. IsInteger(y)
  BY <1>1, <1>5, <1>9, <1>11, <1>12 DEF IsInteger
<1>. QED
  BY <1>3, <1>5, <1>7, <1>9, <1>10, <1>13 DEF CarriesTo

LEMMA Increment ==
  ASSUME NEW x, IsInteger(x)
  PROVE  \/ /\ incrementInteger(x) = Null
            /\ x[1] = Highest
            /\ \A i \in 2..Len(x) : x[i] = Last
         \/ /\ incrementInteger(x) # Null
            /\ IsInteger(incrementInteger(x)) /\ Under(x, incrementInteger(x))
<1>1. x \in Seq(Int) /\ Len(x) \in Nat /\ Len(x) >= 1 /\ x[1] \in Lowest..Highest
      /\ (\A i \in 2..Len(x) : x[i] \in 0..Last)
      /\ \A i \in 1..Len(x) : x[i] \in Int
  BY Lens DEF IsInteger
<1>2. PICK grows : grows = {i \in 2..Len(x) : x[i] # Last}
  OBVIOUS
<1>3. \A y : IsInteger(y) => y # Null
  BY Lens DEF IsInteger, Null
<1>4. CASE grows # {}
  <2>1. incrementInteger(x) = Carried(x, grows, 1, 0)
    BY <1>2, <1>4 DEF incrementInteger
  <2>2. \A k \in grows : k \in 2..Len(x) /\ x[k] + 1 \in 0..Last
    BY <1>1, <1>2, RankAssumption DEF Last
  <2>3. MayCarry(x, grows, 1)
    BY <1>2, <1>4, <2>2 DEF MayCarry
  <2>4. 0 \in 0..Last
    BY RankAssumption DEF Last
  <2>5. PICK y : y = incrementInteger(x)
    OBVIOUS
  <2>6. CarriesTo(x, grows, 1, y)
    BY <2>1, <2>3, <2>4, <2>5, CarriedIs
  <2>7. PICK k \in grows : y[k] = x[k] + 1 /\ \A j \in 1..(k - 1) : y[j] = x[j]
    BY <2>6 DEF CarriesTo
  <2>8. k \in 1..Len(x) /\ k <= Len(y) /\ x[k] < y[k] /\ \A j \in 1..(k - 1) : x[j] = y[j]
    <3>1. k \in 1..Len(x) /\ Len(y) = Len(x)
      BY <1>1, <2>2, <2>6 DEF CarriesTo
    <3>. QED
      BY <1>1, <2>7, <3>1
  <2>9. Under(x, y) /\ IsInteger(y)
    BY <2>6, <2>8 DEF Under, CarriesTo
  <2>. QED
    BY <1>3, <2>5, <2>9
<1>5. CASE grows = {} /\ x[1] < Highest
  <2>1. incrementInteger(x) = Filled(x[1] + 1, 0)
    BY <1>2, <1>5 DEF incrementInteger
  <2>2. PICK y : y = incrementInteger(x)
    OBVIOUS
  <2>3. x[1] + 1 \in Lowest..Highest /\ 0 \in 0..Last /\ x[1] \in Int
    BY <1>1, <1>5, RankAssumption DEF Last
  <2>4. IsInteger(y) /\ y[1] = x[1] + 1
    BY <2>1, <2>2, <2>3, FilledIs
  <2>5. 1 \in 1..Len(x) /\ 1 <= Len(y) /\ x[1] < y[1]
    BY <1>1, <2>3, <2>4 DEF IsInteger
  <2>6. Under(x, y)
    BY <2>5 DEF Under
  <2>. QED
    BY <1>3, <2>2, <2>4, <2>6
<1>6. CASE grows = {} /\ ~(x[1] < Highest)
  <2>1. incrementInteger(x) = Null
    BY <1>2, <1>6 DEF incrementInteger
  <2>2. x[1] = Highest
    BY <1>1, <1>6, RankAssumption
  <2>. QED
    BY <1>2, <1>6, <2>1, <2>2
<1>. QED
  BY <1>4, <1>5, <1>6

LEMMA Decrement ==
  ASSUME NEW x, IsInteger(x), x # SMALLEST_INTEGER
  PROVE  /\ decrementInteger(x) # Null
         /\ IsInteger(decrementInteger(x)) /\ Under(decrementInteger(x), x)
<1>1. x \in Seq(Int) /\ Len(x) \in Nat /\ Len(x) >= 1 /\ x[1] \in Lowest..Highest
      /\ (\A i \in 2..Len(x) : x[i] \in 0..Last)
      /\ \A i \in 1..Len(x) : x[i] \in Int
  BY Lens DEF IsInteger
<1>2. PICK falls : falls = {i \in 2..Len(x) : x[i] # 0}
  OBVIOUS
<1>3. \A y : IsInteger(y) => y # Null
  BY Lens DEF IsInteger, Null
<1>4. CASE falls # {}
  <2>1. decrementInteger(x) = Carried(x, falls, -1, Last)
    BY <1>2, <1>4 DEF decrementInteger
  <2>2. \A k \in falls : k \in 2..Len(x) /\ x[k] + (-1) \in 0..Last
    BY <1>1, <1>2, RankAssumption DEF Last
  <2>3. MayCarry(x, falls, -1)
    BY <1>2, <1>4, <2>2 DEF MayCarry
  <2>4. Last \in 0..Last /\ -1 \in Int
    BY RankAssumption DEF Last
  <2>5. PICK y : y = decrementInteger(x)
    OBVIOUS
  <2>6. CarriesTo(x, falls, -1, y)
    BY <2>1, <2>3, <2>4, <2>5, CarriedIs
  <2>7. PICK k \in falls : y[k] = x[k] + (-1) /\ \A j \in 1..(k - 1) : y[j] = x[j]
    BY <2>6 DEF CarriesTo
  <2>8. k \in 1..Len(y) /\ k <= Len(x) /\ y[k] < x[k]
    <3>1. k \in 1..Len(x) /\ Len(y) = Len(x)
      BY <1>1, <2>2, <2>6 DEF CarriesTo
    <3>. QED
      BY <1>1, <2>7, <3>1
  <2>9. Under(y, x) /\ IsInteger(y)
    BY <2>6, <2>7, <2>8 DEF Under, CarriesTo
  <2>. QED
    BY <1>3, <2>5, <2>9
<1>5. CASE falls = {} /\ x[1] > Lowest
  <2>1. decrementInteger(x) = Filled(x[1] - 1, Last)
    BY <1>2, <1>5 DEF decrementInteger
  <2>2. PICK y : y = decrementInteger(x)
    OBVIOUS
  <2>3. x[1] - 1 \in Lowest..Highest /\ Last \in 0..Last /\ x[1] \in Int
    BY <1>1, <1>5, RankAssumption DEF Last
  <2>4. IsInteger(y) /\ y[1] = x[1] - 1
    BY <2>1, <2>2, <2>3, FilledIs
  <2>5. 1 \in 1..Len(y) /\ 1 <= Len(x) /\ y[1] < x[1]
    <3>1. Len(y) \in Nat /\ Len(y) >= 1
      BY <2>4, Lens DEF IsInteger
    <3>. QED
      BY <1>1, <2>3, <2>4, <3>1
  <2>6. Under(y, x)
    BY <2>5 DEF Under
  <2>. QED
    BY <1>3, <2>2, <2>4, <2>6
<1>6. CASE falls = {} /\ ~(x[1] > Lowest)
  <2>1. x[1] = Lowest
    BY <1>1, <1>6, RankAssumption
  <2>2. \A i \in 2..Len(x) : x[i] = 0
    BY <1>2, <1>6
  <2>3. PICK y : y = SMALLEST_INTEGER
    OBVIOUS
  <2>4. Lowest \in Lowest..Highest /\ 0 \in 0..Last
    BY RankAssumption DEF Last
  <2>5. IsInteger(y) /\ y[1] = Lowest /\ \A i \in 2..Len(y) : y[i] = 0
    BY <2>3, <2>4, FilledIs DEF SMALLEST_INTEGER
  <2>6. y \in Seq(Int) /\ Len(x) = Len(y)
    BY <2>1, <2>5 DEF IsInteger
  <2>7. \A i \in 1..Len(x) : x[i] = y[i]
    BY <2>1, <2>2, <2>5, <2>6
  <2>8. x = y
    BY <1>1, <2>6, <2>7, SameSeq
  <2>. QED
    BY <2>3, <2>8
<1>. QED
  BY <1>4, <1>5, <1>6

-----------------------------------------------------------------------------
(* Fractions: halfway to the top. *)

LEMMA Least ==
  ASSUME NEW B, B \subseteq Nat, B # {}
  PROVE  \E k \in B : \A j \in B : k <= j
<1> SUFFICES ASSUME \A k \in B : \E j \in B : ~(k <= j) PROVE FALSE
  OBVIOUS
<1>1. \A k \in B : \E j \in B : j < k
  <2>1. \A j, k \in B : ~(k <= j) => j < k
    OBVIOUS
  <2>. QED
    BY <2>1
<1>. QED
  BY <1>1, NoDescent

\* t is s and then d.
Ends(t, s, d) ==
    /\ t \in Seq(Int) /\ Len(t) = Len(s) + 1
    /\ \A j \in 1..Len(s) : t[j] = s[j]
    /\ t[Len(s) + 1] = d

LEMMA Appended ==
  ASSUME NEW s \in Seq(Int), NEW d \in Int
  PROVE  Ends(Append(s, d), s, d) /\ Ends(s \o <<d>>, s, d)
<1>1. Ends(Append(s, d), s, d)
  BY AppendProperties DEF Ends
<1>2. <<d>> \in Seq(Int) /\ Len(<<d>>) = 1 /\ <<d>>[1] = d
  OBVIOUS
<1>3. PICK t : t = s \o <<d>>
  OBVIOUS
<1>4. /\ t \in Seq(Int) /\ Len(t) = Len(s) + Len(<<d>>)
      /\ \A i \in 1..Len(s) : t[i] = s[i]
      /\ \A i \in 1..Len(<<d>>) : t[Len(s) + i] = <<d>>[i]
  BY <1>2, <1>3, Joined
<1>5. t[Len(s) + 1] = d
  BY <1>2, <1>4
<1>. QED
  BY <1>1, <1>2, <1>3, <1>4, <1>5 DEF Ends

LEMMA DigitIs ==
  ASSUME NEW f, f \in Seq(Int), Digits(f)
  PROVE  /\ \A i \in Nat \ {0} : Digit(f, i) \in 0..Last
         /\ \A i \in 1..Len(f) : Digit(f, i) = f[i]
         /\ \A i \in Nat : i > Len(f) => Digit(f, i) = 0
<1>1. Len(f) \in Nat
  BY Lens
<1>2. 0 \in 0..Last
  BY RankAssumption DEF Last
<1>. QED
  BY <1>1, <1>2 DEF Digit, Digits

LEMMA HalfwayIs ==
  ASSUME NEW low \in Nat, NEW high \in Nat, high - low > 1
  PROVE  Halfway(low, high) \in Nat /\ low < Halfway(low, high) /\ Halfway(low, high) < high
BY DEF Halfway

\* Where a, padded with zeros, is first different it is smaller.
LEMMA LessPadded ==
  ASSUME NEW a \in Seq(Int), NEW t \in Seq(Int), NEW k \in 1..Len(t),
         \A j \in 1..(k - 1) : Digit(a, j) = t[j], Digit(a, k) < t[k]
  PROVE  Less(a, t)
<1>1. Len(a) \in Nat /\ Len(t) \in Nat
  BY Lens
<1>2. CASE k <= Len(a)
  <2>1. a[k] < t[k]
    BY <1>1, <1>2 DEF Digit
  <2>2. \A j \in 1..(k - 1) : j <= Len(a) /\ a[j] = t[j]
    BY <1>1, <1>2 DEF Digit
  <2>. QED
    BY <2>1, <2>2 DEF Less
<1>3. CASE k > Len(a)
  <2>1. PICK i : i = Len(a) + 1
    OBVIOUS
  <2>2. i \in 1..Len(t) /\ i > Len(a)
    BY <1>1, <1>3, <2>1
  <2>3. \A j \in 1..(i - 1) : j <= Len(a) /\ a[j] = t[j]
    BY <1>1, <1>3, <2>1 DEF Digit
  <2>. QED
    BY <2>2, <2>3 DEF Less
<1>. QED
  BY <1>1, <1>2, <1>3

LEMMA MidpointToOneIs ==
  ASSUME NEW a, IsFraction(a)
  PROVE  /\ IsFraction(MidpointToOne(a)) /\ MidpointToOne(a) # <<>>
         /\ Less(a, MidpointToOne(a))
<1>1. a \in Seq(Int) /\ Digits(a) /\ Len(a) \in Nat
  BY Lens DEF IsFraction
<1>2. PICK n \in Nat : n = Len(a)
  BY <1>1
<1>3. Base \in Nat /\ Base >= 2 /\ Last = Base - 1 /\ Last \in Nat /\ Last > 0
  BY RankAssumption DEF Last
<1>4. \E k \in 1..(n + 1) : Digit(a, k) < Last /\ \A j \in 1..(k - 1) : ~(Digit(a, j) < Last)
  <2>. DEFINE B == {i \in Nat : i >= 1 /\ Digit(a, i) < Last}
  <2>1. n + 1 \in B
    <3>1. n + 1 > Len(a) /\ n + 1 \in Nat
      BY <1>2
    <3>2. Digit(a, n + 1) = 0
      BY <1>1, <3>1, DigitIs
    <3>. QED
      BY <1>3, <3>1, <3>2
  <2>2. PICK k \in B : \A j \in B : k <= j
    BY <2>1, Least
  <2>3. k \in 1..(n + 1) /\ Digit(a, k) < Last
    BY <2>1, <2>2
  <2>4. \A j \in 1..(k - 1) : ~(Digit(a, j) < Last)
    BY <2>2
  <2>. QED
    BY <2>3, <2>4
<1>5. PICK k : k = CHOOSE i \in 1..(Len(a) + 1) :
                       Digit(a, i) < Last /\ \A j \in 1..(i - 1) : ~(Digit(a, j) < Last)
  OBVIOUS
<1>6. k \in 1..(n + 1) /\ Digit(a, k) < Last
  BY <1>2, <1>4, <1>5
<1>7. MidpointToOne(a) = SubSeq(a, 1, k - 1) \o <<Halfway(Digit(a, k), Base)>>
  BY <1>5, Zenon DEF MidpointToOne, First
<1>8. PICK d : d = Halfway(Digit(a, k), Base)
  OBVIOUS
<1>9. Digit(a, k) \in Nat /\ d \in 0..Last /\ Digit(a, k) < d /\ d # 0
  <2>1. Digit(a, k) \in 0..Last
    BY <1>1, <1>6, DigitIs
  <2>2. Digit(a, k) \in Nat /\ Base - Digit(a, k) > 1
    BY <1>3, <1>6, <2>1
  <2>3. d \in Nat /\ Digit(a, k) < d /\ d < Base
    BY <1>3, <1>8, <2>2, HalfwayIs
  <2>. QED
    BY <1>3, <2>2, <2>3
<1>10. PICK p : p = SubSeq(a, 1, k - 1)
  OBVIOUS
<1>11. p \in Seq(Int) /\ Len(p) = k - 1 /\ \A j \in 1..(k - 1) : p[j] = a[j]
  <2>1. k - 1 \in Nat /\ k - 1 <= Len(a)
    BY <1>2, <1>6
  <2>. QED
    BY <1>1, <1>10, <2>1, Prefix
<1>12. PICK t : t = MidpointToOne(a) /\ t = p \o <<d>>
  BY <1>7, <1>8, <1>10
<1>13. Ends(t, p, d)
  BY <1>9, <1>11, <1>12, Appended
<1>14. t \in Seq(Int) /\ Len(t) = k /\ (\A j \in 1..(k - 1) : t[j] = a[j]) /\ t[k] = d
  <2>1. Len(p) + 1 = k
    BY <1>6, <1>11
  <2>. QED
    BY <1>11, <1>13, <2>1 DEF Ends
<1>15. \A j \in 1..(k - 1) : j \in 1..Len(a)
  BY <1>2, <1>6
<1>16. Digits(t)
  <2> SUFFICES ASSUME NEW j \in 1..k PROVE t[j] \in 0..Last
    BY <1>14 DEF Digits
  <2>1. CASE j = k
    BY <1>9, <1>14, <2>1
  <2>2. CASE j # k
    <3>1. j \in 1..(k - 1)
      BY <1>6, <2>2
    <3>. QED
      BY <1>1, <1>14, <1>15, <3>1 DEF Digits
  <2>. QED
    BY <2>1, <2>2
<1>17. IsFraction(t) /\ t # <<>>
  BY <1>6, <1>9, <1>14, <1>16, Lens DEF IsFraction
<1>18. Less(a, t)
  <2>1. \A j \in 1..(k - 1) : Digit(a, j) = t[j]
    BY <1>1, <1>14, <1>15, DigitIs
  <2>2. k \in 1..Len(t) /\ Digit(a, k) < t[k]
    BY <1>6, <1>9, <1>14
  <2>. QED
    BY <1>1, <1>14, <2>1, <2>2, LessPadded
<1>. QED
  BY <1>12, <1>17, <1>18

\* Between a and a greater b there is a place where they first differ.
LEMMA DifferenceIs ==
  ASSUME NEW a, IsFraction(a), NEW b, IsFraction(b), Less(a, b)
  PROVE  /\ Difference(a, b) \in 1..Len(b)
         /\ \A j \in 1..(Difference(a, b) - 1) : Digit(a, j) = b[j]
         /\ Digit(a, Difference(a, b)) < b[Difference(a, b)]
<1>1. /\ a \in Seq(Int) /\ Digits(a) /\ Len(a) \in Nat
      /\ b \in Seq(Int) /\ Digits(b) /\ Len(b) \in Nat
      /\ b # <<>> => b[Len(b)] # 0
  BY Lens DEF IsFraction
<1>2. PICK i \in 1..Len(b) : /\ \A j \in 1..(i - 1) : j <= Len(a) /\ a[j] = b[j]
                             /\ i > Len(a) \/ a[i] < b[i]
  BY DEF Less
<1>3. \A j \in 1..(i - 1) : Digit(a, j) = b[j]
  <2> SUFFICES ASSUME NEW j \in 1..(i - 1) PROVE Digit(a, j) = b[j]
    OBVIOUS
  <2>1. j <= Len(a) /\ a[j] = b[j]
    BY <1>2
  <2>. QED
    BY <2>1 DEF Digit
<1>4. \A j \in 1..Len(b) : b[j] \in 0..Last /\ Digit(a, j) \in 0..Last /\ Last \in Nat
  <2>1. \A j \in 1..Len(b) : b[j] \in 0..Last
    BY <1>1 DEF Digits
  <2>2. \A j \in Nat \ {0} : Digit(a, j) \in 0..Last
    BY <1>1, DigitIs
  <2>3. \A j \in 1..Len(b) : j \in Nat \ {0}
    OBVIOUS
  <2>4. Last \in Nat
    BY RankAssumption DEF Last
  <2>. QED
    BY <2>1, <2>2, <2>3, <2>4
<1>. DEFINE P(j) == j > Len(b) \/ Digit(a, j) # b[j]
<1>5. \E k \in i..Len(b) : Digit(a, k) # b[k]
  <2>1. CASE i > Len(a)
    <3>1. Len(b) \in i..Len(b) /\ Len(b) > Len(a)
      BY <1>1, <1>2, <2>1
    <3>2. Digit(a, Len(b)) = 0
      BY <1>1, <3>1, DigitIs
    <3>3. b[Len(b)] # 0
      BY <1>1, <1>2, Lens
    <3>. QED
      BY <3>1, <3>2, <3>3
  <2>2. CASE i <= Len(a)
    <3>1. Digit(a, i) = a[i] /\ a[i] < b[i] /\ a[i] \in Int /\ b[i] \in Int
      BY <1>1, <1>2, <2>2, DigitIs, Lens
    <3>. QED
      BY <1>2, <3>1
  <2>. QED
    BY <1>1, <2>1, <2>2
<1>. DEFINE B == {k \in Nat : k \in i..Len(b) /\ Digit(a, k) # b[k]}
<1>6. B # {}
  BY <1>5
<1>7. PICK k \in B : \A j \in B : k <= j
  BY <1>6, Least
<1>8. k \in 1..Len(b) /\ k >= i /\ Digit(a, k) # b[k]
  BY <1>7
<1>9. \A j \in 1..(k - 1) : j <= Len(b) /\ Digit(a, j) = b[j]
  <2> SUFFICES ASSUME NEW j \in 1..(k - 1) PROVE j <= Len(b) /\ Digit(a, j) = b[j]
    OBVIOUS
  <2>1. j \in Nat /\ j < k /\ j <= Len(b)
    BY <1>1, <1>8
  <2>2. j \notin B
    BY <1>7, <2>1
  <2>3. CASE j < i
    BY <1>3, <2>1, <2>3
  <2>4. CASE j >= i
    BY <1>1, <2>1, <2>2, <2>4
  <2>. QED
    BY <2>1, <2>3, <2>4
<1>10. \A m \in 1..(Len(b) + 1) :
          (P(m) /\ \A j \in 1..(m - 1) : ~P(j)) <=> m = k
  <2> SUFFICES ASSUME NEW m \in 1..(Len(b) + 1)
               PROVE  (P(m) /\ \A j \in 1..(m - 1) : ~P(j)) <=> m = k
    OBVIOUS
  <2>1. P(k) /\ \A j \in 1..(k - 1) : ~P(j)
    BY <1>1, <1>8, <1>9
  <2>2. m < k => ~P(m)
    BY <1>8, <2>1
  <2>3. m > k => k \in 1..(m - 1)
    BY <1>8
  <2>. QED
    BY <1>8, <2>1, <2>2, <2>3
<1>11. Difference(a, b) = k
  <2>1. Difference(a, b) = CHOOSE m \in 1..(Len(b) + 1) : P(m) /\ \A j \in 1..(m - 1) : ~P(j)
    BY Zenon DEF Difference, First
  <2>2. k \in 1..(Len(b) + 1)
    BY <1>1, <1>8
  <2>. HIDE DEF P
  <2>. QED
    BY <1>10, <2>1, <2>2
<1>12. Digit(a, k) < b[k]
  <2>1. CASE k = i /\ i <= Len(a)
    BY <1>1, <1>2, <2>1, DigitIs
  <2>2. CASE k > i \/ i > Len(a)
    <3>1. k > Len(a)
      <4>1. CASE i > Len(a)
        BY <1>1, <1>8, <4>1
      <4>2. CASE k > i /\ i <= Len(a)
        <5>1. i \in 1..(k - 1)
          BY <1>8, <4>2
        <5>2. Digit(a, i) = b[i] /\ Digit(a, i) = a[i] /\ a[i] < b[i] /\ a[i] \in Int
          BY <1>1, <1>2, <1>9, <4>2, <5>1, DigitIs, Lens
        <5>. QED
          BY <5>2
      <4>. QED
        BY <1>1, <1>8, <2>2, <4>1, <4>2
    <3>2. Digit(a, k) = 0
      BY <1>1, <1>8, <3>1, DigitIs
    <3>. QED
      BY <1>4, <1>8, <3>2
  <2>. QED
    BY <1>1, <1>8, <2>1, <2>2
<1>. QED
  BY <1>8, <1>9, <1>11, <1>12

-----------------------------------------------------------------------------
(* Fractions: halfway between two. *)

\* b cut at k and ended with d.
LEMMA CutIs ==
  ASSUME NEW a, IsFraction(a), NEW b, IsFraction(b), NEW k \in 1..Len(b),
         \A j \in 1..(k - 1) : Digit(a, j) = b[j],
         NEW d \in Int, Digit(a, k) < d, d <= b[k], d < b[k] \/ Len(b) > k,
         NEW t, Ends(t, SubSeq(b, 1, k - 1), d)
  PROVE  IsFraction(t) /\ t # <<>> /\ Less(a, t) /\ Less(t, b)
<1>1. /\ a \in Seq(Int) /\ Digits(a) /\ Len(a) \in Nat
      /\ b \in Seq(Int) /\ Digits(b) /\ Len(b) \in Nat
  BY Lens DEF IsFraction
<1>2. PICK p : p = SubSeq(b, 1, k - 1)
  OBVIOUS
<1>3. p \in Seq(Int) /\ Len(p) = k - 1 /\ \A j \in 1..(k - 1) : p[j] = b[j]
  <2>1. k - 1 \in Nat /\ k - 1 <= Len(b)
    BY <1>1
  <2>. QED
    BY <1>1, <1>2, <2>1, Prefix
<1>4. t \in Seq(Int) /\ Len(t) = k /\ (\A j \in 1..(k - 1) : t[j] = b[j]) /\ t[k] = d
  <2>1. Len(p) + 1 = k
    BY <1>3
  <2>. QED
    BY <1>2, <1>3, <2>1 DEF Ends
<1>5. Digit(a, k) \in 0..Last /\ b[k] \in 0..Last /\ Last \in Nat
  <2>1. k \in Nat \ {0}
    OBVIOUS
  <2>. QED
    BY <1>1, <2>1, DigitIs, RankAssumption DEF Digits, Last
<1>6. d \in 0..Last /\ d # 0
  BY <1>5
<1>7. IsFraction(t) /\ t # <<>>
  <2>1. Digits(t)
    <3> SUFFICES ASSUME NEW j \in 1..k PROVE t[j] \in 0..Last
      BY <1>4 DEF Digits
    <3>1. CASE j = k
      BY <1>4, <1>6, <3>1
    <3>2. CASE j # k
      <4>1. j \in 1..(k - 1) /\ j \in 1..Len(b)
        BY <1>1, <3>2
      <4>. QED
        BY <1>1, <1>4, <4>1 DEF Digits
    <3>. QED
      BY <3>1, <3>2
  <2>. QED
    BY <1>4, <1>6, <2>1, Lens DEF IsFraction
<1>8. Less(a, t)
  <2>1. \A j \in 1..(k - 1) : Digit(a, j) = t[j]
    BY <1>4
  <2>2. k \in 1..Len(t) /\ Digit(a, k) < t[k]
    BY <1>4
  <2>. QED
    BY <1>1, <1>4, <2>1, <2>2, LessPadded
<1>9. Less(t, b)
  <2>1. CASE d < b[k]
    <3>1. k > Len(t) \/ t[k] < b[k]
      BY <1>4, <2>1
    <3>2. \A j \in 1..(k - 1) : j <= Len(t) /\ t[j] = b[j]
      BY <1>4
    <3>. QED
      BY <3>1, <3>2 DEF Less
  <2>2. CASE d = b[k] /\ Len(b) > k
    <3>1. PICK i : i = k + 1
      OBVIOUS
    <3>2. i \in 1..Len(b) /\ i > Len(t)
      BY <1>1, <1>4, <2>2, <3>1
    <3>3. \A j \in 1..(i - 1) : j <= Len(t) /\ t[j] = b[j]
      BY <1>4, <2>2, <3>1
    <3>. QED
      BY <3>2, <3>3 DEF Less
  <2>. QED
    BY <1>5, <2>1, <2>2
<1>. QED
  BY <1>7, <1>8, <1>9

\* a made longer: what it shares with b, its digit at k, and halfway to the top
\* of what follows.
Longer(a, b, k) ==
    Append(SubSeq(b, 1, k - 1), Digit(a, k)) \o MidpointToOne(SubSeq(a, k + 1, Len(a)))

LEMMA RestIs ==
  ASSUME NEW a, IsFraction(a), NEW k \in Nat
  PROVE  /\ IsFraction(SubSeq(a, k + 1, Len(a)))
         /\ k < Len(a) => /\ Len(SubSeq(a, k + 1, Len(a))) = Len(a) - k
                          /\ \A i \in 1..(Len(a) - k) : SubSeq(a, k + 1, Len(a))[i] = a[k + i]
<1>1. a \in Seq(Int) /\ Digits(a) /\ Len(a) \in Nat /\ (a # <<>> => a[Len(a)] # 0)
  BY Lens DEF IsFraction
<1>2. PICK c : c = SubSeq(a, k + 1, Len(a))
  OBVIOUS
<1>3. CASE k < Len(a)
  <2>1. c \in Seq(Int) /\ Len(c) = Len(a) - k /\ \A i \in 1..(Len(a) - k) : c[i] = a[k + i]
    BY <1>1, <1>2, <1>3, Slice
  <2>2. Digits(c)
    <3> SUFFICES ASSUME NEW i \in 1..(Len(a) - k) PROVE c[i] \in 0..Last
      BY <2>1 DEF Digits
    <3>1. k + i \in 1..Len(a)
      BY <1>1
    <3>. QED
      BY <1>1, <2>1, <3>1 DEF Digits
  <2>3. c[Len(c)] # 0
    <3>1. Len(a) - k \in 1..(Len(a) - k) /\ k + (Len(a) - k) = Len(a) /\ a # <<>>
      BY <1>1, <1>3, Lens
    <3>2. c[Len(a) - k] = a[k + (Len(a) - k)]
      BY <2>1, <3>1
    <3>. QED
      BY <1>1, <2>1, <3>1, <3>2
  <2>. QED
    BY <1>2, <2>1, <2>2, <2>3 DEF IsFraction
<1>4. CASE k >= Len(a)
  <2>1. \A i \in (k + 1)..Len(a) : a[i] \in Int
    BY <1>1, <1>4
  <2>2. k + 1 \in Int /\ Len(a) \in Int /\ ~(k + 1 <= Len(a))
    BY <1>1, <1>4
  <2>3. c \in Seq(Int) /\ Len(c) = IF k + 1 <= Len(a) THEN Len(a) - (k + 1) + 1 ELSE 0
    BY <1>2, <2>1, <2>2, SubSeqProperties
  <2>4. c = <<>>
    BY <2>2, <2>3, Lens
  <2>5. IsFraction(<<>>)
    BY EmptySeq DEF IsFraction, Digits
  <2>6. ~(k < Len(a))
    BY <1>1, <1>4
  <2>7. IsFraction(c)
    BY <2>4, <2>5
  <2>. QED
    BY <1>2, <2>6, <2>7
<1>. QED
  BY <1>1, <1>3, <1>4

LEMMA LongerIs ==
  ASSUME NEW a, IsFraction(a), NEW b, IsFraction(b), NEW k \in 1..Len(b),
         \A j \in 1..(k - 1) : Digit(a, j) = b[j], Digit(a, k) < b[k]
  PROVE  IsFraction(Longer(a, b, k)) /\ Longer(a, b, k) # <<>>
         /\ Less(a, Longer(a, b, k)) /\ Less(Longer(a, b, k), b)
<1>1. /\ a \in Seq(Int) /\ Digits(a) /\ Len(a) \in Nat
      /\ b \in Seq(Int) /\ Digits(b) /\ Len(b) \in Nat /\ k \in Nat \ {0}
  BY Lens DEF IsFraction
<1>2. PICK low : low = Digit(a, k)
  OBVIOUS
<1>3. low \in 0..Last /\ low \in Int /\ low < b[k]
  <2>1. Last \in Int
    BY RankAssumption DEF Last
  <2>. QED
    BY <1>1, <1>2, <2>1, DigitIs
<1>4. PICK p : p = SubSeq(b, 1, k - 1)
  OBVIOUS
<1>5. p \in Seq(Int) /\ Len(p) = k - 1 /\ \A j \in 1..(k - 1) : p[j] = b[j]
  <2>1. k - 1 \in Nat /\ k - 1 <= Len(b)
    BY <1>1
  <2>. QED
    BY <1>1, <1>4, <2>1, Prefix
<1>6. PICK u : u = Append(p, low)
  OBVIOUS
<1>7. u \in Seq(Int) /\ Len(u) = k /\ (\A j \in 1..(k - 1) : u[j] = b[j]) /\ u[k] = low
  <2>1. Ends(u, p, low)
    BY <1>3, <1>5, <1>6, Appended
  <2>2. Len(p) + 1 = k
    BY <1>1, <1>5
  <2>. QED
    BY <1>5, <2>1, <2>2 DEF Ends
<1>8. PICK c : c = SubSeq(a, k + 1, Len(a))
  OBVIOUS
<1>9. /\ IsFraction(c)
      /\ k < Len(a) => Len(c) = Len(a) - k /\ \A i \in 1..(Len(a) - k) : c[i] = a[k + i]
  BY <1>1, <1>8, RestIs
<1>10. PICK e : e = MidpointToOne(c)
  OBVIOUS
<1>11. /\ IsFraction(e) /\ e # <<>> /\ Less(c, e) /\ e \in Seq(Int) /\ Digits(e)
       /\ Len(e) \in Nat /\ Len(e) >= 1 /\ e[Len(e)] # 0
  <2>1. IsFraction(e) /\ e # <<>> /\ Less(c, e)
    BY <1>9, <1>10, MidpointToOneIs
  <2>. QED
    BY <2>1, Lens DEF IsFraction
<1>12. PICK t : t = u \o e /\ t = Longer(a, b, k)
  BY <1>2, <1>4, <1>6, <1>8, <1>10 DEF Longer
<1>13. /\ t \in Seq(Int) /\ Len(t) = k + Len(e)
       /\ \A j \in 1..k : t[j] = u[j]
       /\ \A j \in 1..Len(e) : t[k + j] = e[j]
  <2>1. /\ t \in Seq(Int) /\ Len(t) = Len(u) + Len(e)
        /\ \A j \in 1..Len(u) : t[j] = u[j]
        /\ \A j \in 1..Len(e) : t[Len(u) + j] = e[j]
    <3>1. u \in Seq(Int) /\ e \in Seq(Int) /\ t = u \o e
      BY <1>7, <1>11, <1>12
    <3>. QED
      BY <3>1, Joined
  <2>. QED
    BY <1>7, <2>1
<1>14. (\A j \in 1..(k - 1) : t[j] = b[j]) /\ t[k] = low
  BY <1>1, <1>7, <1>13
<1>15. IsFraction(t) /\ t # <<>>
  <2>1. Digits(t)
    <3> SUFFICES ASSUME NEW j \in 1..(k + Len(e)) PROVE t[j] \in 0..Last
      BY <1>13 DEF Digits
    <3>1. CASE j < k
      <4>1. j \in 1..(k - 1) /\ j \in 1..Len(b)
        BY <1>1, <3>1
      <4>. QED
        BY <1>1, <1>14, <4>1 DEF Digits
    <3>2. CASE j = k
      BY <1>3, <1>14, <3>2
    <3>3. CASE j > k
      <4>1. PICK i \in 1..Len(e) : j = k + i
        <5>1. j - k \in 1..Len(e) /\ j = k + (j - k)
          BY <1>1, <1>11, <3>3
        <5>. QED
          BY <5>1
      <4>. QED
        BY <1>11, <1>13, <4>1 DEF Digits
    <3>. QED
      BY <1>1, <3>1, <3>2, <3>3
  <2>2. t[Len(t)] = e[Len(e)]
    <3>1. Len(e) \in 1..Len(e)
      BY <1>11
    <3>. QED
      BY <1>13, <3>1
  <2>3. Len(t) # 0
    BY <1>1, <1>11, <1>13
  <2>. QED
    BY <1>11, <1>13, <2>1, <2>2, <2>3, Lens DEF IsFraction
<1>16. Less(t, b)
  <2>1. k > Len(t) \/ t[k] < b[k]
    BY <1>3, <1>14
  <2>2. \A j \in 1..(k - 1) : j <= Len(t) /\ t[j] = b[j]
    BY <1>11, <1>13, <1>14
  <2>. QED
    BY <2>1, <2>2 DEF Less
<1>17. \A j \in 1..k : j <= Len(a) => a[j] = u[j]
  <2> SUFFICES ASSUME NEW j \in 1..k, j <= Len(a) PROVE a[j] = u[j]
    OBVIOUS
  <2>1. Digit(a, j) = a[j]
    BY DEF Digit
  <2>2. CASE j = k
    BY <1>2, <1>7, <2>1, <2>2
  <2>3. CASE j # k
    <3>1. j \in 1..(k - 1)
      BY <1>1, <2>3
    <3>. QED
      BY <1>7, <2>1, <3>1
  <2>. QED
    BY <2>2, <2>3
<1>18. CASE k >= Len(a)
  <2>1. PICK i : i = Len(a) + 1
    OBVIOUS
  <2>2. i \in 1..Len(t) /\ i > Len(a)
    <3>1. Len(a) \in Nat /\ k \in Nat /\ Len(t) >= k + 1
      BY <1>1, <1>11, <1>13
    <3>. QED
      BY <1>18, <2>1, <3>1
  <2>3. \A j \in 1..(i - 1) : j <= Len(a) /\ a[j] = t[j]
    <3> SUFFICES ASSUME NEW j \in 1..Len(a) PROVE a[j] = t[j]
      BY <1>1, <2>1
    <3>1. j \in 1..k /\ j <= Len(a)
      BY <1>1, <1>18
    <3>. QED
      BY <1>13, <1>17, <3>1
  <2>. QED
    BY <1>12, <1>15, <1>16, <2>2, <2>3 DEF Less
<1>19. CASE k < Len(a)
  <2>1. c \in Seq(Int) /\ Len(c) = Len(a) - k /\ \A i \in 1..(Len(a) - k) : c[i] = a[k + i]
    BY <1>9, <1>19 DEF IsFraction
  <2>2. PICK v : v = u \o c
    OBVIOUS
  <2>3. /\ v \in Seq(Int) /\ Len(v) = Len(u) + Len(c)
        /\ \A j \in 1..Len(u) : v[j] = u[j]
        /\ \A j \in 1..Len(c) : v[Len(u) + j] = c[j]
    BY <1>7, <2>1, <2>2, Joined
  <2>4. Len(v) = Len(a)
    BY <1>1, <1>7, <2>1, <2>3
  <2>5. \A j \in 1..Len(v) : v[j] = a[j]
    <3> SUFFICES ASSUME NEW j \in 1..Len(a) PROVE v[j] = a[j]
      BY <2>4
    <3>1. CASE j <= k
      BY <1>7, <1>17, <2>3, <3>1
    <3>2. CASE j > k
      <4>1. PICK i \in 1..(Len(a) - k) : j = k + i
        <5>1. j - k \in 1..(Len(a) - k) /\ j = k + (j - k)
          BY <1>1, <3>2
        <5>. QED
          BY <5>1
      <4>. QED
        BY <1>7, <2>1, <2>3, <4>1
    <3>. QED
      BY <1>1, <3>1, <3>2
  <2>6. v = a
    BY <1>1, <2>3, <2>4, <2>5, SameSeq
  <2>7. Less(u \o c, u \o e)
    BY <1>7, <1>11, <2>1, TailsDecide
  <2>. QED
    BY <1>12, <1>15, <1>16, <2>2, <2>6, <2>7
<1>. QED
  BY <1>1, <1>18, <1>19

LEMMA MidpointIs ==
  ASSUME NEW a, IsFraction(a), NEW b, IsFraction(b), Less(a, b)
  PROVE  /\ IsFraction(midpoint(a, b)) /\ midpoint(a, b) # <<>>
         /\ Less(a, midpoint(a, b)) /\ Less(midpoint(a, b), b)
<1>1. PICK k : k = Difference(a, b)
  OBVIOUS
<1>2. /\ k \in 1..Len(b) /\ Digit(a, k) < b[k]
      /\ \A j \in 1..(k - 1) : Digit(a, j) = b[j]
  BY <1>1, DifferenceIs
<1>3. a \in Seq(Int) /\ Digits(a) /\ b \in Seq(Int) /\ Digits(b) /\ Len(b) \in Nat
  BY Lens DEF IsFraction
<1>4. PICK low : low = Digit(a, k)
  OBVIOUS
<1>5. PICK high : high = Digit(b, k)
  OBVIOUS
<1>6. /\ low \in Nat /\ high \in Nat /\ high = b[k] /\ low < high
  <2>1. k \in Nat \ {0} /\ Last \in Nat
    BY <1>2, RankAssumption DEF Last
  <2>. QED
    BY <1>2, <1>3, <1>4, <1>5, <2>1, DigitIs
<1>7. PICK p : p = SubSeq(b, 1, k - 1)
  OBVIOUS
<1>8. p \in Seq(Int)
  <2>1. k - 1 \in Nat /\ k - 1 <= Len(b)
    BY <1>2, <1>3
  <2>. QED
    BY <1>3, <1>7, <2>1, Prefix
<1>9. midpoint(a, b) = CASE high - low > 1 -> Append(p, Halfway(low, high))
                         [] high - low <= 1 /\ Len(b) > k -> Append(p, high)
                         [] OTHER -> Append(p, low) \o MidpointToOne(SubSeq(a, k + 1, Len(a)))
  BY <1>1, <1>4, <1>5, <1>7 DEF midpoint
<1>10. CASE high - low > 1
  <2>1. PICK d : d = Halfway(low, high)
    OBVIOUS
  <2>2. d \in Nat /\ low < d /\ d < high
    BY <1>6, <1>10, <2>1, HalfwayIs
  <2>3. midpoint(a, b) = Append(p, d)
    BY <1>6, <1>9, <1>10, <2>1
  <2>4. PICK t : t = Append(p, d)
    OBVIOUS
  <2>5. Ends(t, p, d)
    <3>1. d \in Int
      BY <2>2
    <3>. QED
      BY <1>8, <2>4, <3>1, Appended
  <2>6. d \in Int /\ Digit(a, k) < d /\ d <= b[k] /\ d < b[k]
    BY <1>4, <1>6, <2>2
  <2>. QED
    BY <1>2, <1>7, <2>3, <2>4, <2>5, <2>6, CutIs
<1>11. CASE high - low <= 1 /\ Len(b) > k
  <2>1. midpoint(a, b) = Append(p, high)
    BY <1>6, <1>9, <1>11
  <2>2. PICK t : t = Append(p, high)
    OBVIOUS
  <2>3. Ends(t, p, high)
    <3>1. high \in Int
      BY <1>6
    <3>. QED
      BY <1>8, <2>2, <3>1, Appended
  <2>4. high \in Int /\ Digit(a, k) < high /\ high <= b[k]
    BY <1>4, <1>6
  <2>5. Ends(t, SubSeq(b, 1, k - 1), high) /\ (high < b[k] \/ Len(b) > k)
    BY <1>7, <1>11, <2>3
  <2>6. IsFraction(t) /\ t # <<>> /\ Less(a, t) /\ Less(t, b)
    BY <1>2, <2>4, <2>5, CutIs
  <2>. QED
    BY <2>1, <2>2, <2>6
<1>12. CASE high - low <= 1 /\ ~(Len(b) > k)
  <2>1. midpoint(a, b) = Append(p, low) \o MidpointToOne(SubSeq(a, k + 1, Len(a)))
    <3>1. ~(high - low > 1) /\ ~(high - low <= 1 /\ Len(b) > k)
      BY <1>6, <1>12
    <3>. QED
      BY <1>9, <3>1, Zenon
  <2>2. midpoint(a, b) = Longer(a, b, k)
    BY <1>4, <1>7, <2>1 DEF Longer
  <2>. QED
    BY <1>2, <2>2, LongerIs
<1>. QED
  BY <1>6, <1>10, <1>11, <1>12

-----------------------------------------------------------------------------
(* Ranks: above one, below one, and between two. *)

LEMMA FractionAboveNone ==
  ASSUME NEW f, IsFraction(f), f # <<>>
  PROVE  Less(<<>>, f)
<1>1. f \in Seq(Int) /\ Len(f) \in Nat /\ Len(f) >= 1 /\ Len(<<>>) = 0
  BY Lens DEF IsFraction
<1>2. 1 \in 1..Len(f) /\ 1 > Len(<<>>)
  BY <1>1
<1>. QED
  BY <1>2 DEF Less

LEMMA NoFraction == IsFraction(<<>>) /\ <<>> \in Seq(Int)
BY EmptySeq DEF IsFraction, Digits

LEMMA NothingBetween == IsFraction(midpoint(<<>>, <<>>))
<1>1. PICK n : n = <<>> /\ IsFraction(n) /\ n \in Seq(Int) /\ Len(n) = 0
  BY NoFraction, Lens
<1>2. Difference(n, n) = 1
  <2>1. Difference(n, n) = CHOOSE k \in 1..(Len(n) + 1) :
            (k > Len(n) \/ Digit(n, k) # n[k])
            /\ \A j \in 1..(k - 1) : ~(j > Len(n) \/ Digit(n, j) # n[j])
    BY Zenon DEF Difference, First
  <2>2. \A k \in 1..(Len(n) + 1) : k = 1
    BY <1>1
  <2>3. /\ 1 \in 1..(Len(n) + 1) /\ 1 > Len(n)
        /\ \A j \in 1..(1 - 1) : ~(j > Len(n) \/ Digit(n, j) # n[j])
    BY <1>1
  <2>. QED
    BY <2>1, <2>2, <2>3
<1>3. Digit(n, 1) = 0
  BY <1>1 DEF Digit
<1>4. PICK p : p = SubSeq(n, 1, 0)
  OBVIOUS
<1>5. p \in Seq(Int) /\ Len(p) = 0
  BY <1>1, <1>4, Prefix
<1>6. PICK e : e = MidpointToOne(SubSeq(n, 2, 0))
  OBVIOUS
<1>7. IsFraction(e) /\ e # <<>>
  <2>1. SubSeq(n, 1 + 1, Len(n)) = SubSeq(n, 2, 0)
    BY <1>1
  <2>2. IsFraction(SubSeq(n, 2, 0))
    BY <1>1, <2>1, RestIs
  <2>. QED
    BY <1>6, <2>2, MidpointToOneIs
<1>8. midpoint(n, n) = Append(p, 0) \o e
  BY <1>1, <1>2, <1>3, <1>4, <1>6 DEF midpoint
<1>9. PICK u : u = Append(p, 0)
  OBVIOUS
<1>10. u \in Seq(Int) /\ Len(u) = 1 /\ u[1] = 0
  <2>1. Ends(u, p, 0)
    <3>1. 0 \in Int
      OBVIOUS
    <3>. QED
      BY <1>5, <1>9, <3>1, Appended
  <2>. QED
    BY <1>5, <2>1 DEF Ends
<1>11. e \in Seq(Int) /\ Digits(e) /\ Len(e) \in Nat /\ Len(e) >= 1 /\ e[Len(e)] # 0
  BY <1>7, Lens DEF IsFraction
<1>12. PICK t : t = u \o e
  OBVIOUS
<1>13. /\ t \in Seq(Int) /\ Len(t) = 1 + Len(e) /\ t[1] = 0
       /\ \A j \in 1..Len(e) : t[1 + j] = e[j]
  <2>1. /\ t \in Seq(Int) /\ Len(t) = Len(u) + Len(e)
        /\ \A j \in 1..Len(u) : t[j] = u[j]
        /\ \A j \in 1..Len(e) : t[Len(u) + j] = e[j]
    BY <1>10, <1>11, <1>12, Joined
  <2>. QED
    BY <1>10, <2>1
<1>14. Digits(t)
  <2> SUFFICES ASSUME NEW j \in 1..(1 + Len(e)) PROVE t[j] \in 0..Last
    BY <1>13 DEF Digits
  <2>1. CASE j = 1
    BY <1>13, <2>1, RankAssumption DEF Last
  <2>2. CASE j # 1
    <3>1. PICK i \in 1..Len(e) : j = 1 + i
      <4>1. j - 1 \in 1..Len(e) /\ j = 1 + (j - 1)
        BY <1>11, <2>2
      <4>. QED
        BY <4>1
    <3>. QED
      BY <1>11, <1>13, <3>1 DEF Digits
  <2>. QED
    BY <2>1, <2>2
<1>15. t[Len(t)] # 0
  <2>1. Len(e) \in 1..Len(e)
    BY <1>11
  <2>. QED
    BY <1>11, <1>13, <2>1
<1>16. IsFraction(t)
  BY <1>13, <1>14, <1>15 DEF IsFraction
<1>. QED
  BY <1>1, <1>8, <1>9, <1>12, <1>16

LEMMA AfterIs ==
  ASSUME NEW r, isRank(r)
  PROVE  isRank(afterRank(r)) /\ Less(r, afterRank(r))
<1>1. PICK x : x = integerPartOf(r) /\ IsInteger(x)
  BY Split
<1>2. PICK f : f = FractionOf(r) /\ IsFraction(f)
  BY Split
<1>3. r = x \o f /\ x \in Seq(Int) /\ f \in Seq(Int)
  BY <1>1, <1>2, Split DEF IsInteger, IsFraction
<1>4. PICK next : next = incrementInteger(x)
  OBVIOUS
<1>5. afterRank(r) = IF next # Null THEN next ELSE x \o MidpointToOne(f)
  BY <1>1, <1>2, <1>4 DEF afterRank
<1>6. CASE next # Null
  <2>1. IsInteger(next) /\ Under(x, next)
    BY <1>1, <1>4, <1>6, Increment
  <2>2. next \in Seq(Int) /\ next \o <<>> = next /\ <<>> \in Seq(Int)
    BY <2>1, ConcatEmptySeq, EmptySeq DEF IsInteger
  <2>3. Less(x \o f, next \o <<>>)
    BY <1>3, <2>1, <2>2, UnderJoins
  <2>. QED
    BY <1>3, <1>5, <1>6, <2>1, <2>2, <2>3, IntegerIsRank
<1>7. CASE next = Null
  <2>1. PICK e : e = MidpointToOne(f)
    OBVIOUS
  <2>2. IsFraction(e) /\ Less(f, e) /\ e \in Seq(Int)
    BY <1>2, <2>1, MidpointToOneIs DEF IsFraction
  <2>3. isRank(x \o e)
    BY <1>1, <2>2, Join
  <2>4. Less(x \o f, x \o e)
    BY <1>3, <2>2, TailsDecide
  <2>. QED
    BY <1>3, <1>5, <1>7, <2>1, <2>3, <2>4
<1>. QED
  BY <1>6, <1>7

LEMMA SmallestIs ==
  /\ IsInteger(SMALLEST_INTEGER) /\ SMALLEST_INTEGER[1] = Lowest
  /\ \A i \in 2..Len(SMALLEST_INTEGER) : SMALLEST_INTEGER[i] = 0
<1>1. Lowest \in Lowest..Highest /\ 0 \in 0..Last
  BY RankAssumption DEF Last
<1>. QED
  BY <1>1, FilledIs DEF SMALLEST_INTEGER

LEMMA ZeroIs ==
  IsInteger(ZERO_INTEGER) /\ isRank(ZERO_INTEGER) /\ ZERO_INTEGER # SMALLEST_INTEGER
<1>1. 0 \in Lowest..Highest /\ 0 \in 0..Last /\ Lowest # 0
  BY RankAssumption DEF Last
<1>2. IsInteger(ZERO_INTEGER) /\ ZERO_INTEGER[1] = 0
  BY <1>1, FilledIs DEF ZERO_INTEGER
<1>. QED
  BY <1>1, <1>2, SmallestIs, IntegerIsRank

LEMMA BeforeIs ==
  ASSUME NEW r, isRank(r)
  PROVE  /\ isRank(beforeRank(r))
         /\ r # SMALLEST_INTEGER => Less(beforeRank(r), r)
<1>1. PICK x : x = integerPartOf(r) /\ IsInteger(x)
  BY Split
<1>2. PICK f : f = FractionOf(r) /\ IsFraction(f)
  BY Split
<1>3. r = x \o f /\ x \in Seq(Int) /\ f \in Seq(Int)
  BY <1>1, <1>2, Split DEF IsInteger, IsFraction
<1>4. x \o <<>> = x /\ <<>> \in Seq(Int)
  BY <1>3, ConcatEmptySeq, EmptySeq
<1>5. beforeRank(r) = CASE x = SMALLEST_INTEGER -> x \o midpoint(<<>>, f)
                        [] x # SMALLEST_INTEGER /\ x # r -> x
                        [] OTHER -> decrementInteger(x)
  BY <1>1, <1>2, Zenon DEF beforeRank
<1>6. CASE x = SMALLEST_INTEGER
  <2>1. PICK e : e = midpoint(<<>>, f)
    OBVIOUS
  <2>2. beforeRank(r) = x \o e
    BY <1>5, <1>6, <2>1
  <2>3. CASE f = <<>>
    <3>1. IsFraction(e)
      BY <2>1, <2>3, NothingBetween
    <3>2. r = SMALLEST_INTEGER
      BY <1>3, <1>4, <1>6, <2>3
    <3>. QED
      BY <1>1, <2>2, <3>1, <3>2, Join
  <2>4. CASE f # <<>>
    <3>1. IsFraction(e) /\ Less(e, f) /\ e \in Seq(Int)
      BY <1>2, <2>1, <2>4, FractionAboveNone, NoFraction, MidpointIs DEF IsFraction
    <3>2. Less(x \o e, x \o f)
      BY <1>3, <3>1, TailsDecide
    <3>. QED
      BY <1>1, <1>3, <2>2, <3>1, <3>2, Join
  <2>. QED
    BY <2>3, <2>4
<1>7. CASE x # SMALLEST_INTEGER /\ x # r
  <2>1. beforeRank(r) = x
    BY <1>5, <1>7
  <2>2. f # <<>>
    BY <1>3, <1>4, <1>7
  <2>3. Less(x \o <<>>, x \o f)
    BY <1>2, <1>3, <1>4, <2>2, FractionAboveNone, TailsDecide
  <2>. QED
    BY <1>1, <1>3, <1>4, <2>1, <2>3, IntegerIsRank
<1>8. CASE x # SMALLEST_INTEGER /\ x = r
  <2>1. PICK e : e = decrementInteger(x)
    OBVIOUS
  <2>2. beforeRank(r) = e
    BY <1>5, <1>8, <2>1
  <2>3. IsInteger(e) /\ Under(e, x)
    BY <1>1, <1>8, <2>1, Decrement
  <2>4. Less(e, x)
    BY <1>3, <2>3, UnderIsLess DEF IsInteger
  <2>. QED
    BY <1>8, <2>2, <2>3, <2>4, IntegerIsRank
<1>. QED
  BY <1>6, <1>7, <1>8

LEMMA WithinIs ==
  ASSUME NEW r, isRank(r), NEW s, isRank(s), Less(r, s)
  PROVE  isRank(WithinGap(r, s)) /\ Less(r, WithinGap(r, s)) /\ Less(WithinGap(r, s), s)
<1>1. PICK x : x = integerPartOf(r) /\ IsInteger(x)
  BY Split
<1>2. PICK f : f = FractionOf(r) /\ IsFraction(f)
  BY Split
<1>3. r = x \o f /\ x \in Seq(Int) /\ f \in Seq(Int)
  BY <1>1, <1>2, Split DEF IsInteger, IsFraction
<1>4. PICK y : y = integerPartOf(s) /\ IsInteger(y)
  BY Split
<1>5. PICK g : g = FractionOf(s) /\ IsFraction(g)
  BY Split
<1>6. s = y \o g /\ y \in Seq(Int) /\ g \in Seq(Int)
  BY <1>4, <1>5, Split DEF IsInteger, IsFraction
<1>7. PICK next : next = incrementInteger(x)
  OBVIOUS
<1>8. WithinGap(r, s) = CASE x = y -> x \o midpoint(f, g)
                          [] x # y /\ next = Null -> Null
                          [] x # y /\ Less(next, s) -> next
                          [] OTHER -> x \o MidpointToOne(f)
  BY <1>1, <1>2, <1>4, <1>5, <1>7, Zenon DEF WithinGap
<1>9. CASE x = y
  <2>1. PICK e : e = midpoint(f, g)
    OBVIOUS
  <2>2. WithinGap(r, s) = x \o e
    BY <1>8, <1>9, <2>1
  <2>3. Less(f, g)
    BY <1>3, <1>6, <1>9, TailsDecide
  <2>4. IsFraction(e) /\ Less(f, e) /\ Less(e, g) /\ e \in Seq(Int)
    BY <1>2, <1>5, <2>1, <2>3, MidpointIs DEF IsFraction
  <2>5. Less(x \o f, x \o e) /\ Less(x \o e, x \o g)
    BY <1>3, <1>6, <2>4, TailsDecide
  <2>. QED
    BY <1>1, <1>3, <1>6, <1>9, <2>2, <2>4, <2>5, Join
<1>10. CASE x # y
  <2>1. Under(x, y)
    BY <1>1, <1>3, <1>4, <1>6, <1>10, IntegersDecide
  <2>2. next # Null /\ IsInteger(next) /\ Under(x, next)
    <3>1. ~(x[1] = Highest /\ \A i \in 2..Len(x) : x[i] = Last)
      <4> SUFFICES ASSUME x[1] = Highest, \A i \in 2..Len(x) : x[i] = Last PROVE FALSE
        OBVIOUS
      <4>1. PICK i \in 1..Len(x) : i <= Len(y) /\ x[i] < y[i]
        BY <2>1 DEF Under
      <4>2. Len(x) \in Nat /\ Len(y) \in Nat /\ y[1] \in Lowest..Highest
            /\ \A j \in 2..Len(y) : y[j] \in 0..Last
        BY <1>3, <1>4, <1>6, Lens DEF IsInteger
      <4>3. CASE i = 1
        BY <4>1, <4>2, <4>3, RankAssumption
      <4>4. CASE i # 1
        <5>1. i \in 2..Len(x) /\ i \in 2..Len(y)
          BY <4>1, <4>2, <4>4
        <5>. QED
          BY <4>1, <4>2, <5>1, RankAssumption DEF Last
      <4>. QED
        BY <4>3, <4>4
    <3>. QED
      BY <1>1, <1>7, <3>1, Increment
  <2>3. CASE Less(next, s)
    <3>1. WithinGap(r, s) = next
      BY <1>8, <1>10, <2>2, <2>3
    <3>2. next \in Seq(Int) /\ next \o <<>> = next /\ <<>> \in Seq(Int)
      BY <2>2, ConcatEmptySeq, EmptySeq DEF IsInteger
    <3>3. Less(x \o f, next \o <<>>)
      BY <1>3, <2>2, <3>2, UnderJoins
    <3>. QED
      BY <1>3, <2>2, <2>3, <3>1, <3>2, <3>3, IntegerIsRank
  <2>4. CASE ~Less(next, s)
    <3>1. PICK e : e = MidpointToOne(f)
      OBVIOUS
    <3>2. WithinGap(r, s) = x \o e
      BY <1>8, <1>10, <2>2, <2>4, <3>1
    <3>3. IsFraction(e) /\ Less(f, e) /\ e \in Seq(Int)
      BY <1>2, <3>1, MidpointToOneIs DEF IsFraction
    <3>4. Less(x \o f, x \o e)
      BY <1>3, <3>3, TailsDecide
    <3>5. Less(x \o e, y \o g)
      BY <1>3, <1>6, <2>1, <3>3, UnderJoins
    <3>. QED
      BY <1>1, <1>3, <1>6, <3>2, <3>3, <3>4, <3>5, Join
  <2>. QED
    BY <2>3, <2>4
<1>. QED
  BY <1>9, <1>10

Neighbour(r) == r = Null \/ isRank(r)

\* What between promises.  Below SMALLEST_INTEGER itself there is nothing.
LEMMA BetweenIs ==
  ASSUME NEW r, Neighbour(r), NEW s, Neighbour(s)
  PROVE  /\ between(r, s) = Null <=> r # Null /\ s # Null /\ ~Less(r, s)
         /\ between(r, s) # Null => isRank(between(r, s))
         /\ between(r, s) # Null /\ r # Null => Less(r, between(r, s))
         /\ between(r, s) # Null /\ s # Null /\ (r # Null \/ s # SMALLEST_INTEGER)
               => Less(between(r, s), s)
<1>0. \A q : isRank(q) => q # Null
  BY DEF isRank
<1>1. CASE r = Null /\ s = Null
  <2>1. between(r, s) = ZERO_INTEGER
    BY <1>1 DEF between
  <2>. QED
    BY <1>0, <1>1, <2>1, ZeroIs
<1>2. CASE r = Null /\ s # Null
  <2>1. between(r, s) = beforeRank(s) /\ isRank(s)
    BY <1>2 DEF between, Neighbour
  <2>. QED
    BY <1>0, <1>2, <2>1, BeforeIs
<1>3. CASE r # Null /\ s = Null
  <2>1. between(r, s) = afterRank(r) /\ isRank(r)
    BY <1>3 DEF between, Neighbour
  <2>. QED
    BY <1>0, <1>3, <2>1, AfterIs
<1>4. CASE r # Null /\ s # Null
  <2>1. between(r, s) = (IF Less(r, s) THEN WithinGap(r, s) ELSE Null) /\ isRank(r) /\ isRank(s)
    BY <1>4 DEF between, Neighbour
  <2>. QED
    BY <1>0, <1>4, <2>1, WithinIs
<1>. QED
  BY <1>1, <1>2, <1>3, <1>4

-----------------------------------------------------------------------------
(* The order of ranks is strict and total, and SMALLEST_INTEGER is least. *)

LEMMA NotLessThanItself ==
  ASSUME NEW r \in Seq(Int) PROVE ~Less(r, r)
<1>1. \A i \in 1..Len(r) : r[i] \in Int /\ Len(r) \in Nat
  BY Lens
<1>. QED
  BY <1>1 DEF Less

LEMMA LessTransitive ==
  ASSUME NEW r \in Seq(Int), NEW s \in Seq(Int), NEW t \in Seq(Int), Less(r, s), Less(s, t)
  PROVE  Less(r, t)
<1>1. /\ Len(r) \in Nat /\ Len(s) \in Nat /\ Len(t) \in Nat
      /\ \A i \in 1..Len(r) : r[i] \in Int
      /\ \A i \in 1..Len(s) : s[i] \in Int
      /\ \A i \in 1..Len(t) : t[i] \in Int
  BY Lens
<1>2. PICK i \in 1..Len(s) : /\ \A j \in 1..(i - 1) : j <= Len(r) /\ r[j] = s[j]
                             /\ i > Len(r) \/ r[i] < s[i]
  BY DEF Less
<1>3. PICK k \in 1..Len(t) : /\ \A j \in 1..(k - 1) : j <= Len(s) /\ s[j] = t[j]
                             /\ k > Len(s) \/ s[k] < t[k]
  BY DEF Less
<1>4. CASE i < k
  <2>1. i \in 1..Len(t) /\ i \in 1..(k - 1)
    BY <1>1, <1>2, <1>3, <1>4
  <2>2. i > Len(r) \/ r[i] < t[i]
    BY <1>2, <1>3, <2>1
  <2>3. \A j \in 1..(i - 1) : j <= Len(r) /\ r[j] = t[j]
    BY <1>2, <1>3, <1>4
  <2>. QED
    BY <2>1, <2>2, <2>3 DEF Less
<1>5. CASE i = k
  <2>1. i > Len(r) \/ r[i] < t[i]
    <3>1. CASE i > Len(r)
      BY <3>1
    <3>2. CASE i <= Len(r)
      <4>1. r[i] < s[i] /\ s[i] < t[i]
        BY <1>1, <1>2, <1>3, <1>5, <3>2
      <4>2. r[i] \in Int /\ s[i] \in Int /\ t[i] \in Int
        BY <1>1, <1>2, <1>3, <1>5, <3>2
      <4>. QED
        BY <4>1, <4>2
    <3>. QED
      BY <1>1, <1>2, <3>1, <3>2
  <2>2. \A j \in 1..(i - 1) : j <= Len(r) /\ r[j] = t[j]
    BY <1>2, <1>3, <1>5
  <2>. QED
    BY <1>3, <1>5, <2>1, <2>2 DEF Less
<1>6. CASE k < i
  <2>1. k \in 1..(i - 1) /\ k <= Len(s)
    BY <1>1, <1>2, <1>3, <1>6
  <2>2. k > Len(r) \/ r[k] < t[k]
    BY <1>1, <1>2, <1>3, <2>1
  <2>3. \A j \in 1..(k - 1) : j <= Len(r) /\ r[j] = t[j]
    BY <1>2, <1>3, <1>6
  <2>. QED
    BY <2>2, <2>3 DEF Less
<1>. QED
  BY <1>2, <1>3, <1>4, <1>5, <1>6

LEMMA LessTotal ==
  ASSUME NEW r \in Seq(Int), NEW s \in Seq(Int), r # s
  PROVE  Less(r, s) \/ Less(s, r)
<1>1. /\ Len(r) \in Nat /\ Len(s) \in Nat
      /\ \A i \in 1..Len(r) : r[i] \in Int
      /\ \A i \in 1..Len(s) : s[i] \in Int
  BY Lens
<1>. DEFINE B == {n \in Nat : n >= 1 /\ (n <= Len(r) \/ n <= Len(s))
                              /\ (n > Len(r) \/ n > Len(s) \/ r[n] # s[n])}
<1>2. B # {}
  <2> SUFFICES ASSUME B = {} PROVE FALSE
    OBVIOUS
  <2>1. ASSUME NEW n \in Nat, n >= 1, n <= Len(r) \/ n <= Len(s)
        PROVE  n <= Len(r) /\ n <= Len(s) /\ r[n] = s[n]
    <3>1. n \notin B
      OBVIOUS
    <3>2. ~(n > Len(r) \/ n > Len(s) \/ r[n] # s[n])
      BY <2>1, <3>1
    <3>. QED
      BY <1>1, <3>2
  <2>2. Len(r) = Len(s)
    <3>1. Len(r) >= 1 => Len(r) <= Len(s)
      BY <1>1, <2>1
    <3>2. Len(s) >= 1 => Len(s) <= Len(r)
      BY <1>1, <2>1
    <3>. QED
      BY <1>1, <3>1, <3>2
  <2>3. \A i \in 1..Len(r) : r[i] = s[i]
    BY <1>1, <2>1
  <2>. QED
    BY <2>2, <2>3, SameSeq
<1>3. PICK k \in B : \A j \in B : k <= j
  BY <1>2, Least
<1>4. \A j \in 1..(k - 1) : j <= Len(r) /\ j <= Len(s) /\ r[j] = s[j]
  <2> SUFFICES ASSUME NEW j \in 1..(k - 1) PROVE j <= Len(r) /\ j <= Len(s) /\ r[j] = s[j]
    OBVIOUS
  <2>1. j \in Nat /\ j >= 1 /\ j < k /\ j \notin B
    BY <1>3
  <2>2. j <= Len(r) \/ j <= Len(s)
    BY <1>1, <1>3, <2>1
  <2>. QED
    BY <1>1, <2>1, <2>2
<1>5. CASE k > Len(r)
  BY <1>1, <1>3, <1>4, <1>5 DEF Less
<1>6. CASE k > Len(s)
  BY <1>1, <1>3, <1>4, <1>6 DEF Less
<1>7. CASE k <= Len(r) /\ k <= Len(s)
  <2>1. k \in 1..Len(r) /\ k \in 1..Len(s)
    BY <1>3, <1>7
  <2>2. r[k] < s[k] \/ s[k] < r[k]
    BY <1>1, <1>3, <2>1
  <2>. QED
    BY <1>4, <2>1, <2>2 DEF Less
<1>. QED
  BY <1>1, <1>3, <1>5, <1>6, <1>7

LEMMA NothingBelowSmallest ==
  ASSUME NEW r, isRank(r) PROVE ~Less(r, SMALLEST_INTEGER)
<1> SUFFICES ASSUME Less(r, SMALLEST_INTEGER) PROVE FALSE
  OBVIOUS
<1>1. PICK s : s = SMALLEST_INTEGER /\ IsInteger(s) /\ s[1] = Lowest
               /\ \A i \in 2..Len(s) : s[i] = 0
  BY SmallestIs
<1>2. PICK x : x = integerPartOf(r) /\ IsInteger(x)
  BY Split
<1>3. PICK f : f = FractionOf(r) /\ IsFraction(f)
  BY Split
<1>4. r = x \o f /\ x \in Seq(Int) /\ f \in Seq(Int) /\ s \in Seq(Int)
  BY <1>1, <1>2, <1>3, Split DEF IsInteger, IsFraction
<1>5. s = s \o <<>> /\ <<>> \in Seq(Int)
  BY <1>4, ConcatEmptySeq, EmptySeq
<1>6. CASE x = s
  <2>1. Less(s \o f, s \o <<>>)
    BY <1>1, <1>4, <1>5, <1>6
  <2>2. Less(f, <<>>)
    BY <1>4, <1>5, <2>1, TailsDecide
  <2>. QED
    BY <2>2, EmptySeq, Lens DEF Less
<1>7. CASE x # s
  <2>1. Less(x \o f, s \o <<>>)
    BY <1>1, <1>4, <1>5
  <2>2. Under(x, s)
    BY <1>1, <1>2, <1>4, <1>5, <1>7, <2>1, IntegersDecide
  <2>3. PICK i \in 1..Len(x) : i <= Len(s) /\ x[i] < s[i]
    BY <2>2 DEF Under
  <2>4. Len(s) \in Nat /\ Len(x) \in Nat /\ x[1] \in Lowest..Highest
        /\ \A j \in 2..Len(x) : x[j] \in 0..Last
    BY <1>2, <1>4, Lens DEF IsInteger
  <2>5. CASE i = 1
    BY <1>1, <2>3, <2>4, <2>5, RankAssumption
  <2>6. CASE i # 1
    <3>1. i \in 2..Len(x) /\ i \in 2..Len(s)
      BY <2>3, <2>4, <2>6
    <3>. QED
      BY <1>1, <2>3, <2>4, <3>1
  <2>. QED
    BY <2>5, <2>6
<1>. QED
  BY <1>6, <1>7

-----------------------------------------------------------------------------
(* rankSequence gives ranks in increasing order. *)

Rises(g, n) ==
    g = [i \in 1..n |-> IF i = 1 THEN between(Null, Null) ELSE between(g[i - 1], Null)]

LEMMA SequenceGrows ==
  ASSUME NEW n \in Nat, NEW g, Rises(g, n)
  PROVE  \E h : Rises(h, n + 1)
<1>1. PICK z : z = IF n + 1 = 1 THEN between(Null, Null) ELSE between(g[n], Null)
  OBVIOUS
<1>2. PICK h : h = [i \in 1..(n + 1) |-> IF i = n + 1 THEN z ELSE g[i]]
  OBVIOUS
<1>3. PICK q : q = [i \in 1..(n + 1) |-> IF i = 1 THEN between(Null, Null)
                                                 ELSE between(h[i - 1], Null)]
  OBVIOUS
<1>4. \A i \in 1..(n + 1) : h[i] = q[i]
  <2> SUFFICES ASSUME NEW i \in 1..(n + 1) PROVE h[i] = q[i]
    OBVIOUS
  <2>1. CASE i = n + 1
    <3>1. n + 1 # 1 => i - 1 = n /\ i - 1 \in 1..(n + 1) /\ i - 1 # n + 1 /\ i # 1
      BY <2>1
    <3>2. h[i] = z /\ (n + 1 # 1 => h[i - 1] = g[n])
      BY <1>2, <2>1, <3>1
    <3>. QED
      BY <1>1, <1>3, <2>1, <3>1, <3>2
  <2>2. CASE i # n + 1
    <3>1. i \in 1..n /\ (i # 1 => i - 1 \in 1..(n + 1) /\ i - 1 # n + 1)
      BY <2>2
    <3>2. h[i] = g[i] /\ (i # 1 => h[i - 1] = g[i - 1])
      BY <1>2, <2>2, <3>1
    <3>3. g[i] = IF i = 1 THEN between(Null, Null) ELSE between(g[i - 1], Null)
      BY <3>1 DEF Rises
    <3>. QED
      BY <1>3, <3>2, <3>3
  <2>. QED
    BY <2>1, <2>2
<1>5. h = q
  BY <1>2, <1>3, <1>4
<1>6. Rises(h, n + 1)
  BY <1>3, <1>5 DEF Rises
<1>. QED
  BY <1>6

LEMMA SequenceExists ==
  ASSUME NEW n \in Nat PROVE \E g : Rises(g, n)
<1>. DEFINE B == {m \in Nat : ~ \E g : Rises(g, m)}
<1>1. 0 \notin B
  <2>1. 1..0 = {}
    OBVIOUS
  <2>2. Rises([i \in {} |-> 0], 0)
    BY <2>1 DEF Rises
  <2>. QED
    BY <2>2
<1>2. \A m \in B : \E k \in B : k < m
  <2> SUFFICES ASSUME NEW m \in B PROVE \E k \in B : k < m
    OBVIOUS
  <2>1. m - 1 \in Nat /\ m - 1 < m /\ (m - 1) + 1 = m
    BY <1>1
  <2>2. m - 1 \in B
    BY <2>1, SequenceGrows
  <2>. QED
    BY <2>1, <2>2
<1>3. B = {}
  BY <1>2, NoDescent
<1>. QED
  BY <1>3

LEMMA RankSequenceRises ==
  ASSUME NEW n \in Nat PROVE Rises(rankSequence(n), n)
<1>1. PICK g : Rises(g, n)
  BY SequenceExists
<1>2. g = [i \in 1..n |-> IF i = 1 THEN between(Null, Null) ELSE between(g[i - 1], Null)]
  BY <1>1, Zenon DEF Rises
<1>3. rankSequence(n) = CHOOSE h : h = [i \in 1..n |-> IF i = 1 THEN between(Null, Null)
                                                              ELSE between(h[i - 1], Null)]
  BY Zenon DEF rankSequence
<1>4. rankSequence(n) = [i \in 1..n |-> IF i = 1 THEN between(Null, Null)
                                      ELSE between(rankSequence(n)[i - 1], Null)]
  BY <1>2, <1>3, Zenon
<1>. QED
  BY <1>4, Zenon DEF Rises

LEMMA RankSequenceIs ==
  ASSUME NEW n \in Nat
  PROVE  /\ \A i \in 1..n : isRank(rankSequence(n)[i]) /\ rankSequence(n)[i] # SMALLEST_INTEGER
         /\ \A i, j \in 1..n : i < j => Less(rankSequence(n)[i], rankSequence(n)[j])
<1>1. PICK g : g = rankSequence(n) /\ Rises(g, n)
  BY RankSequenceRises
<1>2. /\ 1 \in 1..n => g[1] = between(Null, Null)
      /\ \A i \in 1..n : i # 1 => g[i] = between(g[i - 1], Null)
  BY <1>1 DEF Rises
<1>3. between(Null, Null) = ZERO_INTEGER
  BY DEF between
<1>4. \A r : isRank(r) => isRank(between(r, Null)) /\ Less(r, between(r, Null))
                          /\ between(r, Null) # SMALLEST_INTEGER
  <2> SUFFICES ASSUME NEW r, isRank(r)
               PROVE  isRank(between(r, Null)) /\ Less(r, between(r, Null))
                      /\ between(r, Null) # SMALLEST_INTEGER
    OBVIOUS
  <2>1. r # Null /\ between(r, Null) = afterRank(r)
    BY DEF isRank, between
  <2>2. isRank(afterRank(r)) /\ Less(r, afterRank(r))
    BY AfterIs
  <2>. QED
    BY <2>1, <2>2, NothingBelowSmallest
<1>. DEFINE B == {m \in Nat : m \in 1..n /\ ~(isRank(g[m]) /\ g[m] # SMALLEST_INTEGER)}
<1>5. \A m \in B : \E k \in B : k < m
  <2> SUFFICES ASSUME NEW m \in B PROVE \E k \in B : k < m
    OBVIOUS
  <2>1. m # 1
    BY <1>2, <1>3, ZeroIs
  <2>2. m - 1 \in Nat /\ m - 1 \in 1..n /\ m - 1 < m
    BY <2>1
  <2>3. ~isRank(g[m - 1])
    BY <1>2, <1>4, <2>1
  <2>. QED
    BY <2>2, <2>3
<1>6. B = {}
  BY <1>5, NoDescent
<1>7. \A i \in 1..n : isRank(g[i]) /\ g[i] # SMALLEST_INTEGER
  BY <1>6
<1>8. ASSUME NEW i \in 1..n PROVE \A j \in 1..n : i < j => Less(g[i], g[j])
  <2>. DEFINE C == {m \in Nat : m \in 1..n /\ i < m /\ ~Less(g[i], g[m])}
  <2>1. \A m \in C : \E k \in C : k < m
    <3> SUFFICES ASSUME NEW m \in C PROVE \E k \in C : k < m
      OBVIOUS
    <3>1. m \in 1..n /\ i < m /\ m # 1 /\ m - 1 \in 1..n /\ m - 1 \in Nat /\ m - 1 < m
      OBVIOUS
    <3>2. isRank(g[m - 1]) /\ isRank(g[m]) /\ isRank(g[i]) /\ Less(g[m - 1], g[m])
      BY <1>2, <1>4, <1>7, <3>1
    <3>3. g[m - 1] \in Seq(Int) /\ g[m] \in Seq(Int) /\ g[i] \in Seq(Int)
      BY <3>2 DEF isRank
    <3>4. i # m - 1
      BY <3>2
    <3>5. i < m - 1
      BY <3>1, <3>4
    <3>6. ~Less(g[i], g[m - 1])
      BY <3>2, <3>3, LessTransitive
    <3>. QED
      BY <3>1, <3>5, <3>6
  <2>2. C = {}
    BY <2>1, NoDescent
  <2>. QED
    BY <2>2
<1>. QED
  BY <1>1, <1>7, <1>8

-----------------------------------------------------------------------------
(* Cards in the order of (rank, id). *)

Sortable(S, r) ==
    /\ S \subseteq Nat /\ IsFiniteSet(S)
    /\ \A c \in S : r[c] \in Seq(Int)

LEMMA BeforeOrders ==
  ASSUME NEW S, NEW r, Sortable(S, r)
  PROVE  /\ \A c \in S : ~Before(c, c, r)
         /\ \A c, d, e \in S : Before(c, d, r) /\ Before(d, e, r) => Before(c, e, r)
         /\ \A c, d \in S : c # d => Before(c, d, r) \/ Before(d, c, r)
<1>. USE DEF Sortable, Before
<1>1. \A c \in S : ~Before(c, c, r)
  BY NotLessThanItself
<1>2. \A c, d, e \in S : Before(c, d, r) /\ Before(d, e, r) => Before(c, e, r)
  <2> SUFFICES ASSUME NEW c \in S, NEW d \in S, NEW e \in S,
                      Before(c, d, r), Before(d, e, r)
               PROVE  Before(c, e, r)
    OBVIOUS
  <2>1. CASE Less(r[c], r[d]) /\ Less(r[d], r[e])
    BY <2>1, LessTransitive
  <2>2. CASE Less(r[c], r[d]) /\ r[d] = r[e]
    BY <2>2
  <2>3. CASE r[c] = r[d] /\ Less(r[d], r[e])
    BY <2>3
  <2>4. CASE r[c] = r[d] /\ r[d] = r[e] /\ c < d /\ d < e
    <3>1. c \in Nat /\ d \in Nat /\ e \in Nat
      OBVIOUS
    <3>2. c < e
      BY <2>4, <3>1
    <3>. QED
      BY <2>4, <3>2
  <2>. QED
    BY <2>1, <2>2, <2>3, <2>4
<1>3. \A c, d \in S : c # d => Before(c, d, r) \/ Before(d, c, r)
  <2> SUFFICES ASSUME NEW c \in S, NEW d \in S, c # d
               PROVE  Before(c, d, r) \/ Before(d, c, r)
    OBVIOUS
  <2>1. c \in Nat /\ d \in Nat /\ (c < d \/ d < c)
    OBVIOUS
  <2>2. r[c] # r[d] => Less(r[c], r[d]) \/ Less(r[d], r[c])
    BY LessTotal
  <2>. QED
    BY <2>1, <2>2
<1>. QED
  BY <1>1, <1>2, <1>3

LEMMA NotBothBefore ==
  ASSUME NEW S, NEW r, Sortable(S, r), NEW c \in S, NEW d \in S, Before(c, d, r)
  PROVE  ~Before(d, c, r)
BY BeforeOrders

\* q lists the cards of S, each once, in order.
Listed(q, S, r) ==
    /\ DOMAIN q = 1..Cardinality(S) /\ q = [i \in 1..Cardinality(S) |-> q[i]]
    /\ \A i \in 1..Cardinality(S) : q[i] \in S
    /\ \A c \in S : \E i \in 1..Cardinality(S) : q[i] = c
    /\ \A i, j \in 1..Cardinality(S) : i < j => Before(q[i], q[j], r)

PlaceIn(S, r) == [c \in S |-> 1 + Cardinality({d \in S : Before(d, c, r)})]

LEMMA PlaceRises ==
  ASSUME NEW S, NEW r, Sortable(S, r)
  PROVE  /\ \A c \in S : PlaceIn(S, r)[c] \in 1..Cardinality(S)
         /\ \A c, d \in S : Before(c, d, r) => PlaceIn(S, r)[c] < PlaceIn(S, r)[d]
<1>. DEFINE Lower(c) == {d \in S : Before(d, c, r)}
<1>1. IsFiniteSet(S) /\ Cardinality(S) \in Nat
  BY FS_CardinalityType DEF Sortable
<1>2. \A c \in S : IsFiniteSet(Lower(c)) /\ Cardinality(Lower(c)) \in Nat
  <2> SUFFICES ASSUME NEW c \in S PROVE IsFiniteSet(Lower(c)) /\ Cardinality(Lower(c)) \in Nat
    OBVIOUS
  <2>1. Lower(c) \in SUBSET S
    OBVIOUS
  <2>. HIDE DEF Lower
  <2>. QED
    BY <1>1, <2>1, FS_Subset, FS_CardinalityType
<1>3. \A c \in S : PlaceIn(S, r)[c] = 1 + Cardinality(Lower(c))
  BY DEF PlaceIn
<1>4. ASSUME NEW c \in S PROVE Cardinality(Lower(c)) < Cardinality(S)
  <2>1. Lower(c) \in SUBSET S /\ c \notin Lower(c)
    BY BeforeOrders
  <2>. HIDE DEF Lower
  <2>2. Cardinality(Lower(c)) <= Cardinality(S) /\ Cardinality(Lower(c)) # Cardinality(S)
    BY <1>1, <2>1, FS_Subset
  <2>. QED
    BY <1>1, <1>2, <2>2
<1>5. ASSUME NEW c \in S, NEW d \in S, Before(c, d, r)
      PROVE  Cardinality(Lower(c)) < Cardinality(Lower(d))
  <2>1. Lower(c) \in SUBSET Lower(d) /\ c \in Lower(d) /\ c \notin Lower(c)
    <3>1. \A e \in S : Before(e, c, r) => Before(e, d, r)
      BY <1>5, BeforeOrders
    <3>2. ~Before(c, c, r)
      BY BeforeOrders
    <3>. QED
      BY <1>5, <3>1, <3>2
  <2>. HIDE DEF Lower
  <2>2. Cardinality(Lower(c)) <= Cardinality(Lower(d)) /\ Cardinality(Lower(c)) # Cardinality(Lower(d))
    BY <1>2, <2>1, FS_Subset
  <2>. QED
    BY <1>2, <2>2
<1>. HIDE DEF Lower
<1>6. \A c \in S : PlaceIn(S, r)[c] \in 1..Cardinality(S)
  BY <1>1, <1>2, <1>3, <1>4
<1>7. \A c, d \in S : Before(c, d, r) => PlaceIn(S, r)[c] < PlaceIn(S, r)[d]
  BY <1>2, <1>3, <1>5
<1>. QED
  BY <1>6, <1>7

LEMMA InOrderIs ==
  ASSUME NEW S, NEW r, Sortable(S, r)
  PROVE  Listed(InOrder(S, r), S, r)
<1>1. PICK n \in Nat : n = Cardinality(S)
  BY FS_CardinalityType DEF Sortable
<1>2. PICK p : p = PlaceIn(S, r)
  OBVIOUS
<1>3. /\ \A c \in S : p[c] \in 1..n
      /\ \A c, d \in S : Before(c, d, r) => p[c] < p[d]
  BY <1>1, <1>2, PlaceRises
<1>4. \A c, d \in S : c # d => p[c] # p[d]
  <2> SUFFICES ASSUME NEW c \in S, NEW d \in S, c # d PROVE p[c] # p[d]
    OBVIOUS
  <2>1. p[c] \in Int /\ p[d] \in Int
    BY <1>3
  <2>2. p[c] < p[d] \/ p[d] < p[c]
    BY <1>3, BeforeOrders
  <2>. QED
    BY <2>1, <2>2
<1>5. p \in [S -> 1..n]
  BY <1>2, <1>3 DEF PlaceIn
<1>6. p \in Surjection(S, 1..n)
  <2>1. p \in Injection(S, 1..n)
    BY <1>4, <1>5 DEF Injection, IsInjective
  <2>2. IsFiniteSet(1..n) /\ Cardinality(1..n) = n
    BY FS_Interval
  <2>. QED
    BY <1>1, <2>1, <2>2, FS_Injection
<1>7. \A i \in 1..n : \E c \in S : p[c] = i
  BY <1>6 DEF Surjection
<1>8. PICK q : q = InOrder(S, r)
  OBVIOUS
<1>9. q = [i \in 1..n |-> CHOOSE c \in S : 1 + Cardinality({d \in S : Before(d, c, r)}) = i]
  BY <1>1, <1>8, Zenon DEF InOrder
<1>10. \A i \in 1..n : q[i] \in S /\ p[q[i]] = i
  <2> SUFFICES ASSUME NEW i \in 1..n PROVE q[i] \in S /\ p[q[i]] = i
    OBVIOUS
  <2>1. q[i] = CHOOSE c \in S : 1 + Cardinality({d \in S : Before(d, c, r)}) = i
    BY <1>9, Zenon
  <2>2. \A c \in S : p[c] = 1 + Cardinality({d \in S : Before(d, c, r)})
    BY <1>2 DEF PlaceIn
  <2>3. \E c \in S : 1 + Cardinality({d \in S : Before(d, c, r)}) = i
    BY <1>7, <2>2, Zenon
  <2>4. q[i] \in S /\ 1 + Cardinality({d \in S : Before(d, q[i], r)}) = i
    BY <2>1, <2>3, Zenon
  <2>. QED
    BY <2>2, <2>4, Zenon
<1>11. \A c \in S : \E i \in 1..n : q[i] = c
  BY <1>3, <1>4, <1>10
<1>12. \A i, j \in 1..n : i < j => Before(q[i], q[j], r)
  <2> SUFFICES ASSUME NEW i \in 1..n, NEW j \in 1..n, i < j PROVE Before(q[i], q[j], r)
    OBVIOUS
  <2>1. /\ q[i] \in S /\ q[j] \in S /\ p[q[i]] = i /\ p[q[j]] = j
    BY <1>10
  <2>2. q[i] # q[j] /\ ~Before(q[j], q[i], r)
    BY <1>3, <2>1
  <2>. QED
    BY <2>1, <2>2, BeforeOrders
<1>13. DOMAIN q = 1..n /\ q = [i \in 1..n |-> q[i]]
  <2>. DEFINE Chosen(i) == CHOOSE c \in S : 1 + Cardinality({d \in S : Before(d, c, r)}) = i
  <2>1. q = [i \in 1..n |-> Chosen(i)]
    BY <1>9, Zenon
  <2>. HIDE DEF Chosen
  <2>. QED
    BY <2>1
<1>. QED
  BY <1>1, <1>8, <1>10, <1>11, <1>12, <1>13 DEF Listed

LEMMA OnlyOneOrder ==
  ASSUME NEW S, NEW r, Sortable(S, r), NEW p, Listed(p, S, r), NEW q, Listed(q, S, r)
  PROVE  p = q
<1>1. PICK n \in Nat : n = Cardinality(S)
  BY FS_CardinalityType DEF Sortable
<1>2. /\ p = [i \in 1..n |-> p[i]] /\ q = [i \in 1..n |-> q[i]]
      /\ \A i \in 1..n : p[i] \in S /\ q[i] \in S
      /\ \A c \in S : (\E i \in 1..n : p[i] = c) /\ (\E i \in 1..n : q[i] = c)
      /\ \A i, j \in 1..n : i < j => Before(p[i], p[j], r) /\ Before(q[i], q[j], r)
  BY <1>1 DEF Listed
<1>. DEFINE B == {m \in Nat : m \in 1..n /\ p[m] # q[m]}
<1>3. B = {}
  <2> SUFFICES ASSUME B # {} PROVE FALSE
    OBVIOUS
  <2>1. PICK k \in B : \A j \in B : k <= j
    BY Least
  <2>2. k \in 1..n /\ p[k] # q[k] /\ \A j \in 1..n : j < k => p[j] = q[j]
    BY <2>1
  <2>3. PICK j \in 1..n : p[j] = q[k]
    BY <1>2, <2>2
  <2>4. PICK i \in 1..n : q[i] = p[k]
    BY <1>2, <2>2
  <2>5. k < j
    <3>1. ~(j < k)
      <4> SUFFICES ASSUME j < k PROVE FALSE
        OBVIOUS
      <4>1. q[j] = q[k] /\ Before(q[j], q[k], r) /\ q[j] \in S
        BY <1>2, <2>2, <2>3
      <4>. QED
        BY <4>1, BeforeOrders
    <3>. QED
      BY <2>2, <2>3, <3>1
  <2>6. k < i
    <3>1. ~(i < k)
      <4> SUFFICES ASSUME i < k PROVE FALSE
        OBVIOUS
      <4>1. p[i] = p[k] /\ Before(p[i], p[k], r) /\ p[i] \in S
        BY <1>2, <2>2, <2>4
      <4>. QED
        BY <4>1, BeforeOrders
    <3>. QED
      BY <2>2, <2>4, <3>1
  <2>7. Before(p[k], q[k], r) /\ Before(q[k], p[k], r) /\ p[k] \in S /\ q[k] \in S
    BY <1>2, <2>2, <2>3, <2>4, <2>5, <2>6
  <2>. QED
    BY <2>7, NotBothBefore
<1>4. \A i \in 1..n : p[i] = q[i]
  BY <1>3
<1>. QED
  BY <1>2, <1>4

\* Ranks that put the cards of S in the same order list them alike.
LEMMA SameOrder ==
  ASSUME NEW S, NEW r, NEW s, NEW q, Listed(q, S, r),
         \A c, d \in S : Before(c, d, r) => Before(c, d, s)
  PROVE  Listed(q, S, s)
BY DEF Listed

-----------------------------------------------------------------------------
(* A card put into a sorted list. *)

Fits(q, i, n, c, r) ==
    /\ i # 0 => Before(q[i], c, r)
    /\ i # n => Before(c, q[i + 1], r)

LEMMA FitsAll ==
  ASSUME NEW S, NEW r, NEW c, Sortable(S \cup {c}, r), NEW q, Listed(q, S, r),
         NEW n \in Nat, n = Cardinality(S), NEW i \in 0..n, Fits(q, i, n, c, r)
  PROVE  /\ \A j \in 1..i : Before(q[j], c, r)
         /\ \A j \in (i + 1)..n : Before(c, q[j], r)
<1>1. /\ \A j \in 1..n : q[j] \in S \cup {c}
      /\ \A j, k \in 1..n : j < k => Before(q[j], q[k], r)
      /\ c \in S \cup {c}
  BY DEF Listed
<1>2. \A j \in 1..i : Before(q[j], c, r)
  <2> SUFFICES ASSUME NEW j \in 1..i PROVE Before(q[j], c, r)
    OBVIOUS
  <2>1. i # 0 /\ i \in 1..n /\ j \in 1..n /\ Before(q[i], c, r)
    BY DEF Fits
  <2>2. CASE j = i
    BY <2>1, <2>2
  <2>3. CASE j < i
    <3>1. Before(q[j], q[i], r)
      BY <1>1, <2>1, <2>3
    <3>. QED
      BY <1>1, <2>1, <3>1, BeforeOrders
  <2>. QED
    BY <2>2, <2>3
<1>3. \A j \in (i + 1)..n : Before(c, q[j], r)
  <2> SUFFICES ASSUME NEW j \in (i + 1)..n PROVE Before(c, q[j], r)
    OBVIOUS
  <2>1. i # n /\ i + 1 \in 1..n /\ j \in 1..n /\ Before(c, q[i + 1], r)
    BY DEF Fits
  <2>2. CASE j = i + 1
    BY <2>1, <2>2
  <2>3. CASE j > i + 1
    <3>1. Before(q[i + 1], q[j], r)
      BY <1>1, <2>1, <2>3
    <3>. QED
      BY <1>1, <2>1, <3>1, BeforeOrders
  <2>. QED
    BY <2>2, <2>3
<1>. QED
  BY <1>2, <1>3

\* t is q with c after the i-th of its n.
Splices(t, q, i, n, c) ==
    /\ t \in Seq(Int) /\ Len(t) = n + 1
    /\ \A j \in 1..i : t[j] = q[j]
    /\ t[i + 1] = c
    /\ \A j \in (i + 1)..n : t[j + 1] = q[j]

LEMMA SplicedIsListed ==
  ASSUME NEW S, NEW r, NEW c, c \notin S, Sortable(S \cup {c}, r), NEW q, Listed(q, S, r),
         NEW n \in Nat, n = Cardinality(S), NEW i \in 0..n, Fits(q, i, n, c, r),
         NEW t, Splices(t, q, i, n, c)
  PROVE  Listed(t, S \cup {c}, r)
<1>1. /\ \A j \in 1..n : q[j] \in S
      /\ \A d \in S : \E j \in 1..n : q[j] = d
      /\ \A j, k \in 1..n : j < k => Before(q[j], q[k], r)
  BY DEF Listed
<1>2. Cardinality(S \cup {c}) = n + 1
  <2>1. IsFiniteSet(S)
    BY FS_Subset DEF Sortable
  <2>. QED
    BY <2>1, FS_AddElement
<1>3. /\ \A j \in 1..i : Before(q[j], c, r)
      /\ \A j \in (i + 1)..n : Before(c, q[j], r)
  BY FitsAll
<1>4. /\ t \in Seq(Int) /\ Len(t) = n + 1
      /\ \A j \in 1..i : t[j] = q[j]
      /\ t[i + 1] = c
      /\ \A j \in (i + 1)..n : t[j + 1] = q[j]
  BY DEF Splices
<1>5. \A k \in 1..(n + 1) : \/ k \in 1..i
                            \/ k = i + 1
                            \/ \E j \in (i + 1)..n : k = j + 1
  <2> SUFFICES ASSUME NEW k \in 1..(n + 1), k \notin 1..i, k # i + 1
               PROVE  \E j \in (i + 1)..n : k = j + 1
    OBVIOUS
  <2>1. k - 1 \in (i + 1)..n /\ k = (k - 1) + 1
    OBVIOUS
  <2>. QED
    BY <2>1
<1>6. DOMAIN t = 1..(n + 1) /\ t = [k \in 1..(n + 1) |-> t[k]]
  BY <1>4, LenProperties
<1>7. ASSUME NEW k \in 1..(n + 1) PROVE t[k] \in S \cup {c}
  <2>1. CASE k \in 1..i
    <3>1. k \in 1..n
      BY <2>1
    <3>. QED
      BY <1>1, <1>4, <2>1, <3>1
  <2>2. CASE k = i + 1
    BY <1>4, <2>2
  <2>3. ASSUME NEW b \in (i + 1)..n, k = b + 1 PROVE t[k] \in S \cup {c}
    <3>1. b \in 1..n
      OBVIOUS
    <3>2. t[b + 1] = q[b]
      BY <1>4
    <3>. QED
      BY <1>1, <2>3, <3>1, <3>2
  <2>. QED
    BY <1>5, <2>1, <2>2, <2>3
<1>8. \A d \in S \cup {c} : \E k \in 1..(n + 1) : t[k] = d
  <2> SUFFICES ASSUME NEW d \in S \cup {c} PROVE \E k \in 1..(n + 1) : t[k] = d
    OBVIOUS
  <2>1. CASE d = c
    <3>1. i + 1 \in 1..(n + 1)
      OBVIOUS
    <3>. QED
      BY <1>4, <2>1, <3>1
  <2>2. CASE d \in S
    <3>1. PICK j \in 1..n : q[j] = d
      BY <1>1, <2>2
    <3>2. CASE j <= i
      <4>1. j \in 1..i /\ j \in 1..(n + 1)
        BY <3>2
      <4>. QED
        BY <1>4, <3>1, <4>1
    <3>3. CASE j > i
      <4>1. j \in (i + 1)..n /\ j + 1 \in 1..(n + 1)
        BY <3>3
      <4>. QED
        BY <1>4, <3>1, <4>1
    <3>. QED
      BY <3>2, <3>3
  <2>. QED
    BY <2>1, <2>2
<1>9. ASSUME NEW j \in 1..(n + 1), NEW k \in 1..(n + 1), j < k
      PROVE  Before(t[j], t[k], r)
  <2>1. CASE k \in 1..i
    <3>1. j \in 1..i /\ j \in 1..n /\ k \in 1..n
      BY <1>9, <2>1
    <3>. QED
      BY <1>1, <1>4, <1>9, <2>1, <3>1
  <2>2. CASE k = i + 1
    <3>1. j \in 1..i
      BY <1>9, <2>2
    <3>. QED
      BY <1>3, <1>4, <2>2, <3>1
  <2>3. ASSUME NEW b \in (i + 1)..n, k = b + 1 PROVE Before(t[j], t[k], r)
    <3>0. b \in 1..n
      OBVIOUS
    <3>1. t[b + 1] = q[b]
      BY <1>4
    <3>5. t[k] = q[b]
      BY <2>3, <3>1
    <3>2. CASE j \in 1..i
      <4>1. j \in 1..n /\ j < b
        BY <2>3, <3>2
      <4>. QED
        BY <1>1, <1>4, <3>0, <3>5, <3>2, <4>1
    <3>3. CASE j = i + 1
      BY <1>3, <1>4, <3>5, <3>3
    <3>4. ASSUME NEW a \in (i + 1)..n, j = a + 1 PROVE Before(t[j], t[k], r)
      <4>1. a \in 1..n /\ a < b
        BY <1>9, <2>3, <3>4
      <4>2. t[a + 1] = q[a]
        BY <1>4
      <4>3. t[j] = q[a]
        BY <3>4, <4>2
      <4>. QED
        BY <1>1, <3>0, <3>5, <4>1, <4>3
    <3>. QED
      BY <1>5, <3>2, <3>3, <3>4
  <2>. QED
    BY <1>5, <2>1, <2>2, <2>3
<1>. QED
  BY <1>2, <1>6, <1>7, <1>8, <1>9 DEF Listed

\* What the person sees when they let go.
Inserted(q, i, c) == SubSeq(q, 1, i) \o <<c>> \o SubSeq(q, i + 1, Len(q))

LEMMA ListedIsSeq ==
  ASSUME NEW S, NEW r, Sortable(S, r), NEW q, Listed(q, S, r)
  PROVE  q \in Seq(S) /\ q \in Seq(Int) /\ Len(q) = Cardinality(S) /\ Cardinality(S) \in Nat
<1>1. PICK n \in Nat : n = Cardinality(S)
  BY FS_CardinalityType DEF Sortable
<1>2. q = [i \in 1..n |-> q[i]] /\ \A i \in 1..n : q[i] \in S
  BY <1>1 DEF Listed
<1>3. q \in [1..n -> S] /\ q \in [1..n -> Int]
  BY <1>2 DEF Sortable
<1>4. q \in Seq(S) /\ q \in Seq(Int)
  BY <1>3, IsASeq
<1>. QED
  BY <1>1, <1>3, <1>4, LenProperties

LEMMA InsertedSplices ==
  ASSUME NEW q \in Seq(Int), NEW n \in Nat, n = Len(q), NEW i \in 0..n, NEW c \in Int
  PROVE  Splices(Inserted(q, i, c), q, i, n, c)
<1>1. PICK p : p = SubSeq(q, 1, i)
  OBVIOUS
<1>2. PICK s : s = SubSeq(q, i + 1, n)
  OBVIOUS
<1>3. p \in Seq(Int) /\ Len(p) = i /\ \A j \in 1..i : p[j] = q[j]
  BY <1>1, Prefix
<1>4. s \in Seq(Int) /\ Len(s) = n - i /\ \A j \in 1..(n - i) : s[j] = q[i + j]
  BY <1>2, Slice
<1>5. PICK u : u = p \o <<c>>
  OBVIOUS
<1>6. u \in Seq(Int) /\ Len(u) = i + 1 /\ (\A j \in 1..i : u[j] = q[j]) /\ u[i + 1] = c
  <2>1. Ends(u, p, c)
    BY <1>3, <1>5, Appended
  <2>. QED
    BY <1>3, <2>1 DEF Ends
<1>7. PICK t : t = u \o s /\ t = Inserted(q, i, c)
  BY <1>1, <1>2, <1>5 DEF Inserted
<1>8. /\ t \in Seq(Int) /\ Len(t) = Len(u) + Len(s)
      /\ \A j \in 1..Len(u) : t[j] = u[j]
      /\ \A j \in 1..Len(s) : t[Len(u) + j] = s[j]
  <2>1. u \in Seq(Int) /\ s \in Seq(Int) /\ t = u \o s
    BY <1>4, <1>6, <1>7
  <2>. QED
    BY <2>1, Joined
<1>9. Len(t) = n + 1
  BY <1>4, <1>6, <1>8
<1>10. \A j \in 1..i : t[j] = q[j]
  BY <1>6, <1>8
<1>11. t[i + 1] = c
  BY <1>6, <1>8
<1>12. ASSUME NEW j \in (i + 1)..n PROVE t[j + 1] = q[j]
  <2>1. PICK k \in 1..(n - i) : j = i + k
    <3>1. j - i \in 1..(n - i) /\ j = i + (j - i)
      OBVIOUS
    <3>. QED
      BY <3>1
  <2>2. j + 1 = Len(u) + k /\ t[Len(u) + k] = s[k] /\ s[k] = q[i + k]
    <3>1. j + 1 = Len(u) + k
      BY <1>6, <2>1
    <3>2. t[Len(u) + k] = s[k]
      BY <1>4, <1>8
    <3>. QED
      BY <1>4, <3>1, <3>2
  <2>. QED
    BY <2>1, <2>2
<1>. QED
  BY <1>7, <1>8, <1>9, <1>10, <1>11, <1>12 DEF Splices

LEMMA AppendSplices ==
  ASSUME NEW q \in Seq(Int), NEW n \in Nat, n = Len(q), NEW c \in Int
  PROVE  Splices(Append(q, c), q, n, n, c)
<1>1. Ends(Append(q, c), q, c)
  BY Appended
<1>. QED
  BY <1>1 DEF Splices, Ends

-----------------------------------------------------------------------------
(* What the variables hold. *)

Opened == \A m \in Mover :
    phase[m] \notin Idle => drag[m].card \in Card /\ drag[m].list \in Lists

Ordered == \A m \in Mover :
    /\ order[m] \in Seq(Int)
    /\ \A i \in 1..Len(order[m]) : order[m][i] \in Card /\ list[order[m][i]] # Nowhere

Wrote == \A m \in Mover :
    /\ \A c \in DOMAIN writes[m] : c \in Card /\ list[c] # Nowhere /\ isRank(writes[m][c])
    /\ phase[m] \in {"rewrite", "repaired", "ready"} \/ writes[m] = <<>>

\* The rows rewritten so far have the ranks of places they were read at, and the
\* first one read was the first one written.
RowsOf(q, w) ==
    /\ \A c \in DOMAIN w : \E i \in 1..Len(q) : q[i] = c /\ w[c] = rankSequence(Len(q))[i]
    /\ DOMAIN w # {} => 1 \in 1..Len(q) /\ q[1] \in DOMAIN w

Rows == \A m \in Mover : phase[m] = "rewrite" => RowsOf(order[m], writes[m])

Ranked == \A c \in Card : list[c] # Nowhere <=> isRank(rank[c])

Targets == \A m \in Mover :
    /\ to[m] = Null \/ isRank(to[m])
    /\ phase[m] \in {"ready", "create"} => isRank(to[m])

Tables ==
    /\ list \in [Card -> Lists \cup {Nowhere}]
    /\ rank \in [Card -> Seq(Int)]
    /\ archived \subseteq {c \in Card : list[c] # Nowhere}
    /\ Ranked

Requests ==
    /\ phase \in [Mover -> Phase]
    /\ DOMAIN drag = Mover /\ DOMAIN order = Mover /\ DOMAIN writes = Mover
    /\ DOMAIN to = Mover /\ DOMAIN shown = Mover
    /\ moves \in 0..MoveBound /\ stale \subseteq Mover /\ unsure \subseteq Card

Shapes == Tables /\ Requests /\ Opened /\ Ordered /\ Wrote /\ Rows /\ Targets

LEMMA Sorts ==
  ASSUME Tables, NEW S, S \subseteq Card
  PROVE  Sortable(S, rank)
BY BoardAssumption, FS_Subset DEF Tables, Sortable

\* The cards of a list, in the order of the list.
LEMMA ColumnIs ==
  ASSUME Tables, NEW l
  PROVE  /\ Listed(InOrder(In(l), rank), In(l), rank)
         /\ Column(l) \in Seq(Int) /\ Len(Column(l)) = Cardinality(In(l))
         /\ \A i \in 1..Len(Column(l)) : Column(l)[i] \in In(l)
<1>1. In(l) \subseteq Card /\ Sortable(In(l), rank)
  BY Sorts DEF In
<1>2. PICK q : q = InOrder(In(l), rank)
  OBVIOUS
<1>3. Listed(q, In(l), rank)
  BY <1>1, <1>2, InOrderIs
<1>4. q \in Seq(Int) /\ Len(q) = Cardinality(In(l))
  BY <1>1, <1>3, ListedIsSeq
<1>. QED
  BY <1>2, <1>3, <1>4 DEF Column, Listed

LEMMA SeesIs ==
  ASSUME Tables, Wrote, NEW m \in Mover
  PROVE  /\ Sees(m) \in [Card -> Seq(Int)]
         /\ \A c \in Card : list[c] # Nowhere <=> isRank(Sees(m)[c])
BY DEF Tables, Ranked, Wrote, Sees, isRank

LEMMA NeighbourIs ==
  ASSUME Tables, Wrote, NEW m \in Mover, NEW c, c = None \/ (c \in Card /\ list[c] # Nowhere)
  PROVE  Neighbour(rankOfNeighbour(m, c))
BY SeesIs DEF rankOfNeighbour, Neighbour

LEMMA FoundIs ==
  ASSUME Tables, Requests, Opened, Wrote, NEW m \in Mover, phase[m] \notin Idle, NeighboursFound(m)
  PROVE  /\ Neighbour(rankOfNeighbour(m, drag[m].before))
         /\ Neighbour(rankOfNeighbour(m, drag[m].after))
<1>1. drag[m].list \in Lists /\ drag[m].list # Nowhere
  BY BoardAssumption DEF Opened
<1>2. \A c \in Siblings(m) : c \in Card /\ list[c] # Nowhere
  BY <1>1 DEF Siblings, Live, In
<1>. QED
  BY <1>2, NeighbourIs DEF NeighboursFound

\* The end of a list is above all of it.
LEMMA EndIs ==
  ASSUME Tables, NEW l \in Lists
  PROVE  /\ isRank(EndOf(l))
         /\ \A c \in In(l) : Less(rank[c], EndOf(l))
<1>1. Neighbour(Null) /\ IsFiniteSet(In(l))
  BY BoardAssumption, FS_Subset DEF Neighbour, In
<1>2. CASE In(l) = {}
  BY <1>1, <1>2, BetweenIs DEF EndOf
<1>3. CASE In(l) # {}
  <2>1. PICK n \in Nat : n = Cardinality(In(l)) /\ n >= 1
    BY <1>1, <1>3, FS_CardinalityType, FS_EmptySet
  <2>2. PICK q : q = InOrder(In(l), rank)
    OBVIOUS
  <2>3. Listed(q, In(l), rank)
    BY <2>2, ColumnIs
  <2>4. PICK z : z = q[n]
    OBVIOUS
  <2>5. n \in 1..n /\ z \in In(l)
    BY <2>1, <2>3, <2>4 DEF Listed
  <2>6. isRank(rank[z]) /\ rank[z] # Null
    BY <2>5, BoardAssumption DEF In, Tables, Ranked, isRank
  <2>7. EndOf(l) = between(rank[z], Null)
    BY <1>3, <2>1, <2>2, <2>4 DEF EndOf
  <2>8. isRank(EndOf(l)) /\ Less(rank[z], EndOf(l)) /\ EndOf(l) \in Seq(Int)
    <3>1. Neighbour(rank[z])
      BY <2>6 DEF Neighbour
    <3>2. between(rank[z], Null) # Null
      BY <1>1, <3>1, BetweenIs
    <3>3. isRank(between(rank[z], Null)) /\ Less(rank[z], between(rank[z], Null))
      BY <1>1, <2>6, <3>1, <3>2, BetweenIs
    <3>. QED
      BY <2>7, <3>3 DEF isRank
  <2>9. ASSUME NEW c \in In(l) PROVE Less(rank[c], EndOf(l))
    <3>1. PICK i \in 1..n : q[i] = c
      BY <2>1, <2>3 DEF Listed
    <3>2. CASE i = n
      BY <2>4, <2>8, <3>1, <3>2
    <3>3. CASE i # n
      <4>1. Before(c, z, rank)
        BY <2>1, <2>3, <2>4, <2>5, <3>1, <3>3 DEF Listed
      <4>2. CASE rank[c] = rank[z]
        BY <2>8, <4>2
      <4>3. CASE Less(rank[c], rank[z])
        <5>1. rank[c] \in Seq(Int) /\ rank[z] \in Seq(Int)
          BY <2>5 DEF Tables, In
        <5>. QED
          BY <2>8, <4>3, <5>1, LessTransitive
      <4>. QED
        BY <4>1, <4>2, <4>3 DEF Before
    <3>. QED
      BY <3>2, <3>3
  <2>. QED
    BY <2>8, <2>9
<1>. QED
  BY <1>2, <1>3

LEMMA InitShapes == Init => Shapes
<1> SUFFICES ASSUME Init PROVE Shapes
  OBVIOUS
<1>1. PICK b \in Boards : list = b.list /\ rank = b.rank
  BY DEF Init
<1>2. Tables
  BY <1>1, BoardAssumption DEF Init, Tables, Ranked
<1>3. Requests
  BY BoardAssumption DEF Init, Requests, Phase, Idle
<1>4. <<>> \in Seq(Int) /\ Len(<<>>) = 0 /\ DOMAIN <<>> = {}
  OBVIOUS
<1>. QED
  BY <1>2, <1>3, <1>4 DEF Init, Shapes, Opened, Ordered, Wrote, Rows, Targets, Idle, Null

-----------------------------------------------------------------------------
(* Every step keeps them. *)

\* A request opens with a card and a list, and changes no table.
LEMMA AskShapes ==
  ASSUME Shapes, NEW m \in Mover, NEW p \in {"dropped", "create"}, NEW c \in Card,
         NEW l \in Lists, NEW before, NEW after, NEW seen, Ask(m, p, c, l, before, after, seen),
         UNCHANGED <<list, rank, archived, order, writes, unsure>>, DOMAIN to' = Mover
  PROVE  Tables' /\ Requests' /\ Opened' /\ Ordered' /\ Wrote' /\ Rows'
<1>1. Tables'
  BY DEF Shapes, Tables, Ranked, isRank
<1>2. Requests'
  BY BoardAssumption DEF Shapes, Requests, Ask, MayAsk, Goto, Phase, Idle
<1>3. Opened'
  BY DEF Shapes, Opened, Requests, Ask, Goto
<1>4. Ordered'
  BY DEF Shapes, Ordered
<1>5. Wrote'
  BY DEF Shapes, Wrote, Requests, Ask, MayAsk, Goto, Idle
<1>6. Rows'
  BY DEF Shapes, Rows, Requests, Ask, Goto
<1>. QED
  BY <1>1, <1>2, <1>3, <1>4, <1>5, <1>6

LEMMA DropShapes ==
  ASSUME Shapes, NEW m \in Mover, NEW c \in Card, NEW l \in Lists,
         NEW i \in 0..Cardinality(Card), Drop(m, c, l, i)
  PROVE  Shapes'
<1>. DEFINE others == InOrder(Live(l) \ {c}, rank)
<1>1. /\ Ask(m, "dropped", c, l, At(others, i), At(others, i + 1),
              SubSeq(others, 1, i) \o <<c>> \o SubSeq(others, i + 1, Len(others)))
      /\ UNCHANGED <<list, rank, archived, order, writes, to, unsure>>
  BY Zenon DEF Drop
<1>. HIDE DEF others
<1>2. Targets' /\ DOMAIN to' = Mover
  BY <1>1 DEF Shapes, Targets, Requests, Ask, Goto
<1>3. Tables' /\ Requests' /\ Opened' /\ Ordered' /\ Wrote' /\ Rows'
  BY <1>1, <1>2, AskShapes
<1>. QED
  BY <1>2, <1>3 DEF Shapes

LEMMA CreateShapes ==
  ASSUME Shapes, NEW m \in Mover, NEW c \in Card, NEW l \in Lists, CreateCard(m, c, l)
  PROVE  Shapes'
<1>1. /\ Ask(m, "create", c, l, None, None, Append(InOrder(Live(l), rank), c))
      /\ to' = [to EXCEPT ![m] = EndOf(l)]
      /\ UNCHANGED <<list, rank, archived, order, writes, unsure>>
  BY Zenon DEF CreateCard
<1>2. isRank(EndOf(l))
  BY EndIs DEF Shapes
<1>3. Targets' /\ DOMAIN to' = Mover
  BY <1>1, <1>2 DEF Shapes, Targets, Requests, Ask, Goto
<1>4. Tables' /\ Requests' /\ Opened' /\ Ordered' /\ Wrote' /\ Rows'
  BY <1>1, <1>3, AskShapes
<1>. QED
  BY <1>3, <1>4 DEF Shapes

\* What a step of m's request leaves alone.
Steps(m) ==
    /\ UNCHANGED <<list, rank, archived, drag, moves, shown, stale, unsure>>
    /\ \E p \in Phase : phase' = [phase EXCEPT ![m] = p]
    /\ phase[m] \notin Idle
    /\ \A n \in Mover \ {m} : order'[n] = order[n] /\ writes'[n] = writes[n] /\ to'[n] = to[n]
    /\ DOMAIN order' = Mover /\ DOMAIN writes' = Mover /\ DOMAIN to' = Mover

\* A step of a request: what is left to show is about that request.
LEMMA StepShapes ==
  ASSUME Shapes, NEW m \in Mover, Steps(m), order'[m] \in Seq(Int),
         \A i \in 1..Len(order'[m]) : order'[m][i] \in Card /\ list[order'[m][i]] # Nowhere,
         \A c \in DOMAIN writes'[m] : c \in Card /\ list[c] # Nowhere /\ isRank(writes'[m][c]),
         phase'[m] \in {"rewrite", "repaired", "ready"} \/ writes'[m] = <<>>,
         phase'[m] = "rewrite" => RowsOf(order'[m], writes'[m]),
         to'[m] = Null \/ isRank(to'[m]),
         phase'[m] \in {"ready", "create"} => isRank(to'[m])
  PROVE  Shapes'
<1>1. Tables'
  BY DEF Shapes, Tables, Ranked, Steps, isRank
<1>2. Requests'
  BY DEF Shapes, Requests, Steps
<1>3. \A n \in Mover \ {m} : phase'[n] = phase[n]
  BY DEF Shapes, Requests, Steps
<1>4. Opened'
  <2> SUFFICES ASSUME NEW n \in Mover, phase'[n] \notin Idle
               PROVE  drag[n].card \in Card /\ drag[n].list \in Lists
    BY DEF Opened, Steps
  <2>. QED
    BY <1>3 DEF Shapes, Opened, Steps
<1>5. Ordered'
  <2> SUFFICES ASSUME NEW n \in Mover
               PROVE  /\ order'[n] \in Seq(Int)
                      /\ \A i \in 1..Len(order'[n]) :
                            order'[n][i] \in Card /\ list[order'[n][i]] # Nowhere
    BY DEF Ordered, Steps
  <2>1. CASE n = m
    BY <2>1
  <2>2. CASE n # m
    <3>1. order'[n] = order[n]
      BY <2>2 DEF Steps
    <3>2. /\ order[n] \in Seq(Int)
          /\ \A i \in 1..Len(order[n]) : order[n][i] \in Card /\ list[order[n][i]] # Nowhere
      BY DEF Shapes, Ordered
    <3>. QED
      BY <3>1, <3>2
  <2>. QED
    BY <2>1, <2>2
<1>6. Wrote'
  <2> SUFFICES ASSUME NEW n \in Mover
               PROVE  /\ \A c \in DOMAIN writes'[n] :
                            c \in Card /\ list[c] # Nowhere /\ isRank(writes'[n][c])
                      /\ phase'[n] \in {"rewrite", "repaired", "ready"} \/ writes'[n] = <<>>
    BY DEF Wrote, Steps, isRank
  <2>1. CASE n = m
    BY <2>1
  <2>2. CASE n # m
    <3>1. writes'[n] = writes[n] /\ phase'[n] = phase[n]
      BY <1>3, <2>2 DEF Steps
    <3>. QED
      BY <3>1 DEF Shapes, Wrote
  <2>. QED
    BY <2>1, <2>2
<1>7. Rows'
  <2> SUFFICES ASSUME NEW n \in Mover, phase'[n] = "rewrite"
               PROVE  RowsOf(order'[n], writes'[n])
    BY DEF Rows, RowsOf
  <2>1. CASE n = m
    BY <2>1
  <2>2. CASE n # m
    <3>1. order'[n] = order[n] /\ writes'[n] = writes[n] /\ phase'[n] = phase[n]
      BY <1>3, <2>2 DEF Steps
    <3>. QED
      BY <3>1 DEF Shapes, Rows
  <2>. QED
    BY <2>1, <2>2
<1>8. Targets'
  <2> SUFFICES ASSUME NEW n \in Mover
               PROVE  /\ to'[n] = Null \/ isRank(to'[n])
                      /\ phase'[n] \in {"ready", "create"} => isRank(to'[n])
    BY DEF Targets, isRank
  <2>1. CASE n = m
    BY <2>1
  <2>2. CASE n # m
    <3>1. to'[n] = to[n] /\ phase'[n] = phase[n]
      BY <1>3, <2>2 DEF Steps
    <3>. QED
      BY <3>1 DEF Shapes, Targets
  <2>. QED
    BY <2>1, <2>2
<1>. QED
  BY <1>1, <1>2, <1>4, <1>5, <1>6, <1>7, <1>8 DEF Shapes

\* The rank a mover finds for its card.
Asked(m) == between(rankOfNeighbour(m, drag[m].before), rankOfNeighbour(m, drag[m].after))

LEMMA PlaceIs ==
  ASSUME NEW m, NEW otherwise, PlaceBetween(m, otherwise)
  PROVE  \/ /\ NeighboursFound(m) /\ Asked(m) # Null
            /\ to' = [to EXCEPT ![m] = Asked(m)]
            /\ Goto(m, "ready")
            /\ UNCHANGED writes
         \/ /\ NeighboursFound(m) /\ Asked(m) = Null /\ otherwise # "failed"
            /\ Goto(m, otherwise)
            /\ UNCHANGED <<to, writes>>
         \/ /\ ~NeighboursFound(m) \/ (Asked(m) = Null /\ otherwise = "failed")
            /\ Goto(m, "failed")
            /\ writes' = [writes EXCEPT ![m] = <<>>]
            /\ UNCHANGED to
BY Zenon DEF PlaceBetween, Asked

LEMMA AskedIs ==
  ASSUME Shapes, NEW m \in Mover, phase[m] \notin Idle, NeighboursFound(m), Asked(m) # Null
  PROVE  isRank(Asked(m))
<1>1. /\ Neighbour(rankOfNeighbour(m, drag[m].before))
      /\ Neighbour(rankOfNeighbour(m, drag[m].after))
  BY FoundIs DEF Shapes
<1>. QED
  BY <1>1, BetweenIs DEF Asked

LEMMA PlaceShapes ==
  ASSUME Shapes, NEW m \in Mover, NEW otherwise, PlaceBetween(m, otherwise),
         \/ phase[m] = "dropped" /\ otherwise = "repair"
         \/ phase[m] = "repaired" /\ otherwise = "failed",
         UNCHANGED <<list, rank, archived, drag, order, moves, shown, stale, unsure>>
  PROVE  Shapes'
<1>1. /\ order[m] \in Seq(Int)
      /\ \A i \in 1..Len(order[m]) : order[m][i] \in Card /\ list[order[m][i]] # Nowhere
      /\ \A c \in DOMAIN writes[m] : c \in Card /\ list[c] # Nowhere /\ isRank(writes[m][c])
      /\ phase[m] = "dropped" => writes[m] = <<>>
      /\ to[m] = Null \/ isRank(to[m])
  BY DEF Shapes, Ordered, Wrote, Targets
<1>2. phase[m] \notin Idle
  BY DEF Idle
<1>3. order'[m] = order[m] /\ DOMAIN order' = Mover
  BY DEF Shapes, Requests
<1>4. CASE /\ NeighboursFound(m) /\ Asked(m) # Null
           /\ to' = [to EXCEPT ![m] = Asked(m)]
           /\ Goto(m, "ready")
           /\ UNCHANGED writes
  <2>1. isRank(Asked(m))
    BY <1>2, <1>4, AskedIs
  <2>2. Steps(m) /\ phase'[m] = "ready" /\ to'[m] = Asked(m) /\ writes'[m] = writes[m]
    BY <1>2, <1>4 DEF Steps, Goto, Phase, Shapes, Requests
  <2>. QED
    BY <1>1, <1>3, <2>1, <2>2, StepShapes
<1>5. CASE /\ NeighboursFound(m) /\ Asked(m) = Null /\ otherwise # "failed"
           /\ Goto(m, otherwise)
           /\ UNCHANGED <<to, writes>>
  <2>1. /\ Steps(m) /\ phase'[m] = "repair" /\ to'[m] = to[m]
        /\ writes'[m] = <<>>
    BY <1>1, <1>2, <1>5 DEF Steps, Goto, Phase, Shapes, Requests
  <2>. QED
    BY <1>1, <1>3, <2>1, StepShapes
<1>6. CASE /\ ~NeighboursFound(m) \/ (Asked(m) = Null /\ otherwise = "failed")
           /\ Goto(m, "failed")
           /\ writes' = [writes EXCEPT ![m] = <<>>]
           /\ UNCHANGED to
  <2>1. /\ Steps(m) /\ phase'[m] = "failed" /\ to'[m] = to[m] /\ writes'[m] = <<>>
    BY <1>2, <1>6 DEF Steps, Goto, Phase, Shapes, Requests, Idle
  <2>. QED
    BY <1>1, <1>3, <2>1, StepShapes
<1>. QED
  BY <1>4, <1>5, <1>6, PlaceIs

LEMMA ReadColumnShapes ==
  ASSUME Shapes, NEW m \in Mover, ReadColumn(m)
  PROVE  Shapes'
<1>1. drag[m].list \in Lists /\ drag[m].list # Nowhere /\ phase[m] \notin Idle
  BY BoardAssumption DEF Shapes, Opened, ReadColumn, Idle
<1>2. PICK q : q = Column(drag[m].list)
  OBVIOUS
<1>3. /\ q \in Seq(Int)
      /\ \A i \in 1..Len(q) : q[i] \in Card /\ list[q[i]] # Nowhere
  BY <1>1, <1>2, ColumnIs DEF Shapes, In
<1>4. writes[m] = <<>> /\ (to[m] = Null \/ isRank(to[m]))
  BY DEF Shapes, Wrote, Targets, ReadColumn
<1>5. /\ Steps(m) /\ phase'[m] \in {"rewrite", "repaired"} /\ order'[m] = q
      /\ to'[m] = to[m] /\ writes'[m] = <<>>
  BY <1>1, <1>2, <1>4 DEF ReadColumn, Steps, Goto, Phase, Shapes, Requests
<1>6. RowsOf(q, <<>>)
  <2>1. DOMAIN <<>> = {}
    OBVIOUS
  <2>. QED
    BY <2>1 DEF RowsOf
<1>. QED
  BY <1>3, <1>4, <1>5, <1>6, StepShapes

\* The next row gets the rank of the place it was read at; after the last one
\* every row that was read has been written.
LEMMA RewriteIs ==
  ASSUME Shapes, NEW m \in Mover, RewriteRow(m)
  PROVE  /\ phase[m] = "rewrite"
         /\ RowsOf(order[m], writes'[m])
         /\ \E c : ~Locked(c, m) /\ DOMAIN writes'[m] = DOMAIN writes[m] \cup {c}
         /\ \A n \in Mover \ {m} : writes'[n] = writes[n]
         /\ DOMAIN writes' = Mover
         /\ \/ /\ \A i \in 1..Len(order[m]) : order[m][i] \in DOMAIN writes'[m]
               /\ Goto(m, "repaired")
               /\ order' = [order EXCEPT ![m] = <<>>]
            \/ UNCHANGED <<phase, order>>
         /\ UNCHANGED <<list, rank, archived, drag, to, moves, shown, stale, unsure>>
<1>1. PICK i \in NextIndex(m) :
         /\ ~Locked(order[m][i], m)
         /\ writes' = [writes EXCEPT ![m] =
               [d \in {order[m][i]} \cup DOMAIN writes[m] |->
                   IF d = order[m][i] THEN rankSequence(Len(order[m]))[i] ELSE writes[m][d]]]
         /\ \/ /\ Rest(m) = {i}
               /\ Goto(m, "repaired")
               /\ order' = [order EXCEPT ![m] = <<>>]
            \/ Rest(m) # {i} /\ UNCHANGED <<phase, order>>
  BY Zenon DEF RewriteRow
<1>2. /\ phase[m] = "rewrite"
      /\ UNCHANGED <<list, rank, archived, drag, to, moves, shown, stale, unsure>>
  BY Zenon DEF RewriteRow
<1>3. DOMAIN writes = Mover /\ DOMAIN order[m] = 1..Len(order[m])
  BY LenProperties DEF Shapes, Requests, Ordered
<1>4. PICK q : q = order[m]
  OBVIOUS
<1>5. PICK w : w = writes[m]
  OBVIOUS
<1>6. PICK x : x = rankSequence(Len(q))[i]
  OBVIOUS
<1>7. /\ writes'[m] = [d \in {q[i]} \cup DOMAIN w |-> IF d = q[i] THEN x ELSE w[d]]
      /\ DOMAIN writes' = Mover
      /\ \A n \in Mover \ {m} : writes'[n] = writes[n]
  BY <1>1, <1>3, <1>4, <1>5, <1>6
<1>8. PICK v : v = writes'[m]
  OBVIOUS
<1>9. /\ DOMAIN v = DOMAIN w \cup {q[i]} /\ v[q[i]] = x
      /\ \A c \in DOMAIN w \ {q[i]} : v[c] = w[c]
  BY <1>7, <1>8
<1>10. /\ i \in 1..Len(q) /\ q[i] \notin DOMAIN w
       /\ \A j \in 1..Len(q) : q[j] \notin DOMAIN w => j \in Rest(m) /\ i <= j
  BY <1>3, <1>4, <1>5 DEF NextIndex, Rest
<1>11. RowsOf(q, w) /\ Len(q) \in Nat
  BY <1>2, <1>4, <1>5, LenProperties DEF Shapes, Rows, Ordered
<1>12. RowsOf(q, v)
  <2>1. ASSUME NEW c \in DOMAIN v
        PROVE  \E j \in 1..Len(q) : q[j] = c /\ v[c] = rankSequence(Len(q))[j]
    <3>1. CASE c = q[i]
      BY <1>6, <1>9, <1>10, <3>1
    <3>2. CASE c # q[i]
      BY <1>9, <1>11, <3>2 DEF RowsOf
    <3>. QED
      BY <3>1, <3>2
  <2>2. 1 \in 1..Len(q) /\ q[1] \in DOMAIN v
    <3>1. 1 \in 1..Len(q)
      BY <1>10, <1>11
    <3>2. CASE q[1] \in DOMAIN w
      BY <1>9, <3>1, <3>2
    <3>3. CASE q[1] \notin DOMAIN w
      <4>1. i = 1
        BY <1>10, <3>1, <3>3
      <4>. QED
        BY <1>9, <3>1, <4>1
    <3>. QED
      BY <3>2, <3>3
  <2>. QED
    BY <2>1, <2>2 DEF RowsOf
<1>13. ASSUME Rest(m) = {i} PROVE \A j \in 1..Len(q) : q[j] \in DOMAIN v
  BY <1>9, <1>10, <1>13
<1>. QED
  BY <1>1, <1>2, <1>4, <1>5, <1>7, <1>8, <1>9, <1>12, <1>13

LEMMA RewriteShapes ==
  ASSUME Shapes, NEW m \in Mover, RewriteRow(m)
  PROVE  Shapes'
<1>1. /\ order[m] \in Seq(Int)
      /\ \A i \in 1..Len(order[m]) : order[m][i] \in Card /\ list[order[m][i]] # Nowhere
      /\ to[m] = Null \/ isRank(to[m])
  BY DEF Shapes, Ordered, Targets
<1>2. /\ phase[m] = "rewrite"
      /\ RowsOf(order[m], writes'[m])
      /\ \A n \in Mover \ {m} : writes'[n] = writes[n]
      /\ DOMAIN writes' = Mover
      /\ \/ Goto(m, "repaired") /\ order' = [order EXCEPT ![m] = <<>>]
         \/ UNCHANGED <<phase, order>>
      /\ UNCHANGED <<list, rank, archived, drag, to, moves, shown, stale, unsure>>
  BY RewriteIs
<1>3. ASSUME NEW c \in DOMAIN writes'[m]
      PROVE  c \in Card /\ list[c] # Nowhere /\ isRank(writes'[m][c])
  <2>1. PICK n \in Nat : n = Len(order[m])
    BY <1>1, LenProperties
  <2>2. PICK i \in 1..n : order[m][i] = c /\ writes'[m][c] = rankSequence(n)[i]
    BY <1>2, <2>1 DEF RowsOf
  <2>3. isRank(rankSequence(n)[i])
    BY RankSequenceIs
  <2>. QED
    BY <1>1, <2>1, <2>2, <2>3
<1>4. <<>> \in Seq(Int) /\ Len(<<>>) = 0
  OBVIOUS
<1>5. CASE Goto(m, "repaired") /\ order' = [order EXCEPT ![m] = <<>>]
  <2>1. /\ Steps(m) /\ phase'[m] = "repaired" /\ order'[m] = <<>> /\ to'[m] = to[m]
    BY <1>2, <1>5 DEF Steps, Goto, Phase, Idle, Shapes, Requests
  <2>2. /\ order'[m] \in Seq(Int)
        /\ \A i \in 1..Len(order'[m]) : order'[m][i] \in Card /\ list[order'[m][i]] # Nowhere
    BY <1>4, <2>1
  <2>3. phase'[m] \notin {"rewrite", "ready", "create"} /\ (to'[m] = Null \/ isRank(to'[m]))
    BY <1>1, <2>1
  <2>. QED
    BY <1>3, <2>1, <2>2, <2>3, StepShapes
<1>6. CASE UNCHANGED <<phase, order>>
  <2>1. phase \in [Mover -> Phase] /\ DOMAIN order = Mover /\ DOMAIN to = Mover
    BY DEF Shapes, Requests
  <2>2. phase' = [phase EXCEPT ![m] = "rewrite"] /\ "rewrite" \in Phase
    BY <1>2, <1>6, <2>1 DEF Phase
  <2>3. /\ Steps(m) /\ phase'[m] = "rewrite" /\ order'[m] = order[m] /\ to'[m] = to[m]
    BY <1>2, <1>6, <2>1, <2>2 DEF Steps, Idle
  <2>. QED
    BY <1>1, <1>2, <1>3, <2>3, StepShapes
<1>. QED
  BY <1>2, <1>5, <1>6

\* The victim of a deadlock was repairing or about to write its card.
LEMMA AbortIs ==
  ASSUME NEW m, Abort(m)
  PROVE  phase[m] \in {"rewrite", "ready"}
<1>1. PICK n : WaitsFor(m, n)
  BY Zenon DEF Abort
<1>2. Wants(m) # {}
  BY <1>1 DEF WaitsFor
<1>. QED
  BY <1>2 DEF Wants

LEMMA AbortShapes ==
  ASSUME Shapes, NEW m \in Mover, Abort(m)
  PROVE  Shapes'
<1>1. /\ Goto(m, "failed")
      /\ order' = [order EXCEPT ![m] = <<>>]
      /\ writes' = [writes EXCEPT ![m] = <<>>]
      /\ to' = [to EXCEPT ![m] = Null]
      /\ UNCHANGED <<list, rank, archived, drag, moves, shown, stale, unsure>>
  BY Zenon DEF Abort
<1>2. phase[m] \notin Idle
  BY AbortIs DEF Idle
<1>3. /\ Steps(m) /\ phase'[m] = "failed" /\ order'[m] = <<>> /\ writes'[m] = <<>>
      /\ to'[m] = Null
  BY <1>1, <1>2 DEF Steps, Goto, Phase, Idle, Shapes, Requests
<1>4. <<>> \in Seq(Int) /\ Len(<<>>) = 0 /\ DOMAIN <<>> = {}
  OBVIOUS
<1>5. /\ order'[m] \in Seq(Int)
      /\ \A i \in 1..Len(order'[m]) : order'[m][i] \in Card /\ list[order'[m][i]] # Nowhere
      /\ \A c \in DOMAIN writes'[m] : c \in Card /\ list[c] # Nowhere /\ isRank(writes'[m][c])
  BY <1>3, <1>4
<1>. QED
  BY <1>3, <1>5, StepShapes

\* What a commit does to the tables.
LEMMA CommitIs ==
  ASSUME Shapes, NEW m \in Mover, CommitMove(m)
  PROVE  /\ drag[m].card \in Card /\ drag[m].list \in Lists /\ drag[m].list # Nowhere
         /\ list' \in [Card -> Lists \cup {Nowhere}] /\ list'[drag[m].card] = drag[m].list
         /\ rank' \in [Card -> Seq(Int)] /\ rank'[drag[m].card] = to[m] /\ isRank(to[m])
         /\ \A c \in Card \ {drag[m].card} : list'[c] = list[c] /\ rank'[c] = Sees(m)[c]
         /\ archived' = archived
<1>1. phase[m] \in {"ready", "create"} /\ phase[m] \notin Idle
  BY DEF CommitMove, Idle
<1>2. drag[m].card \in Card /\ drag[m].list \in Lists /\ drag[m].list # Nowhere
  BY <1>1, BoardAssumption DEF Shapes, Opened
<1>3. isRank(to[m]) /\ to[m] \in Seq(Int)
  BY <1>1 DEF Shapes, Targets, isRank
<1>4. Sees(m) \in [Card -> Seq(Int)]
  BY SeesIs DEF Shapes
<1>5. /\ list' = [list EXCEPT ![drag[m].card] = drag[m].list]
      /\ rank' = [Sees(m) EXCEPT ![drag[m].card] = to[m]]
      /\ archived' = archived
  BY Zenon DEF CommitMove
<1>6. list \in [Card -> Lists \cup {Nowhere}]
  BY DEF Shapes, Tables
<1>. QED
  BY <1>2, <1>3, <1>4, <1>5, <1>6

LEMMA CommitShapes ==
  ASSUME Shapes, NEW m \in Mover, CommitMove(m)
  PROVE  Shapes'
<1>1. /\ drag[m].card \in Card /\ drag[m].list \in Lists /\ drag[m].list # Nowhere
      /\ list' \in [Card -> Lists \cup {Nowhere}] /\ list'[drag[m].card] = drag[m].list
      /\ rank' \in [Card -> Seq(Int)] /\ rank'[drag[m].card] = to[m] /\ isRank(to[m])
      /\ \A c \in Card \ {drag[m].card} : list'[c] = list[c] /\ rank'[c] = Sees(m)[c]
      /\ archived' = archived
  BY CommitIs
<1>2. Ranked'
  <2> SUFFICES ASSUME NEW c \in Card PROVE list'[c] # Nowhere <=> isRank(rank'[c])
    BY DEF Ranked, isRank
  <2>1. list[c] # Nowhere <=> isRank(Sees(m)[c])
    BY SeesIs DEF Shapes
  <2>. QED
    BY <1>1, <2>1
<1>3. \A c \in Card : list[c] # Nowhere => list'[c] # Nowhere
  BY <1>1
<1>4. Tables'
  BY <1>1, <1>2, <1>3 DEF Shapes, Tables
<1>5. /\ writes' = [writes EXCEPT ![m] = <<>>] /\ to' = [to EXCEPT ![m] = Null]
      /\ drag' = [drag EXCEPT ![m] = NoDrag] /\ stale' = stale \cup Others(m)
      /\ phase' = [phase EXCEPT ![m] = "idle"] /\ UNCHANGED <<order, moves, shown>>
      /\ \/ unsure' = unsure \cup {drag[m].card} \cup DOMAIN writes[m]
         \/ unsure' = unsure \ ({drag[m].card} \cup DOMAIN writes[m])
  <2>. DEFINE beside == m \in stale \/ In(drag[m].list) \cap archived # {}
  <2>1. CASE beside
    BY <2>1, Zenon DEF CommitMove, Goto
  <2>2. CASE ~beside
    BY <2>2, Zenon DEF CommitMove, Goto
  <2>. QED
    BY <2>1, <2>2
<1>6. DOMAIN writes[m] \subseteq Card
  BY DEF Shapes, Wrote
<1>7. Requests'
  <2>1. unsure' \subseteq Card
    BY <1>1, <1>5, <1>6 DEF Shapes, Requests
  <2>2. stale' \subseteq Mover
    BY <1>5 DEF Shapes, Requests, Others
  <2>. QED
    BY <1>5, <2>1, <2>2 DEF Shapes, Requests, Phase, Idle
<1>8. Opened'
  BY <1>5 DEF Shapes, Opened, Requests, Idle
<1>9. Ordered'
  <2> SUFFICES ASSUME NEW n \in Mover
               PROVE  /\ order[n] \in Seq(Int)
                      /\ \A i \in 1..Len(order[n]) :
                            order[n][i] \in Card /\ list'[order[n][i]] # Nowhere
    BY <1>5 DEF Ordered
  <2>. QED
    BY <1>3 DEF Shapes, Ordered
<1>10. Wrote'
  <2> SUFFICES ASSUME NEW n \in Mover
               PROVE  /\ \A c \in DOMAIN writes'[n] :
                            c \in Card /\ list'[c] # Nowhere /\ isRank(writes'[n][c])
                      /\ phase'[n] \in {"rewrite", "repaired", "ready"} \/ writes'[n] = <<>>
    BY DEF Wrote, isRank
  <2>1. CASE n = m
    <3>1. writes'[n] = <<>> /\ DOMAIN <<>> = {}
      BY <1>5, <2>1 DEF Shapes, Requests
    <3>. QED
      BY <3>1
  <2>2. CASE n # m
    <3>1. writes'[n] = writes[n] /\ phase'[n] = phase[n]
      BY <1>5, <2>2 DEF Shapes, Requests
    <3>. QED
      BY <1>3, <3>1 DEF Shapes, Wrote
  <2>. QED
    BY <2>1, <2>2
<1>11. Rows'
  BY <1>5 DEF Shapes, Rows, RowsOf, Requests
<1>12. Targets'
  <2> SUFFICES ASSUME NEW n \in Mover
               PROVE  /\ to'[n] = Null \/ isRank(to'[n])
                      /\ phase'[n] \in {"ready", "create"} => isRank(to'[n])
    BY DEF Targets, isRank
  <2>1. CASE n = m
    BY <1>5, <2>1 DEF Shapes, Requests
  <2>2. CASE n # m
    BY <1>5, <2>2 DEF Shapes, Requests, Targets
  <2>. QED
    BY <2>1, <2>2
<1>. QED
  BY <1>4, <1>7, <1>8, <1>9, <1>10, <1>11, <1>12 DEF Shapes

LEMMA ArchiveShapes ==
  ASSUME Shapes, NEW c \in Card, archiveCard(c)
  PROVE  Shapes'
<1>1. Tables'
  BY DEF archiveCard, Shapes, Tables, Ranked, isRank
<1>2. moves' \in 0..MoveBound
  BY BoardAssumption DEF archiveCard, Shapes, Requests
<1>3. Requests'
  BY <1>2 DEF archiveCard, Shapes, Requests
<1>4. Opened' /\ Ordered'
  BY DEF archiveCard, Shapes, Opened, Ordered
<1>5. Wrote' /\ Targets'
  BY DEF archiveCard, Shapes, Wrote, Targets, isRank
<1>6. Rows'
  BY DEF archiveCard, Shapes, Rows, RowsOf
<1>. QED
  BY <1>1, <1>3, <1>4, <1>5, <1>6 DEF Shapes

LEMMA NextShapes == Shapes /\ [Next]_vars => Shapes'
<1> SUFFICES ASSUME Shapes, [Next]_vars PROVE Shapes'
  OBVIOUS
<1>1. ASSUME NEW m \in Mover, NEW c \in Card, NEW l \in Lists, NEW i \in 0..Cardinality(Card),
             Drop(m, c, l, i)
      PROVE  Shapes'
  BY <1>1, DropShapes
<1>2. ASSUME NEW m \in Mover, NEW c \in Card, NEW l \in Lists, CreateCard(m, c, l)
      PROVE  Shapes'
  BY <1>2, CreateShapes
<1>3. ASSUME NEW c \in Card, archiveCard(c) PROVE Shapes'
  BY <1>3, ArchiveShapes
<1>4. ASSUME NEW m \in Mover, ReadNeighbours(m) PROVE Shapes'
  BY <1>4, PlaceShapes DEF ReadNeighbours
<1>5. ASSUME NEW m \in Mover, ReadColumn(m) PROVE Shapes'
  BY <1>5, ReadColumnShapes
<1>6. ASSUME NEW m \in Mover, RewriteRow(m) PROVE Shapes'
  BY <1>6, RewriteShapes
<1>7. ASSUME NEW m \in Mover, ReadAgain(m) PROVE Shapes'
  BY <1>7, PlaceShapes DEF ReadAgain
<1>8. ASSUME NEW m \in Mover, CommitMove(m) PROVE Shapes'
  BY <1>8, CommitShapes
<1>9. ASSUME NEW m \in Mover, Abort(m) PROVE Shapes'
  BY <1>9, AbortShapes
<1>10. CASE UNCHANGED vars
  BY <1>10 DEF vars, Shapes, Tables, Ranked, Requests, Opened, Ordered, Wrote, Rows, RowsOf,
               Targets, isRank
<1>. QED
  BY <1>1, <1>2, <1>3, <1>4, <1>5, <1>6, <1>7, <1>8, <1>9, <1>10 DEF Next

-----------------------------------------------------------------------------
(* A request nobody has overtaken still has the board it was made on. *)

OthersOf(m) == InOrder(Siblings(m), rank)

\* The card was let go after the i-th of the others.
DropsAt(m, i) ==
    /\ drag[m].before = At(OthersOf(m), i)
    /\ drag[m].after = At(OthersOf(m), i + 1)
    /\ shown[m] = Inserted(OthersOf(m), i, drag[m].card)

DropStands(m) == \E i \in 0..Cardinality(Siblings(m)) : DropsAt(m, i)

\* The list was rewritten in the order it has.
Rewritten(m) ==
    /\ DOMAIN writes[m] = In(drag[m].list)
    /\ \A c \in In(drag[m].list) : writes[m][c] # SMALLEST_INTEGER
    /\ \A c, d \in In(drag[m].list) :
          Before(c, d, rank) => Less(writes[m][c], writes[m][d])

MoveStands(m) == list[drag[m].card] # Nowhere /\ DropStands(m)

CreateStands(m) ==
    /\ list[drag[m].card] = Nowhere
    /\ shown[m] = Append(InOrder(Live(drag[m].list), rank), drag[m].card)
    /\ to[m] = EndOf(drag[m].list)

FoundStands(m) ==
    /\ writes[m] = <<>> \/ Rewritten(m)
    /\ to[m] = Asked(m) /\ Asked(m) # Null

Stands(m) ==
    /\ drag[m].card \notin archived
    /\ phase[m] # "create" => MoveStands(m)
    /\ phase[m] = "rewrite" => order[m] = Column(drag[m].list)
    /\ phase[m] = "repaired" => Rewritten(m)
    /\ phase[m] = "ready" => FoundStands(m)
    /\ phase[m] = "create" => CreateStands(m)

Fresh == \A m \in Mover \ stale : phase[m] \notin Idle => Stands(m)

LEMMA StandsStill ==
  ASSUME NEW m \in Mover, Stands(m), UNCHANGED <<list, rank, archived>>,
         phase'[m] = phase[m], drag'[m] = drag[m], order'[m] = order[m],
         writes'[m] = writes[m], to'[m] = to[m], shown'[m] = shown[m]
  PROVE  Stands(m)'
<1>1. Siblings(m)' = Siblings(m) /\ OthersOf(m)' = OthersOf(m)
  <2>1. Siblings(m)' = Siblings(m)
    BY DEF Siblings, Live, In
  <2>. QED
    BY <2>1 DEF OthersOf
<1>2. \A l : In(l)' = In(l) /\ Live(l)' = Live(l)
  BY DEF Live, In
<1>3. Column(drag[m].list)' = Column(drag[m].list)
  BY <1>2 DEF Column
<1>4. EndOf(drag[m].list)' = EndOf(drag[m].list)
  BY <1>2 DEF EndOf
<1>5. Asked(m)' = Asked(m)
  BY DEF Asked, rankOfNeighbour, Sees
<1>6. Rewritten(m) => Rewritten(m)'
  BY <1>2 DEF Rewritten, Before
<1>7. MoveStands(m) => MoveStands(m)'
  BY <1>1 DEF MoveStands, DropStands, DropsAt
<1>8. CreateStands(m) => CreateStands(m)'
  BY <1>2, <1>4 DEF CreateStands
<1>. QED
  BY <1>3, <1>5, <1>6, <1>7, <1>8 DEF Stands, FoundStands

LEMMA SiblingsAre ==
  ASSUME Shapes, NEW m \in Mover, phase[m] \notin Idle
  PROVE  /\ Siblings(m) \subseteq Card /\ Sortable(Siblings(m), rank)
         /\ \A c \in Siblings(m) : /\ c \in In(drag[m].list) /\ list[c] # Nowhere
                                   /\ c # drag[m].card
         /\ Listed(OthersOf(m), Siblings(m), rank)
         /\ OthersOf(m) \in Seq(Int) /\ Len(OthersOf(m)) = Cardinality(Siblings(m))
         /\ Cardinality(Siblings(m)) \in Nat
<1>1. drag[m].list # Nowhere
  BY BoardAssumption DEF Shapes, Opened
<1>2. Siblings(m) \subseteq Card
  BY DEF Siblings, Live, In
<1>3. \A c \in Siblings(m) : /\ c \in In(drag[m].list) /\ list[c] # Nowhere
                             /\ c # drag[m].card
  BY <1>1 DEF Siblings, Live, In
<1>4. Sortable(Siblings(m), rank)
  BY <1>2, Sorts DEF Shapes
<1>5. Listed(OthersOf(m), Siblings(m), rank)
  BY <1>4, InOrderIs DEF OthersOf
<1>. QED
  BY <1>2, <1>3, <1>4, <1>5, ListedIsSeq

\* The cards beside the place it was dropped at.
LEMMA NeighboursAre ==
  ASSUME Shapes, NEW m \in Mover, phase[m] \notin Idle,
         NEW n \in Nat, n = Cardinality(Siblings(m)), NEW i \in 0..n, DropsAt(m, i),
         NEW q, q = OthersOf(m)
  PROVE  /\ i = 0 => drag[m].before = None
         /\ i # 0 => drag[m].before = q[i] /\ q[i] \in Siblings(m)
         /\ i = n => drag[m].after = None
         /\ i # n => drag[m].after = q[i + 1] /\ q[i + 1] \in Siblings(m)
<1>1. DOMAIN q = 1..n /\ \A j \in 1..n : q[j] \in Siblings(m)
  BY SiblingsAre DEF Listed
<1>2. drag[m].before = At(q, i) /\ drag[m].after = At(q, i + 1)
  BY DEF DropsAt
<1>3. /\ i = 0 => i \notin 1..n
      /\ i # 0 => i \in 1..n
      /\ i = n => i + 1 \notin 1..n
      /\ i # n => i + 1 \in 1..n
  OBVIOUS
<1>. QED
  BY <1>1, <1>2, <1>3 DEF At

LEMMA StandingAreFound ==
  ASSUME Shapes, NEW m \in Mover, phase[m] \notin Idle, DropStands(m)
  PROVE  NeighboursFound(m)
<1>1. PICK n \in Nat : n = Cardinality(Siblings(m))
  BY SiblingsAre
<1>2. PICK i \in 0..n : DropsAt(m, i)
  BY <1>1 DEF DropStands
<1>. QED
  BY <1>1, <1>2, NeighboursAre DEF NeighboursFound

\* Between two cards of a list that was rewritten there is room.
LEMMA RewrittenAsks ==
  ASSUME Shapes, NEW m \in Mover, phase[m] \notin Idle, DropStands(m), Rewritten(m)
  PROVE  Asked(m) # Null
<1>1. PICK n \in Nat : n = Cardinality(Siblings(m))
  BY SiblingsAre
<1>2. PICK i \in 0..n : DropsAt(m, i)
  BY <1>1 DEF DropStands
<1>3. PICK q : q = OthersOf(m)
  OBVIOUS
<1>4. PICK r : r = rankOfNeighbour(m, drag[m].before)
  OBVIOUS
<1>5. PICK s : s = rankOfNeighbour(m, drag[m].after)
  OBVIOUS
<1>6. Neighbour(r) /\ Neighbour(s)
  BY <1>4, <1>5, StandingAreFound, FoundIs DEF Shapes
<1>7. SUFFICES ASSUME r # Null, s # Null PROVE Less(r, s)
  BY <1>4, <1>5, <1>6, BetweenIs DEF Asked
<1>8. i # 0 /\ i # n
  BY <1>1, <1>2, <1>3, <1>4, <1>5, <1>7, NeighboursAre DEF rankOfNeighbour
<1>9. /\ drag[m].before = q[i] /\ q[i] \in Siblings(m)
      /\ drag[m].after = q[i + 1] /\ q[i + 1] \in Siblings(m)
  BY <1>1, <1>2, <1>3, <1>8, NeighboursAre
<1>10. Before(q[i], q[i + 1], rank)
  <2>1. i \in 1..n /\ i + 1 \in 1..n /\ i < i + 1
    BY <1>8
  <2>. QED
    BY <1>1, <1>3, <2>1, SiblingsAre DEF Listed
<1>11. q[i] \in In(drag[m].list) /\ q[i + 1] \in In(drag[m].list)
  BY <1>9, SiblingsAre
<1>12. Less(writes[m][q[i]], writes[m][q[i + 1]])
  BY <1>10, <1>11 DEF Rewritten
<1>13. ASSUME NEW c \in In(drag[m].list)
       PROVE  c # None /\ c \in Card /\ c \in DOMAIN writes[m]
  BY BoardAssumption DEF In, Rewritten
<1>14. r = writes[m][q[i]] /\ s = writes[m][q[i + 1]]
  BY <1>4, <1>5, <1>9, <1>11, <1>13 DEF rankOfNeighbour, Sees
<1>. QED
  BY <1>12, <1>14

\* The other requests do not notice a step of one.
LEMMA StepFresh ==
  ASSUME Shapes, Fresh, NEW m \in Mover, Steps(m),
         m \in stale \/ phase'[m] = "failed" \/ Stands(m)'
  PROVE  Fresh'
<1> SUFFICES ASSUME NEW n \in Mover, n \notin stale, phase'[n] \notin Idle
             PROVE  Stands(n)'
  BY DEF Fresh, Steps
<1>1. CASE n = m
  BY <1>1 DEF Idle
<1>2. CASE n # m
  <2>1. /\ phase'[n] = phase[n] /\ order'[n] = order[n] /\ writes'[n] = writes[n]
        /\ to'[n] = to[n] /\ drag'[n] = drag[n] /\ shown'[n] = shown[n]
        /\ UNCHANGED <<list, rank, archived>>
    BY <1>2 DEF Steps, Shapes, Requests
  <2>2. Stands(n)
    BY <2>1 DEF Fresh
  <2>. QED
    BY <2>1, <2>2, StandsStill
<1>. QED
  BY <1>1, <1>2

\* What a step of a request that moves a card leaves true of it.
LEMMA MoveStandsStill ==
  ASSUME NEW m \in Mover, UNCHANGED <<list, rank, archived, drag, shown>>, MoveStands(m)
  PROVE  MoveStands(m)'
<1>1. Siblings(m)' = Siblings(m)
  BY DEF Siblings, Live, In
<1>2. OthersOf(m)' = OthersOf(m)
  BY <1>1 DEF OthersOf
<1>. QED
  BY <1>1, <1>2 DEF MoveStands, DropStands, DropsAt

\* Its neighbours are where it saw them, and where there is no rank between
\* them the repair makes room: it does not fail.
LEMMA PlaceFinds ==
  ASSUME Shapes, Fresh, NEW m \in Mover \ stale, NEW otherwise, PlaceBetween(m, otherwise),
         \/ phase[m] = "dropped" /\ otherwise = "repair"
         \/ phase[m] = "repaired" /\ otherwise = "failed"
  PROVE  /\ drag[m].card \notin archived /\ MoveStands(m)
         /\ phase[m] = "repaired" => Rewritten(m) /\ Asked(m) # Null
         /\ \/ /\ Asked(m) # Null
               /\ to' = [to EXCEPT ![m] = Asked(m)]
               /\ Goto(m, "ready")
               /\ UNCHANGED writes
            \/ Goto(m, "repair") /\ UNCHANGED <<to, writes>>
<1>1. phase[m] \notin Idle /\ phase[m] # "create"
  BY DEF Idle
<1>2. Stands(m)
  BY <1>1 DEF Fresh
<1>3. drag[m].card \notin archived /\ MoveStands(m) /\ DropStands(m)
  BY <1>1, <1>2 DEF Stands, MoveStands
<1>4. NeighboursFound(m)
  BY <1>1, <1>3, StandingAreFound
<1>5. phase[m] = "repaired" => Rewritten(m) /\ Asked(m) # Null
  BY <1>1, <1>2, <1>3, RewrittenAsks DEF Stands
<1>. QED
  BY <1>3, <1>4, <1>5, PlaceIs

LEMMA PlaceFresh ==
  ASSUME Shapes, Fresh, NEW m \in Mover, NEW otherwise, PlaceBetween(m, otherwise),
         \/ phase[m] = "dropped" /\ otherwise = "repair"
         \/ phase[m] = "repaired" /\ otherwise = "failed",
         UNCHANGED <<list, rank, archived, drag, order, moves, shown, stale, unsure>>
  PROVE  Fresh'
<1>1. phase[m] \notin Idle /\ phase[m] # "create"
  BY DEF Idle
<1>2. phase[m] = "dropped" => writes[m] = <<>>
  BY DEF Shapes, Wrote
<1>3. Steps(m)
  BY <1>1, PlaceIs DEF Steps, Goto, Phase, Shapes, Requests, Idle
<1>4. CASE m \in stale
  BY <1>3, <1>4, StepFresh
<1>5. CASE m \notin stale
  <2>1. /\ drag[m].card \notin archived /\ MoveStands(m)
        /\ phase[m] = "repaired" => Rewritten(m) /\ Asked(m) # Null
        /\ \/ /\ Asked(m) # Null
              /\ to' = [to EXCEPT ![m] = Asked(m)]
              /\ Goto(m, "ready")
              /\ UNCHANGED writes
           \/ Goto(m, "repair") /\ UNCHANGED <<to, writes>>
    BY <1>5, PlaceFinds
  <2>2. drag[m].card \notin archived /\ MoveStands(m)'
    BY <2>1, MoveStandsStill
  <2>3. CASE /\ Asked(m) # Null
             /\ to' = [to EXCEPT ![m] = Asked(m)]
             /\ Goto(m, "ready")
             /\ UNCHANGED writes
    <3>1. phase'[m] = "ready" /\ to'[m] = Asked(m) /\ writes'[m] = writes[m]
      BY <2>3 DEF Goto, Shapes, Requests
    <3>2. Asked(m)' = Asked(m)
      BY <2>3 DEF Asked, rankOfNeighbour, Sees
    <3>3. writes[m] = <<>> \/ Rewritten(m)
      BY <1>2, <2>1
    <3>4. Rewritten(m) => Rewritten(m)'
      BY <3>1 DEF Rewritten, In, Before
    <3>5. FoundStands(m)'
      BY <2>3, <3>1, <3>2, <3>3, <3>4 DEF FoundStands
    <3>6. Stands(m)'
      BY <2>2, <3>1, <3>5 DEF Stands
    <3>. QED
      BY <1>3, <3>1, <3>6, StepFresh
  <2>4. CASE Goto(m, "repair") /\ UNCHANGED <<to, writes>>
    <3>1. phase'[m] = "repair"
      BY <2>4 DEF Goto, Shapes, Requests
    <3>2. Stands(m)'
      BY <2>2, <3>1 DEF Stands
    <3>. QED
      BY <1>3, <3>1, <3>2, StepFresh
  <2>. QED
    BY <2>1, <2>3, <2>4
<1>. QED
  BY <1>4, <1>5

LEMMA ReadColumnFresh ==
  ASSUME Shapes, Fresh, NEW m \in Mover, ReadColumn(m)
  PROVE  Fresh'
<1>1. /\ phase[m] = "repair" /\ phase[m] \notin Idle
      /\ order' = [order EXCEPT ![m] = Column(drag[m].list)]
      /\ Goto(m, IF In(drag[m].list) = {} THEN "repaired" ELSE "rewrite")
      /\ UNCHANGED <<list, rank, archived, drag, writes, to, moves, shown, stale, unsure>>
  BY DEF ReadColumn, Idle
<1>2. /\ Steps(m) /\ order'[m] = Column(drag[m].list)
      /\ phase'[m] = IF In(drag[m].list) = {} THEN "repaired" ELSE "rewrite"
  BY <1>1 DEF Steps, Goto, Phase, Shapes, Requests
<1>3. CASE m \in stale
  BY <1>2, <1>3, StepFresh
<1>4. CASE m \notin stale
  <2>1. Stands(m)
    BY <1>1, <1>4 DEF Fresh
  <2>2. drag[m].card \notin archived /\ MoveStands(m)'
    BY <1>1, <2>1, MoveStandsStill DEF Stands
  <2>3. In(drag[m].list)' = In(drag[m].list)
    BY <1>1 DEF In
  <2>4. Column(drag[m].list)' = Column(drag[m].list)
    BY <1>1, <2>3 DEF Column
  <2>5. In(drag[m].list) = {} => Rewritten(m)'
    <3>1. writes'[m] = <<>> /\ DOMAIN <<>> = {}
      BY <1>1 DEF Shapes, Wrote
    <3>. QED
      BY <1>1, <2>3, <3>1 DEF Rewritten
  <2>6. Stands(m)'
    BY <1>1, <1>2, <2>2, <2>4, <2>5 DEF Stands
  <2>. QED
    BY <1>2, <2>6, StepFresh
<1>. QED
  BY <1>3, <1>4

\* Rewriting the list in the order it has, each card gets the rank of its place.
LEMMA RewriteKeepsOrder ==
  ASSUME Shapes, NEW m \in Mover, order[m] = Column(drag[m].list), NEW w,
         RowsOf(order[m], w), \A i \in 1..Len(order[m]) : order[m][i] \in DOMAIN w
  PROVE  /\ DOMAIN w = In(drag[m].list)
         /\ \A c \in In(drag[m].list) : w[c] # SMALLEST_INTEGER
         /\ \A c, d \in In(drag[m].list) : Before(c, d, rank) => Less(w[c], w[d])
<1>1. PICK S : S = In(drag[m].list)
  OBVIOUS
<1>2. S \subseteq Card /\ Sortable(S, rank)
  BY <1>1, Sorts DEF In, Shapes
<1>3. PICK q : q = order[m]
  OBVIOUS
<1>4. Listed(q, S, rank) /\ q \in Seq(Int) /\ Len(q) = Cardinality(S)
  BY <1>1, <1>3, ColumnIs DEF Column, Shapes
<1>5. PICK n \in Nat : n = Len(q) /\ n = Cardinality(S)
  BY <1>4, LenProperties
<1>7. /\ \A c \in DOMAIN w : \E i \in 1..n : q[i] = c /\ w[c] = rankSequence(n)[i]
      /\ \A i \in 1..n : q[i] \in DOMAIN w
  BY <1>3, <1>5 DEF RowsOf
<1>8. /\ \A i \in 1..n : q[i] \in S
      /\ \A c \in S : \E i \in 1..n : q[i] = c
      /\ \A i, j \in 1..n : i < j => Before(q[i], q[j], rank)
  BY <1>4, <1>5 DEF Listed
<1>9. DOMAIN w = S
  BY <1>7, <1>8
<1>10. ASSUME NEW c \in S PROVE w[c] # SMALLEST_INTEGER
  BY <1>7, <1>9, RankSequenceIs
<1>11. ASSUME NEW c \in S, NEW d \in S, Before(c, d, rank) PROVE Less(w[c], w[d])
  <2>1. PICK i \in 1..n : q[i] = c /\ w[c] = rankSequence(n)[i]
    BY <1>7, <1>9
  <2>2. PICK j \in 1..n : q[j] = d /\ w[d] = rankSequence(n)[j]
    BY <1>7, <1>9
  <2>3. i < j
    <3>1. ~Before(d, c, rank) /\ c # d
      BY <1>2, <1>11, NotBothBefore, BeforeOrders
    <3>2. ~(j < i)
      BY <1>8, <2>1, <2>2, <3>1
    <3>3. i # j
      BY <2>1, <2>2, <3>1
    <3>. QED
      BY <3>2, <3>3
  <2>. QED
    BY <2>1, <2>2, <2>3, RankSequenceIs
<1>. QED
  BY <1>1, <1>9, <1>10, <1>11

LEMMA RewriteFresh ==
  ASSUME Shapes, Fresh, NEW m \in Mover, RewriteRow(m)
  PROVE  Fresh'
<1>1. /\ phase[m] = "rewrite"
      /\ RowsOf(order[m], writes'[m])
      /\ \A n \in Mover \ {m} : writes'[n] = writes[n]
      /\ DOMAIN writes' = Mover
      /\ \/ /\ \A i \in 1..Len(order[m]) : order[m][i] \in DOMAIN writes'[m]
            /\ Goto(m, "repaired")
            /\ order' = [order EXCEPT ![m] = <<>>]
         \/ UNCHANGED <<phase, order>>
      /\ UNCHANGED <<list, rank, archived, drag, to, moves, shown, stale, unsure>>
  BY RewriteIs
<1>2. phase \in [Mover -> Phase] /\ DOMAIN order = Mover /\ DOMAIN to = Mover
  BY DEF Shapes, Requests
<1>3. Steps(m)
  <2>1. CASE Goto(m, "repaired") /\ order' = [order EXCEPT ![m] = <<>>]
    BY <1>1, <1>2, <2>1 DEF Steps, Goto, Phase, Idle
  <2>2. CASE UNCHANGED <<phase, order>>
    <3>1. phase' = [phase EXCEPT ![m] = "rewrite"] /\ "rewrite" \in Phase
      BY <1>1, <1>2, <2>2 DEF Phase
    <3>. QED
      BY <1>1, <1>2, <2>2, <3>1 DEF Steps, Idle
  <2>. QED
    BY <1>1, <2>1, <2>2
<1>4. CASE m \in stale
  BY <1>3, <1>4, StepFresh
<1>5. CASE m \notin stale
  <2>1. Stands(m)
    BY <1>1, <1>5 DEF Fresh, Idle
  <2>2. drag[m].card \notin archived /\ MoveStands(m)'
    BY <1>1, <2>1, MoveStandsStill DEF Stands
  <2>3. order[m] = Column(drag[m].list)
    BY <1>1, <2>1 DEF Stands
  <2>4. In(drag[m].list)' = In(drag[m].list)
    BY <1>1 DEF In
  <2>5. CASE /\ \A i \in 1..Len(order[m]) : order[m][i] \in DOMAIN writes'[m]
             /\ Goto(m, "repaired")
    <3>1. Rewritten(m)'
      BY <1>1, <2>3, <2>4, <2>5, RewriteKeepsOrder DEF Rewritten, Before
    <3>2. phase'[m] = "repaired"
      BY <1>2, <2>5 DEF Goto
    <3>3. Stands(m)'
      BY <1>1, <2>2, <3>1, <3>2 DEF Stands
    <3>. QED
      BY <1>3, <3>3, StepFresh
  <2>6. CASE UNCHANGED <<phase, order>>
    <3>1. Column(drag[m].list)' = Column(drag[m].list)
      BY <1>1, <2>4 DEF Column
    <3>2. Stands(m)'
      BY <1>1, <2>2, <2>3, <2>6, <3>1 DEF Stands
    <3>. QED
      BY <1>3, <3>2, StepFresh
  <2>. QED
    BY <1>1, <2>5, <2>6
<1>. QED
  BY <1>4, <1>5

LEMMA AbortFresh ==
  ASSUME Shapes, Fresh, NEW m \in Mover, Abort(m)
  PROVE  Fresh'
<1>1. /\ Goto(m, "failed")
      /\ order' = [order EXCEPT ![m] = <<>>]
      /\ writes' = [writes EXCEPT ![m] = <<>>]
      /\ to' = [to EXCEPT ![m] = Null]
      /\ UNCHANGED <<list, rank, archived, drag, moves, shown, stale, unsure>>
  BY Zenon DEF Abort
<1>2. phase[m] \notin Idle
  BY AbortIs DEF Idle
<1>3. Steps(m) /\ phase'[m] = "failed"
  BY <1>1, <1>2 DEF Steps, Goto, Phase, Idle, Shapes, Requests
<1>. QED
  BY <1>3, StepFresh

\* The other requests do not notice a new one.
LEMMA AskFresh ==
  ASSUME Shapes, Fresh, NEW m \in Mover, NEW p \in {"dropped", "create"}, NEW c, NEW l,
         NEW before, NEW after, NEW seen, Ask(m, p, c, l, before, after, seen),
         UNCHANGED <<list, rank, archived, order, writes>>,
         \A n \in Mover \ {m} : to'[n] = to[n], Stands(m)'
  PROVE  Fresh'
<1> SUFFICES ASSUME NEW n \in Mover, n \notin stale', phase'[n] \notin Idle
             PROVE  Stands(n)'
  BY DEF Fresh
<1>1. CASE n = m
  BY <1>1
<1>2. CASE n # m
  <2>1. /\ phase'[n] = phase[n] /\ order'[n] = order[n] /\ writes'[n] = writes[n]
        /\ to'[n] = to[n] /\ drag'[n] = drag[n] /\ shown'[n] = shown[n]
        /\ UNCHANGED <<list, rank, archived>>
    BY <1>2 DEF Ask, Goto, Shapes, Requests
  <2>2. n \notin stale
    BY <1>2 DEF Ask
  <2>3. Stands(n)
    BY <2>1, <2>2 DEF Fresh
  <2>. QED
    BY <2>1, <2>3, StandsStill
<1>. QED
  BY <1>1, <1>2

LEMMA DropFresh ==
  ASSUME Shapes, Fresh, NEW m \in Mover, NEW c \in Card, NEW l \in Lists,
         NEW i \in 0..Cardinality(Card), Drop(m, c, l, i)
  PROVE  Fresh'
<1>1. PICK q : q = InOrder(Live(l) \ {c}, rank)
  OBVIOUS
<1>2. /\ list[c] # Nowhere /\ c \notin archived /\ i <= Len(q)
      /\ Ask(m, "dropped", c, l, At(q, i), At(q, i + 1), Inserted(q, i, c))
      /\ UNCHANGED <<list, rank, archived, order, writes, to, unsure>>
  BY <1>1, Zenon DEF Drop, Inserted
<1>3. PICK S : S = Live(l) \ {c}
  OBVIOUS
<1>4. Len(q) = Cardinality(S)
  <2>1. S \subseteq Card /\ Sortable(S, rank)
    BY <1>3, Sorts DEF Shapes, Live, In
  <2>2. Listed(q, S, rank)
    BY <1>1, <1>3, <2>1, InOrderIs
  <2>. QED
    BY <2>1, <2>2, ListedIsSeq
<1>5. PICK k : k = Len(q)
  OBVIOUS
<1>6. k \in Nat
  <2>1. IsFiniteSet(S)
    BY <1>3, BoardAssumption, FS_Subset DEF Live, In
  <2>. QED
    BY <1>4, <1>5, <2>1, FS_CardinalityType
<1>7. /\ drag'[m].card = c /\ drag'[m].list = l /\ drag'[m].before = At(q, i)
      /\ drag'[m].after = At(q, i + 1) /\ shown'[m] = Inserted(q, i, c)
      /\ phase'[m] = "dropped"
  BY <1>2 DEF Ask, Goto, Shapes, Requests
<1>8. Siblings(m)' = S
  BY <1>2, <1>3, <1>7 DEF Siblings, Live, In
<1>9. OthersOf(m)' = q
  BY <1>1, <1>2, <1>3, <1>8 DEF OthersOf
<1>10. DropsAt(m, i)'
  BY <1>7, <1>9 DEF DropsAt
<1>11. DropStands(m)'
  <2>1. i \in 0..k
    BY <1>2, <1>5, <1>6
  <2>2. k = Cardinality(Siblings(m)')
    BY <1>4, <1>5, <1>8
  <2>. QED
    BY <1>10, <2>1, <2>2 DEF DropStands
<1>12. Stands(m)'
  BY <1>2, <1>7, <1>11 DEF Stands, MoveStands
<1>. QED
  BY <1>2, <1>12, AskFresh

LEMMA CreateFresh ==
  ASSUME Shapes, Fresh, NEW m \in Mover, NEW c \in Card, NEW l \in Lists, CreateCard(m, c, l)
  PROVE  Fresh'
<1>1. /\ list[c] = Nowhere
      /\ Ask(m, "create", c, l, None, None, Append(InOrder(Live(l), rank), c))
      /\ to' = [to EXCEPT ![m] = EndOf(l)]
      /\ UNCHANGED <<list, rank, archived, order, writes, unsure>>
  BY Zenon DEF CreateCard
<1>2. c \notin archived
  BY <1>1 DEF Shapes, Tables
<1>3. /\ drag'[m].card = c /\ drag'[m].list = l /\ phase'[m] = "create"
      /\ shown'[m] = Append(InOrder(Live(l), rank), c) /\ to'[m] = EndOf(l)
  BY <1>1 DEF Ask, Goto, Shapes, Requests
<1>4. Live(l)' = Live(l) /\ In(l)' = In(l)
  BY <1>1 DEF Live, In
<1>5. EndOf(l)' = EndOf(l)
  BY <1>1, <1>4 DEF EndOf
<1>6. CreateStands(m)'
  BY <1>1, <1>3, <1>4, <1>5 DEF CreateStands
<1>7. Stands(m)'
  BY <1>1, <1>2, <1>3, <1>6 DEF Stands
<1>8. \A n \in Mover \ {m} : to'[n] = to[n]
  BY <1>1 DEF Shapes, Requests
<1>. QED
  BY <1>1, <1>7, <1>8, AskFresh

\* A commit and an archiving overtake every open request.
LEMMA CommitFresh ==
  ASSUME Shapes, Fresh, NEW m \in Mover, CommitMove(m)
  PROVE  Fresh'
<1>1. /\ stale' = stale \cup Others(m) /\ phase' = [phase EXCEPT ![m] = "idle"]
      /\ phase[m] \in {"ready", "create"}
  BY Zenon DEF CommitMove, Goto
<1> SUFFICES ASSUME NEW n \in Mover, n \notin stale' PROVE phase'[n] \in Idle
  BY DEF Fresh
<1>2. CASE n = m
  BY <1>1, <1>2 DEF Shapes, Requests, Idle
<1>3. CASE n # m
  BY <1>1, <1>3 DEF Shapes, Requests, Others
<1>. QED
  BY <1>2, <1>3

LEMMA ArchiveFresh ==
  ASSUME Shapes, Fresh, NEW c \in Card, archiveCard(c)
  PROVE  Fresh'
<1> SUFFICES ASSUME NEW n \in Mover, n \notin stale' PROVE phase'[n] \in Idle
  BY DEF Fresh
<1>. QED
  BY DEF archiveCard

LEMMA NextFresh == Shapes /\ Fresh /\ [Next]_vars => Fresh'
<1> SUFFICES ASSUME Shapes, Fresh, [Next]_vars PROVE Fresh'
  OBVIOUS
<1>1. ASSUME NEW m \in Mover, NEW c \in Card, NEW l \in Lists, NEW i \in 0..Cardinality(Card),
             Drop(m, c, l, i)
      PROVE  Fresh'
  BY <1>1, DropFresh
<1>2. ASSUME NEW m \in Mover, NEW c \in Card, NEW l \in Lists, CreateCard(m, c, l)
      PROVE  Fresh'
  BY <1>2, CreateFresh
<1>3. ASSUME NEW c \in Card, archiveCard(c) PROVE Fresh'
  BY <1>3, ArchiveFresh
<1>4. ASSUME NEW m \in Mover, ReadNeighbours(m) PROVE Fresh'
  BY <1>4, PlaceFresh DEF ReadNeighbours
<1>5. ASSUME NEW m \in Mover, ReadColumn(m) PROVE Fresh'
  BY <1>5, ReadColumnFresh
<1>6. ASSUME NEW m \in Mover, RewriteRow(m) PROVE Fresh'
  BY <1>6, RewriteFresh
<1>7. ASSUME NEW m \in Mover, ReadAgain(m) PROVE Fresh'
  BY <1>7, PlaceFresh DEF ReadAgain
<1>8. ASSUME NEW m \in Mover, CommitMove(m) PROVE Fresh'
  BY <1>8, CommitFresh
<1>9. ASSUME NEW m \in Mover, Abort(m) PROVE Fresh'
  BY <1>9, AbortFresh
<1>10. CASE UNCHANGED vars
  <2> SUFFICES ASSUME NEW n \in Mover, n \notin stale, phase[n] \notin Idle
               PROVE  Stands(n)'
    BY <1>10 DEF Fresh, vars
  <2>1. Stands(n)
    BY DEF Fresh
  <2>. QED
    BY <1>10, <2>1, StandsStill DEF vars
<1>. QED
  BY <1>1, <1>2, <1>3, <1>4, <1>5, <1>6, <1>7, <1>8, <1>9, <1>10 DEF Next

LEMMA InitFresh == Init => Fresh
BY DEF Init, Fresh, Idle

-----------------------------------------------------------------------------
(* Where a request that nobody overtook puts its card. *)

\* No card is at the very bottom of the ranks.
AboveBottom == \A c \in Card : rank[c] # SMALLEST_INTEGER

\* With ranks r, m's card is after the i-th of the others, and they are listed
\* as the person saw them.
Put(m, r, i) ==
    /\ Listed(OthersOf(m), Siblings(m), r)
    /\ i # 0 => Less(r[OthersOf(m)[i]], r[drag[m].card])
    /\ i # Cardinality(Siblings(m)) => Less(r[drag[m].card], r[OthersOf(m)[i + 1]])
    /\ Splices(shown[m], OthersOf(m), i, Cardinality(Siblings(m)), drag[m].card)

LEMMA FoundPuts ==
  ASSUME Shapes, AboveBottom, NEW m \in Mover, CommitMove(m), phase[m] = "ready",
         MoveStands(m), FoundStands(m)
  PROVE  \E i \in 0..Cardinality(Siblings(m)) : Put(m, rank', i)
<1>1. phase[m] \notin Idle
  BY DEF Idle
<1>2. PICK n \in Nat : n = Cardinality(Siblings(m))
  BY <1>1, SiblingsAre
<1>3. PICK i \in 0..n : DropsAt(m, i)
  BY <1>2 DEF MoveStands, DropStands
<1>4. PICK q : q = OthersOf(m)
  OBVIOUS
<1>5. PICK S : S = Siblings(m)
  OBVIOUS
<1>6. /\ S \subseteq Card /\ Sortable(S, rank) /\ Listed(q, S, rank)
      /\ q \in Seq(Int) /\ Len(q) = n
      /\ \A c \in S : c \in In(drag[m].list) /\ c # drag[m].card
  BY <1>1, <1>2, <1>4, <1>5, SiblingsAre
<1>7. PICK r : r = rank'
  OBVIOUS
<1>8. r[drag[m].card] = to[m] /\ (\A c \in S : r[c] = Sees(m)[c]) /\ drag[m].card \in Card
  BY <1>6, <1>7, CommitIs
<1>9. \A c \in S : Sees(m)[c] # SMALLEST_INTEGER
  BY <1>6 DEF Sees, AboveBottom, FoundStands, Rewritten
<1>10. \A c, d \in S : Before(c, d, rank) => Before(c, d, r)
  <2>1. CASE writes[m] = <<>>
    <3>1. \A c \in S : r[c] = rank[c]
      <4>1. DOMAIN <<>> = {}
        OBVIOUS
      <4>. QED
        BY <1>6, <1>8, <2>1, <4>1 DEF Sees
    <3>. QED
      BY <3>1 DEF Before
  <2>2. CASE Rewritten(m)
    <3>1. \A c \in S : r[c] = writes[m][c]
      BY <1>6, <1>8, <2>2 DEF Sees, Rewritten
    <3>. QED
      BY <1>6, <2>2, <3>1 DEF Before, Rewritten
  <2>. QED
    BY <2>1, <2>2 DEF FoundStands
<1>11. Listed(q, S, r)
  BY <1>6, <1>10, SameOrder
<1>12. /\ i = 0 => drag[m].before = None
       /\ i # 0 => drag[m].before = q[i] /\ q[i] \in S
       /\ i = n => drag[m].after = None
       /\ i # n => drag[m].after = q[i + 1] /\ q[i + 1] \in S
  BY <1>1, <1>2, <1>3, <1>4, <1>5, NeighboursAre
<1>13. PICK x : x = rankOfNeighbour(m, drag[m].before)
  OBVIOUS
<1>14. PICK y : y = rankOfNeighbour(m, drag[m].after)
  OBVIOUS
<1>15. Neighbour(x) /\ Neighbour(y) /\ to[m] = between(x, y) /\ between(x, y) # Null
  <2>1. NeighboursFound(m)
    BY <1>1, StandingAreFound DEF MoveStands
  <2>. QED
    BY <1>1, <1>13, <1>14, <2>1, FoundIs DEF Shapes, FoundStands, Asked
<1>16. \A c \in S : c # None /\ Sees(m)[c] # Null
  <2>1. \A c \in S : c # None /\ list[c] # Nowhere
    BY <1>1, <1>5, <1>6, BoardAssumption, SiblingsAre
  <2>. QED
    BY <1>6, <2>1, SeesIs DEF Shapes, isRank
<1>17. i # 0 => Less(r[q[i]], r[drag[m].card])
  <2>1. i # 0 => x = Sees(m)[q[i]] /\ x # Null
    BY <1>12, <1>13, <1>16 DEF rankOfNeighbour
  <2>2. i # 0 => Less(x, to[m])
    BY <1>15, <2>1, BetweenIs
  <2>. QED
    BY <1>8, <1>12, <2>1, <2>2
<1>18. i # n => Less(r[drag[m].card], r[q[i + 1]])
  <2>1. i # n => y = Sees(m)[q[i + 1]] /\ y # Null /\ y # SMALLEST_INTEGER
    BY <1>9, <1>12, <1>14, <1>16 DEF rankOfNeighbour
  <2>2. i # n => Less(to[m], y)
    BY <1>15, <2>1, BetweenIs
  <2>. QED
    BY <1>8, <1>12, <2>1, <2>2
<1>19. Splices(shown[m], q, i, n, drag[m].card)
  <2>1. shown[m] = Inserted(q, i, drag[m].card)
    BY <1>3, <1>4 DEF DropsAt
  <2>2. drag[m].card \in Int
    BY <1>8, BoardAssumption
  <2>. QED
    BY <1>6, <2>1, <2>2, InsertedSplices
<1>20. Put(m, r, i)
  BY <1>2, <1>4, <1>5, <1>11, <1>17, <1>18, <1>19 DEF Put
<1>. QED
  BY <1>2, <1>7, <1>20

LEMMA CreatedPuts ==
  ASSUME Shapes, NEW m \in Mover, CommitMove(m), phase[m] = "create", CreateStands(m)
  PROVE  \E i \in 0..Cardinality(Siblings(m)) : Put(m, rank', i)
<1>1. phase[m] \notin Idle
  BY DEF Idle
<1>2. PICK n \in Nat : n = Cardinality(Siblings(m))
  BY <1>1, SiblingsAre
<1>3. drag[m].card \in Card /\ drag[m].list \in Lists /\ drag[m].list # Nowhere
  BY CommitIs
<1>4. Siblings(m) = Live(drag[m].list)
  BY <1>3 DEF CreateStands, Siblings, Live, In
<1>5. PICK q : q = OthersOf(m)
  OBVIOUS
<1>6. PICK S : S = Siblings(m)
  OBVIOUS
<1>7. /\ S \subseteq Card /\ Listed(q, S, rank) /\ q \in Seq(Int) /\ Len(q) = n
      /\ \A c \in S : c \in In(drag[m].list) /\ c # drag[m].card
  BY <1>1, <1>2, <1>5, <1>6, SiblingsAre
<1>8. PICK r : r = rank'
  OBVIOUS
<1>9. r[drag[m].card] = to[m] /\ \A c \in S : r[c] = rank[c]
  <2>1. writes[m] = <<>> /\ DOMAIN <<>> = {}
    BY DEF Shapes, Wrote
  <2>2. \A c \in Card : Sees(m)[c] = rank[c]
    BY <2>1 DEF Sees
  <2>. QED
    BY <1>7, <1>8, <2>2, CommitIs
<1>10. Listed(q, S, r)
  <2>1. \A c, d \in S : Before(c, d, rank) => Before(c, d, r)
    BY <1>9 DEF Before
  <2>. QED
    BY <1>7, <2>1, SameOrder
<1>11. n # 0 => Less(r[q[n]], r[drag[m].card])
  <2>1. n # 0 => q[n] \in S
    BY <1>2, <1>6, <1>7 DEF Listed
  <2>2. to[m] = EndOf(drag[m].list)
    BY DEF CreateStands
  <2>. QED
    BY <1>3, <1>7, <1>9, <2>1, <2>2, EndIs DEF Shapes
<1>12. Splices(shown[m], q, n, n, drag[m].card)
  <2>1. shown[m] = Append(q, drag[m].card)
    BY <1>4, <1>5 DEF CreateStands, OthersOf
  <2>2. drag[m].card \in Int
    <3>1. Card \subseteq Int
      BY BoardAssumption
    <3>. QED
      BY <1>3, <3>1
  <2>. QED
    BY <1>7, <2>1, <2>2, AppendSplices
<1>13. Put(m, r, n)
  BY <1>2, <1>5, <1>6, <1>10, <1>11, <1>12 DEF Put
<1>14. n \in 0..n
  OBVIOUS
<1>. QED
  BY <1>2, <1>8, <1>13, <1>14

\* A request nobody overtook puts its card where it was dropped.
LEMMA FreshPuts ==
  ASSUME Shapes, Fresh, AboveBottom, NEW m \in Mover, m \notin stale, CommitMove(m)
  PROVE  \E i \in 0..Cardinality(Siblings(m)) : Put(m, rank', i)
<1>1. phase[m] \in {"ready", "create"} /\ Stands(m)
  BY DEF CommitMove, Fresh, Idle
<1>2. CASE phase[m] = "ready"
  BY <1>1, <1>2, FoundPuts DEF Stands
<1>3. CASE phase[m] = "create"
  BY <1>1, <1>3, CreatedPuts DEF Stands
<1>. QED
  BY <1>1, <1>2, <1>3

\* The list is then as the person saw it when they let go.
LEMMA FreshLands ==
  ASSUME Shapes, Shapes', Fresh, AboveBottom, NEW m \in Mover, m \notin stale, CommitMove(m),
         NEW l, l = drag[m].list
  PROVE  InOrder(Live(l)', rank') = shown[m]
<1>1. phase[m] \in {"ready", "create"} /\ phase[m] \notin Idle /\ drag[m].card \notin archived
  BY DEF CommitMove, Fresh, Stands, Idle
<1>2. PICK n \in Nat : n = Cardinality(Siblings(m))
  BY <1>1, SiblingsAre
<1>3. PICK r : r = rank'
  OBVIOUS
<1>4. PICK i \in 0..n : Put(m, r, i)
  BY <1>2, <1>3, FreshPuts
<1>5. PICK S : S = Siblings(m)
  OBVIOUS
<1>6. PICK c : c = drag[m].card
  OBVIOUS
<1>7. S \subseteq Card /\ c \in Card /\ c \notin S
  BY <1>1, <1>5, <1>6, SiblingsAre, CommitIs
<1>8. Live(l)' = S \cup {c}
  <2> SUFFICES ASSUME NEW d \in Card
               PROVE  (list'[d] = l /\ d \notin archived) <=> d \in S \cup {c}
    BY <1>5, <1>6, <1>7, CommitIs DEF Live, In, Siblings
  <2>1. CASE d = c
    BY <1>1, <1>6, <2>1, CommitIs
  <2>2. CASE d # c
    BY <1>5, <1>6, <2>2, CommitIs DEF Siblings, Live, In
  <2>. QED
    BY <2>1, <2>2
<1>9. Sortable(S \cup {c}, r)
  <2>1. S \cup {c} \subseteq Card
    BY <1>7
  <2>2. r \in [Card -> Seq(Int)]
    BY <1>3 DEF Shapes, Tables
  <2>. QED
    BY <2>1, <2>2, BoardAssumption, FS_Subset DEF Sortable
<1>10. PICK q : q = OthersOf(m)
  OBVIOUS
<1>11. Listed(q, S, r) /\ Splices(shown[m], q, i, n, c) /\ Fits(q, i, n, c, r)
  BY <1>2, <1>4, <1>5, <1>6, <1>10 DEF Put, Fits, Before
<1>12. Listed(shown[m], S \cup {c}, r)
  BY <1>2, <1>5, <1>7, <1>9, <1>11, SplicedIsListed
<1>13. Listed(InOrder(S \cup {c}, r), S \cup {c}, r)
  BY <1>9, InOrderIs
<1>14. InOrder(S \cup {c}, r) = shown[m]
  BY <1>9, <1>12, <1>13, OnlyOneOrder
<1>. QED
  BY <1>3, <1>8, <1>14

-----------------------------------------------------------------------------
(* Ties. *)

\* Between the others there is no card of the same rank.
LEMMA PutIsStrict ==
  ASSUME NEW S, NEW r, NEW c, Sortable(S \cup {c}, r), NEW q, Listed(q, S, r),
         NEW n \in Nat, n = Cardinality(S), NEW i \in 0..n,
         i # 0 => Less(r[q[i]], r[c]), i # n => Less(r[c], r[q[i + 1]]),
         NEW d \in S
  PROVE  r[d] # r[c]
<1> SUFFICES ASSUME r[d] = r[c] PROVE FALSE
  OBVIOUS
<1>1. PICK j \in 1..n : q[j] = d
  BY DEF Listed
<1>2. r[c] \in Seq(Int) /\ r[d] \in Seq(Int)
  BY DEF Sortable
<1>3. \A k \in 1..n : q[k] \in S /\ r[q[k]] \in Seq(Int)
  BY DEF Listed, Sortable
<1>4. CASE j <= i
  <2>1. i \in 1..n /\ i # 0
    BY <1>4
  <2>2. Less(r[q[i]], r[c])
    BY <2>1
  <2>3. CASE j = i
    BY <1>1, <1>2, <2>2, <2>3, NotLessThanItself
  <2>4. CASE j # i
    <3>1. Before(d, q[i], r)
      BY <1>1, <1>4, <2>1, <2>4 DEF Listed
    <3>2. Less(r[d], r[q[i]]) \/ r[d] = r[q[i]]
      BY <3>1 DEF Before
    <3>. QED
      BY <1>2, <1>3, <2>1, <2>2, <3>2, LessTransitive, NotLessThanItself
  <2>. QED
    BY <2>3, <2>4
<1>5. CASE j > i
  <2>1. i + 1 \in 1..n /\ i # n
    BY <1>5
  <2>2. Less(r[c], r[q[i + 1]])
    BY <2>1
  <2>3. CASE j = i + 1
    BY <1>1, <1>2, <2>2, <2>3, NotLessThanItself
  <2>4. CASE j # i + 1
    <3>1. Before(q[i + 1], d, r)
      BY <1>1, <1>5, <2>1, <2>4 DEF Listed
    <3>2. Less(r[q[i + 1]], r[d]) \/ r[q[i + 1]] = r[d]
      BY <3>1 DEF Before
    <3>. QED
      BY <1>2, <1>3, <2>1, <2>2, <3>2, LessTransitive, NotLessThanItself
  <2>. QED
    BY <2>3, <2>4
<1>. QED
  BY <1>4, <1>5

\* A request nobody overtook gives its card a rank no live card of the list has.
LEMMA FreshIsStrict ==
  ASSUME Shapes, Shapes', Fresh, AboveBottom, NEW m \in Mover, m \notin stale, CommitMove(m),
         NEW d \in Siblings(m)
  PROVE  rank'[d] # rank'[drag[m].card]
<1>1. phase[m] \notin Idle
  BY DEF CommitMove, Idle
<1>2. PICK n \in Nat : n = Cardinality(Siblings(m))
  BY <1>1, SiblingsAre
<1>3. PICK r : r = rank'
  OBVIOUS
<1>4. PICK i \in 0..n : Put(m, r, i)
  BY <1>2, <1>3, FreshPuts
<1>5. PICK S : S = Siblings(m)
  OBVIOUS
<1>6. PICK c : c = drag[m].card
  OBVIOUS
<1>7. S \subseteq Card /\ c \in Card
  BY <1>1, <1>5, <1>6, SiblingsAre, CommitIs
<1>8. Sortable(S \cup {c}, r)
  <2>1. S \cup {c} \subseteq Card
    BY <1>7
  <2>2. r \in [Card -> Seq(Int)]
    BY <1>3 DEF Shapes, Tables
  <2>. QED
    BY <2>1, <2>2, BoardAssumption, FS_Subset DEF Sortable
<1>9. PICK q : q = OthersOf(m)
  OBVIOUS
<1>10. /\ Listed(q, S, r)
       /\ i # 0 => Less(r[q[i]], r[c])
       /\ i # n => Less(r[c], r[q[i + 1]])
  BY <1>2, <1>4, <1>5, <1>6, <1>9 DEF Put
<1>11. d \in S
  BY <1>5
<1>12. r[d] # r[c]
  BY <1>2, <1>5, <1>8, <1>10, <1>11, PutIsStrict
<1>. QED
  BY <1>3, <1>6, <1>12

\* What a commit does to the list of ties that need watching.
LEMMA CommitUnsure ==
  ASSUME NEW m, CommitMove(m)
  PROVE  \/ unsure' = unsure \cup {drag[m].card} \cup DOMAIN writes[m]
         \/ /\ m \notin stale /\ In(drag[m].list) \cap archived = {}
            /\ unsure' = unsure \ ({drag[m].card} \cup DOMAIN writes[m])
<1>. DEFINE beside == m \in stale \/ In(drag[m].list) \cap archived # {}
<1>1. CASE beside
  BY <1>1, Zenon DEF CommitMove
<1>2. CASE ~beside
  BY <1>2, Zenon DEF CommitMove
<1>. QED
  BY <1>1, <1>2

LEMMA CommitTies ==
  ASSUME Shapes, Shapes', Fresh, AboveBottom, TiesNeedOverlap, NEW m \in Mover, CommitMove(m)
  PROVE  TiesNeedOverlap'
<1> SUFFICES ASSUME NEW a \in Card, NEW b \in Card, a # b, list'[a] = list'[b],
                    list'[a] # Nowhere, rank'[a] = rank'[b]
             PROVE  {a, b} \cap unsure' # {}
  BY DEF TiesNeedOverlap, Tied
<1>1. PICK c : c = drag[m].card
  OBVIOUS
<1>2. PICK l : l = drag[m].list
  OBVIOUS
<1>3. PICK w : w = writes[m]
  OBVIOUS
<1>4. /\ c \in Card /\ list'[c] = l /\ rank'[c] = to[m]
      /\ \A d \in Card \ {c} : list'[d] = list[d] /\ rank'[d] = Sees(m)[d]
  BY <1>1, <1>2, CommitIs
<1>5. ASSUME a \notin {c} \cup DOMAIN w, b \notin {c} \cup DOMAIN w
      PROVE  {a, b} \cap unsure # {}
  <2>1. rank'[a] = rank[a] /\ rank'[b] = rank[b]
    BY <1>3, <1>4, <1>5 DEF Sees
  <2>2. Tied(a, b)
    BY <1>4, <1>5, <2>1 DEF Tied
  <2>. QED
    BY <2>2 DEF TiesNeedOverlap
<1>6. CASE unsure' = unsure \cup {c} \cup DOMAIN w
  BY <1>5, <1>6
<1>7. CASE /\ m \notin stale /\ In(l) \cap archived = {}
           /\ unsure' = unsure \ ({c} \cup DOMAIN w)
  <2>1. \A d \in Card : d # c /\ list'[d] = l => d \in Siblings(m)
    BY <1>1, <1>2, <1>4, <1>7 DEF Siblings, Live, In
  <2>2. a # c /\ b # c
    BY <1>1, <1>4, <1>7, <2>1, FreshIsStrict
  <2>3. phase[m] \in {"ready", "create"} /\ Stands(m)
    BY <1>7 DEF CommitMove, Fresh, Idle
  <2>4. w = <<>> \/ Rewritten(m)
    BY <1>3, <2>3 DEF Stands, FoundStands, Shapes, Wrote
  <2>5. CASE w = <<>>
    <3>1. DOMAIN <<>> = {}
      OBVIOUS
    <3>. QED
      BY <1>5, <1>7, <2>2, <2>5, <3>1
  <2>6. CASE Rewritten(m)
    <3>1. DOMAIN w = In(l)
      BY <1>2, <1>3, <2>6 DEF Rewritten
    <3>2. a \in In(l) <=> b \in In(l)
      BY <1>4, <2>2 DEF In
    <3>3. CASE a \notin In(l)
      BY <1>5, <1>7, <2>2, <3>1, <3>2, <3>3
    <3>4. CASE a \in In(l)
      <4>1. rank'[a] = w[a] /\ rank'[b] = w[b]
        BY <1>3, <1>4, <2>2, <3>1, <3>2, <3>4 DEF Sees
      <4>2. Sortable(In(l), rank)
        BY Sorts DEF Shapes, In
      <4>3. Before(a, b, rank) \/ Before(b, a, rank)
        BY <3>2, <3>4, <4>2, BeforeOrders
      <4>4. Less(w[a], w[b]) \/ Less(w[b], w[a])
        BY <1>2, <1>3, <2>6, <3>2, <3>4, <4>3 DEF Rewritten
      <4>5. w[a] \in Seq(Int)
        BY <1>3, <3>1, <3>4 DEF Shapes, Wrote, isRank
      <4>. QED
        BY <4>1, <4>4, <4>5, NotLessThanItself
    <3>. QED
      BY <3>3, <3>4
  <2>. QED
    BY <2>4, <2>5, <2>6
<1>. QED
  BY <1>1, <1>2, <1>3, <1>6, <1>7, CommitUnsure

LEMMA NextTies ==
  Shapes /\ Shapes' /\ Fresh /\ AboveBottom /\ TiesNeedOverlap /\ [Next]_vars
     => TiesNeedOverlap'
<1> SUFFICES ASSUME Shapes, Shapes', Fresh, AboveBottom, TiesNeedOverlap, [Next]_vars
             PROVE  TiesNeedOverlap'
  OBVIOUS
<1>1. UNCHANGED <<list, rank, unsure>> \/ \E m \in Mover : CommitMove(m)
  <2>1. ASSUME NEW m \in Mover, NEW c \in Card, NEW l \in Lists,
               NEW i \in 0..Cardinality(Card), Drop(m, c, l, i)
        PROVE  UNCHANGED <<list, rank, unsure>>
    BY <2>1, Zenon DEF Drop
  <2>2. ASSUME NEW m \in Mover, NEW c \in Card, NEW l \in Lists, CreateCard(m, c, l)
        PROVE  UNCHANGED <<list, rank, unsure>>
    BY <2>2, Zenon DEF CreateCard
  <2>3. ASSUME NEW c \in Card, archiveCard(c) PROVE UNCHANGED <<list, rank, unsure>>
    BY <2>3 DEF archiveCard
  <2>4. ASSUME NEW m \in Mover,
               \/ ReadNeighbours(m) \/ ReadColumn(m) \/ RewriteRow(m) \/ ReadAgain(m)
               \/ Abort(m)
        PROVE  UNCHANGED <<list, rank, unsure>>
    BY <2>4, Zenon DEF ReadNeighbours, ReadColumn, RewriteRow, ReadAgain, Abort
  <2>. QED
    BY <2>1, <2>2, <2>3, <2>4 DEF Next, vars
<1>2. CASE UNCHANGED <<list, rank, unsure>>
  BY <1>2 DEF TiesNeedOverlap, Tied
<1>3. CASE \E m \in Mover : CommitMove(m)
  BY <1>3, CommitTies
<1>. QED
  BY <1>1, <1>2, <1>3

LEMMA InitTies == Init => TiesNeedOverlap
<1> SUFFICES ASSUME Init PROVE TiesNeedOverlap
  OBVIOUS
<1>1. unsure = {c \in Card : \E d \in Card : Tied(c, d)}
  BY DEF Init
<1>. QED
  BY <1>1 DEF TiesNeedOverlap

\* Only the commit of m's own request makes m idle.
LEMMA NextLands ==
  Shapes /\ Shapes' /\ Fresh /\ AboveBottom /\ [Next]_vars
     => [\A m \in Mover, l \in Lists :
            /\ phase[m] \in {"ready", "create"} /\ phase'[m] = "idle"
            /\ drag[m].list = l /\ m \notin stale
            => InOrder(Live(l)', rank') = shown[m]]_vars
<1> SUFFICES ASSUME Shapes, Shapes', Fresh, AboveBottom, [Next]_vars,
                    NEW m \in Mover, NEW l \in Lists,
                    phase[m] \in {"ready", "create"}, phase'[m] = "idle",
                    drag[m].list = l, m \notin stale
             PROVE  InOrder(Live(l)', rank') = shown[m]
  OBVIOUS
<1>1. SUFFICES CommitMove(m)
  BY <1>1, FreshLands
<1>2. phase \in [Mover -> Phase] /\ phase[m] \notin Idle
  BY DEF Shapes, Requests, Idle
<1>3. ASSUME NEW n \in Mover, NEW p, phase' = [phase EXCEPT ![n] = p], p # "idle" PROVE FALSE
  BY <1>2, <1>3
<1>4. ASSUME NEW n \in Mover, NEW c \in Card, NEW k \in Lists,
             NEW i \in 0..Cardinality(Card), Drop(n, c, k, i)
      PROVE  FALSE
  <2>1. phase' = [phase EXCEPT ![n] = "dropped"]
    BY <1>4, Zenon DEF Drop, Ask, Goto
  <2>. QED
    BY <1>3, <2>1
<1>5. ASSUME NEW n \in Mover, NEW c \in Card, NEW k \in Lists, CreateCard(n, c, k) PROVE FALSE
  <2>1. phase' = [phase EXCEPT ![n] = "create"]
    BY <1>5, Zenon DEF CreateCard, Ask, Goto
  <2>. QED
    BY <1>3, <2>1
<1>6. ASSUME NEW c \in Card, archiveCard(c) PROVE FALSE
  BY <1>2, <1>6 DEF archiveCard, Idle
<1>7. ASSUME NEW n \in Mover, ReadNeighbours(n) \/ ReadAgain(n) PROVE FALSE
  <2>1. \E p \in {"ready", "repair", "failed"} : phase' = [phase EXCEPT ![n] = p]
    BY <1>7, PlaceIs DEF ReadNeighbours, ReadAgain, Goto
  <2>. QED
    BY <1>3, <2>1
<1>8. ASSUME NEW n \in Mover, ReadColumn(n) \/ RewriteRow(n) PROVE FALSE
  <2>1. CASE UNCHANGED phase
    BY <1>2, <2>1 DEF Idle
  <2>2. CASE \E p \in {"rewrite", "repaired"} : phase' = [phase EXCEPT ![n] = p]
    BY <1>3, <2>2
  <2>3. ReadColumn(n) => \E p \in {"rewrite", "repaired"} : phase' = [phase EXCEPT ![n] = p]
    BY DEF ReadColumn, Goto
  <2>. QED
    BY <1>8, <2>1, <2>2, <2>3, RewriteIs DEF Goto
<1>9. ASSUME NEW n \in Mover, CommitMove(n) PROVE n = m
  BY <1>2, <1>9 DEF CommitMove, Goto, Idle
<1>10. ~ UNCHANGED vars
  BY <1>2 DEF vars, Idle
<1>11. ASSUME NEW n \in Mover, Abort(n) PROVE FALSE
  BY <1>3, <1>11 DEF Abort, Goto
<1>. QED
  BY <1>4, <1>5, <1>6, <1>7, <1>8, <1>9, <1>10, <1>11 DEF Next

-----------------------------------------------------------------------------
(* What a request that nobody overtook may fail of. *)

\* No row is written by two requests at once (Postgres' row locks).
Apart == \A m, n \in Mover : m # n => DOMAIN writes[m] \cap DOMAIN writes[n] = {}

LEMMA KeepsApart ==
  ASSUME Apart, NEW m \in Mover, \A n \in Mover \ {m} : writes'[n] = writes[n],
         \A c \in DOMAIN writes'[m] : c \in DOMAIN writes[m] \/ ~Locked(c, m)
  PROVE  Apart'
BY DEF Apart, Locked

LEMMA NextApart == Shapes /\ Apart /\ [Next]_vars => Apart'
<1> SUFFICES ASSUME Shapes, Apart, [Next]_vars PROVE Apart'
  OBVIOUS
<1>1. DOMAIN writes = Mover /\ DOMAIN <<>> = {}
  BY DEF Shapes, Requests
<1>2. ASSUME NEW m \in Mover, writes' = [writes EXCEPT ![m] = <<>>] PROVE Apart'
  BY <1>1, <1>2, KeepsApart
<1>3. CASE UNCHANGED writes
  BY <1>3 DEF Apart
<1>4. ASSUME NEW m \in Mover, RewriteRow(m) PROVE Apart'
  BY <1>4, RewriteIs, KeepsApart
<1>5. ASSUME NEW m \in Mover, ReadNeighbours(m) \/ ReadAgain(m) PROVE Apart'
  BY <1>2, <1>3, <1>5, PlaceIs DEF ReadNeighbours, ReadAgain
<1>6. ASSUME NEW m \in Mover, NEW c \in Card, NEW l \in Lists,
             NEW i \in 0..Cardinality(Card), Drop(m, c, l, i)
      PROVE  Apart'
  BY <1>3, <1>6, Zenon DEF Drop
<1>7. ASSUME NEW m \in Mover, NEW c \in Card, NEW l \in Lists, CreateCard(m, c, l) PROVE Apart'
  BY <1>3, <1>7, Zenon DEF CreateCard
<1>8. ASSUME NEW m \in Mover, CommitMove(m) \/ Abort(m) PROVE Apart'
  BY <1>2, <1>8, Zenon DEF CommitMove, Abort
<1>9. ASSUME NEW c \in Card, archiveCard(c) PROVE Apart'
  BY <1>3, <1>9, Zenon DEF archiveCard
<1>10. ASSUME NEW m \in Mover, ReadColumn(m) PROVE Apart'
  BY <1>3, <1>10, Zenon DEF ReadColumn
<1>. QED
  BY <1>3, <1>4, <1>5, <1>6, <1>7, <1>8, <1>9, <1>10 DEF Next, vars

LEMMA InitApart == Init => Apart
<1>1. DOMAIN <<>> = {}
  OBVIOUS
<1>. QED
  BY <1>1 DEF Init, Apart

\* A repair that nobody overtook and that has begun holds the first row of its
\* list.
LEMMA HoldsFirst ==
  ASSUME Shapes, Fresh, NEW m \in Mover \ stale, DOMAIN writes[m] # {}
  PROVE  Column(drag[m].list)[1] \in DOMAIN writes[m]
<1>1. phase[m] \in {"rewrite", "repaired", "ready"} /\ phase[m] \notin Idle
  BY DEF Shapes, Wrote, Idle
<1>2. Stands(m)
  BY <1>1 DEF Fresh
<1>3. CASE phase[m] = "rewrite"
  BY <1>2, <1>3 DEF Stands, Shapes, Rows, RowsOf
<1>4. CASE phase[m] # "rewrite"
  <2>1. Rewritten(m)
    BY <1>1, <1>2, <1>4 DEF Stands, FoundStands
  <2>2. PICK q : q = Column(drag[m].list)
    OBVIOUS
  <2>3. /\ Listed(q, In(drag[m].list), rank) /\ DOMAIN writes[m] = In(drag[m].list)
        /\ IsFiniteSet(In(drag[m].list))
    BY <2>1, <2>2, ColumnIs, BoardAssumption, FS_Subset DEF Column, Shapes, Rewritten, In
  <2>4. Cardinality(In(drag[m].list)) \in Nat \ {0}
    BY <2>3, FS_CardinalityType, FS_EmptySet
  <2>. QED
    BY <2>2, <2>3, <2>4 DEF Listed
<1>. QED
  BY <1>3, <1>4

LEMMA NextFails ==
  Shapes /\ Fresh /\ Apart /\ [Next]_vars
     => [\A m \in Mover \ stale :
            phase[m] \notin Idle /\ phase'[m] = "failed"
            => /\ DOMAIN writes[m] # {}
               /\ \E n \in Mover \ {m} :
                     /\ DOMAIN writes[n] # {}
                     /\ n \in stale \/ drag[n].list # drag[m].list]_vars
<1> SUFFICES ASSUME Shapes, Fresh, Apart, [Next]_vars, NEW m \in Mover \ stale,
                    phase[m] \notin Idle, phase'[m] = "failed"
             PROVE  /\ DOMAIN writes[m] # {}
                    /\ \E n \in Mover \ {m} :
                          /\ DOMAIN writes[n] # {}
                          /\ n \in stale \/ drag[n].list # drag[m].list
  OBVIOUS
<1>1. phase \in [Mover -> Phase] /\ phase[m] # "failed"
  BY DEF Shapes, Requests, Idle
<1>2. ASSUME NEW n \in Mover, NEW p, phase' = [phase EXCEPT ![n] = p]
      PROVE  n = m /\ p = "failed"
  BY <1>1, <1>2
<1>3. ASSUME NEW n \in Mover, NEW p, Goto(n, p) PROVE n = m /\ p = "failed"
  BY <1>2, <1>3 DEF Goto
<1>4. Abort(m)
  <2>1. ASSUME NEW n \in Mover, NEW c \in Card, NEW l \in Lists,
               NEW i \in 0..Cardinality(Card), Drop(n, c, l, i)
        PROVE  FALSE
    <3>1. Goto(n, "dropped")
      BY <2>1, Zenon DEF Drop, Ask
    <3>. QED
      BY <1>3, <3>1
  <2>2. ASSUME NEW n \in Mover, NEW c \in Card, NEW l \in Lists, CreateCard(n, c, l) PROVE FALSE
    <3>1. Goto(n, "create")
      BY <2>2, Zenon DEF CreateCard, Ask
    <3>. QED
      BY <1>3, <3>1
  <2>3. ASSUME NEW c \in Card, archiveCard(c) PROVE FALSE
    BY <1>1, <2>3 DEF archiveCard
  <2>4. ASSUME NEW n \in Mover, ReadNeighbours(n) \/ ReadAgain(n) PROVE FALSE
    <3>1. \E p \in {"ready", "repair", "failed"} : Goto(n, p)
      BY <2>4, PlaceIs DEF ReadNeighbours, ReadAgain
    <3>2. n = m
      BY <1>3, <3>1
    <3>3. \E p \in {"ready", "repair"} : Goto(m, p)
      BY <2>4, <3>2, PlaceFinds DEF ReadNeighbours, ReadAgain
    <3>. QED
      BY <1>3, <3>3
  <2>5. ASSUME NEW n \in Mover, ReadColumn(n) PROVE FALSE
    <3>1. \E p \in {"repaired", "rewrite"} : Goto(n, p)
      BY <2>5 DEF ReadColumn
    <3>. QED
      BY <1>3, <3>1
  <2>6. ASSUME NEW n \in Mover, RewriteRow(n) PROVE FALSE
    BY <1>1, <1>3, <2>6, RewriteIs
  <2>7. ASSUME NEW n \in Mover, CommitMove(n) PROVE FALSE
    <3>1. Goto(n, "idle")
      BY <2>7, Zenon DEF CommitMove
    <3>. QED
      BY <1>3, <3>1
  <2>8. ASSUME NEW n \in Mover, Abort(n) PROVE n = m
    <3>1. Goto(n, "failed")
      BY <2>8, Zenon DEF Abort
    <3>. QED
      BY <1>3, <3>1
  <2>9. ~UNCHANGED vars
    BY <1>1 DEF vars
  <2>. QED
    BY <2>1, <2>2, <2>3, <2>4, <2>5, <2>6, <2>7, <2>8, <2>9 DEF Next
<1>5. PICK circle \in SUBSET Mover :
         /\ m \in circle
         /\ \A n \in circle : /\ \E k \in circle : WaitsFor(n, k)
                              /\ \E k \in circle : WaitsFor(k, n)
  BY <1>4, Zenon DEF Abort
<1>6. PICK n \in circle : WaitsFor(m, n)
  BY <1>5
<1>7. DOMAIN writes[n] # {} /\ n # m /\ n \in Mover
  BY <1>6 DEF WaitsFor
<1>8. DOMAIN writes[m] # {}
  BY <1>5 DEF WaitsFor
<1>9. ASSUME n \notin stale, drag[n].list = drag[m].list PROVE FALSE
  <2>1. /\ Column(drag[m].list)[1] \in DOMAIN writes[m]
        /\ Column(drag[m].list)[1] \in DOMAIN writes[n]
    BY <1>7, <1>8, <1>9, HoldsFirst
  <2>. QED
    BY <1>7, <2>1 DEF Apart
<1>. QED
  BY <1>7, <1>8, <1>9

-----------------------------------------------------------------------------
(* Theorems. *)

\* The variables keep their types: a card is in a list exactly when it has a
\* rank that isRank accepts, whatever moves, rewrites and commits overlap.
THEOREM BoardTypeCorrect == Spec => []TypeOK
<1>1. Shapes => TypeOK
  BY DEF Shapes, Tables, Ranked, Requests, Wrote, Targets, TypeOK
<1>. QED
  BY <1>1, InitShapes, NextShapes, PTL DEF Spec

\* A request that nobody overtook fails only as the victim of a deadlock, while
\* it repairs its list, with a request that repairs another list or that was
\* overtaken (moveCard: where there is no room, the list is rewritten and there
\* is; rebalanceList takes the rows of a list in one order).
THEOREM OnlyCrossingFail == Spec => OnlyCrossingRepairsFail
BY InitShapes, NextShapes, InitFresh, NextFresh, InitApart, NextApart, NextFails, PTL
   DEF Spec, OnlyCrossingRepairsFail

\* Where no card is at the very bottom of the ranks, a request nobody overtook
\* leaves its list as the person saw it when they let go (moveCard, rebalanceList
\* and createCard).
THEOREM CardsLand == Spec /\ []AboveBottom => LandsWhereDropped
BY InitShapes, NextShapes, InitFresh, NextFresh, NextLands, PTL DEF Spec, LandsWhereDropped

\* Where no card is at the very bottom of the ranks, two cards share a rank only
\* if a request that was overtaken, or archived cards, had a part in it.
THEOREM TiesAreOverlap == Spec /\ []AboveBottom => []TiesNeedOverlap
BY InitShapes, NextShapes, InitFresh, NextFresh, InitTies, NextTies, PTL DEF Spec

=============================================================================
