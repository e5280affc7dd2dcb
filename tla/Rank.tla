-------------------------------- MODULE Rank --------------------------------
(***************************************************************************)
(* Fractional indexing (packages/contracts/src/rank.ts).                   *)
(*                                                                         *)
(* A rank is a string <head><digits><fraction>, here the sequence of its   *)
(* characters: the head, whose sign and size tell how many digits of       *)
(* integer follow, then digits.  Heads compare only with heads, so ranks   *)
(* compare like strings do.  Null is a missing neighbour, and the result   *)
(* where the code throws InvalidRankError.                                 *)
(***************************************************************************)
EXTENDS Integers, Sequences

CONSTANTS
    Base,       \* digits (RANK_DIGITS has 62)
    Lowest,     \* the head "A": "Z" is -1
    Highest     \* the head "z": "a" is 0

ASSUME RankAssumption ==
    /\ Base \in Nat \ {0, 1}
    /\ Lowest \in Int /\ Lowest < 0
    /\ Highest \in Nat

Null == <<>>
Last == Base - 1

integerLength(h) == IF h >= 0 THEN h + 2 ELSE 1 - h
integerPartOf(r) == SubSeq(r, 1, integerLength(r[1]))
FractionOf(r) == SubSeq(r, integerLength(r[1]) + 1, Len(r))

isRank(r) ==
    /\ r \in Seq(Int) /\ r # Null
    /\ r[1] \in Lowest..Highest
    /\ Len(r) >= integerLength(r[1])
    /\ \A i \in 2..Len(r) : r[i] \in 0..Last
    /\ FractionOf(r) # <<>> => r[Len(r)] # 0

Less(r, s) ==
    \E i \in 1..Len(s) :
        /\ \A j \in 1..(i - 1) : j <= Len(r) /\ r[j] = s[j]
        /\ i > Len(r) \/ r[i] < s[i]

\* The integer with head h whose digits are all d.
Filled(h, d) == [i \in 1..integerLength(h) |-> IF i = 1 THEN h ELSE d]

ZERO_INTEGER == Filled(0, 0)
SMALLEST_INTEGER == Filled(Lowest, 0)

\* x with the digit at its last position k in at changed by one, and the
\* wrapped digits after it.
Carried(x, at, step, wrapped) ==
    LET k == CHOOSE k \in at : \A j \in at : j <= k
    IN [i \in DOMAIN x |-> CASE i < k -> x[i]
                             [] i = k -> x[i] + step
                             [] i > k -> wrapped]

incrementInteger(x) ==
    LET grows == {i \in 2..Len(x) : x[i] # Last}
    IN CASE grows # {} -> Carried(x, grows, 1, 0)
         [] grows = {} /\ x[1] < Highest -> Filled(x[1] + 1, 0)
         [] OTHER -> Null

decrementInteger(x) ==
    LET falls == {i \in 2..Len(x) : x[i] # 0}
    IN CASE falls # {} -> Carried(x, falls, -1, Last)
         [] falls = {} /\ x[1] > Lowest -> Filled(x[1] - 1, Last)
         [] OTHER -> Null

Digit(f, i) == IF i <= Len(f) THEN f[i] ELSE 0
First(i, P(_)) == P(i) /\ \A j \in 1..(i - 1) : ~P(j)
Halfway(low, high) == (low + high + 1) \div 2

\* midpoint(a, null): past the leading last digits of a, halfway to the top.
MidpointToOne(a) ==
    LET k == CHOOSE k \in 1..(Len(a) + 1) : First(k, LAMBDA i : Digit(a, i) < Last)
    IN SubSeq(a, 1, k - 1) \o <<Halfway(Digit(a, k), Base)>>

\* Where a, padded with zeros, first differs from b.
Difference(a, b) ==
    CHOOSE k \in 1..(Len(b) + 1) :
        First(k, LAMBDA i : i > Len(b) \/ Digit(a, i) # b[i])

\* midpoint(a, b) without the branch that makes a longer.
MidpointTight(a, b) ==
    LET k == Difference(a, b)
    IN Append(SubSeq(b, 1, k - 1), Halfway(Digit(a, k), Digit(b, k)))

\* Halfway where a and b first differ; where nothing fits there, b cut short,
\* or a made longer.
midpoint(a, b) ==
    LET k == Difference(a, b)
        shared == SubSeq(b, 1, k - 1)
        low == Digit(a, k)
        high == Digit(b, k)
    IN CASE high - low > 1 -> Append(shared, Halfway(low, high))
         [] high - low <= 1 /\ Len(b) > k -> Append(shared, high)
         [] OTHER -> Append(shared, low)
                         \o MidpointToOne(SubSeq(a, k + 1, Len(a)))

beforeRank(after) ==
    LET integer == integerPartOf(after)
    IN CASE integer = SMALLEST_INTEGER ->
                integer \o midpoint(<<>>, FractionOf(after))
         [] integer # SMALLEST_INTEGER /\ integer # after -> integer
         [] OTHER -> decrementInteger(integer)

afterRank(before) ==
    LET integer == integerPartOf(before)
        next == incrementInteger(integer)
    IN IF next # Null THEN next
       ELSE integer \o MidpointToOne(FractionOf(before))

\* Two ranks, the first below the second.
WithinGap(before, after) ==
    LET low == integerPartOf(before)
        next == incrementInteger(low)
    IN CASE low = integerPartOf(after) ->
                low \o midpoint(FractionOf(before), FractionOf(after))
         [] low # integerPartOf(after) /\ next = Null -> Null
         [] low # integerPartOf(after) /\ Less(next, after) -> next
         [] OTHER -> low \o MidpointToOne(FractionOf(before))

between(before, after) ==
    CASE before = Null /\ after = Null -> ZERO_INTEGER
      [] before = Null /\ after # Null -> beforeRank(after)
      [] before # Null /\ after = Null -> afterRank(before)
      [] OTHER -> IF Less(before, after) THEN WithinGap(before, after) ELSE Null

RanksFlat(count) == [n \in 1..count |-> between(Null, Null)]

rankSequence(count) ==
    LET rank[n \in 1..count] ==
            IF n = 1 THEN between(Null, Null) ELSE between(rank[n - 1], Null)
    IN rank
=============================================================================
