------------------------- MODULE NumberBufferProofs -------------------------
(* For every set of capacities: what __len__ returns, and that every step  *)
(* of its bisection halves the bracket.                                    *)
EXTENDS NumberBuffer, TLAPS

(* The file is non-zero in its first count numbers and in its last one.    *)
Filled == nonzero = (0..count - 1) \cup {capacity - 1}

(* While __len__ runs, lo is a number that is not zero, or the first, and  *)
(* hi one that is zero, or the last.                                       *)
Bracket ==
  pc = "loop" =>
    /\ lo <= hi /\ (capacity > 1 => lo < hi)
    /\ lo = 0 \/ lo < count
    /\ hi = capacity - 1 \/ hi >= count

Inv == TypeOK /\ Filled /\ Bracket /\ LenCounts

LEMMA InitInv == Init => Inv
  BY CapacitiesArePositive DEF Init, Inv, TypeOK, Filled, Bracket, LenCounts, allocateMmap

(* The middle of a bracket that is not closed lies strictly between.       *)
LEMMA Middle ==
  ASSUME NEW a \in Nat, NEW b \in Nat, a + 1 < b
  PROVE  LET m == (b + a) \div 2 IN
         /\ m \in Nat /\ a < m /\ m < b
         /\ 2 * (m - a) <= b - a + 1 /\ 2 * (b - m) <= b - a + 1
  OBVIOUS

LEMMA BisectInv == Inv /\ Bisect => Inv'
<1> SUFFICES ASSUME Inv, Bisect PROVE Inv'
  OBVIOUS
<1> DEFINE idx == (hi + lo) \div 2
<1>1. /\ capacity \in Nat /\ lo \in Nat /\ hi \in Nat /\ count \in Nat
      /\ hi <= capacity - 1
  BY CapacitiesArePositive DEF Inv, TypeOK
<1>2. idx \in Nat /\ lo < idx /\ idx < hi
  BY <1>1, Middle DEF Bisect, Continues
<1>3. idx \in nonzero <=> idx < count
  BY <1>1, <1>2 DEF Inv, Filled
<1>4. \/ idx >= count /\ hi' = idx /\ lo' = lo
      \/ idx < count /\ lo' = idx /\ hi' = hi
  BY <1>1, <1>2, <1>3 DEF Bisect
<1>5. UNCHANGED <<capacity, count, nonzero, pc>> /\ pc = "loop"
  BY DEF Bisect
<1>6. TypeOK' /\ Filled' /\ LenCounts'
  BY <1>1, <1>2, <1>4, <1>5 DEF Inv, TypeOK, Filled, LenCounts
<1>7. Bracket'
  BY <1>1, <1>2, <1>4, <1>5 DEF Inv, Bracket
<1> QED BY <1>6, <1>7 DEF Inv

LEMMA NextInv == Inv /\ [Next]_vars => Inv'
<1> SUFFICES ASSUME Inv, [Next]_vars PROVE Inv'
  OBVIOUS
<1>1. capacity \in Nat \ {0} /\ count \in Nat
  BY CapacitiesArePositive DEF Inv, TypeOK
<1>2. CASE SetItem
  BY <1>1, <1>2 DEF SetItem, Inv, TypeOK, Filled, Bracket, LenCounts
<1>3. CASE Length
  BY <1>1, <1>3 DEF Length, Inv, TypeOK, Filled, Bracket, LenCounts
<1>4. CASE Bisect
  BY <1>4, BisectInv
<1>5. CASE Return
  BY <1>1, <1>5 DEF Return, Continues, Inv, TypeOK, Filled, Bracket, LenCounts
<1>6. CASE UNCHANGED vars
  BY <1>6 DEF vars, Inv, TypeOK, Filled, Bracket, LenCounts
<1> QED BY <1>2, <1>3, <1>4, <1>5, <1>6 DEF Next

LEMMA InvHolds == Spec => []Inv
  BY InitInv, NextInv, PTL DEF Spec

(* The bracket of __len__ never leaves the file.                           *)
THEOREM TypeCorrect == Spec => []TypeOK
<1>1. Inv => TypeOK
  BY DEF Inv
<1> QED BY <1>1, InvHolds, PTL

(* NumberBuffer.__len__ counts the numbers written, but for none and for a *)
(* full file, in a file of any capacity.                                   *)
THEOREM LenIsCount == Spec => []LenCounts
<1>1. Inv => LenCounts
  BY DEF Inv
<1> QED BY <1>1, InvHolds, PTL

(* Every turn of its loop leaves at most half of the bracket, rounded up.  *)
THEOREM BracketHalves == Spec => Halves
<1>1. Inv /\ [Next]_vars => [pc = "loop" /\ pc' = "loop" => 2 * (hi' - lo') <= hi - lo + 1]_vars
  <2> SUFFICES ASSUME Inv, Next, pc = "loop", pc' = "loop"
               PROVE  2 * (hi' - lo') <= hi - lo + 1
    BY DEF vars
  <2>1. Bisect
    BY DEF Next, SetItem, Length, Return
  <2>2. lo \in Nat /\ hi \in Nat /\ lo + 1 < hi
    BY <2>1, CapacitiesArePositive DEF Inv, TypeOK, Bisect, Continues
  <2> QED BY <2>1, <2>2, Middle DEF Bisect
<1> QED BY <1>1, InvHolds, PTL DEF Spec, Halves
=============================================================================
