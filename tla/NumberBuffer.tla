---------------------------- MODULE NumberBuffer ----------------------------
(***************************************************************************)
(* NumberBuffer of pyfix/persistence/MMapPersister.py: an index of offsets *)
(* in a mapped file, filled from its start with numbers that are not zero, *)
(* whose length is found by bisection.  Of a number it only matters        *)
(* whether it is zero.                                                     *)
(***************************************************************************)
EXTENDS Naturals

CONSTANT Capacities  \* the sizes of a file, in numbers
ASSUME CapacitiesArePositive == Capacities \subseteq Nat \ {0}

VARIABLES
  capacity,   \* of the file that is mapped
  count,      \* how many numbers were written
  nonzero,    \* the indices of the numbers that are not zero
  pc,         \* of __len__: "idle", "loop", "done"
  lo, hi      \* of __len__; hi is its result when it is done
vars == <<capacity, count, nonzero, pc, lo, hi>>

(* allocateMmap writes a blank into the last byte of the file it makes:    *)
(* the last number of a new file is not zero.  A file that exists already, *)
(* which keeps what was written, is not modelled.                          *)
allocateMmap(sz) == {sz - 1}

Init ==
  /\ capacity \in Capacities
  /\ nonzero = allocateMmap(capacity)
  /\ count = 0
  /\ pc = "idle" /\ lo = 0 /\ hi = 0

(* x[count] = n; one number more than the file holds is an exception.      *)
SetItem ==
  /\ pc \in {"idle", "done"} /\ count < capacity
  /\ nonzero' = nonzero \cup {count}
  /\ count' = count + 1
  /\ pc' = "idle"
  /\ UNCHANGED <<capacity, lo, hi>>

(* __len__ and its loop.                                                   *)
LengthPast ==   \* for comparison: the end of the bracket behind the file
  /\ pc \in {"idle", "done"}
  /\ lo' = 0 /\ hi' = capacity
  /\ pc' = "loop"
  /\ UNCHANGED <<capacity, count, nonzero>>
Length ==
  /\ pc \in {"idle", "done"}
  /\ lo' = 0 /\ hi' = capacity - 1
  /\ pc' = "loop"
  /\ UNCHANGED <<capacity, count, nonzero>>

ContinuesClosed == lo < hi   \* for comparison
Continues == lo + 1 < hi

(* For comparison: the index after the middle; the next index.             *)
BisectShift ==
  LET idx == (hi + lo) \div 2 IN
  /\ pc = "loop" /\ Continues
  /\ IF idx \notin nonzero
     THEN hi' = idx /\ lo' = lo
     ELSE lo' = idx + 1 /\ hi' = hi
  /\ UNCHANGED <<capacity, count, nonzero, pc>>
BisectNext ==
  /\ pc = "loop" /\ Continues
  /\ IF lo + 1 \notin nonzero
     THEN hi' = lo + 1 /\ lo' = lo
     ELSE lo' = lo + 1 /\ hi' = hi
  /\ UNCHANGED <<capacity, count, nonzero, pc>>

Bisect ==
  LET idx == (hi + lo) \div 2 IN
  /\ pc = "loop" /\ Continues
  /\ IF idx \notin nonzero
     THEN hi' = idx /\ lo' = lo
     ELSE lo' = idx /\ hi' = hi
  /\ UNCHANGED <<capacity, count, nonzero, pc>>

Return ==
  /\ pc = "loop" /\ ~Continues
  /\ pc' = "done"
  /\ UNCHANGED <<capacity, count, nonzero, lo, hi>>

Next == SetItem \/ Length \/ Bisect \/ Return
Spec == Init /\ [][Next]_vars /\ WF_vars(Bisect \/ Return)

-----------------------------------------------------------------------------
TypeOK ==
  /\ capacity \in Capacities /\ count \in 0..capacity
  /\ nonzero \subseteq 0..capacity - 1
  /\ pc \in {"idle", "loop", "done"}
  /\ lo \in 0..capacity - 1 /\ hi \in 0..capacity - 1

(* What __len__ returns: how many numbers were written, unless there are   *)
(* none or the file is full (its last number is not looked at, and never   *)
(* is 0 the answer); then it is off by one (Find last nonzero element).    *)
LenCounts ==
  pc = "done" =>
    hi = IF capacity = 1 THEN 0
         ELSE IF count = 0 THEN 1
         ELSE IF count = capacity THEN capacity - 1
         ELSE count

(* The bracket of the bisection gets smaller with every step, to half.     *)
Halves == [][pc = "loop" /\ pc' = "loop" => 2 * (hi' - lo') <= hi - lo + 1]_vars

(* __len__ returns, whatever the capacity.                                 *)
LenReturns == pc = "loop" ~> pc = "done"
=============================================================================
