---------------------------- MODULE FixParserProofs ----------------------------
(***************************************************************************)
(* What FIXParser.feed does with every stream and every chunking of it.    *)
(***************************************************************************)
EXTENDS FixParser, FiniteSetTheorems, SequenceTheorems, TLAPS

-----------------------------------------------------------------------------
(* The numbers and sets the model is built from.                           *)

(* Induction as a fact about sets.                                         *)
LEMMA SetInduction ==
  ASSUME NEW P \in SUBSET Nat, 0 \in P, \A n \in P : n + 1 \in P
  PROVE  P = Nat
<1> SUFFICES ASSUME Nat \ P # {} PROVE FALSE
  OBVIOUS
<1> DEFINE Less == OpToRel(<, Nat)
<1>1. \E x \in Nat \ P : \A y \in Nat \ P : ~(<<y, x>> \in Less)
  <2>1. IsWellFoundedOn(Less, Nat)
    BY NatLessThanWellFounded
  <2> HIDE DEF Less
  <2> QED BY <2>1, WFMin
<1>2. PICK x \in Nat \ P : \A y \in Nat \ P : ~(y < x)
  BY <1>1 DEF OpToRel
<1>3. x \in Nat /\ x # 0 /\ x - 1 \in Nat /\ x - 1 < x /\ (x - 1) + 1 = x
  BY SMT
<1>4. x - 1 \in P
  BY <1>2, <1>3
<1> QED BY <1>3, <1>4

LEMMA MinFound ==
  ASSUME NEW S \in SUBSET Nat, S # {}
  PROVE  Min(S) \in S /\ \A y \in S : Min(S) <= y
<1> DEFINE Less == OpToRel(<, Nat)
<1>1. \E x \in S : \A y \in S : ~(<<y, x>> \in Less)
  <2>1. IsWellFoundedOn(Less, Nat)
    BY NatLessThanWellFounded
  <2> HIDE DEF Less
  <2> QED BY <2>1, WFMin
<1>2. PICK x \in S : \A y \in S : ~(y < x)
  BY <1>1 DEF OpToRel
<1>3. \A y \in S : x <= y
  BY <1>2
<1> QED BY <1>3 DEF Min

LEMMA MaxFound ==
  ASSUME NEW S \in SUBSET Nat, S # {}, NEW n \in Nat, \A s \in S : s <= n
  PROVE  Max(S) \in S /\ \A y \in S : Max(S) >= y
<1> DEFINE T == {n - s : s \in S}
<1>1. \A s \in S : s \in Nat /\ s <= n /\ n - s \in Nat
  OBVIOUS
<1>2. T \in SUBSET Nat /\ T # {}
  BY <1>1
<1>3. Min(T) \in T /\ \A y \in T : Min(T) <= y
  <2> HIDE DEF T
  <2> QED BY <1>2, MinFound
<1>4. PICK x \in S : Min(T) = n - x
  BY <1>3
<1>5. ASSUME NEW y \in S PROVE x >= y
  <2>1. n - x <= n - y
    BY <1>3, <1>4
  <2> QED BY <1>1, <2>1
<1> QED BY <1>5 DEF Max

(* InOrder lists the elements of a set of positions, each once.            *)
Lists(s, S) ==
  /\ s \in [1..Cardinality(S) -> S]
  /\ \A m, n \in 1..Cardinality(S) : m < n => s[m] < s[n]
  /\ \A x \in S : \E n \in 1..Cardinality(S) : s[n] = x

LEMMA Listed ==
  ASSUME NEW k \in Nat, NEW S \in SUBSET (1..k)
  PROVE  IsFiniteSet(S) /\ Cardinality(S) \in Nat
<1>1. IsFiniteSet(1..k)
  BY FS_Interval
<1>2. IsFiniteSet(S)
  BY <1>1, FS_Subset
<1> QED BY <1>2, FS_CardinalityType

LEMMA ListExists ==
  ASSUME NEW k \in Nat, NEW S \in SUBSET (1..k)
  PROVE  \E s : Lists(s, S)
<1> DEFINE P == {n \in Nat : \A R \in SUBSET (1..n) : \E s : Lists(s, R)}
<1>1. 0 \in P
  <2>1. \A R \in SUBSET (1..0) : R = {}
    OBVIOUS
  <2>2. Lists(<<>>, {})
    BY FS_EmptySet DEF Lists
  <2> QED BY <2>1, <2>2
<1>2. ASSUME NEW n \in P PROVE n + 1 \in P
  <2> SUFFICES ASSUME NEW R \in SUBSET (1..(n + 1)) PROVE \E s : Lists(s, R)
    OBVIOUS
  <2>1. CASE n + 1 \notin R
    <3>1. R \in SUBSET (1..n)
      BY <2>1
    <3> QED BY <3>1
  <2>2. CASE n + 1 \in R
    <3> DEFINE Q == R \ {n + 1}
               c == Cardinality(Q)
    <3>1. Q \in SUBSET (1..n)
      OBVIOUS
    <3>2. PICK s : Lists(s, Q)
      BY <3>1
    <3>3. IsFiniteSet(Q) /\ c \in Nat /\ Cardinality(R) = c + 1
      <4>1. IsFiniteSet(R) /\ Cardinality(R) \in Nat
        <5>1. n + 1 \in Nat
          OBVIOUS
        <5> QED BY <5>1, Listed
      <4>2. IsFiniteSet(Q) /\ c \in Nat
        BY <3>1, Listed
      <4>3. c = Cardinality(R) - 1
        BY <4>1, <2>2, FS_RemoveElement
      <4> HIDE DEF c
      <4> QED BY <4>1, <4>2, <4>3
    <3> DEFINE t == [i \in 1..(c + 1) |-> IF i = c + 1 THEN n + 1 ELSE s[i]]
    <3>4. \A i \in 1..c : s[i] \in Q /\ s[i] < n + 1
      <4>1. \A i \in 1..c : s[i] \in Q
        BY <3>2 DEF Lists
      <4>2. \A q \in Q : q < n + 1
        BY <3>1
      <4> QED BY <4>1, <4>2
    <3> HIDE DEF c
    <3>5. t \in [1..(c + 1) -> R]
      BY <3>3, <3>4, <2>2
    <3>6. \A m, i \in 1..(c + 1) : m < i => t[m] < t[i]
      <4>1. \A m, i \in 1..c : m < i => s[m] < s[i]
        BY <3>2 DEF Lists, c
      <4> QED BY <3>3, <3>4, <4>1
    <3>7. \A x \in R : \E i \in 1..(c + 1) : t[i] = x
      <4> SUFFICES ASSUME NEW x \in R PROVE \E i \in 1..(c + 1) : t[i] = x
        OBVIOUS
      <4>1. CASE x = n + 1
        BY <4>1, <3>3
      <4>2. CASE x # n + 1
        <5>1. PICK i \in 1..c : s[i] = x
          BY <4>2, <3>2 DEF Lists, c
        <5> QED BY <5>1, <3>3
      <4> QED BY <4>1, <4>2
    <3>8. Lists(t, R)
      BY <3>3, <3>5, <3>6, <3>7 DEF Lists
    <3> QED BY <3>8
  <2> QED BY <2>1, <2>2
<1>3. P = Nat
  <2>1. P \in SUBSET Nat
    OBVIOUS
  <2> HIDE DEF P
  <2> QED BY <1>1, <1>2, <2>1, SetInduction
<1> QED BY <1>3

LEMMA ListUnique ==
  ASSUME NEW k \in Nat, NEW S \in SUBSET (1..k), NEW s, NEW t, Lists(s, S), Lists(t, S)
  PROVE  s = t
<1> DEFINE c == Cardinality(S)
           P == {n \in Nat : \A i \in 1..n : i <= c => s[i] = t[i]}
<1>1. c \in Nat
  BY Listed
<1>2. 0 \in P
  OBVIOUS
<1>3. ASSUME NEW n \in P PROVE n + 1 \in P
  <2> SUFFICES ASSUME n + 1 <= c PROVE s[n + 1] = t[n + 1]
    BY <1>1
  <2>1. n + 1 \in 1..c /\ \A i \in 1..n : s[i] = t[i] /\ i \in 1..c
    BY <1>1
  <2>2. \A i \in 1..c : s[i] \in Nat /\ t[i] \in Nat
    <3>1. \A i \in 1..c : s[i] \in S /\ t[i] \in S
      BY DEF Lists
    <3>2. \A x \in S : x \in Nat
      OBVIOUS
    <3> QED BY <3>1, <3>2
  <2>3. ~(s[n + 1] < t[n + 1])
    <3> SUFFICES ASSUME s[n + 1] < t[n + 1] PROVE FALSE
      OBVIOUS
    <3>1. PICK j \in 1..c : t[j] = s[n + 1]
      BY <2>1 DEF Lists
    <3>2. j < n + 1
      <4>1. ~(n + 1 < j) /\ j # n + 1
        BY <2>1, <2>2, <3>1 DEF Lists
      <4> QED BY <4>1
    <3>3. s[j] = t[j] /\ s[j] < s[n + 1]
      BY <2>1, <3>2 DEF Lists
    <3> QED BY <2>1, <2>2, <3>1, <3>3
  <2>4. ~(t[n + 1] < s[n + 1])
    <3> SUFFICES ASSUME t[n + 1] < s[n + 1] PROVE FALSE
      OBVIOUS
    <3>1. PICK j \in 1..c : s[j] = t[n + 1]
      BY <2>1 DEF Lists
    <3>2. j < n + 1
      <4>1. ~(n + 1 < j) /\ j # n + 1
        BY <2>1, <2>2, <3>1 DEF Lists
      <4> QED BY <4>1
    <3>3. s[j] = t[j] /\ t[j] < t[n + 1]
      BY <2>1, <3>2 DEF Lists
    <3> QED BY <2>1, <2>2, <3>1, <3>3
  <2> QED BY <2>1, <2>2, <2>3, <2>4
<1>4. P = Nat
  <2>1. P \in SUBSET Nat
    OBVIOUS
  <2> HIDE DEF P
  <2> QED BY <1>2, <1>3, <2>1, SetInduction
<1>5. \A i \in 1..c : s[i] = t[i]
  BY <1>1, <1>4
<1>6. s \in [1..c -> S] /\ t \in [1..c -> S]
  BY DEF Lists
<1>7. s = [i \in 1..c |-> s[i]] /\ t = [i \in 1..c |-> t[i]]
  BY <1>6, Zenon
<1>8. [i \in 1..c |-> s[i]] = [i \in 1..c |-> t[i]]
  BY <1>5, Zenon
<1> QED BY <1>7, <1>8, Zenon

LEMMA OrderLists ==
  ASSUME NEW k \in Nat, NEW S \in SUBSET (1..k)
  PROVE  Lists(InOrder(S), S)
<1>1. PICK s : Lists(s, S)
  BY ListExists
<1> DEFINE Sorted(t) == \A m, n \in 1..Cardinality(S) : m < n => t[m] < t[n]
<1>2. s \in [1..Cardinality(S) -> S] /\ Sorted(s)
  BY <1>1 DEF Lists
<1>3. InOrder(S) \in [1..Cardinality(S) -> S] /\ Sorted(InOrder(S))
  BY <1>2 DEF InOrder
<1>4. \A x \in S : \E n \in 1..Cardinality(S) : InOrder(S)[n] = x
  <2> DEFINE t == InOrder(S)
             c == Cardinality(S)
  <2>1. IsFiniteSet(S) /\ c \in Nat
    BY Listed
  <2>2. t \in Injection(1..c, S)
    <3>1. \A i \in 1..c : t[i] \in Nat
      <4>1. \A i \in 1..c : t[i] \in S
        BY <1>3
      <4>2. \A x \in S : x \in Nat
        OBVIOUS
      <4> HIDE DEF c, t
      <4> QED BY <4>1, <4>2
    <3>2. ASSUME NEW m \in 1..c, NEW n \in 1..c, t[m] = t[n] PROVE m = n
      BY <1>3, <3>1, <3>2, <2>1
    <3> QED BY <1>3, <3>2 DEF Injection, IsInjective
  <2>3. Cardinality(1..c) = c
    BY <2>1, FS_Interval
  <2>4. t \in Surjection(1..c, S)
    <3> HIDE DEF t
    <3> QED BY <2>1, <2>2, <2>3, FS_Injection
  <2> QED BY <2>4 DEF Surjection
<1> QED BY <1>3, <1>4 DEF Lists

(* The elements of two sets, one before the other, are those of the first  *)
(* and then those of the second.                                           *)
LEMMA OrderJoins ==
  ASSUME NEW k \in Nat, NEW S \in SUBSET (1..k), NEW R \in SUBSET (1..k),
         \A x \in S, y \in R : x < y
  PROVE  /\ Cardinality(S \cup R) = Cardinality(S) + Cardinality(R)
         /\ \A n \in 1..Cardinality(S) : InOrder(S \cup R)[n] = InOrder(S)[n]
         /\ \A n \in 1..Cardinality(R) :
              InOrder(S \cup R)[Cardinality(S) + n] = InOrder(R)[n]
<1> DEFINE s == InOrder(S)
           r == InOrder(R)
           c == Cardinality(S)
           d == Cardinality(R)
           t == [n \in 1..(c + d) |-> IF n <= c THEN s[n] ELSE r[n - c]]
<1>1. IsFiniteSet(S) /\ IsFiniteSet(R) /\ c \in Nat /\ d \in Nat
  BY Listed
<1>2. Cardinality(S \cup R) = c + d
  <2>1. S \cap R = {}
    OBVIOUS
  <2>2. Cardinality(S \cap R) = 0
    BY <2>1, FS_EmptySet
  <2> QED BY <1>1, <2>2, FS_Union
<1>3. Lists(s, S) /\ Lists(r, R)
  BY OrderLists
<1> HIDE DEF s, r
<1>4. \A n \in 1..c : s[n] \in S
  BY <1>3 DEF Lists
<1>5. \A n \in 1..d : r[n] \in R
  BY <1>3 DEF Lists
<1>6. \A m, n \in 1..c : m < n => s[m] < s[n]
  BY <1>3 DEF Lists
<1>7. \A m, n \in 1..d : m < n => r[m] < r[n]
  BY <1>3 DEF Lists
<1>8. \A x \in S : \E n \in 1..c : s[n] = x
  BY <1>3 DEF Lists
<1>9. \A x \in R : \E n \in 1..d : r[n] = x
  BY <1>3 DEF Lists
<1> HIDE DEF c, d
<1>10. t \in [1..(c + d) -> S \cup R]
  BY <1>1, <1>4, <1>5
<1>11. ASSUME NEW m \in 1..(c + d), NEW n \in 1..(c + d), m < n PROVE t[m] < t[n]
  <2>1. CASE n <= c
    BY <1>1, <1>6, <1>11, <2>1
  <2>2. CASE m <= c /\ ~(n <= c)
    <3>1. m \in 1..c /\ n - c \in 1..d
      BY <1>1, <2>2
    <3> QED BY <1>4, <1>5, <2>2, <3>1
  <2>3. CASE ~(m <= c)
    <3>1. m - c \in 1..d /\ n - c \in 1..d /\ m - c < n - c /\ ~(n <= c)
      BY <1>1, <1>11, <2>3
    <3> QED BY <1>7, <2>3, <3>1
  <2> QED BY <1>1, <1>11, <2>1, <2>2, <2>3
<1>12. ASSUME NEW x \in S \cup R PROVE \E n \in 1..(c + d) : t[n] = x
  <2>1. CASE x \in S
    <3>1. PICK n \in 1..c : s[n] = x
      BY <1>8, <2>1
    <3>2. n \in 1..(c + d) /\ t[n] = x
      BY <1>1, <3>1
    <3> QED BY <3>2
  <2>2. CASE x \in R
    <3>1. PICK n \in 1..d : r[n] = x
      BY <1>9, <2>2
    <3>2. c + n \in 1..(c + d) /\ ~(c + n <= c) /\ (c + n) - c = n
      BY <1>1
    <3>3. t[c + n] = x
      BY <3>1, <3>2
    <3> QED BY <3>2, <3>3
  <2> QED BY <1>12, <2>1, <2>2
<1>13. Lists(t, S \cup R)
  BY <1>2, <1>10, <1>11, <1>12 DEF Lists, c, d
<1>14. InOrder(S \cup R) = t
  <2>1. S \cup R \in SUBSET (1..k)
    OBVIOUS
  <2>2. Lists(InOrder(S \cup R), S \cup R)
    BY <2>1, OrderLists
  <2> HIDE DEF t
  <2> QED BY <1>13, <2>1, <2>2, ListUnique
<1>15. \A n \in 1..c : t[n] = s[n]
  BY <1>1
<1>16. \A n \in 1..d : t[c + n] = r[n]
  <2> SUFFICES ASSUME NEW n \in 1..d PROVE t[c + n] = r[n]
    OBVIOUS
  <2>1. c + n \in 1..(c + d) /\ ~(c + n <= c) /\ (c + n) - c = n
    BY <1>1
  <2> QED BY <2>1
<1> QED BY <1>2, <1>14, <1>15, <1>16 DEF c, d, s, r

-----------------------------------------------------------------------------
(* The operators of feed.                                                  *)

LEMMA StreamType ==
  ASSUME stream \in Streams
  PROVE  /\ Len(stream) \in Nat
         /\ \A i \in 1..Len(stream) : stream[i] \in Field
BY StreamsAssumption

LEMMA Halves ==
  /\ \A n \in Nat : /\ Whole(n) \in Nat
                    /\ FieldSize * Whole(n) <= n
                    /\ n <= FieldSize * Whole(n) + 1
  /\ \A n \in Nat : Whole(n * FieldSize) = n
  /\ \A m, n \in Nat : m <= n => Whole(m) <= Whole(n)
  /\ \A m, n \in Nat : m <= FieldSize * n => Whole(m) <= n
BY SMT DEF Whole, FieldSize

LEMMA WholeGrows ==
  ASSUME NEW m \in Nat, NEW n \in Nat, m <= n
  PROVE  Whole(m) \in Nat /\ Whole(n) \in Nat /\ Whole(m) <= Whole(n)
BY SMT DEF Whole, FieldSize

(* The discarding stops at a preamble, or when nothing is left.            *)
LEMMA Discarding ==
  ASSUME NEW a \in Nat \ {0}, NEW k \in Nat, a <= k + 1
  PROVE  /\ AfterDiscard(a, k) \in a..(k + 1)
         /\ \A j \in a..(AfterDiscard(a, k) - 1) : stream[j] # "pre"
         /\ AfterDiscard(a, k) <= k => stream[AfterDiscard(a, k)] = "pre"
<1> DEFINE S == {i \in a..k : stream[i] = "pre"} \cup {k + 1}
<1>1. S \in SUBSET Nat /\ S # {} /\ S \subseteq a..(k + 1)
  OBVIOUS
<1>2. Min(S) \in S /\ \A y \in S : Min(S) <= y
  <2> HIDE DEF S
  <2> QED BY <1>1, MinFound
<1>3. AfterDiscard(a, k) = Min(S)
  BY DEF AfterDiscard
<1>4. Min(S) \in a..(k + 1)
  <2> HIDE DEF S
  <2> QED BY <1>1, <1>2
<1>5. Min(S) <= k => stream[Min(S)] = "pre"
  BY <1>2
<1>6. ASSUME NEW j \in a..(Min(S) - 1) PROVE stream[j] # "pre"
  <2>1. j \in a..k /\ j < Min(S)
    BY <1>4
  <2>2. j \notin S
    <3> SUFFICES ASSUME j \in S PROVE FALSE
      OBVIOUS
    <3>1. Min(S) <= j
      BY <1>2
    <3> HIDE DEF S
    <3> QED BY <1>4, <2>1, <3>1
  <2> QED BY <2>1, <2>2
<1> QED BY <1>3, <1>4, <1>5, <1>6

(* What is kept of fields a..k begins behind the last CheckSum.            *)
LEMMA Slicing ==
  ASSUME NEW a \in Nat \ {0}, NEW k \in Nat, a <= k + 1
  PROVE  /\ Slice(a, k) \in a..(k + 1)
         /\ \A s \in SumsUpTo(a, k) : s < Slice(a, k)
         /\ Slice(a, k) = a \/ Slice(a, k) - 1 \in SumsUpTo(a, k)
<1> DEFINE S == {a - 1} \cup SumsUpTo(a, k)
<1>1. SumsUpTo(a, k) \subseteq a..k
  BY DEF SumsUpTo
<1>2. S \in SUBSET Nat /\ S # {} /\ S \subseteq (a - 1)..k
  BY <1>1
<1>3. Max(S) \in S /\ \A y \in S : Max(S) >= y
  <2>1. \A s \in S : s <= k
    BY <1>2
  <2> HIDE DEF S
  <2> QED BY <1>2, <2>1, MaxFound
<1>4. Slice(a, k) = Max(S) + 1
  BY DEF Slice
<1>5. Max(S) \in (a - 1)..k
  <2> HIDE DEF S
  <2> QED BY <1>2, <1>3
<1>6. Max(S) = a - 1 \/ Max(S) \in SumsUpTo(a, k)
  BY <1>3
<1>7. \A s \in SumsUpTo(a, k) : s \in Nat /\ s <= Max(S)
  BY <1>1, <1>3
<1> HIDE DEF S
<1> QED BY <1>4, <1>5, <1>6, <1>7

LEMMA Beginning ==
  ASSUME NEW a \in Nat \ {0}, NEW i \in Nat, a <= i
  PROVE  /\ Begin(a, i) = Slice(a, i - 1)
         /\ Begin(a, i) \in a..i
         /\ \A s \in SumsUpTo(a, i - 1) : s < Begin(a, i)
         /\ Begin(a, i) = a \/ Begin(a, i) - 1 \in SumsUpTo(a, i - 1)
<1>1. Begin(a, i) = Slice(a, i - 1)
  BY DEF Begin, Slice
<1>2. i - 1 \in Nat /\ a <= (i - 1) + 1 /\ (i - 1) + 1 = i
  OBVIOUS
<1> QED BY <1>1, <1>2, Slicing

(* The loop ends with the triplets or before a field at fault.             *)
LEMMA Taking ==
  ASSUME NEW a \in Nat \ {0}, NEW k \in Nat, a <= k + 1
  PROVE  LastTaken(a, k) \in (a - 1)..k
<1> DEFINE S == Faults(a, k) \cup {k + 1}
<1>1. S \in SUBSET Nat /\ S # {} /\ S \subseteq a..(k + 1)
  BY DEF Faults
<1>2. Min(S) \in S
  <2> HIDE DEF S
  <2> QED BY <1>1, MinFound
<1>3. Min(S) \in a..(k + 1)
  <2> HIDE DEF S
  <2> QED BY <1>1, <1>2
<1>4. LastTaken(a, k) = Min(S) - 1
  BY DEF LastTaken
<1> HIDE DEF S
<1> QED BY <1>3, <1>4

LEMMA SequenceOf ==
  ASSUME NEW S, NEW n \in Nat, NEW f \in [1..n -> S]
  PROVE  f \in Seq(S) /\ Len(f) = n
OBVIOUS

Joins(h, f, g, c, d) == h = [n \in 1..(c + d) |-> IF n <= c THEN f[n] ELSE g[n - c]]

LEMMA Joining ==
  ASSUME NEW T, NEW c \in Nat, NEW d \in Nat,
         NEW f \in [1..c -> T], NEW g \in [1..d -> T]
  PROVE  Joins(f \o g, f, g, c, d)
<1>1. f \in Seq(T) /\ Len(f) = c
  BY SequenceOf
<1>2. g \in Seq(T) /\ Len(g) = d
  BY SequenceOf
<1>3. /\ f \o g \in Seq(T)
      /\ Len(f \o g) = Len(f) + Len(g)
      /\ \A n \in 1..(Len(f) + Len(g)) :
           (f \o g)[n] = IF n <= Len(f) THEN f[n] ELSE g[n - Len(f)]
  BY <1>1, <1>2, ConcatProperties
<1>4. \A n \in 1..(c + d) : (f \o g)[n] = IF n <= c THEN f[n] ELSE g[n - c]
  BY <1>1, <1>2, <1>3
<1>5. f \o g \in [1..(c + d) -> T]
  BY <1>1, <1>2, <1>3, LenProperties
<1>6. f \o g = [n \in 1..(c + d) |-> (f \o g)[n]]
  BY <1>5
<1> QED BY <1>4, <1>6, Zenon DEF Joins

LEMMA Nothing ==
  ASSUME NEW f, DOMAIN f = {}, f = [n \in DOMAIN f |-> f[n]]
  PROVE  f = <<>>
<1>1. 1..0 = DOMAIN f
  OBVIOUS
<1>2. f = [n \in 1..0 |-> f[n]] /\ \A n \in 1..0 : f[n] \in {}
  <2>1. f = [n \in 1..0 |-> f[n]]
    BY <1>1, Zenon
  <2> QED BY <1>1, <2>1
<1>3. f \in [1..0 -> {}]
  BY <1>2, Zenon
<1>4. f \in Seq({}) /\ Len(f) = 0
  BY <1>3, SequenceOf
<1> QED BY <1>4, EmptySeq

(* One message for every CheckSum, in order.                               *)
OnePerSum(M, c, a, k) ==
  /\ c \in Nat
  /\ M \in Seq([from : Nat, to : Nat])
  /\ Len(M) = c
  /\ \A n \in 1..c : /\ M[n].to = InOrder(SumsUpTo(a, k))[n]
                     /\ M[n].to \in SumsUpTo(a, k)
                     /\ M[n].from = Begin(a, M[n].to)
                     /\ M[n].from \in a..M[n].to
  /\ \A m, n \in 1..c : m < n => M[m].to < M[n].to
  /\ \A s \in SumsUpTo(a, k) : \E n \in 1..c : M[n].to = s

LEMMA Messaging ==
  ASSUME NEW a \in Nat \ {0}, NEW k \in Nat
  PROVE  OnePerSum(Messages(a, k), Cardinality(SumsUpTo(a, k)), a, k)
<1> DEFINE M == Messages(a, k)
           c == Cardinality(SumsUpTo(a, k))
           S == SumsUpTo(a, k)
           ends == InOrder(S)
<1>1. S \subseteq a..k /\ S \in SUBSET (1..k)
  BY DEF SumsUpTo
<1>2. c \in Nat /\ Lists(ends, S)
  <2>1. c = Cardinality(S)
    OBVIOUS
  <2> HIDE DEF S, c
  <2>2. Cardinality(S) \in Nat
    BY <1>1, Listed
  <2>3. Lists(ends, S)
    BY <1>1, OrderLists
  <2> QED BY <2>1, <2>2, <2>3
<1>3. /\ ends \in [1..c -> S]
      /\ \A m, n \in 1..c : m < n => ends[m] < ends[n]
      /\ \A x \in S : \E n \in 1..c : ends[n] = x
  BY <1>2 DEF Lists
<1>4. M = [n \in 1..c |-> [from |-> Begin(a, ends[n]), to |-> ends[n]]]
  BY <1>3 DEF Messages
<1> HIDE DEF S, ends, M, c
<1>5. \A n \in 1..c : ends[n] \in S /\ ends[n] \in a..k /\ Begin(a, ends[n]) \in a..ends[n]
  <2> TAKE n \in 1..c
  <2>1. ends[n] \in S /\ ends[n] \in a..k
    BY <1>1, <1>3
  <2>2. ends[n] \in Nat /\ a <= ends[n]
    BY <2>1
  <2> QED BY <2>1, <2>2, Beginning
<1>6. \A n \in 1..c : Begin(a, ends[n]) \in Nat /\ ends[n] \in Nat
  BY <1>5
<1>7. M \in [1..c -> [from : Nat, to : Nat]]
  BY <1>4, <1>6
<1>8. M \in Seq([from : Nat, to : Nat]) /\ Len(M) = c
  BY <1>2, <1>7, SequenceOf
<1>9. \A n \in 1..c : /\ M[n].to = ends[n]
                      /\ M[n].from = Begin(a, ends[n])
  BY <1>4
<1>10. OnePerSum(M, c, a, k)
  <2>1. \A n \in 1..c : /\ M[n].to = ends[n]
                       /\ M[n].to \in S
                       /\ M[n].from = Begin(a, M[n].to)
                       /\ M[n].from \in a..M[n].to
    BY <1>5, <1>9
  <2>2. \A m, n \in 1..c : m < n => M[m].to < M[n].to
    BY <1>3, <1>9
  <2>3. \A s \in S : \E n \in 1..c : M[n].to = s
    BY <1>3, <1>9
  <2>4. S = SumsUpTo(a, k) /\ ends = InOrder(SumsUpTo(a, k))
    BY DEF S, ends
  <2> QED BY <1>2, <1>8, <2>1, <2>2, <2>3, <2>4 DEF OnePerSum
<1> QED BY <1>10 DEF M, c

-----------------------------------------------------------------------------
(* The fields given to the callback.                                       *)

Message == [from : Nat, to : Nat]

LEMMA GivenFinite ==
  ASSUME stream \in Streams, out \in Seq(Message)
  PROVE  IsFiniteSet(Given) /\ Cardinality(Given) \in Nat
<1>1. IsFiniteSet(1..Len(out)) /\ IsFiniteSet(1..Len(stream))
  BY StreamType, FS_Interval
<1>2. DOMAIN out = 1..Len(out)
  OBVIOUS
<1>3. IsFiniteSet((DOMAIN out) \X (1..Len(stream)))
  BY <1>1, <1>2, FS_Product
<1>4. Given \in SUBSET ((DOMAIN out) \X (1..Len(stream)))
  BY DEF Given
<1>5. IsFiniteSet(Given)
  BY <1>3, <1>4, FS_Subset
<1> QED BY <1>5, FS_CardinalityType

(* The messages of fields a..k hold every field up to the last CheckSum,   *)
(* each in one of them.                                                    *)
LEMMA MessagesTile ==
  ASSUME NEW a \in Nat \ {0}, NEW k \in Nat, a <= k + 1,
         NEW c, c = Cardinality(SumsUpTo(a, k)), NEW M, M = Messages(a, k)
  PROVE  /\ \A n \in 1..c : M[n].from \in Nat /\ M[n].to \in Nat
         /\ \A n \in 1..c : M[n].from..M[n].to \subseteq a..(Slice(a, k) - 1)
         /\ \A m, n \in 1..c : m < n => M[m].to < M[n].from
         /\ \A i \in a..(Slice(a, k) - 1) : \E n \in 1..c : i \in M[n].from..M[n].to
<1>1. SumsUpTo(a, k) \subseteq a..k
  BY DEF SumsUpTo
<1>2. /\ c \in Nat
      /\ \A n \in 1..c : /\ M[n].to \in SumsUpTo(a, k)
                         /\ M[n].from = Begin(a, M[n].to)
                         /\ M[n].from \in a..M[n].to
      /\ \A m, n \in 1..c : m < n => M[m].to < M[n].to
      /\ \A s \in SumsUpTo(a, k) : \E n \in 1..c : M[n].to = s
  <2>1. OnePerSum(M, c, a, k)
    BY Messaging
  <2> QED BY <2>1 DEF OnePerSum
<1>3. \A n \in 1..c : M[n].from \in Nat /\ M[n].to \in Nat
  BY <1>1, <1>2
<1>4. ASSUME NEW n \in 1..c PROVE M[n].from..M[n].to \subseteq a..(Slice(a, k) - 1)
  <2>1. M[n].to < Slice(a, k)
    BY <1>2, Slicing
  <2>2. Slice(a, k) \in Nat
    BY Slicing
  <2> QED BY <1>2, <1>3, <2>1, <2>2
<1>5. ASSUME NEW m \in 1..c, NEW n \in 1..c, m < n PROVE M[m].to < M[n].from
  <2>1. M[m].to < M[n].to /\ M[m].to \in SumsUpTo(a, k)
    BY <1>2, <1>5
  <2>2. M[m].to \in SumsUpTo(a, M[n].to - 1)
    BY <1>1, <1>3, <2>1 DEF SumsUpTo
  <2>3. M[n].to \in Nat /\ a <= M[n].to
    BY <1>2, <1>3
  <2>4. \A s \in SumsUpTo(a, M[n].to - 1) : s < Begin(a, M[n].to)
    BY <2>3, Beginning
  <2> QED BY <1>2, <2>2, <2>4
<1>6. ASSUME NEW i \in a..(Slice(a, k) - 1)
      PROVE  \E n \in 1..c : i \in M[n].from..M[n].to
  <2> DEFINE S == {s \in SumsUpTo(a, k) : i <= s}
  <2>1. S \in SUBSET Nat
    BY <1>1
  <2>2. Slice(a, k) - 1 \in S
    <3>1. Slice(a, k) - 1 \in SumsUpTo(a, k)
      BY Slicing
    <3> QED BY <1>1, <3>1
  <2>3. Min(S) \in S /\ \A s \in S : Min(S) <= s
    <3> HIDE DEF S
    <3> QED BY <2>1, <2>2, MinFound
  <2>4. PICK n \in 1..c : M[n].to = Min(S)
    BY <1>2, <2>3
  <2>5. i <= M[n].to /\ M[n].to \in Nat /\ a <= M[n].to
    BY <1>1, <2>3, <2>4
  <2>6. M[n].from <= i
    <3>1. CASE M[n].from = a
      BY <3>1
    <3>2. CASE M[n].from - 1 \in SumsUpTo(a, M[n].to - 1)
      <4>1. M[n].from - 1 \in SumsUpTo(a, k) /\ M[n].from - 1 < M[n].to
        BY <1>1, <1>2, <1>3, <3>2 DEF SumsUpTo
      <4>2. M[n].from - 1 \notin S
        <5> SUFFICES ASSUME M[n].from - 1 \in S PROVE FALSE
          OBVIOUS
        <5>1. Min(S) <= M[n].from - 1
          BY <2>3
        <5> QED BY <1>3, <2>4, <4>1, <5>1
      <4>3. ~(i <= M[n].from - 1)
        BY <4>1, <4>2
      <4> QED BY <1>3, <4>3
    <3> QED BY <1>2, <2>5, <3>1, <3>2, Beginning
  <2> QED BY <1>3, <2>5, <2>6
<1> QED BY <1>3, <1>4, <1>5, <1>6

LEMMA GivenGrows ==
  ASSUME stream \in Streams, stream' = stream, out \in Seq(Message),
         NEW a \in Nat \ {0}, NEW k \in Nat, a <= k + 1, k <= Len(stream),
         out' = out \o Messages(a, k)
  PROVE  Cardinality(Given') = Cardinality(Given) + (Slice(a, k) - a)
<1> DEFINE M == Messages(a, k)
           c == Cardinality(SumsUpTo(a, k))
           o == Len(out)
           L == Len(stream)
           z == Slice(a, k)
           N == {p \in ((o + 1)..(o + c)) \X (1..L) : p[2] \in M[p[1] - o].from..M[p[1] - o].to}
<1>1. c \in Nat /\ M \in Seq(Message) /\ Len(M) = c
  <2>1. OnePerSum(M, c, a, k)
    BY Messaging
  <2> QED BY <2>1 DEF OnePerSum, Message
<1>2. o \in Nat /\ L \in Nat /\ z \in a..(k + 1)
  BY StreamType, Slicing
<1>3. /\ \A n \in 1..c : M[n].from \in Nat /\ M[n].to \in Nat
      /\ \A n \in 1..c : M[n].from..M[n].to \subseteq a..(z - 1)
      /\ \A m, n \in 1..c : m < n => M[m].to < M[n].from
      /\ \A i \in a..(z - 1) : \E n \in 1..c : i \in M[n].from..M[n].to
  BY MessagesTile
<1> HIDE DEF M, c, z
<1>4. /\ DOMAIN out' = 1..(o + c)
      /\ \A n \in 1..o : out'[n] = out[n]
      /\ \A n \in (o + 1)..(o + c) : out'[n] = M[n - o]
  <2>1. out' = out \o M
    BY DEF M
  <2>2. DOMAIN (out \o M) = 1..(o + c)
    <3>1. out \o M \in Seq(Message) /\ Len(out \o M) = o + c
      BY <1>1, ConcatProperties
    <3> QED BY <3>1, LenProperties
  <2>3. \A n \in 1..(o + c) : (out \o M)[n] = IF n <= o THEN out[n] ELSE M[n - o]
    BY <1>1, <1>2, ConcatProperties
  <2>4. \A n \in 1..o : n \in 1..(o + c) /\ n <= o
    BY <1>1, <1>2
  <2>5. \A n \in (o + 1)..(o + c) : n \in 1..(o + c) /\ ~(n <= o)
    BY <1>1, <1>2
  <2> HIDE DEF o
  <2> QED BY <2>1, <2>2, <2>3, <2>4, <2>5
<1>5. Given' = Given \cup N
  <2>1. Given' = {p \in (1..(o + c)) \X (1..L) : p[2] \in out'[p[1]].from..out'[p[1]].to}
    BY <1>4 DEF Given
  <2>2. Given = {p \in (1..o) \X (1..L) : p[2] \in out[p[1]].from..out[p[1]].to}
    BY DEF Given
  <2>3. ASSUME NEW m \in 1..(o + c), NEW i \in 1..L
        PROVE  <<m, i>> \in Given' <=> <<m, i>> \in Given \cup N
    <3>1. <<m, i>> \in Given' <=> i \in out'[m].from..out'[m].to
      BY <2>1
    <3>2. <<m, i>> \in Given <=> m \in 1..o /\ i \in out[m].from..out[m].to
      BY <2>2
    <3>3. <<m, i>> \in N <=> m \in (o + 1)..(o + c) /\ i \in M[m - o].from..M[m - o].to
      OBVIOUS
    <3> HIDE DEF N
    <3>4. CASE m <= o
      <4>1. m \in 1..o /\ m \notin (o + 1)..(o + c)
        BY <1>2, <3>4
      <4> QED BY <1>4, <3>1, <3>2, <3>3, <4>1
    <3>5. CASE ~(m <= o)
      <4>1. m \notin 1..o /\ m \in (o + 1)..(o + c)
        BY <1>1, <1>2, <3>5
      <4> QED BY <1>4, <3>1, <3>2, <3>3, <4>1
    <3> QED BY <3>4, <3>5
  <2>4. Given' \subseteq (1..(o + c)) \X (1..L) /\ Given \cup N \subseteq (1..(o + c)) \X (1..L)
    BY <1>1, <1>2, <2>1, <2>2
  <2> HIDE DEF N
  <2> QED BY <2>3, <2>4
<1>6. Given \cap N = {}
  BY <1>2 DEF Given
<1>7. IsFiniteSet(Given) /\ Cardinality(Given) \in Nat
  BY GivenFinite
<1>8. IsFiniteSet(N)
  <2>1. IsFiniteSet((o + 1)..(o + c)) /\ IsFiniteSet(1..L)
    BY <1>1, <1>2, FS_Interval
  <2>2. IsFiniteSet(((o + 1)..(o + c)) \X (1..L))
    BY <2>1, FS_Product
  <2>3. N \in SUBSET (((o + 1)..(o + c)) \X (1..L))
    OBVIOUS
  <2> QED BY <2>2, <2>3, FS_Subset
<1>9. ExistsBijection(N, a..(z - 1))
  <2> DEFINE h == [p \in N |-> p[2]]
  <2>1. ASSUME NEW p \in N
        PROVE  /\ p[1] - o \in 1..c
               /\ p[2] \in M[p[1] - o].from..M[p[1] - o].to
               /\ p = <<p[1], p[2]>>
               /\ p[1] \in Nat /\ p[2] \in Nat
    BY <1>1, <1>2
  <2>2. h \in [N -> a..(z - 1)]
    <3>1. \A p \in N : p[2] \in a..(z - 1)
      BY <1>3, <2>1
    <3> QED BY <3>1
  <2>3. ASSUME NEW p \in N, NEW q \in N, h[p] = h[q] PROVE p = q
    <3>1. p[2] = q[2]
      BY <2>3
    <3>2. ~(p[1] - o < q[1] - o)
      <4> SUFFICES ASSUME p[1] - o < q[1] - o PROVE FALSE
        OBVIOUS
      <4>1. M[p[1] - o].to < M[q[1] - o].from
        BY <1>3, <2>1
      <4>2. p[2] <= M[p[1] - o].to
        BY <2>1
      <4>3. M[q[1] - o].from <= q[2]
        BY <2>1
      <4>4. /\ p[2] \in Nat
            /\ M[p[1] - o].to \in Nat
            /\ M[q[1] - o].from \in Nat
        BY <1>3, <2>1
      <4> HIDE DEF o
      <4> QED BY <3>1, <4>1, <4>2, <4>3, <4>4
    <3>3. ~(q[1] - o < p[1] - o)
      <4> SUFFICES ASSUME q[1] - o < p[1] - o PROVE FALSE
        OBVIOUS
      <4>1. M[q[1] - o].to < M[p[1] - o].from
        BY <1>3, <2>1
      <4>2. q[2] <= M[q[1] - o].to
        BY <2>1
      <4>3. M[p[1] - o].from <= p[2]
        BY <2>1
      <4>4. /\ p[2] \in Nat
            /\ M[q[1] - o].to \in Nat
            /\ M[p[1] - o].from \in Nat
        BY <1>3, <2>1
      <4> HIDE DEF o
      <4> QED BY <3>1, <4>1, <4>2, <4>3, <4>4
    <3>4. p[1] = q[1]
      BY <1>2, <2>1, <3>2, <3>3
    <3> QED BY <2>1, <3>1, <3>4
  <2>4. ASSUME NEW i \in a..(z - 1) PROVE \E p \in N : h[p] = i
    <3>1. PICK n \in 1..c : i \in M[n].from..M[n].to
      BY <1>3
    <3>2. o + n \in (o + 1)..(o + c) /\ (o + n) - o = n /\ i \in 1..L
      BY <1>1, <1>2
    <3>3. <<o + n, i>> \in N
      BY <3>1, <3>2
    <3>4. h[<<o + n, i>>] = i
      BY <3>3
    <3> QED BY <3>3, <3>4
  <2> HIDE DEF N, h
  <2>5. h \in Bijection(N, a..(z - 1))
    BY <2>2, <2>3, <2>4 DEF Bijection, Injection, Surjection, IsInjective
  <2> QED BY <2>5 DEF ExistsBijection
<1>10. Cardinality(N) = z - a
  <2>1. Cardinality(a..(z - 1)) = Cardinality(N)
    <3> HIDE DEF N
    <3> QED BY <1>8, <1>9, FS_Bijection
  <2>2. Cardinality(a..(z - 1)) = z - a
    BY <1>2, FS_Interval
  <2> QED BY <2>1, <2>2
<1>11. Cardinality(Given \cup N) = Cardinality(Given) + Cardinality(N)
  <2>1. Cardinality(Given \cap N) = 0
    BY <1>6, FS_EmptySet
  <2>2. Cardinality(N) \in Nat
    BY <1>2, <1>10
  <2> HIDE DEF N
  <2>3. Cardinality(Given \cup N) = Cardinality(Given) + Cardinality(N) - Cardinality(Given \cap N)
    BY <1>7, <1>8, FS_Union
  <2> QED BY <1>7, <2>1, <2>2, <2>3
<1> QED BY <1>5, <1>10, <1>11 DEF z

-----------------------------------------------------------------------------
(* The invariant: the bytes fed are accounted for, and none is forgotten.  *)

(* What holds of every state: the pieces follow one another in the stream. *)
Kept ==
  /\ stream \in Streams
  /\ fed \in 0..(FieldSize * Len(stream))
  /\ bufStart \in 0..fed
  /\ first \in 1..(Whole(fed) + 1)
  /\ discarded \in 0..(FieldSize * (first - 1))
  /\ bytes \in Nat
  /\ raised \in BOOLEAN
  /\ out \in Seq(Message)
  /\ \A i \in 1..Len(out) : out[i].from \in 1..out[i].to /\ out[i].to \in 1..Len(stream)

(* And of a parser that has not raised: buf begins with a whole field, and *)
(* what comes before triplets was given to the callback or discarded.      *)
Placed ==
  ~raised =>
    /\ bufStart = FieldSize * Whole(bufStart)
    /\ first <= Whole(bufStart) + 1
    /\ bytes >= Checksum
    /\ FieldSize * Cardinality(Given) + discarded = FieldSize * (first - 1)

IInv == Kept /\ Placed

(* What the parser holds, when buf begins with a whole field.              *)
LEMMA HeldBytes ==
  ASSUME fed \in Nat, bufStart \in Nat, first \in Nat, bufStart = FieldSize * Whole(bufStart)
  PROVE  Checksum = fed - 2 * first + 2
<1> DEFINE w == Whole(bufStart)
<1>1. w \in Nat
  BY Halves
<1>2. Checksum = (w - first + 1) * 2 + (fed - bufStart)
  BY DEF Checksum, FieldSize
<1>3. bufStart = 2 * w
  BY DEF FieldSize
<1> HIDE DEF w
<1> QED BY <1>1, <1>2, <1>3

LEMMA InvariantAccounts == IInv => TypeOK /\ NeverUndercounts /\ EveryByteAccounted
<1> SUFFICES ASSUME IInv PROVE TypeOK /\ NeverUndercounts /\ EveryByteAccounted
  OBVIOUS
<1>1. Len(stream) \in Nat /\ fed \in Nat
  BY StreamType DEF IInv, Kept, FieldSize
<1>2. Whole(fed) \in Nat /\ FieldSize * Whole(fed) <= fed /\ Whole(fed) <= Len(stream)
  BY <1>1, Halves DEF IInv, Kept
<1>3. TypeOK
  <2>1. first \in 1..(Len(stream) + 1) /\ discarded \in 0..fed
    BY <1>1, <1>2 DEF IInv, Kept, FieldSize
  <2> QED BY <2>1 DEF IInv, Kept, TypeOK
<1>4. NeverUndercounts
  BY DEF IInv, Placed, NeverUndercounts
<1>5. EveryByteAccounted
  <2> SUFFICES ASSUME ~raised
               PROVE  FieldSize * Cardinality(Given) + Checksum + discarded = fed
    BY DEF EveryByteAccounted
  <2>1. Cardinality(Given) \in Nat
    BY GivenFinite DEF IInv, Kept
  <2>2. bufStart \in Nat /\ first \in Nat /\ discarded \in Nat
    BY <1>1, <1>2 DEF IInv, Kept, FieldSize
  <2>3. bufStart = FieldSize * Whole(bufStart)
    BY DEF IInv, Placed
  <2>4. 2 * Cardinality(Given) + discarded = 2 * (first - 1)
    BY DEF IInv, Placed, FieldSize
  <2>5. Checksum = fed - 2 * first + 2
    BY <1>1, <2>2, <2>3, HeldBytes
  <2> QED BY <1>1, <2>1, <2>2, <2>4, <2>5 DEF FieldSize
<1> QED BY <1>3, <1>4, <1>5

LEMMA Start == Init => IInv
<1> SUFFICES ASSUME Init PROVE IInv
  OBVIOUS
<1>1. Len(stream) \in Nat
  BY StreamType DEF Init
<1>2. Whole(0) = 0
  BY DEF Whole, FieldSize
<1>3. Kept
  <2>1. fed \in 0..(FieldSize * Len(stream)) /\ bufStart \in 0..fed
    BY <1>1 DEF Init, FieldSize
  <2>2. first \in 1..(Whole(fed) + 1) /\ discarded \in 0..(FieldSize * (first - 1))
    BY <1>2 DEF Init, FieldSize
  <2>3. out \in Seq(Message) /\ 1..Len(out) = {}
    BY DEF Init
  <2>4. stream \in Streams /\ bytes \in Nat /\ raised \in BOOLEAN
    BY DEF Init
  <2> QED BY <2>1, <2>2, <2>3, <2>4 DEF Kept
<1>4. Given = {}
  BY DEF Init, Given
<1>5. Cardinality(Given) = 0
  BY <1>4, FS_EmptySet
<1>6. Placed
  BY <1>2, <1>5 DEF Init, Placed, Checksum, FieldSize
<1> QED BY <1>3, <1>6 DEF IInv

LEMMA FeedMoreKeeps ==
  ASSUME NEW n \in Nat \ {0}, IInv, Feed(n), FeedMore(n)
  PROVE  IInv'
<1>1. /\ ~raised /\ fed + n <= FieldSize * Len(stream) /\ fed' = fed + n
      /\ bytes' = bytes + n
      /\ UNCHANGED <<stream, bufStart, first, out, discarded, raised>>
  BY DEF Feed, FeedMore
<1>2. Len(stream) \in Nat /\ fed \in Nat /\ bufStart \in Nat /\ first \in Nat
  BY StreamType, Halves DEF IInv, Kept, FieldSize
<1>3. Whole(fed) <= Whole(fed + n) /\ Whole(fed) \in Nat /\ Whole(fed + n) \in Nat
  <2>1. fed + n \in Nat /\ fed <= fed + n
    BY <1>2
  <2> QED BY <1>2, <2>1, WholeGrows
<1>4. Kept'
  <2>1. fed' \in 0..(FieldSize * Len(stream)) /\ bufStart' \in 0..fed' /\ bytes' \in Nat
    BY <1>1, <1>2 DEF IInv, Kept
  <2>2. first' \in 1..(Whole(fed') + 1)
    BY <1>1, <1>2, <1>3 DEF IInv, Kept
  <2> QED BY <1>1, <2>1, <2>2 DEF IInv, Kept
<1>5. Placed'
  <2>1. Whole(bufStart)' = Whole(bufStart) /\ Given' = Given
    BY <1>1 DEF Whole, Given
  <2>2. ~raised' => Checksum = fed - 2 * first + 2 /\ Checksum' = (fed + n) - 2 * first + 2
    <3> SUFFICES ASSUME ~raised'
                 PROVE  Checksum = fed - 2 * first + 2 /\ Checksum' = (fed + n) - 2 * first + 2
      OBVIOUS
    <3>1. bufStart = FieldSize * Whole(bufStart)
      BY <1>1 DEF IInv, Placed
    <3>2. Checksum = fed - 2 * first + 2
      BY <1>2, <3>1, HeldBytes
    <3>3. Checksum' = (Whole(bufStart) - first + 1) * FieldSize + ((fed + n) - bufStart)
      BY <1>1, <2>1 DEF Checksum
    <3>4. Checksum = (Whole(bufStart) - first + 1) * FieldSize + (fed - bufStart)
      BY DEF Checksum
    <3>5. (Whole(bufStart) - first + 1) * FieldSize \in Int
      <4>1. Whole(bufStart) \in Nat
        BY <1>2, Halves
      <4> QED BY <1>2, <4>1 DEF FieldSize
    <3> QED BY <1>2, <3>2, <3>3, <3>4, <3>5
  <2>3. ~raised' => bytes' >= Checksum'
    <3>1. ~raised => bytes >= Checksum /\ bytes \in Nat
      BY DEF IInv, Kept, Placed
    <3> QED BY <1>1, <1>2, <2>2, <3>1
  <2> QED BY <1>1, <2>1, <2>3 DEF IInv, Placed
<1> QED BY <1>4, <1>5 DEF IInv

(* The fields a call of feed works on: up to Reach, from Sync, to Stop.    *)
Reach(n) == Whole(fed + n)
Sync(n) == AfterDiscard(first, Reach(n))
Stop(n) == LastTaken(Sync(n), Reach(n))

LEMMA Reaching ==
  ASSUME NEW n \in Nat \ {0}, IInv, Feed(n)
  PROVE  /\ Reach(n) \in Nat /\ Reach(n) <= Len(stream) /\ Len(stream) \in Nat
         /\ Whole(fed) <= Reach(n) /\ FieldSize * Reach(n) <= fed + n
         /\ first \in Nat \ {0} /\ first <= Reach(n) + 1
         /\ Sync(n) \in Nat \ {0} /\ Sync(n) \in first..(Reach(n) + 1)
         /\ Stop(n) \in Nat /\ Stop(n) \in (Sync(n) - 1)..Reach(n)
         /\ Slice(Sync(n), Stop(n)) \in Sync(n)..(Stop(n) + 1)
<1>1. Len(stream) \in Nat /\ fed \in Nat /\ first \in Nat \ {0}
  BY StreamType, Halves DEF IInv, Kept, FieldSize
<1>2. fed + n \in Nat /\ fed <= fed + n /\ fed + n <= FieldSize * Len(stream)
  BY <1>1 DEF Feed
<1>3. /\ Reach(n) \in Nat /\ Reach(n) <= Len(stream)
      /\ Whole(fed) <= Reach(n) /\ FieldSize * Reach(n) <= fed + n
      /\ Whole(fed) \in Nat
  BY <1>1, <1>2, Halves DEF Reach
<1>4. first <= Reach(n) + 1
  BY <1>1, <1>3 DEF IInv, Kept
<1>5. Sync(n) \in first..(Reach(n) + 1)
  BY <1>1, <1>3, <1>4, Discarding DEF Sync
<1>6. Sync(n) \in Nat \ {0} /\ Sync(n) <= Reach(n) + 1
  BY <1>1, <1>3, <1>5
<1>7. Stop(n) \in (Sync(n) - 1)..Reach(n)
  BY <1>3, <1>6, Taking DEF Stop
<1>8. Stop(n) \in Nat /\ Sync(n) <= Stop(n) + 1
  BY <1>3, <1>6, <1>7
<1>9. Slice(Sync(n), Stop(n)) \in Sync(n)..(Stop(n) + 1)
  BY <1>6, <1>8, Slicing
<1> QED BY <1>1, <1>3, <1>4, <1>5, <1>6, <1>7, <1>8, <1>9

(* bytes_in_buffer once the loop has taken the messages.                   *)
Counted(n) ==
  (bytes + n) - (Sync(n) - first) - FieldSize * (Slice(Sync(n), Stop(n)) - Sync(n))

LEMMA Parsing ==
  ASSUME NEW n \in Nat \ {0}, IInv, Feed(n), FeedParse(n)
  PROVE  /\ ~TooEarly(n)
         /\ discarded' = discarded + FieldSize * (Sync(n) - first)
         /\ out' = out \o Messages(Sync(n), Stop(n))
         /\ \/ /\ Stop(n) = Reach(n)
               /\ bufStart' = Reach(n) * FieldSize
               /\ first' = Slice(Sync(n), Reach(n))
               /\ bytes' = Counted(n)
               /\ raised' = raised
            \/ /\ bufStart' = Reach(n) * FieldSize
               /\ first' = Sync(n)
               /\ bytes' = Counted(n)
               /\ raised' = TRUE
            \/ /\ bufStart' = fed + n
               /\ first' = Reach(n) + 1
               /\ bytes' = 0
               /\ raised' = TRUE
<1>1. LessDiscarded(bytes + n, Sync(n) - first) = (bytes + n) - (Sync(n) - first)
  <2>1. Sync(n) \in Nat /\ first \in Nat
    BY Reaching
  <2>2. (Sync(n) - first) * (2 - 1) = Sync(n) - first
    BY <2>1
  <2>3. LessDiscarded(bytes + n, Sync(n) - first) = (bytes + n) - (Sync(n) - first) * (2 - 1)
    BY DEF LessDiscarded, FieldSize
  <2> QED BY <2>2, <2>3, Zenon
<1>2. Crud(Sync(n) - first) = FieldSize * (Sync(n) - first)
  BY Reaching DEF Crud, FieldSize
<1>3. /\ ~TooEarly(n)
      /\ discarded' = discarded + Crud(Sync(n) - first)
      /\ out' = out \o Messages(Sync(n), Stop(n))
  BY DEF FeedParse, Reach, Sync, Stop
<1>4. LessDiscarded(bytes + n, Sync(n) - first)
        - FieldSize * (Slice(Sync(n), Stop(n)) - Sync(n)) = Counted(n)
  BY <1>1, Zenon DEF Counted
<1>5. \/ /\ Stop(n) = Reach(n)
         /\ bufStart' = Reach(n) * FieldSize
         /\ first' = Slice(Sync(n), Reach(n))
         /\ bytes' = Counted(n)
         /\ raised' = raised
      \/ /\ bufStart' = Reach(n) * FieldSize
         /\ first' = Sync(n)
         /\ bytes' = Counted(n)
         /\ raised' = TRUE
      \/ /\ bufStart' = fed + n
         /\ first' = Reach(n) + 1
         /\ bytes' = 0
         /\ raised' = TRUE
  BY <1>4 DEF FeedParse, Reach, Sync, Stop
<1> QED BY <1>2, <1>3, <1>5

(* The arithmetic of a call of feed.                                       *)
LEMMA DiscardedBound ==
  ASSUME NEW d \in Nat, NEW f \in Nat, NEW a \in Nat, NEW z \in Nat,
         d <= 2 * (f - 1), a >= f, z >= a
  PROVE  d + 2 * (a - f) \in 0..(2 * (z - 1))
OBVIOUS

LEMMA FeedParseKeeps ==
  ASSUME NEW n \in Nat \ {0}, IInv, Feed(n), FeedParse(n)
  PROVE  IInv'
<1> DEFINE k == Reach(n)
           a == Sync(n)
           e == Stop(n)
           z == Slice(a, e)
<1>1. /\ k \in Nat /\ k <= Len(stream) /\ Len(stream) \in Nat
      /\ Whole(fed) <= k /\ FieldSize * k <= fed + n
      /\ first \in Nat \ {0} /\ first <= k + 1
      /\ a \in Nat \ {0} /\ a \in first..(k + 1)
      /\ e \in Nat /\ e \in (a - 1)..k
      /\ z \in a..(e + 1)
  BY Reaching
<1>2. /\ ~raised /\ fed + n <= FieldSize * Len(stream) /\ fed' = fed + n
      /\ stream' = stream
  BY DEF Feed
<1>3. /\ discarded' = discarded + FieldSize * (a - first)
      /\ out' = out \o Messages(a, e)
      /\ \/ /\ e = k
            /\ bufStart' = k * FieldSize
            /\ first' = z
            /\ bytes' = Counted(n)
            /\ raised' = raised
         \/ /\ bufStart' = k * FieldSize
            /\ first' = a
            /\ bytes' = Counted(n)
            /\ raised' = TRUE
         \/ /\ bufStart' = fed + n
            /\ first' = k + 1
            /\ bytes' = 0
            /\ raised' = TRUE
  BY Parsing
<1>4. Whole(fed + n) = k
  BY DEF Reach
<1>5. Counted(n) = (bytes + n) - (a - first) - FieldSize * (z - a)
  BY DEF Counted
<1>6. /\ fed \in Nat /\ bufStart \in Nat /\ bytes \in Nat
      /\ discarded \in Nat /\ discarded <= 2 * (first - 1)
      /\ out \in Seq(Message)
  BY <1>1 DEF IInv, Kept, FieldSize
<1>7. /\ bufStart = 2 * Whole(bufStart)
      /\ first <= Whole(bufStart) + 1
      /\ bytes >= Checksum
      /\ 2 * Cardinality(Given) + discarded = 2 * (first - 1)
  BY <1>2 DEF IInv, Placed, FieldSize
<1> HIDE DEF k, a, e, z
<1>8. Checksum = fed - 2 * first + 2
  <2>1. bufStart = FieldSize * Whole(bufStart)
    BY <1>2 DEF IInv, Placed
  <2>2. fed \in Nat /\ bufStart \in Nat /\ first \in Nat
    BY <1>1, <1>6
  <2> QED BY <2>1, <2>2, HeldBytes
<1>9. Counted(n) \in Int /\ Counted(n) >= fed + n - 2 * z + 2
  BY <1>1, <1>5, <1>6, <1>7, <1>8 DEF FieldSize
<1>10. Counted(n) \in Nat
  BY <1>1, <1>6, <1>9 DEF FieldSize
<1>11. /\ out' \in Seq(Message)
       /\ \A i \in 1..Len(out') : out'[i].from \in 1..out'[i].to /\ out'[i].to \in 1..Len(stream)
  <2> DEFINE M == Messages(a, e)
             c == Cardinality(SumsUpTo(a, e))
  <2>1. OnePerSum(M, c, a, e)
    BY <1>1, Messaging
  <2>2. SumsUpTo(a, e) \subseteq 1..Len(stream)
    BY <1>1 DEF SumsUpTo
  <2> HIDE DEF M, c
  <2>3. M \in Seq(Message) /\ Len(M) = c /\ c \in Nat
    BY <2>1 DEF OnePerSum, Message
  <2>4. ASSUME NEW i \in 1..c PROVE M[i].from \in 1..M[i].to /\ M[i].to \in 1..Len(stream)
    <3>1. M[i].to \in SumsUpTo(a, e) /\ M[i].from \in a..M[i].to
      BY <2>1 DEF OnePerSum
    <3> QED BY <1>1, <2>2, <3>1
  <2>5. out' = out \o M
    BY <1>3 DEF M
  <2>6. /\ out \o M \in Seq(Message)
        /\ Len(out \o M) = Len(out) + c
        /\ \A i \in 1..(Len(out) + c) :
             (out \o M)[i] = IF i <= Len(out) THEN out[i] ELSE M[i - Len(out)]
    BY <1>6, <2>3, ConcatProperties
  <2>7. ASSUME NEW i \in 1..(Len(out) + c)
        PROVE  (out \o M)[i].from \in 1..(out \o M)[i].to /\ (out \o M)[i].to \in 1..Len(stream)
    <3>1. Len(out) \in Nat
      BY <1>6
    <3>2. CASE i <= Len(out)
      <4>1. i \in 1..Len(out) /\ (out \o M)[i] = out[i]
        BY <2>6, <3>1, <3>2
      <4> QED BY <4>1 DEF IInv, Kept
    <3>3. CASE ~(i <= Len(out))
      <4>1. i - Len(out) \in 1..c /\ (out \o M)[i] = M[i - Len(out)]
        BY <2>3, <2>6, <3>1, <3>3
      <4> QED BY <2>4, <4>1
    <3> QED BY <3>2, <3>3
  <2> QED BY <2>5, <2>6, <2>7
<1>12. Kept'
  <2>1. fed' \in 0..(FieldSize * Len(stream)')
    BY <1>1, <1>2, <1>6 DEF FieldSize
  <2>2. bufStart' \in 0..fed'
    BY <1>1, <1>2, <1>3, <1>6 DEF FieldSize
  <2>3. first' \in 1..(Whole(fed') + 1)
    BY <1>1, <1>2, <1>3, <1>4
  <2>4. discarded' \in 0..(FieldSize * (first' - 1))
    <3>1. first' >= a /\ first' \in Nat
      BY <1>1, <1>3
    <3>2. discarded' = discarded + 2 * (a - first) /\ a \in Nat /\ a >= first /\ first \in Nat
      BY <1>1, <1>3 DEF FieldSize
    <3>3. discarded \in Nat /\ discarded <= 2 * (first - 1)
      BY <1>6
    <3>4. discarded + 2 * (a - first) \in 0..(2 * (first' - 1))
      BY <3>1, <3>2, <3>3, DiscardedBound
    <3> QED BY <3>2, <3>4 DEF FieldSize
  <2>5. bytes' \in Nat
    BY <1>3, <1>10
  <2>6. raised' \in BOOLEAN
    BY <1>3 DEF IInv, Kept
  <2> QED BY <1>2, <1>11, <2>1, <2>2, <2>3, <2>4, <2>5, <2>6 DEF IInv, Kept
<1>13. Placed'
  <2> SUFFICES ASSUME ~raised' PROVE Placed'
    BY DEF Placed
  <2>1. e = k /\ bufStart' = k * FieldSize /\ first' = z /\ bytes' = Counted(n)
    BY <1>3
  <2>2. Whole(bufStart') = k /\ bufStart' = 2 * k
    BY <1>1, <2>1, Halves DEF FieldSize
  <2>3. first' <= Whole(bufStart') + 1
    BY <1>1, <2>1, <2>2
  <2>4. bytes' >= Checksum'
    <3>1. Checksum' = (k - z + 1) * 2 + ((fed + n) - 2 * k)
      <4>1. Checksum' = (Whole(bufStart') - first' + 1) * FieldSize + (fed' - bufStart')
        BY DEF Checksum, Whole
      <4> QED BY <1>2, <2>1, <2>2, <4>1 DEF FieldSize
    <3>2. Counted(n) \in Int /\ Counted(n) >= fed + n - 2 * z + 2
      BY <1>9
    <3>3. k \in Nat /\ z \in Nat /\ fed \in Nat
      BY <1>1, <1>6
    <3>4. (k - z + 1) * 2 = 2 * k - 2 * z + 2
      BY <3>3
    <3> QED BY <2>1, <3>1, <3>2, <3>3, <3>4
  <2>5. FieldSize * Cardinality(Given') + discarded' = FieldSize * (first' - 1)
    <3>1. Cardinality(Given') = Cardinality(Given) + (z - a)
      <4>1. stream \in Streams
        BY DEF IInv, Kept
      <4>2. a <= e + 1 /\ e <= Len(stream)
        BY <1>1
      <4> QED BY <1>1, <1>2, <1>3, <1>6, <4>1, <4>2, GivenGrows DEF z
    <3>2. Cardinality(Given) \in Nat
      BY GivenFinite DEF IInv, Kept
    <3>3. /\ discarded' = discarded + 2 * (a - first) /\ first' = z
          /\ a \in Nat /\ z \in Nat /\ first \in Nat /\ discarded \in Nat
      BY <1>1, <1>3, <1>6, <2>1 DEF FieldSize
    <3>4. 2 * Cardinality(Given) + discarded = 2 * (first - 1)
      BY <1>7
    <3>5. 2 * (Cardinality(Given) + (z - a)) + (discarded + 2 * (a - first)) = 2 * (z - 1)
      <4> DEFINE g == Cardinality(Given)
      <4>1. g \in Nat /\ 2 * g + discarded = 2 * (first - 1)
        BY <3>2, <3>4
      <4>2. a \in Nat /\ z \in Nat /\ first \in Nat /\ discarded \in Nat
        BY <3>3
      <4> HIDE DEF g
      <4>3. 2 * (g + (z - a)) + (discarded + 2 * (a - first)) = 2 * (z - 1)
        BY <4>1, <4>2
      <4> QED BY <4>3 DEF g
    <3> QED BY <3>1, <3>3, <3>5 DEF FieldSize
  <2> QED BY <2>1, <2>2, <2>3, <2>4, <2>5 DEF Placed, FieldSize
<1> QED BY <1>12, <1>13 DEF IInv

LEMMA StepKeeps == IInv /\ [Next]_vars => IInv'
<1> SUFFICES ASSUME IInv, [Next]_vars PROVE IInv'
  OBVIOUS
<1>1. CASE Next
  <2>1. Len(stream) \in Nat
    BY StreamType DEF IInv, Kept
  <2>2. PICK n \in 1..(FieldSize * Len(stream)) : Feed(n)
    BY <1>1 DEF Next
  <2>3. n \in Nat \ {0}
    BY <2>1, <2>2
  <2> QED BY <2>2, <2>3, FeedMoreKeeps, FeedParseKeeps DEF Feed
<1>2. CASE UNCHANGED vars
  BY <1>2 DEF IInv, Kept, Placed, Given, Checksum, vars
<1> QED BY <1>1, <1>2

LEMMA Invariance == Spec => []IInv
BY Start, StepKeeps, PTL DEF Spec

(* The type of the state: what the parser keeps is a stretch of what it    *)
(* was fed, and what it hands out are stretches of the stream.             *)
THEOREM TypeCorrect == Spec => []TypeOK
BY Invariance, InvariantAccounts, PTL

(* bytes_in_buffer never hides a message from the loop, whatever the       *)
(* stream: it is at least the number of bytes held.                        *)
THEOREM CountSuffices == Spec => []NeverUndercounts
BY Invariance, InvariantAccounts, PTL

(* No byte is lost and none is handed out twice, whatever the stream and   *)
(* however it is cut into chunks.                                          *)
THEOREM BytesAccounted == Spec => []EveryByteAccounted
BY Invariance, InvariantAccounts, PTL

-----------------------------------------------------------------------------
(* Streams of messages that follow one another.                            *)

(* Where a message may begin: nothing before it, but for discarded fields, *)
(* or a whole message.                                                     *)
Fresh(a) ==
  \/ \A j \in 1..(a - 1) : stream[j] # "pre"
  \/ a - 1 \in Closed(a - 1)

(* What was given to the callback is what is complete.                     *)
Exact ==
  ~raised =>
    /\ Fresh(first)
    /\ out = Meant(first - 1)
    /\ Closed(Whole(fed)) = Closed(first - 1)

LEMMA ClosedIn ==
  ASSUME NEW k \in Nat
  PROVE  Closed(k) \in SUBSET (1..k)
BY DEF Closed

(* Behind a message there is a preamble.                                   *)
LEMMA NextBegins ==
  ASSUME BackToBack(stream), Len(stream) \in Nat,
         NEW i \in Nat, NEW j \in 1..i, i < Len(stream),
         stream[j] = "pre", stream[i] = "sum"
  PROVE  stream[i + 1] = "pre"
<1>1. j # i /\ i \in 2..Len(stream)
  OBVIOUS
<1> QED BY <1>1 DEF BackToBack

(* Discarding leaves the messages alone.                                   *)
LEMMA Resync ==
  ASSUME stream \in Streams, BackToBack(stream),
         NEW f \in Nat \ {0}, NEW k \in Nat, f <= k + 1, k <= Len(stream), Fresh(f),
         NEW a, a = AfterDiscard(f, k)
  PROVE  /\ a \in Nat \ {0} /\ a \in f..(k + 1)
         /\ a <= k => stream[a] = "pre"
         /\ Fresh(a)
         /\ Closed(a - 1) = Closed(f - 1)
<1>1. /\ a \in f..(k + 1)
      /\ \A j \in f..(a - 1) : stream[j] # "pre"
      /\ a <= k => stream[a] = "pre"
  BY Discarding
<1>2. a \in Nat \ {0} /\ a >= f /\ Len(stream) \in Nat
  BY <1>1, StreamType
<1>3. CASE \A j \in 1..(f - 1) : stream[j] # "pre"
  <2>1. \A j \in 1..(a - 1) : stream[j] # "pre"
    BY <1>1, <1>2, <1>3
  <2>2. Closed(a - 1) = {} /\ Closed(f - 1) = {}
    BY <1>2, <1>3, <2>1 DEF Closed
  <2> QED BY <1>1, <1>2, <2>1, <2>2 DEF Fresh
<1>4. CASE f - 1 \in Closed(f - 1)
  <2>1. PICK j \in 1..(f - 1) : stream[j] = "pre"
    BY <1>4 DEF Closed
  <2>2. stream[f - 1] = "sum" /\ f - 1 \in Nat
    BY <1>4 DEF Closed
  <2>3. f <= k => stream[f] = "pre"
    <3> SUFFICES ASSUME f <= k PROVE stream[f] = "pre"
      OBVIOUS
    <3>1. f - 1 < Len(stream) /\ (f - 1) + 1 = f
      BY <1>2
    <3> QED BY <1>2, <2>1, <2>2, <3>1, NextBegins
  <2>4. a = f
    <3>1. CASE f <= k
      BY <1>1, <1>2, <2>3, <3>1
    <3>2. CASE ~(f <= k)
      BY <1>1, <3>2
    <3> QED BY <3>1, <3>2
  <2> QED BY <1>1, <1>2, <2>4
<1> QED BY <1>3, <1>4 DEF Fresh

LEMMA ClosedSplits ==
  ASSUME NEW a \in Nat \ {0}, NEW k \in Nat, a <= k + 1, a <= k => stream[a] = "pre"
  PROVE  /\ Closed(k) = Closed(a - 1) \cup SumsUpTo(a, k)
         /\ \A x \in Closed(a - 1), y \in SumsUpTo(a, k) : x < y
<1>1. ASSUME NEW i \in Closed(k) PROVE i \in Closed(a - 1) \cup SumsUpTo(a, k)
  <2>1. i \in 1..k /\ stream[i] = "sum" /\ \E j \in 1..i : stream[j] = "pre"
    BY DEF Closed
  <2>2. i \in 1..(a - 1) \/ i \in a..k
    BY <2>1
  <2> QED BY <2>1, <2>2 DEF Closed, SumsUpTo
<1>2. ASSUME NEW i \in Closed(a - 1) PROVE i \in Closed(k) /\ i <= a - 1 /\ i \in Nat
  BY DEF Closed
<1>3. ASSUME NEW i \in SumsUpTo(a, k) PROVE i \in Closed(k) /\ i >= a /\ i \in Nat
  <2>1. i \in a..k /\ stream[i] = "sum"
    BY DEF SumsUpTo
  <2>2. a \in 1..i /\ i \in 1..k /\ stream[a] = "pre"
    BY <2>1
  <2> QED BY <2>1, <2>2 DEF Closed
<1> QED BY <1>1, <1>2, <1>3

(* Where the loop lets a message begin is where it begins in the stream.   *)
LEMMA Openings ==
  ASSUME stream \in Streams, BackToBack(stream),
         NEW a \in Nat \ {0}, NEW k \in Nat, a <= k + 1, k <= Len(stream),
         a <= k => stream[a] = "pre", Fresh(a),
         NEW i \in SumsUpTo(a, k)
  PROVE  Opening(i) = Begin(a, i)
<1> DEFINE b == Begin(a, i)
           before == {j \in 1..(i - 1) : stream[j] = "sum"}
           S == {j \in 1..i : stream[j] = "pre" /\ \A s \in before : s < j}
<1>1. i \in Nat /\ a <= i /\ i <= k /\ stream[i] = "sum" /\ stream[a] = "pre"
  BY DEF SumsUpTo
<1>2. /\ b \in a..i
      /\ \A s \in SumsUpTo(a, i - 1) : s < b
      /\ b = a \/ b - 1 \in SumsUpTo(a, i - 1)
  BY <1>1, Beginning
<1> HIDE DEF b
<1>3. b - 1 \in SumsUpTo(a, i - 1) =>
        b - 1 \in a..(i - 1) /\ b - 1 \in 1..(i - 1) /\ stream[b - 1] = "sum"
  BY DEF SumsUpTo
<1>4. stream[b] = "pre"
  <2>1. CASE b = a
    BY <1>1, <2>1
  <2>2. CASE b - 1 \in SumsUpTo(a, i - 1)
    <3>1. /\ b - 1 \in Nat /\ a \in 1..(b - 1) /\ b - 1 < Len(stream)
          /\ Len(stream) \in Nat /\ (b - 1) + 1 = b
      BY <1>1, <1>2, <1>3, <2>2, StreamType
    <3> QED BY <1>1, <1>3, <2>2, <3>1, NextBegins
  <2> QED BY <1>2, <2>1, <2>2
<1>5. b \in S
  <2>1. ASSUME NEW s \in before PROVE s < b
    <3>1. CASE s >= a
      BY <1>2, <3>1 DEF SumsUpTo
    <3>2. CASE ~(s >= a)
      BY <1>2, <3>2
    <3> QED BY <3>1, <3>2
  <2> QED BY <1>1, <1>2, <1>4, <2>1
<1>6. ASSUME NEW j \in S PROVE b <= j
  <2>1. j \in 1..i /\ stream[j] = "pre" /\ \A s \in before : s < j
    OBVIOUS
  <2>2. CASE b = a /\ \A x \in 1..(a - 1) : stream[x] # "pre"
    BY <2>1, <2>2
  <2>3. CASE b = a /\ a - 1 \in Closed(a - 1)
    <3>1. a - 1 \in before
      BY <1>1, <2>3 DEF Closed
    <3> QED BY <1>2, <2>1, <2>3, <3>1
  <2>4. CASE b - 1 \in SumsUpTo(a, i - 1)
    <3>1. b - 1 \in before
      BY <1>3, <2>4
    <3> QED BY <1>2, <2>1, <3>1
  <2> QED BY <1>2, <2>2, <2>3, <2>4 DEF Fresh
<1>7. Opening(i) = Min(S)
  BY DEF Opening
<1>8. Min(S) \in S /\ \A y \in S : Min(S) <= y
  <2>1. S \in SUBSET Nat
    BY <1>1
  <2> HIDE DEF S
  <2> QED BY <1>5, <2>1, MinFound
<1>9. Min(S) = b
  <2>1. Min(S) <= b /\ b <= Min(S)
    BY <1>5, <1>6, <1>8
  <2>2. Min(S) \in Nat /\ b \in Nat
    BY <1>1, <1>2, <1>8
  <2> HIDE DEF S
  <2> QED BY <2>1, <2>2
<1> QED BY <1>7, <1>9 DEF b

(* So the loop adds exactly the messages that are now complete.            *)
LEMMA MeantGrows ==
  ASSUME stream \in Streams, BackToBack(stream),
         NEW a \in Nat \ {0}, NEW k \in Nat, a <= k + 1, k <= Len(stream),
         a <= k => stream[a] = "pre", Fresh(a)
  PROVE  Meant(k) = Meant(a - 1) \o Messages(a, k)
<1> DEFINE S == Closed(a - 1)
           R == SumsUpTo(a, k)
           c == Cardinality(S)
           d == Cardinality(R)
           all == InOrder(S \cup R)
<1>1. Closed(k) = S \cup R /\ \A x \in S, y \in R : x < y
  BY ClosedSplits
<1>2. S \in SUBSET (1..k) /\ R \in SUBSET (1..k)
  BY DEF Closed, SumsUpTo
<1> HIDE DEF S, R
<1>3. /\ Cardinality(S \cup R) = c + d
      /\ \A n \in 1..c : all[n] = InOrder(S)[n]
      /\ \A n \in 1..d : all[c + n] = InOrder(R)[n]
  BY <1>1, <1>2, OrderJoins
<1>4. c \in Nat /\ d \in Nat
  BY <1>2, Listed
<1>5. all \in [1..(c + d) -> S \cup R] /\ InOrder(S) \in [1..c -> S] /\ InOrder(R) \in [1..d -> R]
  <2>1. S \cup R \in SUBSET (1..k)
    BY <1>2
  <2>2. Lists(all, S \cup R) /\ Lists(InOrder(S), S) /\ Lists(InOrder(R), R)
    BY <1>2, <2>1, OrderLists
  <2> QED BY <1>3, <2>2 DEF Lists
<1>6. Meant(k) = [n \in 1..(c + d) |-> [from |-> Opening(all[n]), to |-> all[n]]]
  BY <1>1, <1>5 DEF Meant
<1>7. Meant(a - 1) = [n \in 1..c |-> [from |-> Opening(InOrder(S)[n]), to |-> InOrder(S)[n]]]
  BY <1>5 DEF Meant, S
<1>8. Messages(a, k) = [n \in 1..d |-> [from |-> Begin(a, InOrder(R)[n]), to |-> InOrder(R)[n]]]
  BY <1>5 DEF Messages, R
<1> DEFINE first2 == Meant(a - 1)
           then2 == Messages(a, k)
<1>9. first2 \o then2 = [n \in 1..(c + d) |-> IF n <= c THEN first2[n] ELSE then2[n - c]]
  <2> DEFINE T == {first2[n] : n \in 1..c} \cup {then2[n] : n \in 1..d}
  <2>1. first2 \in [1..c -> T] /\ then2 \in [1..d -> T]
    BY <1>7, <1>8
  <2> HIDE DEF first2, then2, T, c, d
  <2>2. Joins(first2 \o then2, first2, then2, c, d)
    BY <1>4, <2>1, Joining
  <2> QED BY <2>2 DEF Joins
<1>10. ASSUME NEW n \in 1..(c + d)
       PROVE  Meant(k)[n] = IF n <= c THEN first2[n] ELSE then2[n - c]
  <2>1. CASE n <= c
    <3>1. n \in 1..c
      BY <1>4, <2>1
    <3>2. first2[n] = [from |-> Opening(InOrder(S)[n]), to |-> InOrder(S)[n]]
      BY <1>7, <3>1
    <3>3. Meant(k)[n] = [from |-> Opening(all[n]), to |-> all[n]]
      BY <1>6
    <3>4. all[n] = InOrder(S)[n]
      BY <1>3, <3>1
    <3> QED BY <2>1, <3>2, <3>3, <3>4
  <2>2. CASE ~(n <= c)
    <3>1. n - c \in 1..d /\ c + (n - c) = n
      BY <1>4, <2>2
    <3>2. all[n] = InOrder(R)[n - c]
      BY <1>3, <3>1
    <3>3. InOrder(R)[n - c] \in R
      BY <1>5, <3>1
    <3>4. Opening(InOrder(R)[n - c]) = Begin(a, InOrder(R)[n - c])
      BY <3>3, Openings DEF R
    <3> QED BY <1>6, <1>8, <2>2, <3>1, <3>2, <3>4
  <2> QED BY <2>1, <2>2
<1> HIDE DEF first2, then2
<1>11. Meant(k) = [n \in 1..(c + d) |-> IF n <= c THEN first2[n] ELSE then2[n - c]]
  <2>1. Meant(k) = [n \in 1..(c + d) |-> Meant(k)[n]]
    BY <1>6
  <2> QED BY <1>10, <2>1, Zenon
<1> QED BY <1>9, <1>11 DEF first2, then2

(* Nothing that is complete waits: a message has three fields at least,    *)
(* and min_size is less than that.                                         *)
LEMMA WaitingIsIncomplete ==
  ASSUME NEW n \in Nat \ {0}, IInv, Exact, BackToBack(stream), Feed(n), FeedMore(n)
  PROVE  Exact'
<1>1. /\ ~raised /\ fed + n <= FieldSize * Len(stream) /\ fed' = fed + n /\ TooEarly(n)
      /\ UNCHANGED <<stream, bufStart, first, out, raised>>
  BY DEF Feed, FeedMore
<1>2. /\ Reach(n) \in Nat /\ Reach(n) <= Len(stream) /\ Len(stream) \in Nat
      /\ Whole(fed) <= Reach(n) /\ FieldSize * Reach(n) <= fed + n
      /\ first \in Nat \ {0} /\ first <= Reach(n) + 1
  BY Reaching
<1>3. fed \in Nat /\ bufStart \in Nat /\ bufStart <= fed /\ bytes \in Nat /\ Whole(fed) \in Nat
  <2>1. fed \in Nat /\ bufStart \in Nat /\ bufStart <= fed /\ bytes \in Nat
    BY <1>2 DEF IInv, Kept, FieldSize
  <2> QED BY <2>1, Halves
<1>4. /\ Fresh(first)
      /\ out = Meant(first - 1)
      /\ Closed(Whole(fed)) = Closed(first - 1)
  BY <1>1 DEF Exact
<1>5. ASSUME NEW i \in Closed(Reach(n)) PROVE i \in Closed(first - 1)
  <2> SUFFICES ASSUME i \notin Closed(first - 1) PROVE FALSE
    OBVIOUS
  <2>1. /\ i \in 1..Reach(n) /\ stream[i] = "sum"
        /\ \E j \in 1..i : stream[j] = "pre"
    BY DEF Closed
  <2>2. PICK j \in 1..i : stream[j] = "pre"
    BY <2>1
  <2>3. ~(i <= Whole(fed)) /\ i \in Nat
    BY <1>4, <2>1 DEF Closed
  <2>4. ~(i <= first - 1)
    BY <1>2, <2>1 DEF Closed
  <2>5. CASE ~SawEnd(fed + n)
    <3>1. Whole(bufStart) <= Whole(fed) /\ Whole(bufStart) \in Nat
      BY <1>3, Halves
    <3>2. Reach(n) <= Whole((fed + n) + 1)
      BY <1>3, Halves DEF Reach
    <3>3. Whole((fed + n) + 1) \in Nat
      BY <1>3, Halves
    <3>4. i \in (Whole(bufStart) + 1)..Whole((fed + n) + 1)
      BY <1>2, <1>3, <2>1, <2>3, <3>1, <3>2, <3>3
    <3> QED BY <2>1, <2>5, <3>4 DEF SawEnd
  <2>6. CASE bytes + n <= MinSize
    <3>1. bytes + n <= 5
      BY <1>3, <2>6, MinSizeAssumption DEF FieldSize
    <3>2. bytes >= fed - 2 * first + 2
      <4>1. bufStart = FieldSize * Whole(bufStart) /\ bytes >= Checksum
        BY <1>1 DEF IInv, Placed
      <4>2. Checksum = fed - 2 * first + 2
        BY <1>2, <1>3, <4>1, HeldBytes
      <4> QED BY <4>1, <4>2
    <3>3. Reach(n) <= first + 1
      <4>1. 2 * Reach(n) <= fed + n
        BY <1>2 DEF FieldSize
      <4> QED BY <1>2, <1>3, <3>1, <3>2, <4>1
    <3>4. i = first \/ i = first + 1
      BY <1>2, <2>1, <2>4, <3>3
    <3>5. i \in 2..Len(stream) => stream[i - 1] # "pre"
      BY <2>1, <2>2 DEF BackToBack
    <3>6. CASE \A x \in 1..(first - 1) : stream[x] # "pre"
      <4>1. j = first /\ i = first + 1
        BY <1>2, <2>1, <2>2, <3>4, <3>6
      <4> QED BY <1>2, <2>1, <2>2, <3>5, <4>1
    <3>7. CASE first - 1 \in Closed(first - 1)
      <4>1. PICK x \in 1..(first - 1) : stream[x] = "pre"
        BY <3>7 DEF Closed
      <4>2. stream[first - 1] = "sum" /\ first - 1 \in Nat
        BY <1>2, <3>7 DEF Closed
      <4>3. stream[first] = "pre"
        <5>1. first - 1 < Len(stream) /\ (first - 1) + 1 = first
          BY <1>2, <2>1, <3>4
        <5> QED BY <1>2, <4>1, <4>2, <5>1, NextBegins
      <4>4. i = first + 1 /\ i - 1 = first /\ i \in 2..Len(stream)
        BY <1>2, <2>1, <3>4, <4>3
      <4> QED BY <3>5, <4>3, <4>4
    <3> QED BY <1>4, <3>6, <3>7 DEF Fresh
  <2> QED BY <1>1, <2>5, <2>6 DEF TooEarly
<1>6. Closed(first - 1) \subseteq Closed(Reach(n))
  BY <1>2 DEF Closed
<1>7. Closed(Reach(n)) = Closed(first - 1)
  BY <1>5, <1>6
<1>8. /\ Closed(Whole(fed))' = Closed(Reach(n))
      /\ Closed(first - 1)' = Closed(first - 1)
      /\ Fresh(first)' = Fresh(first)
      /\ Meant(first - 1)' = Meant(first - 1)
  BY <1>1 DEF Closed, Fresh, Meant, Opening, Whole, Reach
<1> QED BY <1>1, <1>4, <1>7, <1>8 DEF Exact

LEMMA ParsingIsExact ==
  ASSUME NEW n \in Nat \ {0}, IInv, Exact, BackToBack(stream), Feed(n), FeedParse(n)
  PROVE  Exact'
<1> SUFFICES ASSUME ~raised' PROVE Exact'
  BY DEF Exact
<1> DEFINE k == Reach(n)
           a == Sync(n)
           z == Slice(a, k)
<1>1. /\ k \in Nat /\ k <= Len(stream) /\ Len(stream) \in Nat
      /\ first \in Nat \ {0} /\ first <= k + 1
  BY Reaching
<1>2. ~raised /\ fed' = fed + n /\ stream' = stream
  BY DEF Feed
<1>3. Stop(n) = k /\ first' = z /\ out' = out \o Messages(a, k)
  BY Parsing
<1>4. /\ Fresh(first)
      /\ out = Meant(first - 1)
      /\ Closed(Whole(fed)) = Closed(first - 1)
  BY <1>2 DEF Exact
<1>5. stream \in Streams
  BY DEF IInv, Kept
<1>6. /\ a \in Nat \ {0} /\ a \in first..(k + 1)
      /\ a <= k => stream[a] = "pre"
      /\ Fresh(a)
      /\ Closed(a - 1) = Closed(first - 1)
  <2>1. a = AfterDiscard(first, k)
    BY DEF Sync
  <2> HIDE DEF a, k
  <2> QED BY <1>1, <1>4, <1>5, <2>1, Resync
<1>7. Whole(fed + n) = k
  BY DEF Reach
<1> HIDE DEF a, k, z
<1>8. a <= k + 1
  BY <1>1, <1>6
<1>9. out' = Meant(k)
  <2>1. Meant(a - 1) = Meant(first - 1)
    BY <1>6 DEF Meant
  <2>2. Meant(k) = Meant(a - 1) \o Messages(a, k)
    BY <1>1, <1>5, <1>6, <1>8, MeantGrows
  <2> QED BY <1>3, <1>4, <2>1, <2>2
<1>10. /\ z \in a..(k + 1)
       /\ \A s \in SumsUpTo(a, k) : s < z
       /\ z = a \/ z - 1 \in SumsUpTo(a, k)
  BY <1>1, <1>6, <1>8, Slicing DEF z
<1>11. Closed(k) = Closed(a - 1) \cup SumsUpTo(a, k)
  BY <1>1, <1>6, <1>8, ClosedSplits
<1>12. Closed(k) = Closed(z - 1)
  <2>1. ASSUME NEW i \in Closed(k) PROVE i \in Closed(z - 1)
    <3>1. i \in 1..k /\ stream[i] = "sum" /\ \E j \in 1..i : stream[j] = "pre"
      BY DEF Closed
    <3>2. i < z
      <4>1. CASE i \in Closed(a - 1)
        BY <1>6, <1>10, <4>1 DEF Closed
      <4>2. CASE i \in SumsUpTo(a, k)
        BY <1>10, <4>2
      <4> QED BY <1>11, <4>1, <4>2
    <3>3. i \in 1..(z - 1)
      BY <1>6, <1>10, <3>1, <3>2
    <3> QED BY <3>1, <3>3 DEF Closed
  <2>2. ASSUME NEW i \in Closed(z - 1) PROVE i \in Closed(k)
    BY <1>1, <1>6, <1>10 DEF Closed
  <2> QED BY <2>1, <2>2
<1>13. Fresh(z)
  <2>1. CASE z = a
    BY <1>6, <2>1
  <2>2. CASE z - 1 \in SumsUpTo(a, k)
    BY <1>11, <1>12, <2>2 DEF Fresh
  <2> QED BY <1>10, <2>1, <2>2
<1>14. Meant(k) = Meant(z - 1)
  BY <1>12 DEF Meant
<1>15. /\ Closed(Whole(fed))' = Closed(k)
       /\ Closed(first - 1)' = Closed(z - 1)
       /\ Fresh(first)' = Fresh(z)
       /\ Meant(first - 1)' = Meant(z - 1)
  <2>1. Whole(fed)' = k
    BY <1>2, <1>7 DEF Whole
  <2> QED BY <1>2, <1>3, <2>1 DEF Closed, Fresh, Meant, Opening
<1> QED BY <1>9, <1>12, <1>13, <1>14, <1>15 DEF Exact

(* However the bytes are cut into chunks, exactly the messages that are    *)
(* complete have been handed out, once and in order, as long as the        *)
(* messages follow one another.  (Stray fields between two messages are    *)
(* collected into the second: see SyncedOnPreamble.)                       *)
THEOREM ChunkingIsInvisible ==
  ASSUME \A s \in Streams : BackToBack(s)
  PROVE  Spec => []ChunksDoNotMatter
<1>1. Init => Exact
  <2> SUFFICES ASSUME Init PROVE Exact
    OBVIOUS
  <2>1. Whole(0) = 0 /\ Closed(0) = {}
    BY DEF Whole, FieldSize, Closed
  <2>2. Meant(0) = <<>>
    <3>1. Lists(InOrder({}), {})
      BY OrderLists
    <3>2. Cardinality({}) = 0
      BY FS_EmptySet
    <3>3. DOMAIN InOrder({}) = {}
      BY <3>1, <3>2 DEF Lists
    <3> DEFINE message(n) ==
                 [from |-> Opening(InOrder({})[n]), to |-> InOrder({})[n]]
    <3>4. Meant(0) = [n \in {} |-> message(n)]
      BY <2>1, <3>3 DEF Meant
    <3> HIDE DEF message
    <3>5. DOMAIN Meant(0) = {} /\ Meant(0) = [n \in DOMAIN Meant(0) |-> Meant(0)[n]]
      BY <3>4
    <3> QED BY <3>5, Nothing
  <2> QED BY <2>1, <2>2 DEF Init, Exact, Fresh
<1>2. IInv /\ Exact /\ [Next]_vars => Exact'
  <2> SUFFICES ASSUME IInv, Exact, [Next]_vars PROVE Exact'
    OBVIOUS
  <2>1. CASE Next
    <3>1. Len(stream) \in Nat /\ BackToBack(stream)
      BY StreamType DEF IInv, Kept
    <3>2. PICK n \in 1..(FieldSize * Len(stream)) : Feed(n)
      BY <2>1 DEF Next
    <3>3. n \in Nat \ {0}
      BY <3>1, <3>2
    <3> QED BY <3>1, <3>2, <3>3, WaitingIsIncomplete, ParsingIsExact DEF Feed
  <2>2. CASE UNCHANGED vars
    <3>1. /\ Closed(Whole(fed))' = Closed(Whole(fed))
          /\ Closed(first - 1)' = Closed(first - 1)
          /\ Fresh(first)' = Fresh(first)
          /\ Meant(first - 1)' = Meant(first - 1)
      BY <2>2 DEF Closed, Fresh, Meant, Opening, Whole, vars
    <3> QED BY <2>2, <3>1 DEF Exact, vars
  <2> QED BY <2>1, <2>2
<1>3. IInv /\ Exact => ChunksDoNotMatter
  BY DEF Exact, ChunksDoNotMatter, Meant
<1> QED BY <1>1, <1>2, <1>3, Start, StepKeeps, PTL DEF Spec
=============================================================================
