---------------------------- MODULE FixSessionOrder ----------------------------
(***************************************************************************)
(* As long as no process restarts and no Logon is read late, the           *)
(* application gets every message at most once and in order, and           *)
(* persist_and_advance never refuses a number.                             *)
(*                                                                         *)
(* The argument has two halves.  On the wire, a message that is no         *)
(* duplicate is ahead of everything its receiver has taken or has in hand  *)
(* (FreshAhead, HelloAhead) and of everything in front of it (Line).       *)
(* In the receiver, the tasks of a callback, the messages put aside and    *)
(* those to replay fit together and what was given to the application is   *)
(* behind what it can still be given (Core).  Onward is what a callback    *)
(* does to its own side, Around what it does to the rest.                  *)
(***************************************************************************)
EXTENDS FixSessionProofs

(* Where in_msg_seq_num can stand after m.                                 *)
Reach(m) == IF m.type = "GapFill" THEN m.arg ELSE m.seq + 1

Elements(s) == {s[i] : i \in DOMAIN s}
Tasks(p) == Elements(todo[p])
Has(p, what) == \E t \in Tasks(p) : t.do = what

(* The tasks that move in_msg_seq_num.                                     *)
Moves(t) == t.do \in {"persist", "open", "save"}

(* A callback plays back, then moves, then drains, then replays.           *)
Rank(t) == IF t.do = "play" THEN 1 ELSE IF Moves(t) THEN 2 ELSE IF t.do = "drain" THEN 3 ELSE 4
Rising(s) == \A i, j \in DOMAIN s : i < j => s[i] < s[j]
Ranked(s) == \A i, j \in DOMAIN s : i < j => Rank(s[i]) < Rank(s[j])

Distinct(M) == \A m, n \in M : m.seq = n.seq => m = n

Callback(p) ==
  /\ Ranked(todo[p])
  /\ \A t \in Tasks(p) :
       /\ t.do = "persist" => t.seq = inSeq[p]
       /\ t.do = "open" => t.seq > inSeq[p] /\ state[p] = "normal"
       /\ t.do = "save" => t.seq >= inSeq[p] /\ Has(p, "drain")
       /\ Moves(t) => \A m \in replay[p] : t.seq < m.seq
       /\ t.do = "drain" => /\ state[p] = "gap" /\ miss[p] = {}
                            /\ replay[p] = {} /\ ~Has(p, "replay")

Waiting(p) ==
  /\ replay[p] # {} => Has(p, "replay")
  /\ \A m \in replay[p] : m.seq >= inSeq[p]
  /\ \A m \in pending[p] \cup replay[p] : ~m.dup /\ m.type # "GapFill"
  /\ Distinct(pending[p]) /\ Distinct(replay[p])
  /\ \A m \in pending[p], n \in replay[p] : m.seq < n.seq

Gap(p) ==
  /\ state[p] = "gap" /\ miss[p] = {} => Has(p, "drain")
  /\ state[p] # "gap" => queue[p] = {} /\ pending[p] = {}

Delivery(p) ==
  /\ Rising(delivered[p])
  /\ inLast[p] < inSeq[p]
  /\ \A d \in Given(p) :
       /\ d < inSeq[p] \/ \E t \in Tasks(p) : t.do \in {"persist", "save"} /\ d <= t.seq
       /\ \A s \in queue[p] : d < s
       /\ state[p] = "gap" /\ miss[p] # {} => d <= last[p] /\ \A x \in miss[p] : d < x

Core(p) == Callback(p) /\ Waiting(p) /\ Gap(p) /\ Delivery(p)

(* Nothing that p has taken or still has in hand reaches beyond x.         *)
Behind(p, x) ==
  /\ inSeq[p] <= x
  /\ \A s \in queue[p] : s < x
  /\ \A m \in pending[p] \cup replay[p] : m.seq < x
  /\ \A t \in Tasks(p) : Moves(t) => t.seq < x

(* What p's callback does to its own side when it takes nothing that       *)
(* reaches beyond b.                                                       *)
Onward(p, b) ==
  /\ Core(p)'
  /\ inSeq'[p] >= inSeq[p]
  /\ \A x \in Nat : Behind(p, x) /\ b <= x => Behind(p, x)'

-----------------------------------------------------------------------------
(* Sequences of tasks.                                                     *)
Between(s, lo, hi) ==
  /\ s \in Seq(Task) /\ Ranked(s)
  /\ \A t \in Elements(s) : lo <= Rank(t) /\ Rank(t) <= hi

LEMMA RankIsNat == \A t : Rank(t) \in 1..4
BY DEF Rank

LEMMA Joined ==
  ASSUME NEW a, NEW b, NEW i \in Nat, NEW j \in Nat, NEW k \in Nat, NEW l \in Nat,
         Between(a, i, j), Between(b, k, l), j < k, i <= k, j <= l
  PROVE  Between(a \o b, i, l) /\ Elements(a \o b) = Elements(a) \cup Elements(b)
<1>1. /\ a \in Seq(Task) /\ b \in Seq(Task)
      /\ Len(a) \in Nat /\ Len(b) \in Nat
      /\ DOMAIN a = 1..Len(a) /\ DOMAIN b = 1..Len(b)
  BY LenProperties DEF Between
<1>2. /\ a \o b \in Seq(Task) /\ Len(a \o b) = Len(a) + Len(b)
      /\ \A n \in 1..Len(a) + Len(b) :
           (a \o b)[n] = IF n <= Len(a) THEN a[n] ELSE b[n - Len(a)]
  BY <1>1, ConcatProperties
<1>3. DOMAIN (a \o b) = 1..Len(a) + Len(b) BY <1>2, LenProperties
<1>4. \A n \in DOMAIN (a \o b) :
        \/ n \in DOMAIN a /\ (a \o b)[n] = a[n] /\ n <= Len(a)
        \/ n - Len(a) \in DOMAIN b /\ (a \o b)[n] = b[n - Len(a)] /\ n > Len(a)
  BY <1>1, <1>2, <1>3
<1>5. \A n \in DOMAIN a : n \in DOMAIN (a \o b) /\ (a \o b)[n] = a[n]
  BY <1>1, <1>2, <1>3
<1>6. \A n \in DOMAIN b : n + Len(a) \in DOMAIN (a \o b) /\ (a \o b)[n + Len(a)] = b[n]
  <2> SUFFICES ASSUME NEW n \in DOMAIN b
               PROVE  n + Len(a) \in DOMAIN (a \o b) /\ (a \o b)[n + Len(a)] = b[n]
    OBVIOUS
  <2>1. n + Len(a) \in 1..Len(a) + Len(b) /\ ~(n + Len(a) <= Len(a)) /\ n + Len(a) - Len(a) = n
    BY <1>1
  <2> QED BY <1>2, <1>3, <2>1
<1>7. Elements(a \o b) = Elements(a) \cup Elements(b)
  <2>1. \A t \in Elements(a \o b) : t \in Elements(a) \cup Elements(b)
    BY <1>4 DEF Elements
  <2>2. \A t \in Elements(a) : t \in Elements(a \o b) BY <1>5 DEF Elements
  <2>3. \A t \in Elements(b) : t \in Elements(a \o b) BY <1>6 DEF Elements
  <2> QED BY <2>1, <2>2, <2>3
<1>8. Ranked(a \o b)
  <2> SUFFICES ASSUME NEW m \in DOMAIN (a \o b), NEW n \in DOMAIN (a \o b), m < n
               PROVE  Rank((a \o b)[m]) < Rank((a \o b)[n])
    BY DEF Ranked
  <2>0. m \in Nat /\ n \in Nat BY <1>1, <1>3
  <2>1. CASE m > Len(a)
    <3>1. /\ m - Len(a) \in DOMAIN b /\ n - Len(a) \in DOMAIN b /\ m - Len(a) < n - Len(a)
          /\ (a \o b)[m] = b[m - Len(a)] /\ (a \o b)[n] = b[n - Len(a)]
      BY <1>1, <1>4, <2>0, <2>1
    <3> QED BY <3>1 DEF Between, Ranked
  <2>2. CASE n <= Len(a)
    <3>1. /\ m \in DOMAIN a /\ n \in DOMAIN a
          /\ (a \o b)[m] = a[m] /\ (a \o b)[n] = a[n]
      BY <1>1, <1>4, <2>0, <2>2
    <3> QED BY <3>1 DEF Between, Ranked
  <2>3. CASE m <= Len(a) /\ n > Len(a)
    <3>1. (a \o b)[m] \in Elements(a) /\ (a \o b)[n] \in Elements(b)
      BY <1>1, <1>4, <2>0, <2>3 DEF Elements
    <3> QED BY <3>1, RankIsNat DEF Between
  <2> QED BY <1>1, <2>0, <2>1, <2>2, <2>3
<1>9. \A t \in Elements(a \o b) : i <= Rank(t) /\ Rank(t) <= l
  BY <1>7, RankIsNat DEF Between
<1> QED BY <1>2, <1>7, <1>8, <1>9 DEF Between

LEMMA Single ==
  /\ \A t \in Task : Elements(<<t>>) = {t} /\ Between(<<t>>, Rank(t), Rank(t))
  /\ Elements(<<>>) = {} /\ \A i, j \in Nat : Between(<<>>, i, j)
<1>1. ASSUME NEW t \in Task
      PROVE  Elements(<<t>>) = {t} /\ Between(<<t>>, Rank(t), Rank(t))
  <2>1. <<t>> \in Seq(Task) /\ DOMAIN <<t>> = {1} /\ <<t>>[1] = t OBVIOUS
  <2> QED BY <2>1, RankIsNat DEF Elements, Between, Ranked
<1>2. DOMAIN <<>> = {} /\ <<>> \in Seq(Task) OBVIOUS
<1>3. Elements(<<>>) = {} BY <1>2 DEF Elements
<1>4. \A i, j \in Nat : Between(<<>>, i, j) BY <1>2, <1>3 DEF Between, Ranked
<1> QED BY <1>1, <1>3, <1>4

LEMMA Parts ==
  /\ \A w \in {"persist", "open", "save"}, s \in Nat :
       /\ Elements(<<Do(w, s)>>) = {Do(w, s)} /\ Between(<<Do(w, s)>>, 2, 2)
       /\ Do(w, s).do = w /\ Do(w, s).seq = s
  /\ \A b, e \in Nat :
       /\ \A t \in Elements(Playback(b, e)) : t.do = "play"
       /\ Between(Playback(b, e), 1, 1)
  /\ \A g : /\ Elements(WhenFilled(g)) = IF g = {} THEN {Do("drain", 0)} ELSE {}
            /\ Between(WhenFilled(g), 3, 3)
  /\ Elements(<<Do("replay", 0)>>) = {Do("replay", 0)} /\ Between(<<Do("replay", 0)>>, 4, 4)
  /\ Do("replay", 0).do = "replay" /\ Do("drain", 0).do = "drain"
<1>1. ASSUME NEW w \in {"persist", "open", "save"}, NEW s \in Nat
      PROVE  /\ Elements(<<Do(w, s)>>) = {Do(w, s)} /\ Between(<<Do(w, s)>>, 2, 2)
             /\ Do(w, s).do = w /\ Do(w, s).seq = s
  <2>1. Do(w, s) \in Task /\ Rank(Do(w, s)) = 2 /\ Do(w, s).do = w /\ Do(w, s).seq = s
    BY DEF Do, Task, Rank, Moves
  <2> QED BY <2>1, Single
<1>2. ASSUME NEW b \in Nat, NEW e \in Nat
      PROVE  /\ \A t \in Elements(Playback(b, e)) : t.do = "play"
             /\ Between(Playback(b, e), 1, 1)
  <2> DEFINE task == [do |-> "play", seq |-> b, to |-> e]
  <2>1. task \in Task /\ Rank(task) = 1 /\ task.do = "play" BY DEF Task, Rank
  <2>2. Playback(b, e) = IF b > e THEN <<>> ELSE <<task>> BY DEF Playback
  <2> HIDE DEF task
  <2> QED BY <2>1, <2>2, Single
<1>3. /\ Do("drain", 0) \in Task /\ Rank(Do("drain", 0)) = 3 /\ Do("drain", 0).do = "drain"
      /\ Do("replay", 0) \in Task /\ Rank(Do("replay", 0)) = 4 /\ Do("replay", 0).do = "replay"
  BY DEF Do, Task, Rank, Moves
<1>4. ASSUME NEW g
      PROVE  /\ Elements(WhenFilled(g)) = IF g = {} THEN {Do("drain", 0)} ELSE {}
             /\ Between(WhenFilled(g), 3, 3)
  BY <1>3, Single DEF WhenFilled
<1> QED BY <1>1, <1>2, <1>3, <1>4, Single

LEMMA Split ==
  ASSUME NEW s \in Seq(Task), s # <<>>, Ranked(s)
  PROVE  /\ Head(s) \in Task /\ Head(s) \in Elements(s)
         /\ Elements(s) = {Head(s)} \cup Elements(Tail(s))
         /\ Between(Tail(s), Rank(Head(s)) + 1, 4)
         /\ \A t \in Elements(Tail(s)) : Rank(Head(s)) < Rank(t)
<1>1. /\ Len(s) \in Nat /\ DOMAIN s = 1..Len(s) /\ Len(s) >= 1
      /\ Head(s) = s[1] /\ Head(s) \in Task
      /\ Tail(s) \in Seq(Task) /\ Len(Tail(s)) = Len(s) - 1
      /\ \A i \in 1..Len(s) - 1 : Tail(s)[i] = s[i + 1]
  BY LenProperties, HeadTailProperties, EmptySeq
<1>2. DOMAIN Tail(s) = 1..Len(s) - 1 BY <1>1, LenProperties
<1>3. \A i \in DOMAIN s : i = 1 \/ (i - 1 \in DOMAIN Tail(s) /\ s[i] = Tail(s)[i - 1])
  <2> SUFFICES ASSUME NEW i \in DOMAIN s, i # 1
               PROVE  i - 1 \in DOMAIN Tail(s) /\ s[i] = Tail(s)[i - 1]
    OBVIOUS
  <2>1. i - 1 \in 1..Len(s) - 1 /\ (i - 1) + 1 = i BY <1>1
  <2> QED BY <1>1, <1>2, <2>1
<1>4. \A i \in DOMAIN Tail(s) : /\ i + 1 \in DOMAIN s /\ 1 \in DOMAIN s /\ 1 < i + 1
                                /\ Tail(s)[i] = s[i + 1]
  BY <1>1, <1>2
<1>5. Elements(s) = {Head(s)} \cup Elements(Tail(s))
  <2>1. 1 \in DOMAIN s BY <1>1
  <2> QED BY <1>1, <1>3, <1>4, <2>1 DEF Elements
<1>6. \A t \in Elements(Tail(s)) : Rank(Head(s)) < Rank(t)
  BY <1>1, <1>4 DEF Elements, Ranked
<1>7. Ranked(Tail(s))
  <2> SUFFICES ASSUME NEW i \in DOMAIN Tail(s), NEW j \in DOMAIN Tail(s), i < j
               PROVE  Rank(Tail(s)[i]) < Rank(Tail(s)[j])
    BY DEF Ranked
  <2>1. i + 1 < j + 1 BY <1>2
  <2> QED BY <1>4, <2>1 DEF Ranked
<1> QED BY <1>1, <1>5, <1>6, <1>7, RankIsNat DEF Between

LEMMA NoTasks ==
  ASSUME NEW s \in Seq(Task), Elements(s) = {}, NEW r \in Seq(Task)
  PROVE  s = <<>> /\ r \o s = r
<1>1. Len(s) \in Nat /\ DOMAIN s = 1..Len(s) BY LenProperties
<1>2. Len(s) = 0
  <2>1. 1 \notin DOMAIN s BY DEF Elements
  <2> QED BY <1>1, <2>1
<1>3. s = <<>> BY <1>2, EmptySeq
<1>4. r \o <<>> = r OBVIOUS
<1> QED BY <1>3, <1>4

(* Delivered numbers.                                                      *)
LEMMA GivenMore ==
  ASSUME NEW s \in Seq(Nat), NEW d \in Nat, Rising(s), \A i \in DOMAIN s : s[i] < d
  PROVE  /\ Rising(Append(s, d))
         /\ {Append(s, d)[i] : i \in DOMAIN Append(s, d)} = {s[i] : i \in DOMAIN s} \cup {d}
<1>1. /\ Len(s) \in Nat /\ DOMAIN s = 1..Len(s)
      /\ DOMAIN Append(s, d) = 1..Len(s) + 1
      /\ \A i \in 1..Len(s) : Append(s, d)[i] = s[i]
      /\ Append(s, d)[Len(s) + 1] = d
  BY LenProperties, AppendProperties
<1>2. \A i \in 1..Len(s) + 1 : i \in 1..Len(s) \/ i = Len(s) + 1 BY <1>1
<1>3. Len(s) + 1 \in 1..Len(s) + 1 /\ 1..Len(s) \subseteq 1..Len(s) + 1 BY <1>1
<1>4. Rising(Append(s, d))
  <2> SUFFICES ASSUME NEW i \in 1..Len(s) + 1, NEW j \in 1..Len(s) + 1, i < j
               PROVE  Append(s, d)[i] < Append(s, d)[j]
    BY <1>1 DEF Rising
  <2>1. i \in 1..Len(s) BY <1>1
  <2>2. CASE j \in 1..Len(s) BY <1>1, <2>1, <2>2 DEF Rising
  <2>3. CASE j = Len(s) + 1 BY <1>1, <2>1, <2>3
  <2> QED BY <1>2, <2>2, <2>3
<1> QED BY <1>1, <1>2, <1>3, <1>4

-----------------------------------------------------------------------------
LEMMA Numbers ==
  ASSUME TypeOK, NEW p \in Peer
  PROVE  /\ inSeq[p] \in Nat /\ inSeq[p] # 0 /\ inLast[p] \in Nat /\ last[p] \in Nat
         /\ miss[p] \subseteq Nat /\ queue[p] \subseteq Nat
         /\ todo[p] \in Seq(Task) /\ \A t \in Tasks(p) : t \in Task /\ t.seq \in Nat
         /\ \A m \in pending[p] \cup replay[p] :
              m \in Message /\ m.seq \in Nat /\ m.dup \in BOOLEAN
         /\ delivered[p] \in Seq(Nat) /\ Given(p) \subseteq Nat
<1>1. todo[p] \in Seq(Task) /\ delivered[p] \in Seq(Nat) BY DEF TypeOK
<1>2. \A t \in Tasks(p) : t \in Task
  BY <1>1, ElementOfSeq, LenProperties DEF Tasks, Elements
<1>3. Given(p) \subseteq Nat BY <1>1, ElementOfSeq, LenProperties DEF Given
<1> QED BY <1>1, <1>2, <1>3 DEF TypeOK, Task, Message

(* A message at hand: left and rest are as in OnMsgNormal and OnMsgGap.    *)
Taken(p, m, left, rest) ==
  /\ m \in Message /\ left \subseteq replay[p]
  /\ rest = IF left = {} THEN <<>> ELSE <<Do("replay", 0)>>
  /\ ~m.dup => inSeq[p] <= m.seq /\ \A x \in pending[p] : x.seq < m.seq
  /\ m.dup \/ m.type = "GapFill" => left = {}
  /\ \A x \in left : m.seq < x.seq
  /\ \A d \in Given(p) : d < inSeq[p]
  /\ state[p] = "gap" => miss[p] # {}

LEMMA Rest ==
  ASSUME NEW p, NEW m, NEW left, NEW rest, Taken(p, m, left, rest)
  PROVE  /\ Between(rest, 4, 4)
         /\ \A t \in Elements(rest) : t.do = "replay"
         /\ left # {} => \E t \in Elements(rest) : t.do = "replay"
BY Parts, Single DEF Taken

(* A batch of tasks that moves at most to seq.                             *)
LEMMA Batches ==
  ASSUME NEW a, NEW w \in {"persist", "open"}, NEW seq \in Nat, NEW rest,
         Between(a, 1, 1), Between(rest, 4, 4),
         \A t \in Elements(a) : t.do = "play", \A t \in Elements(rest) : t.do = "replay"
  PROVE  LET s == a \o <<Do(w, seq)>> \o rest IN
         /\ s \in Seq(Task) /\ Ranked(s)
         /\ Elements(s) = Elements(a) \cup {Do(w, seq)} \cup Elements(rest)
         /\ \A t \in Elements(s) : t.do \in {"play", "replay"} \/ t = Do(w, seq)
<1> DEFINE b == a \o <<Do(w, seq)>>
<1>1. /\ Between(<<Do(w, seq)>>, 2, 2) /\ Elements(<<Do(w, seq)>>) = {Do(w, seq)}
  BY Parts
<1>2. Between(b, 1, 2) /\ Elements(b) = Elements(a) \cup {Do(w, seq)}
  BY <1>1, Joined
<1> HIDE DEF b
<1>3. Between(b \o rest, 1, 4) /\ Elements(b \o rest) = Elements(b) \cup Elements(rest)
  BY <1>2, Joined
<1> QED BY <1>2, <1>3 DEF Between, b

LEMMA InSequenceOn ==
  ASSUME TypeOK, NEW p \in Peer, Core(p), NEW m, NEW n, NEW left, NEW rest,
         Taken(p, m, left, rest), state[p] = "normal", ~m.dup, m.seq = inSeq[p],
         InSequence(p, m, n, rest), replay' = [replay EXCEPT ![p] = left]
  PROVE  Onward(p, Reach(m))
<1>0. m \in Message /\ m.seq \in Nat /\ m.arg \in Nat BY DEF Taken, Message
<1>1. PICK first : /\ Between(first, 1, 1) /\ \A t \in Elements(first) : t.do = "play"
                   /\ todo' = [todo EXCEPT ![p] = first \o <<Do("persist", m.seq)>> \o rest]
  <2>1. Between(<<>>, 1, 1) /\ Elements(<<>>) = {} BY Single
  <2>2. /\ Between(PlaybackAll(p, m), 1, 1)
        /\ \A t \in Elements(PlaybackAll(p, m)) : t.do = "play"
    BY <1>0, Parts, LenProperties DEF PlaybackAll, TypeOK
  <2> QED BY <2>1, <2>2 DEF InSequence
<1>2. /\ inSeq' = inSeq /\ inLast' = inLast /\ state' = state /\ miss' = miss /\ last' = last
      /\ queue' = queue /\ pending' = pending
      /\ \/ delivered' = delivered
         \/ delivered' = [delivered EXCEPT ![p] = Append(delivered[p], m.seq)]
  BY DEF InSequence, protocolVars, storeVars, gapVars
<1>3. /\ Ranked(todo'[p])
      /\ Tasks(p)' = Elements(first) \cup {Do("persist", m.seq)} \cup Elements(rest)
      /\ \A t \in Tasks(p)' : t.do \in {"play", "replay"} \/ t = Do("persist", m.seq)
      /\ Do("persist", m.seq).do = "persist" /\ Do("persist", m.seq).seq = m.seq
      /\ left # {} => Has(p, "replay")'
  <2>1. todo'[p] = first \o <<Do("persist", m.seq)>> \o rest BY <1>1 DEF TypeOK
  <2> DEFINE s == first \o <<Do("persist", m.seq)>> \o rest
  <2>2. /\ Between(rest, 4, 4) /\ \A t \in Elements(rest) : t.do = "replay"
        /\ left # {} => \E t \in Elements(rest) : t.do = "replay"
    BY Rest
  <2>3. /\ Ranked(s) /\ Elements(s) = Elements(first) \cup {Do("persist", m.seq)} \cup Elements(rest)
        /\ \A t \in Elements(s) : t.do \in {"play", "replay"} \/ t = Do("persist", m.seq)
    BY <1>0, <1>1, <2>2, Batches
  <2>4. Do("persist", m.seq).do = "persist" /\ Do("persist", m.seq).seq = m.seq
    BY DEF Do
  <2> HIDE DEF s
  <2>5. Tasks(p)' = Elements(s) BY <2>1 DEF s, Tasks
  <2> QED BY <2>1, <2>2, <2>3, <2>4, <2>5 DEF s, Has
<1>4. replay'[p] = left /\ left \subseteq replay[p] /\ \A x \in left : m.seq < x.seq
  BY DEF TypeOK, Taken
<1>5. /\ Rising(delivered'[p]) /\ \A d \in Given(p)' : d \in Given(p) \/ d = m.seq
  <2>1. \A i \in DOMAIN delivered[p] : delivered[p][i] < m.seq BY DEF Taken, Given
  <2>2. Rising(delivered[p]) /\ delivered[p] \in Seq(Nat) BY Numbers DEF Core, Delivery
  <2>3. delivered'[p] = delivered[p] \/ delivered'[p] = Append(delivered[p], m.seq)
    BY <1>2 DEF TypeOK
  <2>4. /\ Rising(Append(delivered[p], m.seq))
        /\ {Append(delivered[p], m.seq)[i] : i \in DOMAIN Append(delivered[p], m.seq)}
           = Given(p) \cup {m.seq}
    BY <1>0, <2>1, <2>2, GivenMore DEF Given
  <2>5. Given(p)' = Given(p) \/ Given(p)' = Given(p) \cup {m.seq}
    BY <2>3, <2>4 DEF Given
  <2> QED BY <2>2, <2>3, <2>4, <2>5
<1>6. Callback(p)' BY <1>2, <1>3, <1>4, Numbers DEF Callback, Moves
<1>7. Waiting(p)' BY <1>2, <1>3, <1>4 DEF Core, Waiting, Distinct
<1>8. Gap(p)' BY <1>2 DEF Core, Gap
<1>9. Delivery(p)'
  <2>1. \A d \in Given(p) : d < inSeq[p] BY DEF Taken
  <2>2. queue[p] = {} BY DEF Core, Gap
  <2>3. inLast[p] < inSeq[p] BY DEF Core, Delivery
  <2> QED BY <1>0, <1>2, <1>3, <1>5, <2>1, <2>2, <2>3, Numbers DEF Delivery
<1>10. ASSUME NEW x \in Nat, Behind(p, x), Reach(m) <= x PROVE Behind(p, x)'
  <2>1. m.seq < x BY <1>0, <1>10 DEF Reach, InSequence
  <2> QED BY <1>2, <1>3, <1>4, <1>10, <2>1 DEF Behind, Moves
<1> QED BY <1>2, <1>6, <1>7, <1>8, <1>9, <1>10, Numbers DEF Onward, Core

LEMMA StartGapOn ==
  ASSUME TypeOK, NEW p \in Peer, Core(p), NEW seq \in Nat, inSeq[p] <= seq,
         \A d \in Given(p) : d < inSeq[p],
         StartGap(p, seq), UNCHANGED <<inLast, delivered>>,
         replay'[p] \subseteq replay[p], \A x \in replay'[p] : seq < x.seq,
         Ranked(todo'[p]), \A t \in Tasks(p)' : t.do = "replay",
         replay'[p] # {} => Has(p, "replay")'
  PROVE  Onward(p, seq + 1)
<1>1. /\ state'[p] = "gap" /\ miss'[p] = inSeq[p]..seq /\ last'[p] = seq
      /\ queue'[p] = {} /\ pending'[p] = {} /\ inSeq'[p] = seq + 1
  BY DEF StartGap, Missing, TypeOK
<1>2. miss'[p] # {} /\ \A x \in miss'[p] : inSeq[p] <= x BY <1>1, Numbers
<1>3. Callback(p)' BY DEF Callback, Moves
<1>4. Waiting(p)'
  <2>1. \A x \in replay'[p] : x.seq >= seq + 1 BY Numbers
  <2> QED BY <1>1, <2>1 DEF Core, Waiting, Distinct
<1>5. Gap(p)' BY <1>1, <1>2 DEF Gap
<1>6. Delivery(p)'
  <2>1. Given(p)' = Given(p) /\ Given(p) \subseteq Nat BY Numbers DEF Given
  <2>2. Rising(delivered'[p]) /\ inLast'[p] < seq + 1 BY Numbers DEF Core, Delivery
  <2>3. \A d \in Given(p) : d < seq + 1 /\ d <= seq /\ \A x \in miss'[p] : d < x
    BY <1>1, <1>2, <2>1, Numbers
  <2> QED BY <1>1, <2>1, <2>2, <2>3 DEF Delivery
<1>7. ASSUME NEW x \in Nat, Behind(p, x), seq + 1 <= x PROVE Behind(p, x)'
  BY <1>1, <1>7 DEF Behind, Moves
<1> QED BY <1>1, <1>3, <1>4, <1>5, <1>6, <1>7, Numbers DEF Onward, Core

LEMMA DieOn ==
  ASSUME TypeOK, NEW p \in Peer, Core(p), NEW n, Die(p, n), NEW b \in Nat,
         \A d \in Given(p) : d < inSeq[p],
         inSeq'[p] \in Nat, inSeq'[p] >= inSeq[p], inSeq'[p] = inSeq[p] \/ inSeq'[p] <= b,
         UNCHANGED <<inLast, delivered>>
  PROVE  Onward(p, b)
<1>1. /\ state'[p] = "loggedOut" /\ miss'[p] = {} /\ last'[p] = 0 /\ queue'[p] = {}
      /\ pending'[p] = {} /\ replay'[p] = {} /\ todo'[p] = <<>>
  BY DEF Die, TypeOK
<1>2. Tasks(p)' = {} /\ Ranked(todo'[p]) BY <1>1, Single DEF Tasks, Between
<1>3. Callback(p)' /\ Waiting(p)' /\ Gap(p)'
  BY <1>1, <1>2 DEF Callback, Waiting, Gap, Distinct
<1>4. Delivery(p)'
  <2>1. Given(p)' = Given(p) /\ Given(p) \subseteq Nat BY Numbers DEF Given
  <2>2. Rising(delivered'[p]) /\ inLast'[p] < inSeq'[p] BY Numbers DEF Core, Delivery
  <2> QED BY <1>1, <2>1, <2>2, Numbers DEF Delivery
<1>5. \A x \in Nat : Behind(p, x) /\ b <= x => Behind(p, x)'
  BY <1>1, <1>2, Numbers DEF Behind
<1> QED BY <1>3, <1>4, <1>5 DEF Onward, Core

LEMMA OutOfSequenceOn ==
  ASSUME TypeOK, NEW p \in Peer, Core(p), NEW m, NEW n, NEW left, NEW rest,
         Taken(p, m, left, rest), state[p] = "normal", ~m.dup, m.seq # inSeq[p],
         OutOfSequence(p, m, n, rest), replay' = [replay EXCEPT ![p] = left]
  PROVE  Onward(p, Reach(m))
<1>0. /\ m \in Message /\ m.seq \in Nat /\ m.arg \in Nat
      /\ inSeq[p] < m.seq /\ m.type # "GapFill" /\ Reach(m) = m.seq + 1
  BY Numbers DEF Taken, Message, OutOfSequence, Reach
<1>1. replay'[p] = left /\ left \subseteq replay[p] /\ \A x \in left : m.seq < x.seq
  BY DEF TypeOK, Taken
<1>2. /\ Between(rest, 4, 4) /\ \A t \in Elements(rest) : t.do = "replay"
      /\ left # {} => \E t \in Elements(rest) : t.do = "replay"
  BY Rest
<1>3. \A d \in Given(p) : d < inSeq[p] BY DEF Taken
<1>4. CASE m.type = "ResendRequest"
  <2> DEFINE first == PlaybackAll(p, m)
             s == first \o <<Do("open", m.seq)>> \o rest
  <2>1. /\ todo' = [todo EXCEPT ![p] = s]
        /\ UNCHANGED <<protocolVars, storeVars, gapVars, delivered>>
    BY <1>4 DEF OutOfSequence
  <2>2. Between(first, 1, 1) /\ \A t \in Elements(first) : t.do = "play"
    BY <1>0, Parts, LenProperties DEF PlaybackAll, TypeOK
  <2> HIDE DEF first
  <2>3. /\ Ranked(s) /\ Elements(s) = Elements(first) \cup {Do("open", m.seq)} \cup Elements(rest)
        /\ \A t \in Elements(s) : t.do \in {"play", "replay"} \/ t = Do("open", m.seq)
    BY <1>0, <1>2, <2>2, Batches
  <2>4. Do("open", m.seq).do = "open" /\ Do("open", m.seq).seq = m.seq BY DEF Do
  <2> HIDE DEF s
  <2>5. todo'[p] = s /\ Tasks(p)' = Elements(s) BY <2>1 DEF Tasks, TypeOK
  <2>6. left # {} => Has(p, "replay")' BY <1>2, <2>3, <2>5 DEF Has
  <2>7. /\ inSeq' = inSeq /\ inLast' = inLast /\ state' = state /\ miss' = miss /\ last' = last
        /\ queue' = queue /\ pending' = pending /\ delivered' = delivered
    BY <2>1 DEF protocolVars, storeVars, gapVars
  <2>8. Callback(p)' BY <1>0, <1>1, <2>3, <2>4, <2>5, <2>7 DEF Callback, Moves
  <2>9. Waiting(p)' BY <1>1, <2>6, <2>7 DEF Core, Waiting, Distinct
  <2>10. Gap(p)' BY <2>7 DEF Core, Gap
  <2>11. Delivery(p)' BY <1>3, <2>7 DEF Core, Delivery, Given
  <2>12. ASSUME NEW x \in Nat, Behind(p, x), Reach(m) <= x PROVE Behind(p, x)'
    BY <1>0, <1>1, <2>3, <2>4, <2>5, <2>7, <2>12 DEF Behind, Moves
  <2> QED BY <2>7, <2>8, <2>9, <2>10, <2>11, <2>12, Numbers DEF Onward, Core
<1>5. CASE StartGap(p, m.seq) /\ todo' = [todo EXCEPT ![p] = rest] /\ UNCHANGED <<inLast, delivered>>
  <2>1. todo'[p] = rest /\ Tasks(p)' = Elements(rest) BY <1>5 DEF Tasks, TypeOK
  <2>2. Ranked(todo'[p]) /\ \A t \in Tasks(p)' : t.do = "replay" BY <1>2, <2>1 DEF Between
  <2>3. left # {} => Has(p, "replay")' BY <1>2, <2>1 DEF Has
  <2>4. inSeq[p] <= m.seq BY <1>0, Numbers
  <2> QED BY <1>0, <1>1, <1>3, <1>5, <2>2, <2>3, <2>4, StartGapOn
<1> QED BY <1>4, <1>5 DEF OutOfSequence

LEMMA OnMsgNormalOn ==
  ASSUME TypeOK, NEW p \in Peer, Core(p), NEW m, NEW n, NEW left, NEW rest,
         Taken(p, m, left, rest), state[p] = "normal", OnMsgNormal(p, m, n, left, rest)
  PROVE  Onward(p, Reach(m))
<1>1. Reach(m) \in Nat BY DEF Taken, Message, Reach
<1>2. CASE Raise(p, n)
  <2>1. Die(p, n) /\ UNCHANGED <<inSeq, inLast, delivered>> BY <1>2 DEF Raise, storeVars
  <2>2. /\ inSeq'[p] \in Nat /\ inSeq'[p] >= inSeq[p] /\ inSeq'[p] = inSeq[p]
        /\ \A d \in Given(p) : d < inSeq[p]
    BY <2>1, Numbers DEF Taken
  <2> QED BY <1>1, <2>1, <2>2, DieOn
<1>3. CASE ~Raise(p, n)
  BY <1>3, InSequenceOn, OutOfSequenceOn DEF OnMsgNormal
<1> QED BY <1>2, <1>3

(* What is common to the ways a message is taken while a gap is open.      *)
LEMMA InGap ==
  ASSUME TypeOK, NEW p \in Peer, Core(p), NEW m, NEW left, NEW rest,
         Taken(p, m, left, rest), state[p] = "gap", NEW gaps \in SUBSET miss[p], NEW b \in Nat,
         m.dup \/ m.type = "GapFill",
         todo' = [todo EXCEPT ![p] = WhenFilled(gaps) \o rest],
         replay' = [replay EXCEPT ![p] = left], miss' = [miss EXCEPT ![p] = gaps],
         UNCHANGED <<state, inLast, last, pending, delivered>>,
         inSeq'[p] \in Nat, inSeq'[p] >= inSeq[p], inSeq'[p] = inSeq[p] \/ inSeq'[p] <= b,
         \A s \in queue'[p] : /\ s \in Nat /\ (s \in queue[p] \/ s < b)
                              /\ \A d \in Given(p) : d < s
  PROVE  Onward(p, b)
<1>1. left = {} /\ rest = <<>> /\ miss[p] # {} /\ \A d \in Given(p) : d < inSeq[p]
  BY DEF Taken
<1>2. Between(WhenFilled(gaps) \o rest, 3, 4)
      /\ Elements(WhenFilled(gaps) \o rest) = IF gaps = {} THEN {Do("drain", 0)} ELSE {}
  <2>1. /\ Between(WhenFilled(gaps), 3, 3) /\ Between(rest, 4, 4) /\ Elements(rest) = {}
        /\ Elements(WhenFilled(gaps)) = IF gaps = {} THEN {Do("drain", 0)} ELSE {}
    BY <1>1, Parts, Single
  <2> QED BY <2>1, Joined
<1>3. /\ replay'[p] = {} /\ miss'[p] = gaps /\ Ranked(todo'[p])
      /\ Tasks(p)' = IF gaps = {} THEN {Do("drain", 0)} ELSE {}
      /\ Do("drain", 0).do = "drain"
  BY <1>1, <1>2 DEF TypeOK, Tasks, Between, Do
<1>4. Callback(p)' BY <1>3 DEF Callback, Moves, Has
<1>5. Waiting(p)' BY <1>3 DEF Core, Waiting, Distinct
<1>6. Gap(p)' BY <1>3 DEF Gap, Has
<1>7. Delivery(p)'
  <2>1. Given(p)' = Given(p) /\ Given(p) \subseteq Nat BY Numbers DEF Given
  <2>2. Rising(delivered'[p]) /\ inLast'[p] < inSeq'[p] BY Numbers DEF Core, Delivery
  <2>3. \A d \in Given(p) : /\ d < inSeq'[p] /\ \A s \in queue'[p] : d < s
                            /\ d <= last[p] /\ \A x \in gaps : d < x
    BY <1>1, <2>1, Numbers DEF Core, Delivery
  <2> QED BY <1>3, <2>1, <2>2, <2>3 DEF Delivery
<1>8. ASSUME NEW x \in Nat, Behind(p, x), b <= x PROVE Behind(p, x)'
  <2>1. inSeq'[p] <= x BY <1>8, Numbers DEF Behind
  <2>2. \A s \in queue'[p] : s < x
    <3> SUFFICES ASSUME NEW s \in queue'[p] PROVE s < x
      OBVIOUS
    <3>1. CASE s \in queue[p] BY <1>8, <3>1 DEF Behind
    <3>2. CASE s \in Nat /\ s < b BY <1>8, <3>2
    <3> QED BY <3>1, <3>2
  <2> QED BY <1>3, <1>8, <2>1, <2>2 DEF Behind, Moves
<1> QED BY <1>4, <1>5, <1>6, <1>7, <1>8 DEF Onward, Core

LEMMA OnGapFillOn ==
  ASSUME TypeOK, NEW p \in Peer, Core(p), NEW m, NEW n, NEW left, NEW rest,
         Taken(p, m, left, rest), state[p] = "gap", m.type = "GapFill",
         OnGapFill(p, m, n, left, rest)
  PROVE  Onward(p, Reach(m))
<1>1. m.arg \in Nat /\ Reach(m) = m.arg /\ \A d \in Given(p) : d < inSeq[p]
  BY DEF Taken, Message, Reach
<1>2. /\ inSeq'[p] \in Nat /\ inSeq'[p] >= inSeq[p]
      /\ inSeq'[p] = inSeq[p] \/ inSeq'[p] <= m.arg
      /\ UNCHANGED <<inLast, delivered>>
  <2>1. inSeq'[p] = Advance(inSeq[p], m.arg) BY DEF OnGapFill, TypeOK
  <2> QED BY <1>1, <2>1, Numbers DEF Advance, OnGapFill
<1>3. CASE Die(p, n) BY <1>1, <1>2, <1>3, DieOn
<1>4. CASE ~Die(p, n)
  <2> DEFINE gaps == miss[p] \ (m.seq..(m.arg - 1))
  <2>1. /\ miss' = [miss EXCEPT ![p] = gaps]
        /\ todo' = [todo EXCEPT ![p] = WhenFilled(gaps) \o rest]
        /\ replay' = [replay EXCEPT ![p] = left]
        /\ UNCHANGED <<state, last, queue, pending>>
    BY <1>4 DEF OnGapFill, protocolVars
  <2>2. gaps \in SUBSET miss[p] OBVIOUS
  <2> HIDE DEF gaps
  <2>3. \A s \in queue'[p] : s \in Nat /\ s \in queue[p] /\ \A d \in Given(p) : d < s
    BY <2>1, Numbers DEF Core, Delivery
  <2> QED BY <1>1, <1>2, <2>1, <2>2, <2>3, InGap
<1> QED BY <1>3, <1>4

LEMMA OnMsgGapOn ==
  ASSUME TypeOK, NEW p \in Peer, Core(p), NEW m, NEW n, NEW left, NEW rest,
         Taken(p, m, left, rest), state[p] = "gap", OnMsgGap(p, m, n, left, rest)
  PROVE  Onward(p, Reach(m))
<1>0. /\ m \in Message /\ m.seq \in Nat /\ m.arg \in Nat /\ miss[p] # {}
      /\ m.type # "GapFill" => Reach(m) = m.seq + 1
  BY DEF Taken, Message, Reach
<1>1. CASE m.type = "GapFill" /\ OnGapFill(p, m, n, left, rest) BY <1>1, OnGapFillOn
<1>2. CASE m.type # "GapFill" /\ m.dup /\ OnMsgGap(p, m, n, left, rest)
  <2> DEFINE gaps == miss[p] \ {m.seq}
  <2>1. /\ miss' = [miss EXCEPT ![p] = gaps]
        /\ \/ m.seq \in miss[p] \/ m.seq > last[p]
           \/ queue'[p] = queue[p]
        /\ queue'[p] \subseteq queue[p] \cup {m.seq}
        /\ todo' = [todo EXCEPT ![p] = WhenFilled(gaps) \o rest]
        /\ replay' = [replay EXCEPT ![p] = left]
        /\ UNCHANGED <<protocolVars, storeVars, last, pending, delivered>>
    BY <1>2 DEF OnMsgGap, TypeOK, Urgent
  <2>2. gaps \in SUBSET miss[p] OBVIOUS
  <2> HIDE DEF gaps
  <2>3. inSeq'[p] = inSeq[p] /\ inSeq[p] \in Nat /\ UNCHANGED <<state, inLast, last, pending, delivered>>
    BY <2>1, Numbers DEF protocolVars, storeVars
  <2>4. \A s \in queue'[p] : /\ s \in Nat /\ (s \in queue[p] \/ s < Reach(m))
                             /\ \A d \in Given(p) : d < s
    <3> SUFFICES ASSUME NEW s \in queue'[p], NEW d \in Given(p)
                 PROVE  d < s
      BY <1>0, <1>2, <2>1, Numbers
    <3>1. CASE s \in queue[p] BY <3>1 DEF Core, Delivery
    <3>2. CASE s \notin queue[p]
      <4>1. s = m.seq /\ (m.seq \in miss[p] \/ m.seq > last[p]) BY <2>1, <3>2
      <4>2. d \in Nat /\ d <= last[p] /\ \A x \in miss[p] : d < x
        BY <1>0, Numbers DEF Core, Delivery
      <4> QED BY <1>0, <1>2, <4>1, <4>2, Numbers
    <3> QED BY <3>1, <3>2
  <2>5. Reach(m) \in Nat BY <1>0, <1>2
  <2>6. inSeq'[p] \in Nat /\ inSeq'[p] >= inSeq[p] BY <2>3
  <2> QED BY <1>2, <2>1, <2>2, <2>3, <2>4, <2>5, <2>6, InGap
<1>3. CASE m.type # "GapFill" /\ ~m.dup
  <2>1. /\ Between(rest, 4, 4) /\ \A t \in Elements(rest) : t.do = "replay"
        /\ left # {} => \E t \in Elements(rest) : t.do = "replay"
    BY Rest
  <2>2. PICK tasks :
          /\ Between(tasks, 1, 4)
          /\ \A t \in Elements(tasks) :
               \/ t.do \in {"play", "replay"}
               \/ t.do = "persist" /\ t.seq = m.seq /\ m.seq = inSeq[p]
          /\ Elements(rest) \subseteq Elements(tasks)
          /\ todo' = [todo EXCEPT ![p] = tasks]
    <3> DEFINE none == WhenFilled(miss[p])
    <3>1. Between(none, 3, 3) /\ Elements(none) = {} BY <1>0, Parts
    <3> HIDE DEF none
    <3>2. CASE Urgent(m) /\ OnMsgGap(p, m, n, left, rest)
      <4> DEFINE first == PlaybackAll(p, m)
                 own == IF m.seq = inSeq[p] THEN <<Do("persist", m.seq)>> ELSE <<>>
      <4>1. todo' = [todo EXCEPT ![p] = first \o own \o none \o rest]
        BY <1>3, <3>2 DEF OnMsgGap, Urgent, none
      <4>2. Between(first, 1, 1) /\ \A t \in Elements(first) : t.do = "play"
        BY <1>0, Parts, LenProperties DEF PlaybackAll, TypeOK
      <4>3. /\ Between(own, 2, 2)
            /\ \A t \in Elements(own) : t.do = "persist" /\ t.seq = m.seq /\ m.seq = inSeq[p]
        BY <1>0, Parts, Single
      <4> HIDE DEF first, own
      <4>5. Between(first \o own, 1, 2) /\ Elements(first \o own) = Elements(first) \cup Elements(own)
        BY <4>2, <4>3, Joined
      <4>6. /\ Between(first \o own \o none, 1, 3)
            /\ Elements(first \o own \o none) = Elements(first) \cup Elements(own)
        BY <3>1, <4>5, Joined
      <4>7. /\ Between(first \o own \o none \o rest, 1, 4)
            /\ Elements(first \o own \o none \o rest)
               = Elements(first) \cup Elements(own) \cup Elements(rest)
        BY <2>1, <4>6, Joined
      <4> QED BY <2>1, <4>1, <4>2, <4>3, <4>7
    <3>3. CASE ~Urgent(m) /\ OnMsgGap(p, m, n, left, rest)
      <4>1. todo' = [todo EXCEPT ![p] = none \o rest]
        BY <1>3, <3>3 DEF OnMsgGap, none
      <4>2. Between(none \o rest, 3, 4) /\ Elements(none \o rest) = Elements(rest)
        BY <2>1, <3>1, Joined
      <4>3. Between(none \o rest, 1, 4) BY <4>2, RankIsNat DEF Between
      <4> QED BY <2>1, <4>1, <4>2, <4>3
    <3> QED BY <3>2, <3>3
  <2>3. /\ inSeq' = inSeq /\ inLast' = inLast /\ state' = state /\ miss' = miss /\ last' = last
        /\ queue' = queue /\ delivered' = delivered /\ replay' = [replay EXCEPT ![p] = left]
        /\ \/ pending' = pending
           \/ pending' = [pending EXCEPT ![p] = @ \cup {m}]
    BY <1>3 DEF OnMsgGap, protocolVars, storeVars, gapVars
  <2>4. /\ Ranked(todo'[p]) /\ Tasks(p)' = Elements(tasks) /\ replay'[p] = left
        /\ left # {} => Has(p, "replay")'
        /\ pending'[p] = pending[p] \/ pending'[p] = pending[p] \cup {m}
    BY <2>1, <2>2, <2>3 DEF TypeOK, Tasks, Between, Has
  <2>5. /\ left \subseteq replay[p] /\ \A x \in left : m.seq < x.seq
        /\ \A x \in pending[p] : x.seq < m.seq
        /\ \A d \in Given(p) : d < inSeq[p]
    BY <1>3 DEF Taken
  <2>6. Callback(p)' BY <2>2, <2>3, <2>4, <2>5 DEF Callback, Moves
  <2>7. Waiting(p)'
    <3>1. Distinct(pending'[p])
      BY <1>0, <2>4, <2>5, Numbers DEF Core, Waiting, Distinct
    <3>2. \A x \in pending'[p], y \in left : x.seq < y.seq
      BY <2>4, <2>5 DEF Core, Waiting
    <3> QED BY <1>3, <2>3, <2>4, <2>5, <3>1, <3>2 DEF Core, Waiting, Distinct
  <2>8. Gap(p)' BY <1>0, <2>3 DEF Gap
  <2>9. Delivery(p)' BY <2>3, <2>5 DEF Core, Delivery, Given
  <2>10. ASSUME NEW x \in Nat, Behind(p, x), Reach(m) <= x PROVE Behind(p, x)'
    <3>1. m.seq < x BY <1>0, <1>3, <2>10
    <3> QED BY <2>2, <2>3, <2>4, <2>5, <2>10, <3>1 DEF Behind, Moves
  <2> QED BY <2>3, <2>6, <2>7, <2>8, <2>9, <2>10, Numbers DEF Onward, Core
<1> QED BY <1>1, <1>2, <1>3 DEF OnMsgGap, Urgent

-----------------------------------------------------------------------------
(* The rest of a callback.                                                 *)
LEMMA AtHand ==
  ASSUME TypeOK, NEW p \in Peer, Core(p), todo[p] # <<>>
  PROVE  LET h == Head(todo[p]) IN
         /\ h \in Tasks(p) /\ h \in Task /\ h.seq \in Nat
         /\ Tasks(p) = {h} \cup Elements(Tail(todo[p]))
         /\ Between(Tail(todo[p]), Rank(h) + 1, 4)
         /\ \A t \in Elements(Tail(todo[p])) : Rank(h) < Rank(t)
<1>1. todo[p] \in Seq(Task) /\ Ranked(todo[p]) BY Numbers DEF Core, Callback
<1> QED BY <1>1, Split DEF Tasks, Task

LEMMA RankTells ==
  \A t \in Task : /\ t.do = "play" <=> Rank(t) = 1
                  /\ Moves(t) <=> Rank(t) = 2
                  /\ t.do = "drain" <=> Rank(t) = 3
                  /\ t.do = "replay" <=> Rank(t) = 4
BY DEF Rank, Moves, Task

LEMMA PlayOn ==
  ASSUME TypeOK, NEW p \in Peer, Core(p), Play(p)
  PROVE  Onward(p, 0)
<1> DEFINE h == Head(todo[p])
           end == Head(todo[p]).to
<1>1. todo[p] # <<>> /\ h.do = "play" BY DEF Play, Doing
<1>2. h.seq \in Nat /\ end \in Nat BY <1>1, TaskAtHand
<1>3. PICK j \in LastOfItem(p, h.seq, end) :
        todo' = [todo EXCEPT ![p] = Playback(j + 1, end) \o Tail(todo[p])]
  BY DEF Play, Then
<1>4. j + 1 \in Nat BY <1>2 DEF LastOfItem
<1>5. /\ h \in Task /\ Tasks(p) = {h} \cup Elements(Tail(todo[p]))
      /\ Between(Tail(todo[p]), Rank(h) + 1, 4)
  BY <1>1, AtHand
<1>6. Rank(h) = 1 BY <1>1, <1>5, RankTells
<1> DEFINE more == Playback(j + 1, end)
<1>7. Between(more, 1, 1) /\ \A t \in Elements(more) : t.do = "play" BY <1>2, <1>4, Parts
<1> HIDE DEF h, end, more
<1>8. /\ Between(more \o Tail(todo[p]), 1, 4)
      /\ Elements(more \o Tail(todo[p])) = Elements(more) \cup Elements(Tail(todo[p]))
  <2>1. Between(Tail(todo[p]), 2, 4) BY <1>5, <1>6
  <2> QED BY <1>7, <2>1, Joined
<1>9. /\ Ranked(todo'[p])
      /\ \A t \in Tasks(p)' : t.do = "play" \/ t \in Tasks(p)
      /\ \A t \in Tasks(p) : t.do # "play" => t \in Tasks(p)'
  <2>1. todo'[p] = more \o Tail(todo[p]) BY <1>3 DEF TypeOK, more, end
  <2>2. Tasks(p)' = Elements(more) \cup Elements(Tail(todo[p])) BY <1>8, <2>1 DEF Tasks
  <2> QED BY <1>1, <1>5, <1>7, <1>8, <2>1, <2>2 DEF Between
<1>10. /\ \A w : w # "play" => (Has(p, w)' <=> Has(p, w))
  BY <1>9 DEF Has
<1>11. UNCHANGED <<state, inSeq, inLast, miss, last, queue, pending, replay, delivered>>
  BY DEF Play, protocolVars, storeVars, gapVars
<1>12. Callback(p)' BY <1>9, <1>10, <1>11 DEF Core, Callback, Moves
<1>13. Waiting(p)' BY <1>10, <1>11 DEF Core, Waiting
<1>14. Gap(p)' BY <1>10, <1>11 DEF Core, Gap
<1>15. Delivery(p)' BY <1>9, <1>11 DEF Core, Delivery, Given
<1>16. \A x \in Nat : Behind(p, x) => Behind(p, x)' BY <1>9, <1>11 DEF Behind, Moves
<1> QED BY <1>11, <1>12, <1>13, <1>14, <1>15, <1>16, Numbers DEF Onward, Core

LEMMA OpenOn ==
  ASSUME TypeOK, NEW p \in Peer, Core(p), Open(p)
  PROVE  Onward(p, 0)
<1> DEFINE h == Head(todo[p])
<1>1. /\ todo[p] # <<>> /\ h.do = "open" /\ StartGap(p, h.seq)
      /\ todo' = [todo EXCEPT ![p] = <<>> \o Tail(todo[p])]
      /\ UNCHANGED <<inLast, delivered, replay>>
  BY DEF Open, Doing, Then
<1>2. /\ h \in Tasks(p) /\ h \in Task /\ h.seq \in Nat
      /\ Tasks(p) = {h} \cup Elements(Tail(todo[p]))
      /\ Between(Tail(todo[p]), Rank(h) + 1, 4)
      /\ \A t \in Elements(Tail(todo[p])) : Rank(h) < Rank(t)
  BY <1>1, AtHand
<1>3. Rank(h) = 2 BY <1>1, <1>2, RankTells DEF Moves
<1>4. todo'[p] = Tail(todo[p]) BY <1>1, <1>2 DEF TypeOK, Between
<1> HIDE DEF h
<1>5. /\ h.seq > inSeq[p] /\ state[p] = "normal" /\ \A m \in replay[p] : h.seq < m.seq
  BY <1>1, <1>2 DEF Core, Callback, Moves
<1>6. \A t \in Elements(Tail(todo[p])) : t.do = "replay"
  <2>1. \A t \in Elements(Tail(todo[p])) : t \in Task /\ Rank(t) \in {3, 4}
    BY <1>2, <1>3, Numbers, RankIsNat
  <2>2. \A t \in Elements(Tail(todo[p])) : t.do # "drain"
    BY <1>2, <1>5 DEF Core, Callback
  <2> QED BY <2>1, <2>2, RankTells
<1>7. \A d \in Given(p) : d < inSeq[p]
  BY <1>1, <1>2, <1>6 DEF Core, Delivery
<1>8. replay'[p] # {} => Has(p, "replay")'
  <2>1. Tasks(p)' = Elements(Tail(todo[p])) BY <1>4 DEF Tasks
  <2>2. replay[p] # {} => \E t \in Elements(Tail(todo[p])) : t.do = "replay"
    BY <1>1, <1>2 DEF Core, Waiting, Has
  <2> QED BY <1>1, <2>1, <2>2 DEF Has
<1>9. /\ Ranked(todo'[p]) /\ \A t \in Tasks(p)' : t.do = "replay"
  BY <1>2, <1>4, <1>6 DEF Between, Tasks
<1>10. inSeq[p] <= h.seq BY <1>2, <1>5, Numbers
<1>11. Onward(p, h.seq + 1)
  BY <1>1, <1>2, <1>5, <1>7, <1>8, <1>9, <1>10, StartGapOn
<1>12. ASSUME NEW x \in Nat, Behind(p, x) PROVE h.seq + 1 <= x
  BY <1>1, <1>2, <1>12 DEF Behind, Moves
<1> QED BY <1>11, <1>12 DEF Onward

LEMMA PersistOn ==
  ASSUME TypeOK, NEW p \in Peer, Core(p), Persist(p)
  PROVE  Onward(p, 0)
<1> DEFINE h == Head(todo[p])
<1>1. todo[p] # <<>> /\ h.do \in {"persist", "save"} BY DEF Persist, Doing
<1>2. /\ h \in Tasks(p) /\ h \in Task /\ h.seq \in Nat
      /\ Tasks(p) = {h} \cup Elements(Tail(todo[p]))
      /\ Between(Tail(todo[p]), Rank(h) + 1, 4)
      /\ \A t \in Elements(Tail(todo[p])) : Rank(h) < Rank(t)
  BY <1>1, AtHand
<1>3. Rank(h) = 2 BY <1>1, <1>2, RankTells DEF Moves
<1>4. /\ h.seq >= inSeq[p]
      /\ \A m \in replay[p] : h.seq < m.seq
  BY <1>1, <1>2, Numbers DEF Core, Callback, Moves
<1>0. inSeq[p] \in Nat /\ inLast[p] \in Nat /\ inLast[p] < inSeq[p]
  BY Numbers DEF Core, Delivery
<1>5. /\ inLast'[p] = (IF h.seq > inLast[p] THEN h.seq ELSE inLast[p])
      /\ inSeq'[p] = h.seq + 1
      /\ todo' = [todo EXCEPT ![p] = <<>> \o Tail(todo[p])]
      /\ UNCHANGED <<state, miss, last, queue, pending, replay, delivered>>
  <2>1. h.do = "persist" => Persistable(p, h.seq)
    BY <1>0, <1>2, <1>4 DEF Persistable, NextKey
  <2>2. PersistAndAdvance(p, h.seq) /\ Then(p, <<>>)
        /\ UNCHANGED <<protocolVars, outLog, gapVars, replay, net, delivered>>
    BY <2>1 DEF Persist, Doing
  <2> QED BY <2>2 DEF PersistAndAdvance, Then, TypeOK, protocolVars, gapVars
<1>6. todo'[p] = Tail(todo[p]) BY <1>2, <1>5 DEF TypeOK, Between
<1> HIDE DEF h
<1>7. /\ Ranked(todo'[p]) /\ Tasks(p)' \subseteq Tasks(p)
      /\ \A t \in Tasks(p)' : ~Moves(t)
      /\ \A t \in Tasks(p) : t.do \in {"drain", "replay"} => t \in Tasks(p)'
  <2>1. Tasks(p)' = Elements(Tail(todo[p])) BY <1>6 DEF Tasks
  <2>2. \A t \in Elements(Tail(todo[p])) : t \in Task /\ Rank(t) # 2
    BY <1>2, <1>3, Numbers, RankIsNat
  <2> QED BY <1>1, <1>2, <1>6, <2>1, <2>2, RankTells DEF Between
<1>8. \A w \in {"drain", "replay"} : Has(p, w)' <=> Has(p, w) BY <1>7 DEF Has
<1>9. Callback(p)' BY <1>5, <1>7, <1>8 DEF Core, Callback, Moves
<1>10. Waiting(p)'
  <2>1. \A m \in replay[p] : m.seq >= h.seq + 1 BY <1>2, <1>4, Numbers
  <2> QED BY <1>5, <1>8, <2>1 DEF Core, Waiting
<1>11. Gap(p)' BY <1>5, <1>8 DEF Core, Gap
<1>12. Delivery(p)'
  <2>1. Given(p)' = Given(p) /\ Given(p) \subseteq Nat BY <1>5, Numbers DEF Given
  <2>2. \A d \in Given(p) : d < h.seq + 1
    <3> SUFFICES ASSUME NEW d \in Given(p) PROVE d < h.seq + 1
      OBVIOUS
    <3>1. CASE d < inSeq[p] BY <1>0, <1>2, <1>4, <2>1, <3>1
    <3>2. ASSUME NEW t \in Tasks(p), t.do \in {"persist", "save"}, d <= t.seq
          PROVE  d < h.seq + 1
      <4>1. t = h BY <1>2, <1>3, <3>2, Numbers, RankTells DEF Moves
      <4> QED BY <1>2, <2>1, <3>2, <4>1
    <3> QED BY <3>1, <3>2 DEF Core, Delivery
  <2>3. inLast'[p] < inSeq'[p] BY <1>0, <1>2, <1>4, <1>5
  <2> QED BY <1>5, <2>1, <2>2, <2>3 DEF Core, Delivery
<1>13. ASSUME NEW x \in Nat, Behind(p, x) PROVE Behind(p, x)'
  <2>1. h.seq < x BY <1>1, <1>2, <1>13 DEF Behind, Moves
  <2> QED BY <1>2, <1>5, <1>7, <1>13, <2>1 DEF Behind
<1>14. inSeq'[p] >= inSeq[p] BY <1>0, <1>2, <1>4, <1>5
<1> QED BY <1>9, <1>10, <1>11, <1>12, <1>13, <1>14 DEF Onward, Core

LEMMA DrainOn ==
  ASSUME TypeOK, NEW p \in Peer, Core(p), Drain(p)
  PROVE  Onward(p, 0)
<1> DEFINE h == Head(todo[p])
           saving(s) == IF s < inSeq[p] THEN <<>> ELSE <<Do("save", s)>>
<1>1. todo[p] # <<>> /\ h.do = "drain" BY DEF Drain, Doing
<1>2. PICK s \in queue[p] :
        /\ \A x \in queue[p] : s <= x
        /\ queue' = [queue EXCEPT ![p] = queue[p] \ {s}]
        /\ delivered' = [delivered EXCEPT ![p] = Append(delivered[p], s)]
        /\ todo' = [todo EXCEPT ![p] = saving(s) \o todo[p]]
  BY DEF Drain
<1>3. /\ s \in Nat /\ inSeq[p] \in Nat
      /\ UNCHANGED <<state, inSeq, inLast, miss, last, pending, replay>>
  BY Numbers DEF Drain, protocolVars, storeVars
<1>4. /\ h \in Tasks(p) /\ h \in Task /\ Rank(h) = 3
      /\ \A t \in Tasks(p) : t \in Task /\ Rank(t) >= 3 /\ Rank(t) <= 4
      /\ todo[p] \in Seq(Task) /\ Ranked(todo[p])
  <2>1. /\ h \in Tasks(p) /\ h \in Task /\ Tasks(p) = {h} \cup Elements(Tail(todo[p]))
        /\ \A t \in Elements(Tail(todo[p])) : Rank(h) < Rank(t)
    BY <1>1, AtHand
  <2>2. Rank(h) = 3 BY <1>1, <2>1, RankTells
  <2> QED BY <2>1, <2>2, Numbers, RankIsNat DEF Core, Callback
<1>5. Between(todo[p], 3, 4) BY <1>4 DEF Between, Tasks
<1>6. /\ Between(saving(s), 2, 2)
      /\ \A t \in Elements(saving(s)) : t.do = "save" /\ t.seq = s /\ s >= inSeq[p]
      /\ s >= inSeq[p] => \E t \in Elements(saving(s)) : t.do = "save" /\ t.seq = s
  <2>1. CASE s < inSeq[p]
    <3>1. saving(s) = <<>> /\ ~(s >= inSeq[p]) BY <1>3, <2>1
    <3> HIDE DEF saving
    <3> QED BY <3>1, Single
  <2>2. CASE ~(s < inSeq[p])
    <3>1. saving(s) = <<Do("save", s)>> /\ s >= inSeq[p] BY <1>3, <2>2
    <3> HIDE DEF saving
    <3> QED BY <1>3, <3>1, Parts
  <2> QED BY <2>1, <2>2
<1> HIDE DEF h, saving
<1>7. /\ Between(saving(s) \o todo[p], 2, 4)
      /\ Elements(saving(s) \o todo[p]) = Elements(saving(s)) \cup Tasks(p)
  BY <1>5, <1>6, Joined DEF Tasks
<1>8. /\ Ranked(todo'[p]) /\ Tasks(p)' = Elements(saving(s)) \cup Tasks(p)
      /\ queue'[p] = queue[p] \ {s} /\ delivered'[p] = Append(delivered[p], s)
  <2>1. todo'[p] = saving(s) \o todo[p] BY <1>2 DEF TypeOK
  <2>2. queue'[p] = queue[p] \ {s} /\ delivered'[p] = Append(delivered[p], s)
    BY <1>2 DEF TypeOK
  <2> QED BY <1>7, <2>1, <2>2 DEF Tasks, Between
<1>9. /\ state[p] = "gap" /\ miss[p] = {} /\ replay[p] = {} /\ ~Has(p, "replay")
  BY <1>1, <1>4 DEF Core, Callback
<1>10. \A t \in Tasks(p)' : (t.do = "save" /\ t.seq = s /\ s >= inSeq[p]) \/ t.do = "drain"
  <2> SUFFICES ASSUME NEW t \in Tasks(p), t.do # "drain" PROVE FALSE
    BY <1>6, <1>8
  <2>1. t \in Task /\ Rank(t) \in {3, 4} BY <1>4, RankIsNat
  <2>2. t.do = "replay" BY <2>1, RankTells
  <2> QED BY <1>9, <2>2 DEF Has
<1>11. Has(p, "drain")' /\ ~Has(p, "replay")' BY <1>1, <1>4, <1>8, <1>10 DEF Has
<1>12. Callback(p)' BY <1>3, <1>8, <1>9, <1>10, <1>11 DEF Callback, Moves
<1>13. Waiting(p)' BY <1>3, <1>9 DEF Core, Waiting
<1>14. Gap(p)' BY <1>3, <1>9, <1>11 DEF Gap
<1>15. Delivery(p)'
  <2>1. /\ Rising(delivered[p]) /\ delivered[p] \in Seq(Nat) /\ inLast[p] < inSeq[p]
        /\ Given(p) \subseteq Nat /\ \A d \in Given(p) : d < s
    BY Numbers DEF Core, Delivery
  <2>2. /\ Rising(delivered'[p]) /\ Given(p)' = Given(p) \cup {s}
    <3>1. \A i \in DOMAIN delivered[p] : delivered[p][i] < s BY <2>1 DEF Given
    <3>2. /\ Rising(Append(delivered[p], s))
          /\ {Append(delivered[p], s)[i] : i \in DOMAIN Append(delivered[p], s)}
             = Given(p) \cup {s}
      BY <1>3, <2>1, <3>1, GivenMore DEF Given
    <3> QED BY <1>8, <3>2 DEF Given
  <2>3. \A x \in queue'[p] : s < x
    <3>1. \A x \in queue[p] : x \in Nat BY Numbers
    <3> QED BY <1>2, <1>3, <1>8, <3>1
  <2>4. \A x \in queue'[p] : \A d \in Given(p)' : d < x
    BY <1>8, <2>2, <2>3 DEF Core, Delivery
  <2>5. \A d \in Given(p) : d < inSeq[p]
    <3>1. \A t \in Tasks(p) : t.do \notin {"persist", "save"} BY <1>4, RankTells DEF Moves
    <3> QED BY <3>1 DEF Core, Delivery
  <2>6. s < inSeq[p] \/ \E t \in Tasks(p)' : t.do = "save" /\ t.seq = s
    BY <1>3, <1>6, <1>8
  <2> QED BY <1>3, <1>9, <2>1, <2>2, <2>4, <2>5, <2>6 DEF Delivery
<1>16. ASSUME NEW x \in Nat, Behind(p, x) PROVE Behind(p, x)'
  BY <1>2, <1>3, <1>8, <1>10, <1>16 DEF Behind, Moves
<1> QED BY <1>3, <1>12, <1>13, <1>14, <1>15, <1>16 DEF Onward, Core

LEMMA DrainedOn ==
  ASSUME TypeOK, NEW p \in Peer, Core(p), Drained(p)
  PROVE  Onward(p, 0)
<1> DEFINE h == Head(todo[p])
           rest == IF Unseen(p) = {} THEN <<>> ELSE <<Do("replay", 0)>>
<1>1. /\ todo[p] # <<>> /\ h.do = "drain" /\ queue[p] = {}
      /\ todo' = [todo EXCEPT ![p] = rest \o Tail(todo[p])]
      /\ state'[p] = "normal" /\ replay'[p] = Unseen(p) /\ pending'[p] = {}
      /\ UNCHANGED <<inSeq, inLast, queue, delivered>>
  BY DEF Drained, Doing, Then, TypeOK, storeVars
<1>2. /\ h \in Tasks(p) /\ h \in Task
      /\ Tasks(p) = {h} \cup Elements(Tail(todo[p]))
      /\ Between(Tail(todo[p]), Rank(h) + 1, 4)
      /\ \A t \in Elements(Tail(todo[p])) : Rank(h) < Rank(t)
  BY <1>1, AtHand
<1>3. state[p] = "gap" /\ miss[p] = {} /\ ~Has(p, "replay") BY <1>1, <1>2 DEF Core, Callback
<1>4. Elements(Tail(todo[p])) = {}
  <2>1. Rank(h) = 3 BY <1>1, <1>2, RankTells
  <2>2. \A t \in Elements(Tail(todo[p])) : t \in Task /\ Rank(t) = 4
    BY <1>2, <2>1, Numbers, RankIsNat
  <2>3. \A t \in Elements(Tail(todo[p])) : t.do = "replay" BY <2>2, RankTells
  <2> QED BY <1>2, <1>3, <2>3 DEF Has
<1>5. Tail(todo[p]) \in Seq(Task) BY <1>2 DEF Between
<1>6. /\ Between(rest, 4, 4) /\ \A t \in Elements(rest) : t.do = "replay"
      /\ Unseen(p) # {} => \E t \in Elements(rest) : t.do = "replay"
  BY Parts, Single
<1> HIDE DEF h, rest
<1>7. todo'[p] = rest /\ Ranked(rest) /\ Tasks(p)' = Elements(rest)
  <2>1. rest \in Seq(Task) /\ Ranked(rest) BY <1>6 DEF Between
  <2>2. rest \o Tail(todo[p]) = rest BY <1>4, <1>5, <2>1, NoTasks
  <2>3. todo'[p] = rest \o Tail(todo[p]) BY <1>1 DEF TypeOK
  <2> QED BY <2>1, <2>2, <2>3 DEF Tasks
<1>8. Unseen(p) # {} => Has(p, "replay")' BY <1>6, <1>7 DEF Has
<1>9. Callback(p)' BY <1>6, <1>7 DEF Callback, Moves
<1>10. Waiting(p)' BY <1>1, <1>8 DEF Unseen, Core, Waiting, Distinct
<1>11. Gap(p)' BY <1>1 DEF Gap
<1>12. Delivery(p)'
  <2>1. Given(p)' = Given(p) /\ Given(p) \subseteq Nat BY <1>1, Numbers DEF Given
  <2>2. \A d \in Given(p) : d < inSeq[p]
    <3>1. \A t \in Tasks(p) : t.do \notin {"persist", "save"} BY <1>1, <1>2, <1>4
    <3> QED BY <3>1 DEF Core, Delivery
  <2> QED BY <1>1, <2>1, <2>2 DEF Core, Delivery
<1>13. ASSUME NEW x \in Nat, Behind(p, x) PROVE Behind(p, x)'
  BY <1>1, <1>6, <1>7, <1>13 DEF Behind, Moves, Unseen
<1> QED BY <1>1, <1>9, <1>10, <1>11, <1>12, <1>13, Numbers DEF Onward, Core

(* The message that is replayed.                                           *)
LEMMA ReplayTakes ==
  ASSUME TypeOK, NEW p \in Peer, Core(p), Replay(p)
  PROVE  \E m \in replay[p] : \E left, rest :
           /\ Taken(p, m, left, rest) /\ ~m.dup /\ m.type # "GapFill"
           /\ \/ state[p] = "normal" /\ OnMsgNormal(p, m, net, left, rest)
              \/ state[p] = "gap" /\ OnMsgGap(p, m, net, left, rest)
<1> DEFINE h == Head(todo[p])
           again(m) == IF replay[p] \ {m} = {} THEN <<>> ELSE <<Do("replay", 0)>>
<1>1. todo[p] # <<>> /\ h.do = "replay" BY DEF Replay, Doing
<1>2. PICK m \in replay[p] :
        /\ \A x \in replay[p] : m.seq <= x.seq
        /\ \/ /\ state[p] = "normal"
              /\ OnMsgNormal(p, m, net, replay[p] \ {m}, again(m) \o Tail(todo[p]))
           \/ /\ state[p] = "gap"
              /\ OnMsgGap(p, m, net, replay[p] \ {m}, again(m) \o Tail(todo[p]))
  BY DEF Replay
<1>3. /\ h \in Tasks(p) /\ h \in Task
      /\ Tasks(p) = {h} \cup Elements(Tail(todo[p]))
      /\ Between(Tail(todo[p]), Rank(h) + 1, 4)
      /\ \A t \in Elements(Tail(todo[p])) : Rank(h) < Rank(t)
  BY <1>1, AtHand
<1>4. Elements(Tail(todo[p])) = {}
  <2>1. Rank(h) = 4 BY <1>1, <1>3, RankTells
  <2> QED BY <1>3, <2>1, RankIsNat
<1>5. Tail(todo[p]) \in Seq(Task) BY <1>3 DEF Between
<1>6. again(m) \o Tail(todo[p]) = again(m)
  <2>1. again(m) \in Seq(Task) BY Parts, Single DEF Between
  <2> HIDE DEF again
  <2> QED BY <1>4, <1>5, <2>1, NoTasks
<1>7. /\ m \in Message /\ m.seq \in Nat /\ ~m.dup /\ m.type # "GapFill" /\ inSeq[p] <= m.seq
      /\ \A x \in pending[p] : x.seq < m.seq
  <2>1. m.seq >= inSeq[p] /\ m.seq \in Nat /\ inSeq[p] \in Nat
    BY Numbers DEF Core, Waiting
  <2> QED BY <2>1, Numbers DEF Core, Waiting
<1>8. \A x \in replay[p] \ {m} : m.seq < x.seq
  <2>1. \A x \in replay[p] : x.seq \in Nat /\ m.seq <= x.seq /\ (x.seq = m.seq => x = m)
    BY <1>2, Numbers DEF Core, Waiting, Distinct
  <2> QED BY <1>7, <2>1
<1>9. \A t \in Tasks(p) : t.do = "replay" BY <1>1, <1>3, <1>4
<1>10. Taken(p, m, replay[p] \ {m}, again(m))
  <2>1. \A d \in Given(p) : d < inSeq[p] BY <1>9 DEF Core, Delivery
  <2>2. state[p] = "gap" => miss[p] # {} BY <1>9 DEF Core, Gap, Has
  <2> QED BY <1>7, <1>8, <2>1, <2>2 DEF Taken
<1> QED BY <1>2, <1>6, <1>7, <1>10

LEMMA ReplayOn ==
  ASSUME TypeOK, NEW p \in Peer, Core(p), Replay(p)
  PROVE  Onward(p, 0)
<1>1. PICK m \in replay[p] : \E left, rest :
        /\ Taken(p, m, left, rest) /\ ~m.dup /\ m.type # "GapFill"
        /\ \/ state[p] = "normal" /\ OnMsgNormal(p, m, net, left, rest)
           \/ state[p] = "gap" /\ OnMsgGap(p, m, net, left, rest)
  BY ReplayTakes
<1> PICK left, rest :
      /\ Taken(p, m, left, rest) /\ ~m.dup /\ m.type # "GapFill"
      /\ \/ state[p] = "normal" /\ OnMsgNormal(p, m, net, left, rest)
         \/ state[p] = "gap" /\ OnMsgGap(p, m, net, left, rest)
  BY <1>1
<1>2. Onward(p, Reach(m)) BY OnMsgNormalOn, OnMsgGapOn
<1>3. ASSUME NEW x \in Nat, Behind(p, x) PROVE Reach(m) <= x
  <2>1. m.seq < x /\ m.seq \in Nat BY <1>3, Numbers DEF Behind
  <2> QED BY <1>1, <2>1 DEF Reach
<1> QED BY <1>2, <1>3 DEF Onward

-----------------------------------------------------------------------------
(* A message from the connection.                                          *)
LEMMA LogonOn ==
  ASSUME TypeOK, NEW p \in Peer, Core(p), NEW c, NEW n, NEW reply, NEW seq \in Nat,
         todo[p] = <<>>, state[p] # "gap", inSeq[p] <= seq,
         LogonInSequence(p, c, n, reply, seq) \/ LogonOutOfSequence(p, c, n, reply, seq)
  PROVE  Onward(p, seq + 1)
<1>1. Tasks(p) = {} BY Single DEF Tasks
<1>2. /\ replay[p] = {} /\ queue[p] = {} /\ pending[p] = {}
      /\ \A d \in Given(p) : d < inSeq[p]
  BY <1>1 DEF Core, Waiting, Gap, Delivery, Has
<1>3. CASE LogonOutOfSequence(p, c, n, reply, seq)
  <2>1. StartGap(p, seq) /\ UNCHANGED <<inLast, delivered, todo, replay>>
    BY <1>3 DEF LogonOutOfSequence, callVars
  <2>2. Tasks(p)' = {} /\ Ranked(todo'[p])
    BY <1>1, <2>1 DEF Tasks, Core, Callback
  <2> QED BY <1>2, <2>1, <2>2, StartGapOn
<1>4. CASE LogonInSequence(p, c, n, reply, seq)
  <2>1. /\ seq = inSeq[p] /\ state'[p] = "normal" /\ inSeq'[p] = seq + 1
        /\ inLast'[p] = (IF seq > inLast[p] THEN seq ELSE inLast[p])
        /\ UNCHANGED <<miss, last, queue, pending, replay, todo, delivered>>
    BY <1>4 DEF LogonInSequence, PersistAndAdvance, TypeOK, gapVars, callVars
  <2>2. Tasks(p)' = {} /\ Ranked(todo'[p]) BY <1>1, <2>1 DEF Tasks, Core, Callback
  <2>3. Callback(p)' /\ Waiting(p)' /\ Gap(p)'
    BY <1>2, <2>1, <2>2 DEF Callback, Waiting, Gap, Distinct
  <2>4. Delivery(p)'
    <3>1. /\ inLast[p] \in Nat /\ inSeq[p] \in Nat /\ inLast[p] < inSeq[p]
          /\ Given(p) \subseteq Nat
      BY Numbers DEF Core, Delivery
    <3>2. inLast'[p] < inSeq'[p] BY <2>1, <3>1
    <3>3. Given(p)' = Given(p) BY <2>1 DEF Given
    <3>4. \A d \in Given(p) : d < inSeq'[p] BY <1>2, <2>1, <3>1
    <3> QED BY <1>2, <2>1, <3>2, <3>3, <3>4 DEF Core, Delivery
  <2>5. ASSUME NEW x \in Nat, Behind(p, x), seq + 1 <= x PROVE Behind(p, x)'
    BY <1>2, <2>1, <2>2, <2>5 DEF Behind
  <2> QED BY <2>1, <2>3, <2>4, <2>5 DEF Onward, Core
<1> QED BY <1>3, <1>4

LEMMA DeliverTakes ==
  ASSUME TypeOK, NEW p \in Peer, Core(p), Deliver(p),
         ~Head(net[p]).dup => Behind(p, Head(net[p]).seq)
  PROVE  Taken(p, Head(net[p]), {}, <<>>) /\ replay[p] = {}
<1>1. net[p] # <<>> /\ todo[p] = <<>> BY DEF Deliver, Resting
<1>2. Head(net[p]) \in Message BY <1>1, ReceiveType
<1>3. Tasks(p) = {} BY <1>1, Single DEF Tasks
<1>4. /\ replay[p] = {} /\ \A d \in Given(p) : d < inSeq[p]
      /\ state[p] = "gap" => miss[p] # {}
  BY <1>3 DEF Core, Waiting, Gap, Delivery, Has
<1> QED BY <1>2, <1>4 DEF Taken, Behind

LEMMA DeliverOn ==
  ASSUME TypeOK, NEW p \in Peer, Core(p), Deliver(p),
         ~Head(net[p]).dup => Behind(p, Head(net[p]).seq)
  PROVE  Onward(p, Reach(Head(net[p])))
<1> DEFINE m == Head(net[p])
           n == [net EXCEPT ![p] = Tail(@)]
<1>1. net[p] # <<>> /\ todo[p] = <<>> BY DEF Deliver, Resting
<1>2. m \in Message /\ m.seq \in Nat /\ m.arg \in Nat BY <1>1, ReceiveType DEF Message
<1>3. Taken(p, m, {}, <<>>) BY DeliverTakes
<1>4. \A d \in Given(p) : d < inSeq[p] BY <1>3 DEF Taken
<1>5. \/ state[p] = "awaitingLogon" /\ OnMsgAwaitingLogon(p, m, n)
      \/ state[p] = "normal" /\ OnMsgNormal(p, m, n, {}, <<>>)
      \/ state[p] = "gap" /\ OnMsgGap(p, m, n, {}, <<>>)
      \/ state[p] = "awaitingLogout" /\ OnMsgAwaitingLogout(p, m, n)
  BY DEF Deliver
<1>6. ~m.dup => Behind(p, m.seq) OBVIOUS
<1> SUFFICES Onward(p, Reach(m))
  OBVIOUS
<1> HIDE DEF m, n
<1>8. Reach(m) \in Nat BY <1>2 DEF Reach
<1>9. CASE state[p] = "awaitingLogon" /\ OnMsgAwaitingLogon(p, m, n)
  <2>1. CASE Raise(p, n)
    <3>1. Die(p, n) /\ UNCHANGED <<inSeq, inLast, delivered>> BY <2>1 DEF Raise, storeVars
    <3>2. inSeq'[p] \in Nat /\ inSeq'[p] >= inSeq[p] /\ inSeq'[p] = inSeq[p]
      BY <3>1, Numbers
    <3> QED BY <1>4, <1>8, <3>1, <3>2, DieOn
  <2>2. CASE /\ m.type = "Logon" /\ ~m.dup
             /\ \/ LogonInSequence(p, conn[p], n, <<>>, m.seq)
                \/ LogonOutOfSequence(p, conn[p], n, <<>>, m.seq)
    <3>1. inSeq[p] <= m.seq /\ Reach(m) = m.seq + 1 BY <1>6, <2>2 DEF Behind, Reach
    <3>2. Onward(p, m.seq + 1) BY <1>1, <1>2, <1>9, <2>2, <3>1, LogonOn
    <3> QED BY <3>1, <3>2
  <2> QED BY <1>9, <2>1, <2>2 DEF OnMsgAwaitingLogon
<1>10. CASE state[p] = "awaitingLogout" /\ OnMsgAwaitingLogout(p, m, n)
  <2>1. UNCHANGED <<state, inSeq, inLast, miss, last, queue, pending, replay, todo, delivered>>
    BY <1>10 DEF OnMsgAwaitingLogout, storeVars, gapVars, callVars
  <2>2. Core(p)' BY <2>1 DEF Core, Callback, Waiting, Gap, Delivery, Tasks, Has, Given
  <2>3. \A x \in Nat : Behind(p, x) => Behind(p, x)' BY <2>1 DEF Behind, Tasks
  <2> QED BY <2>1, <2>2, <2>3, Numbers DEF Onward
<1> QED BY <1>3, <1>5, <1>9, <1>10, OnMsgNormalOn, OnMsgGapOn

-----------------------------------------------------------------------------
(* The other side and the wire.                                            *)
Same(q) ==
  /\ state'[q] = state[q] /\ inSeq'[q] = inSeq[q] /\ inLast'[q] = inLast[q]
  /\ miss'[q] = miss[q] /\ last'[q] = last[q] /\ queue'[q] = queue[q]
  /\ pending'[q] = pending[q] /\ replay'[q] = replay[q] /\ todo'[q] = todo[q]
  /\ delivered'[q] = delivered[q]

(* Messages that are no duplicates come in the order of the numbers, and   *)
(* nothing in front of one reaches beyond it.                              *)
Line(s) ==
  \A j \in DOMAIN s : ~s[j].dup => \A i \in 1..j - 1 : Reach(s[i]) <= s[j].seq

(* What p writes is new or a duplicate.                                    *)
New(p, k) ==
  /\ k \in Seq(Message) /\ Line(k)
  /\ \A m \in Elements(k) : ~m.dup => m.seq > Len(outLog[p])

Sends(p, c, n) ==
  \/ net'[Other(p)] = n[Other(p)]
  \/ /\ c # 0 /\ c = conn[Other(p)]
     /\ \E k : New(p, k) /\ net'[Other(p)] = n[Other(p)] \o k

Gone(p) ==
  /\ state'[p] = "loggedOut" /\ conn'[p] = 0 /\ todo'[p] = <<>> /\ replay'[p] = {}
  /\ net'[p] = <<>>

(* A step of p, n as in the handlers.                                      *)
Around(p, n) ==
  /\ Same(Other(p)) /\ conn'[Other(p)] = conn[Other(p)]
  /\ \/ Gone(p)
     \/ /\ conn'[p] = conn[p] /\ net'[p] = n[p]
        /\ state'[p] = "loggedOut" => Same(p)
  /\ Sends(p, conn[p], n)

LEMMA SameKeeps ==
  ASSUME NEW q, Same(q)
  PROVE  /\ Core(q) => Core(q)'
         /\ \A x : Behind(q, x) => Behind(q, x)'
BY DEF Same, Core, Callback, Waiting, Gap, Delivery, Behind, Tasks, Has, Given

LEMMA NumberedNew ==
  ASSUME TypeOK, NEW p \in Peer, NEW batch \in Seq(Written)
  PROVE  New(p, Numbered(p, batch))
<1> DEFINE k == Numbered(p, batch)
<1>1. Len(outLog[p]) \in Nat BY LenProperties DEF TypeOK
<1>2. Len(batch) \in Nat /\ DOMAIN batch = 1..Len(batch) BY LenProperties
<1>3. \A i \in 1..Len(batch) : batch[i].type # "GapFill"
  <2>1. \A i \in 1..Len(batch) : batch[i] \in Written BY ElementOfSeq
  <2> QED BY <2>1 DEF Written, Items
<1>4. k \in Seq(Message)
  <2>1. outLog \in Logs BY DEF TypeOK, Logs
  <2> QED BY <2>1, NumberedType, WrittenAreItems
<1>5. /\ DOMAIN k = 1..Len(batch)
      /\ \A i \in 1..Len(batch) : /\ k[i].seq = Len(outLog[p]) + i
                                  /\ k[i].type = batch[i].type
  BY <1>2 DEF Numbered
<1> HIDE DEF k
<1>6. \A i \in 1..Len(batch) : Reach(k[i]) = Len(outLog[p]) + i + 1
  BY <1>3, <1>5 DEF Reach
<1>7. Line(k)
  <2> SUFFICES ASSUME NEW j \in 1..Len(batch), NEW i \in 1..j - 1
               PROVE  Reach(k[i]) <= k[j].seq
    BY <1>5 DEF Line
  <2> QED BY <1>1, <1>2, <1>5, <1>6
<1>8. \A m \in Elements(k) : m.seq > Len(outLog[p]) BY <1>1, <1>5 DEF Elements
<1> QED BY <1>4, <1>7, <1>8 DEF New, k

LEMMA WireSends ==
  ASSUME NEW n \in Nets, NEW p \in Peer, NEW c, NEW k, New(p, k),
         net' = Wire(n, p, c, k)
  PROVE  Sends(p, c, n) /\ net'[p] = n[p]
<1>1. Other(p) \in Peer /\ Other(p) # p BY OtherOfOther
<1> QED BY <1>1 DEF Wire, Sends, Nets

LEMMA EmitSends ==
  ASSUME TypeOK, NEW n \in Nets, NEW p \in Peer, NEW c, NEW batch \in Seq(Written),
         Emit(p, c, n, batch)
  PROVE  Sends(p, c, n) /\ net'[p] = n[p]
BY NumberedNew, WireSends DEF Emit

LEMMA Batch ==
  ASSUME TypeOK, NEW p \in Peer
  PROVE  /\ <<LogoutReply>> \in Seq(Written) /\ <<ResendFrom(inSeq[p])>> \in Seq(Written)
         /\ <<ResendFrom(inSeq[p]), LogoutReply>> \in Seq(Written)
         /\ <<Admin("Logon")>> \in Seq(Written) /\ <<Admin("Logout")>> \in Seq(Written)
         /\ <<Admin("Heartbeat")>> \in Seq(Written)
         /\ <<Item("App", 0, "app")>> \in Seq(Written)
         /\ \A r \in Seq(Written) : /\ r \o <<Admin("Heartbeat")>> \in Seq(Written)
                                    /\ r \o <<ResendFrom(inSeq[p])>> \in Seq(Written)
<1>1. /\ LogoutReply \in Written /\ ResendFrom(inSeq[p]) \in Written
      /\ Admin("Logon") \in Written /\ Admin("Logout") \in Written
      /\ Admin("Heartbeat") \in Written /\ Item("App", 0, "app") \in Written
  BY WrittenTypes, Numbers DEF MsgType
<1> QED BY <1>1, ConcatProperties

LEMMA DieAround ==
  ASSUME TypeOK, NEW p \in Peer, NEW n \in Nets, Die(p, n),
         UNCHANGED <<inLast, delivered>>, inSeq'[Other(p)] = inSeq[Other(p)]
  PROVE  Around(p, n) /\ Gone(p)
<1>1. Other(p) \in Peer /\ Other(p) # p BY OtherOfOther
<1>2. Gone(p) BY DEF Die, Gone, TypeOK, Nets
<1>3. /\ Same(Other(p)) /\ conn'[Other(p)] = conn[Other(p)]
      /\ net'[Other(p)] = n[Other(p)]
  BY <1>1 DEF Die, Same, TypeOK, Nets
<1> QED BY <1>2, <1>3 DEF Around, Sends

LEMMA InSequenceAround ==
  ASSUME TypeOK, NEW p \in Peer, state[p] # "loggedOut", NEW m, NEW n \in Nets,
         NEW left, NEW rest, InSequence(p, m, n, rest), replay' = [replay EXCEPT ![p] = left]
  PROVE  Around(p, n)
<1>1. Other(p) \in Peer /\ Other(p) # p BY OtherOfOther
<1>2. Same(Other(p)) /\ conn' = conn /\ state' = state
  BY <1>1 DEF InSequence, Same, TypeOK, protocolVars, storeVars, gapVars
<1>3. net' = n \/ Emit(p, conn[p], n, <<LogoutReply>>) BY DEF InSequence
<1>4. Sends(p, conn[p], n) /\ net'[p] = n[p]
  BY <1>3, Batch, EmitSends DEF Sends
<1> QED BY <1>2, <1>4 DEF Around

LEMMA StartGapAround ==
  ASSUME TypeOK, NEW p \in Peer, NEW n \in Nets, NEW seq, StartGap(p, seq),
         NEW batch \in Seq(Written), Emit(p, conn[p], n, batch), conn' = conn,
         replay'[Other(p)] = replay[Other(p)], todo'[Other(p)] = todo[Other(p)],
         UNCHANGED <<inLast, delivered>>
  PROVE  Around(p, n)
<1>1. Other(p) \in Peer /\ Other(p) # p BY OtherOfOther
<1>2. Same(Other(p)) /\ state'[p] = "gap"
  BY <1>1 DEF StartGap, Same, TypeOK
<1>3. Sends(p, conn[p], n) /\ net'[p] = n[p] BY EmitSends
<1> QED BY <1>2, <1>3 DEF Around

LEMMA OutOfSequenceAround ==
  ASSUME TypeOK, NEW p \in Peer, state[p] # "loggedOut", NEW m, NEW n \in Nets,
         NEW left, NEW rest, OutOfSequence(p, m, n, rest), replay' = [replay EXCEPT ![p] = left]
  PROVE  Around(p, n)
<1>1. Other(p) \in Peer /\ Other(p) # p BY OtherOfOther
<1>2. replay'[Other(p)] = replay[Other(p)] /\ todo'[Other(p)] = todo[Other(p)]
  BY <1>1 DEF TypeOK, OutOfSequence
<1>3. CASE m.type = "ResendRequest"
  <2>1. /\ net' = n /\ conn' = conn /\ state' = state /\ Same(Other(p))
    BY <1>2, <1>3 DEF OutOfSequence, Same, protocolVars, storeVars, gapVars
  <2> QED BY <2>1 DEF Around, Sends
<1>4. CASE m.type # "ResendRequest"
  <2>1. /\ StartGap(p, m.seq) /\ UNCHANGED <<conn, inLast, delivered>>
        /\ \/ Emit(p, conn[p], n, <<ResendFrom(inSeq[p])>>)
           \/ Emit(p, conn[p], n, <<ResendFrom(inSeq[p]), LogoutReply>>)
    BY <1>4 DEF OutOfSequence
  <2> QED BY <1>2, <2>1, Batch, StartGapAround
<1> QED BY <1>3, <1>4

LEMMA OnMsgNormalAround ==
  ASSUME TypeOK, NEW p \in Peer, state[p] # "loggedOut", NEW m, NEW n \in Nets,
         NEW left, NEW rest, OnMsgNormal(p, m, n, left, rest)
  PROVE  Around(p, n)
<1>1. CASE Raise(p, n) BY <1>1, DieAround DEF Raise, storeVars
<1>2. CASE ~Raise(p, n)
  BY <1>2, InSequenceAround, OutOfSequenceAround DEF OnMsgNormal
<1> QED BY <1>1, <1>2

LEMMA OnMsgGapAround ==
  ASSUME TypeOK, NEW p \in Peer, state[p] # "loggedOut", NEW m, NEW n \in Nets,
         NEW left, NEW rest, OnMsgGap(p, m, n, left, rest)
  PROVE  Around(p, n)
<1>1. Other(p) \in Peer /\ Other(p) # p BY OtherOfOther
<1>2. CASE OnGapFill(p, m, n, left, rest)
  <2>1. inSeq'[Other(p)] = inSeq[Other(p)] /\ UNCHANGED <<inLast, delivered>>
    BY <1>1, <1>2 DEF OnGapFill, TypeOK
  <2>2. CASE Die(p, n) BY <2>1, <2>2, DieAround
  <2>3. CASE ~Die(p, n)
    <3>1. Same(Other(p)) /\ net' = n /\ conn' = conn /\ state' = state
      BY <1>1, <1>2, <2>1, <2>3 DEF OnGapFill, Same, TypeOK, protocolVars
    <3> QED BY <3>1 DEF Around, Sends
  <2> QED BY <2>2, <2>3
<1>3. CASE ~OnGapFill(p, m, n, left, rest)
  <2>1. Same(Other(p)) /\ net' = n /\ conn' = conn /\ state' = state
    BY <1>1, <1>3 DEF OnMsgGap, Same, TypeOK, protocolVars, storeVars, gapVars
  <2> QED BY <2>1 DEF Around, Sends
<1> QED BY <1>2, <1>3

LEMMA DeliverAround ==
  ASSUME TypeOK, NEW p \in Peer, state[p] # "loggedOut", Deliver(p)
  PROVE  Around(p, [net EXCEPT ![p] = Tail(@)])
<1> DEFINE m == Head(net[p])
           n == [net EXCEPT ![p] = Tail(@)]
<1>1. n \in Nets BY ReceiveType DEF Deliver
<1>2. \/ OnMsgAwaitingLogon(p, m, n)
      \/ OnMsgNormal(p, m, n, {}, <<>>)
      \/ OnMsgGap(p, m, n, {}, <<>>)
      \/ OnMsgAwaitingLogout(p, m, n)
  BY DEF Deliver
<1> SUFFICES Around(p, n)
  OBVIOUS
<1> HIDE DEF m, n
<1>0. Other(p) \in Peer /\ Other(p) # p BY OtherOfOther
<1>3. CASE OnMsgAwaitingLogon(p, m, n)
  <2>0. <<>> \in Seq(Written) OBVIOUS
  <2>1. CASE Raise(p, n) BY <1>1, <2>1, DieAround DEF Raise, storeVars
  <2>2. CASE LogonInSequence(p, conn[p], n, <<>>, m.seq) /\ UNCHANGED conn
    <3>1. Same(Other(p)) /\ state'[p] = "normal"
      BY <1>0, <2>2 DEF LogonInSequence, PersistAndAdvance, Same, TypeOK, gapVars, callVars
    <3>2. Sends(p, conn[p], n) /\ net'[p] = n[p]
      BY <1>1, <2>0, <2>2, Batch, EmitSends DEF LogonInSequence
    <3> QED BY <2>2, <3>1, <3>2 DEF Around
  <2>3. CASE LogonOutOfSequence(p, conn[p], n, <<>>, m.seq) /\ UNCHANGED conn
    <3>1. /\ StartGap(p, m.seq) /\ Emit(p, conn[p], n, <<>> \o <<ResendFrom(inSeq[p])>>)
          /\ UNCHANGED <<inLast, replay, todo, delivered>>
      BY <2>3 DEF LogonOutOfSequence, callVars
    <3>2. <<>> \o <<ResendFrom(inSeq[p])>> \in Seq(Written) BY <2>0, Batch
    <3> QED BY <1>1, <2>3, <3>1, <3>2, StartGapAround
  <2> QED BY <1>3, <2>1, <2>2, <2>3 DEF OnMsgAwaitingLogon
<1>4. CASE OnMsgAwaitingLogout(p, m, n)
  <2>1. Same(Other(p)) /\ net' = n /\ conn' = conn /\ state' = state
    BY <1>4 DEF OnMsgAwaitingLogout, Same, storeVars, gapVars, callVars
  <2> QED BY <2>1 DEF Around, Sends
<1> QED BY <1>1, <1>2, <1>3, <1>4, OnMsgNormalAround, OnMsgGapAround

LEMMA PlayAround ==
  ASSUME TypeOK, NEW p \in Peer, state[p] # "loggedOut", Play(p)
  PROVE  Around(p, net)
<1> DEFINE i == Head(todo[p]).seq
           end == Head(todo[p]).to
<1>1. i \in Nat /\ end \in Nat BY TaskAtHand DEF Play, Doing
<1>2. PICK j \in LastOfItem(p, i, end) :
        /\ net' = Wire(net, p, conn[p], <<ResentItem(p, i, j)>>)
        /\ todo' = [todo EXCEPT ![p] = Playback(j + 1, end) \o Tail(todo[p])]
  BY DEF Play, Then
<1> HIDE DEF i, end
<1> DEFINE r == ResentItem(p, i, j)
<1>3. j \in Nat BY <1>1 DEF LastOfItem
<1>4. r \in Message /\ r.dup BY <1>1, <1>3 DEF ResentItem, Message, MsgType
<1> HIDE DEF r
<1>5. New(p, <<r>>)
  <2>1. <<r>> \in Seq(Message) /\ DOMAIN <<r>> = {1} /\ <<r>>[1] = r BY <1>4
  <2> QED BY <1>4, <2>1 DEF New, Line, Elements
<1>6. net \in Nets BY DEF TypeOK, Nets
<1>7. Sends(p, conn[p], net) /\ net'[p] = net[p]
  BY <1>2, <1>5, <1>6, WireSends DEF r
<1>8. UNCHANGED <<protocolVars, storeVars, gapVars, replay, delivered>> BY DEF Play
<1>9. todo'[Other(p)] = todo[Other(p)] BY <1>2, OtherOfOther DEF TypeOK
<1>10. Same(Other(p)) BY <1>8, <1>9 DEF Same, protocolVars, storeVars, gapVars
<1> QED BY <1>7, <1>8, <1>10 DEF Around, protocolVars

LEMMA ContinueAround ==
  ASSUME TypeOK, NEW p \in Peer, Core(p), state[p] # "loggedOut", Continue(p)
  PROVE  Around(p, net)
<1>0. Other(p) \in Peer /\ Other(p) # p /\ net \in Nets
  BY OtherOfOther DEF TypeOK, Nets
<1>1. CASE Open(p)
  <2>1. /\ StartGap(p, Head(todo[p]).seq)
        /\ Emit(p, conn[p], net, <<ResendFrom(inSeq[p])>>)
        /\ todo'[Other(p)] = todo[Other(p)]
        /\ UNCHANGED <<conn, inLast, replay, delivered>>
    BY <1>0, <1>1 DEF Open, Then, TypeOK
  <2> QED BY <1>0, <2>1, Batch, StartGapAround
<1>2. CASE Persist(p)
  <2>1. CASE Raise(p, net) BY <1>0, <2>1, DieAround DEF Raise, storeVars
  <2>2. CASE ~Raise(p, net)
    <3>1. Same(Other(p)) /\ net' = net /\ conn' = conn /\ state' = state
      BY <1>0, <1>2, <2>2
         DEF Persist, PersistAndAdvance, Then, Same, TypeOK, protocolVars, gapVars
    <3> QED BY <3>1 DEF Around, Sends
  <2> QED BY <2>1, <2>2
<1>3. CASE Drain(p)
  <2>1. Same(Other(p)) /\ net' = net /\ conn' = conn /\ state' = state
    BY <1>0, <1>3 DEF Drain, Same, TypeOK, protocolVars, storeVars
  <2> QED BY <2>1 DEF Around, Sends
<1>4. CASE Drained(p)
  <2>1. Same(Other(p)) /\ net' = net /\ conn' = conn /\ state'[p] = "normal"
    BY <1>0, <1>4 DEF Drained, Then, Same, TypeOK, storeVars
  <2> QED BY <2>1 DEF Around, Sends
<1>5. CASE Replay(p)
  BY <1>0, <1>5, OnMsgNormalAround, OnMsgGapAround DEF Replay
<1> QED BY <1>1, <1>2, <1>3, <1>4, <1>5, PlayAround DEF Continue

LEMMA ContinueOn ==
  ASSUME TypeOK, NEW p \in Peer, Core(p), Continue(p)
  PROVE  Onward(p, 0)
BY PlayOn, OpenOn, PersistOn, DrainOn, DrainedOn, ReplayOn DEF Continue

(* What happens to p between its callbacks.                                *)
LEMMA RestingOn ==
  ASSUME TypeOK, NEW p \in Peer, Core(p), Resting(p),
         \/ Die(p, net) /\ UNCHANGED <<storeVars, delivered>>
         \/ /\ UNCHANGED <<conn, inSeq, inLast, gapVars, callVars, delivered>>
            /\ \/ state' = state
               \/ state[p] = "normal" /\ state' = [state EXCEPT ![p] = "awaitingLogout"]
            /\ net' = net \/ \E batch \in Seq(Written) : Emit(p, conn[p], net, batch)
  PROVE  Onward(p, 0) /\ Around(p, net)
<1>0. net \in Nets /\ Other(p) \in Peer /\ Other(p) # p BY OtherOfOther DEF TypeOK, Nets
<1>1. CASE Die(p, net) /\ UNCHANGED <<storeVars, delivered>>
  <2>1. UNCHANGED <<inSeq, inLast, delivered>> BY <1>1 DEF storeVars
  <2>2. \A d \in Given(p) : d < inSeq[p]
    <3>1. Tasks(p) = {} BY Single DEF Tasks, Resting
    <3> QED BY <3>1 DEF Core, Delivery
  <2>3. inSeq'[p] \in Nat /\ inSeq'[p] >= inSeq[p] /\ inSeq'[p] = inSeq[p]
    BY <2>1, Numbers
  <2> QED BY <1>0, <1>1, <2>1, <2>2, <2>3, DieOn, DieAround
<1>2. CASE /\ UNCHANGED <<conn, inSeq, inLast, gapVars, callVars, delivered>>
           /\ \/ state' = state
              \/ state[p] = "normal" /\ state' = [state EXCEPT ![p] = "awaitingLogout"]
           /\ net' = net \/ \E batch \in Seq(Written) : Emit(p, conn[p], net, batch)
  <2>1. Same(Other(p)) BY <1>0, <1>2 DEF Same, TypeOK, gapVars, callVars
  <2>2. /\ state'[p] = state[p] \/ (state[p] = "normal" /\ state'[p] = "awaitingLogout")
        /\ UNCHANGED <<inSeq, inLast, miss, last, queue, pending, replay, todo, delivered>>
    BY <1>2 DEF TypeOK, gapVars, callVars
  <2>3. Sends(p, conn[p], net) /\ net'[p] = net[p]
    BY <1>0, <1>2, EmitSends DEF Sends
  <2>4. Around(p, net) BY <1>2, <2>1, <2>2, <2>3 DEF Around, Same
  <2>5. Core(p)'
    <3>1. Tasks(p) = {} BY Single DEF Tasks, Resting
    <3> QED BY <2>2, <3>1 DEF Core, Callback, Waiting, Gap, Delivery, Tasks, Has, Given
  <2>6. \A x \in Nat : Behind(p, x) => Behind(p, x)' BY <2>2 DEF Behind, Tasks
  <2> QED BY <2>2, <2>4, <2>5, <2>6, Numbers DEF Onward
<1> QED BY <1>1, <1>2

-----------------------------------------------------------------------------
(* The inductive invariant.                                                *)
FreshAhead(p) == \A m \in Elements(net[p]) : ~m.dup => Behind(p, m.seq)

Idle(p) ==
  state[p] = "loggedOut" =>
    net[p] = <<>> /\ conn[p] = 0 /\ todo[p] = <<>> /\ replay[p] = {}

HelloAhead ==
  \A h \in hello : h.conn = conn[Initiator] =>
    Behind(Acceptor, h.seq) /\ \A m \in Elements(net[Acceptor]) : Reach(m) <= h.seq

Connections ==
  /\ \A p \in Peer : conn[p] <= used["connect"]
  /\ \A h \in hello : h.conn <= used["connect"] /\ h.conn # conn[Acceptor] /\ h.conn # 0
  /\ \A h, g \in hello : h.conn = g.conn => h = g

Ordered ==
  /\ \A p \in Peer : Core(p) /\ Line(net[p]) /\ FreshAhead(p) /\ Idle(p)
  /\ HelloAhead /\ Connections

(* Neither a restart nor a late Logon so far.                              *)
Calm == used["late"] = 0 /\ NoRestart

OInv == Calm => Ordered

LEMMA LineLess ==
  ASSUME NEW s \in Seq(Message), s # <<>>, Line(s)
  PROVE  /\ Line(Tail(s)) /\ Elements(Tail(s)) \subseteq Elements(s)
         /\ Head(s) \in Elements(s)
         /\ \A m \in Elements(Tail(s)) : ~m.dup => Reach(Head(s)) <= m.seq
<1>1. /\ Len(s) \in Nat /\ DOMAIN s = 1..Len(s) /\ Len(s) >= 1
      /\ Head(s) = s[1] /\ Tail(s) \in Seq(Message) /\ Len(Tail(s)) = Len(s) - 1
      /\ \A i \in 1..Len(s) - 1 : Tail(s)[i] = s[i + 1]
  BY LenProperties, HeadTailProperties, EmptySeq
<1>2. DOMAIN Tail(s) = 1..Len(s) - 1 BY <1>1, LenProperties
<1>3. \A i \in DOMAIN Tail(s) : i + 1 \in DOMAIN s /\ Tail(s)[i] = s[i + 1]
  BY <1>1, <1>2
<1>4. Line(Tail(s))
  <2> SUFFICES ASSUME NEW j \in DOMAIN Tail(s), ~Tail(s)[j].dup, NEW i \in 1..j - 1
               PROVE  Reach(Tail(s)[i]) <= Tail(s)[j].seq
    BY DEF Line
  <2>1. i \in DOMAIN Tail(s) /\ i + 1 \in 1..(j + 1) - 1 BY <1>1, <1>2
  <2> QED BY <1>3, <2>1 DEF Line
<1>5. ASSUME NEW j \in DOMAIN Tail(s), ~Tail(s)[j].dup
      PROVE  Reach(Head(s)) <= Tail(s)[j].seq
  <2>1. 1 \in 1..(j + 1) - 1 BY <1>2
  <2> QED BY <1>1, <1>3, <1>5, <2>1 DEF Line
<1>6. 1 \in DOMAIN s BY <1>1
<1> QED BY <1>1, <1>3, <1>4, <1>5, <1>6 DEF Elements

LEMMA LineMore ==
  ASSUME NEW s \in Seq(Message), NEW k \in Seq(Message), Line(s), Line(k),
         \A m \in Elements(k) : ~m.dup => \A l \in Elements(s) : Reach(l) <= m.seq
  PROVE  Line(s \o k) /\ Elements(s \o k) = Elements(s) \cup Elements(k)
<1>1. /\ Len(s) \in Nat /\ Len(k) \in Nat
      /\ DOMAIN s = 1..Len(s) /\ DOMAIN k = 1..Len(k)
      /\ s \o k \in Seq(Message) /\ Len(s \o k) = Len(s) + Len(k)
      /\ \A n \in 1..Len(s) + Len(k) :
           (s \o k)[n] = IF n <= Len(s) THEN s[n] ELSE k[n - Len(s)]
  BY LenProperties, ConcatProperties
<1>2. DOMAIN (s \o k) = 1..Len(s) + Len(k) BY <1>1, LenProperties
<1>3. \A n \in DOMAIN (s \o k) :
        \/ n \in DOMAIN s /\ (s \o k)[n] = s[n] /\ n <= Len(s)
        \/ n - Len(s) \in DOMAIN k /\ (s \o k)[n] = k[n - Len(s)] /\ n > Len(s)
  BY <1>1, <1>2
<1>4. \A n \in DOMAIN s : n \in DOMAIN (s \o k) /\ (s \o k)[n] = s[n]
  BY <1>1, <1>2
<1>5. \A n \in DOMAIN k : n + Len(s) \in DOMAIN (s \o k) /\ (s \o k)[n + Len(s)] = k[n]
  <2> SUFFICES ASSUME NEW n \in DOMAIN k
               PROVE  n + Len(s) \in DOMAIN (s \o k) /\ (s \o k)[n + Len(s)] = k[n]
    OBVIOUS
  <2>1. n + Len(s) \in 1..Len(s) + Len(k) /\ ~(n + Len(s) <= Len(s)) /\ n + Len(s) - Len(s) = n
    BY <1>1
  <2> QED BY <1>1, <1>2, <2>1
<1>6. Elements(s \o k) = Elements(s) \cup Elements(k)
  <2>1. \A t \in Elements(s \o k) : t \in Elements(s) \cup Elements(k)
    BY <1>3 DEF Elements
  <2>2. \A t \in Elements(s) : t \in Elements(s \o k) BY <1>4 DEF Elements
  <2>3. \A t \in Elements(k) : t \in Elements(s \o k) BY <1>5 DEF Elements
  <2> QED BY <2>1, <2>2, <2>3
<1>7. Line(s \o k)
  <2> SUFFICES ASSUME NEW j \in DOMAIN (s \o k), ~(s \o k)[j].dup, NEW i \in 1..j - 1
               PROVE  Reach((s \o k)[i]) <= (s \o k)[j].seq
    BY DEF Line
  <2>0. j \in Nat /\ i \in Nat /\ i < j /\ i \in DOMAIN (s \o k) BY <1>1, <1>2
  <2>1. CASE j <= Len(s)
    <3>1. /\ j \in DOMAIN s /\ (s \o k)[j] = s[j]
          /\ (s \o k)[i] = s[i]
      BY <1>1, <1>3, <2>0, <2>1
    <3> QED BY <3>1 DEF Line
  <2>2. CASE i > Len(s)
    <3>1. /\ j - Len(s) \in DOMAIN k /\ i - Len(s) \in 1..(j - Len(s)) - 1
          /\ (s \o k)[j] = k[j - Len(s)] /\ (s \o k)[i] = k[i - Len(s)]
      BY <1>1, <1>3, <2>0, <2>2
    <3> QED BY <3>1 DEF Line
  <2>3. CASE i <= Len(s) /\ j > Len(s)
    <3>1. (s \o k)[i] \in Elements(s) /\ (s \o k)[j] \in Elements(k)
      BY <1>1, <1>3, <2>0, <2>3 DEF Elements
    <3> QED BY <3>1
  <2> QED BY <1>1, <2>0, <2>1, <2>2, <2>3
<1> QED BY <1>6, <1>7

(* A number q has not used yet is ahead of everything.                     *)
LEMMA UnusedAhead ==
  ASSUME TypeOK, Bounded, NEW q \in Peer, NEW x \in Nat, x > Len(outLog[Other(q)])
  PROVE  Behind(q, x) /\ \A m \in Elements(net[q]) : Reach(m) <= x
<1>0. Len(outLog[Other(q)]) \in Nat /\ Other(q) \in Peer
  <2>1. outLog \in Logs BY DEF TypeOK, Logs
  <2> QED BY <2>1, LogLength, OtherOfOther
<1>1. inSeq[q] <= x
  <2>1. inSeq[q] <= Len(outLog[Other(q)]) + 1 /\ inSeq[q] \in Nat
    BY Numbers DEF Bounded, FitIn
  <2> QED BY <1>0, <2>1
<1>2. \A s \in queue[q] : s < x
  <2>1. \A s \in queue[q] : s \in 1..Len(outLog[Other(q)])
    BY DEF Bounded, FitQueue, Stored
  <2> QED BY <1>0, <2>1
<1>3. \A m \in pending[q] \cup replay[q] : m.seq < x
  <2>1. \A m \in pending[q] \cup replay[q] : m.seq <= Len(outLog[Other(q)]) /\ m.seq \in Nat
    BY Numbers DEF Bounded, FitSets, Fitting
  <2> QED BY <1>0, <2>1
<1>4. \A t \in Tasks(q) : Moves(t) => t.seq < x
  <2>1. todo[q] \in Seq(Owed(outLog, q)) BY DEF Bounded, FitTodo
  <2>2. \A t \in Tasks(q) : t \in Owed(outLog, q) /\ t.seq \in Nat
    BY <2>1, ElementOfSeq, LenProperties, Numbers DEF Tasks, Elements
  <2>3. \A t \in Tasks(q) : Moves(t) => t.seq <= Len(outLog[Other(q)])
    BY <2>2 DEF Owed, Moves
  <2> QED BY <1>0, <2>2, <2>3
<1>5. \A m \in Elements(net[q]) : Reach(m) <= x
  <2>1. net[q] \in Seq(Fitting(outLog, Other(q))) BY DEF Bounded, FitNets
  <2>2. \A m \in Elements(net[q]) : m \in Fitting(outLog, Other(q))
    BY <2>1, ElementOfSeq, LenProperties DEF Elements
  <2> SUFFICES ASSUME NEW m \in Elements(net[q]) PROVE Reach(m) <= x
    OBVIOUS
  <2>3. /\ m.seq \in Nat /\ m.arg \in Nat /\ m.seq <= Len(outLog[Other(q)])
        /\ m.type = "GapFill" => m.arg <= Len(outLog[Other(q)]) + 1
    BY <1>0, <2>2, FittingNumbers
  <2> QED BY <1>0, <2>3 DEF Reach
<1> QED BY <1>1, <1>2, <1>3, <1>4, <1>5 DEF Behind

-----------------------------------------------------------------------------
(* A step of one peer.  n is what it leaves on the wire, b how far what it *)
(* takes from there reaches.                                               *)
Takes(p, n, b) ==
  \/ n = net /\ b = 0
  \/ net[p] # <<>> /\ n = [net EXCEPT ![p] = Tail(@)] /\ b = Reach(Head(net[p]))

LEMMA Members ==
  ASSUME NEW s \in Seq(Message)
  PROVE  \A m \in Elements(s) : m \in Message /\ m.seq \in Nat
<1>1. \A m \in Elements(s) : m \in Message
  BY ElementOfSeq, LenProperties DEF Elements
<1> QED BY <1>1 DEF Message

LEMMA WhatIsLeft ==
  ASSUME TypeOK, NEW p \in Peer, Line(net[p]), NEW n, NEW b, Takes(p, n, b)
  PROVE  /\ Line(n[p]) /\ Elements(n[p]) \subseteq Elements(net[p])
         /\ \A m \in Elements(n[p]) : ~m.dup => b <= m.seq
         /\ b = 0 \/ \E m \in Elements(net[p]) : b = Reach(m)
         /\ n[Other(p)] = net[Other(p)]
<1>1. net[p] \in Seq(Message) /\ net \in [Peer -> Seq(Message)] BY DEF TypeOK
<1>2. CASE n = net /\ b = 0
  BY <1>1, <1>2, Members
<1>3. CASE /\ net[p] # <<>> /\ n = [net EXCEPT ![p] = Tail(@)]
           /\ b = Reach(Head(net[p]))
  <2>1. n[p] = Tail(net[p]) /\ n[Other(p)] = net[Other(p)]
    BY <1>1, <1>3, OtherOfOther
  <2> QED BY <1>1, <1>3, <2>1, LineLess
<1> QED BY <1>2, <1>3 DEF Takes

LEMMA OwnSide ==
  ASSUME TypeOK, Ordered, NEW p \in Peer, NEW n, NEW b, Takes(p, n, b),
         Onward(p, b), Around(p, n)
  PROVE  Core(p)' /\ Line(net[p])' /\ FreshAhead(p)' /\ Idle(p)'
<1>1. Line(net[p]) /\ FreshAhead(p) /\ Idle(p) BY DEF Ordered
<1>2. /\ Line(n[p]) /\ Elements(n[p]) \subseteq Elements(net[p])
      /\ \A m \in Elements(n[p]) : ~m.dup => b <= m.seq
  BY <1>1, WhatIsLeft
<1>3. \A m \in Elements(net[p]) : m.seq \in Nat
  BY Members DEF TypeOK
<1>4. \/ Gone(p)
      \/ /\ conn'[p] = conn[p] /\ net'[p] = n[p]
         /\ state'[p] = "loggedOut" => Same(p)
  BY DEF Around
<1>5. CASE Gone(p)
  <2>1. net'[p] = <<>> BY <1>5 DEF Gone
  <2>2. Elements(net[p])' = {} BY <2>1, Single
  <2>3. Line(net[p])' BY <2>1 DEF Line
  <2> QED BY <1>5, <2>2, <2>3 DEF Onward, FreshAhead, Idle, Gone
<1>6. CASE /\ conn'[p] = conn[p] /\ net'[p] = n[p]
           /\ state'[p] = "loggedOut" => Same(p)
  <2>1. Line(net[p])' BY <1>2, <1>6
  <2>2. FreshAhead(p)'
    <3> SUFFICES ASSUME NEW m \in Elements(n[p]), ~m.dup PROVE Behind(p, m.seq)'
      BY <1>6 DEF FreshAhead
    <3>1. m.seq \in Nat /\ Behind(p, m.seq) /\ b <= m.seq
      BY <1>1, <1>2, <1>3 DEF FreshAhead
    <3> QED BY <3>1 DEF Onward
  <2>3. Idle(p)'
    <3> SUFFICES ASSUME state'[p] = "loggedOut"
                 PROVE  net'[p] = <<>> /\ conn'[p] = 0 /\ todo'[p] = <<>> /\ replay'[p] = {}
      BY DEF Idle
    <3>1. net[p] = <<>> /\ conn[p] = 0 /\ todo[p] = <<>> /\ replay[p] = {}
      BY <1>1, <1>6 DEF Same, Idle
    <3>2. n[p] = net[p] BY <3>1 DEF Takes
    <3> QED BY <1>6, <3>1, <3>2 DEF Same
  <2> QED BY <2>1, <2>2, <2>3 DEF Onward
<1> QED BY <1>4, <1>5, <1>6

(* q, while the other side takes a step.                                   *)
LEMMA OtherSide ==
  ASSUME TypeOK, Bounded, NEW q \in Peer, NEW c, NEW n, n[q] = net[q],
         Core(q), Line(net[q]), FreshAhead(q), Idle(q),
         Same(q), conn'[q] = conn[q], Sends(Other(q), c, n)
  PROVE  Core(q)' /\ Line(net[q])' /\ FreshAhead(q)' /\ Idle(q)'
<1>0. Other(q) \in Peer /\ Other(Other(q)) = q BY OtherOfOther
<1>1. Core(q)' /\ \A x : Behind(q, x) => Behind(q, x)' BY SameKeeps
<1>2. \/ net'[q] = net[q]
      \/ /\ c # 0 /\ c = conn[q]
         /\ \E k : New(Other(q), k) /\ net'[q] = net[q] \o k
  BY <1>0 DEF Sends
<1>3. CASE net'[q] = net[q]
  BY <1>1, <1>3 DEF FreshAhead, Idle, Same
<1>4. CASE /\ c # 0 /\ c = conn[q]
           /\ \E k : New(Other(q), k) /\ net'[q] = net[q] \o k
  <2> PICK k : New(Other(q), k) /\ net'[q] = net[q] \o k BY <1>4
  <2>1. k \in Seq(Message) /\ Line(k) /\ net[q] \in Seq(Message) BY DEF New, TypeOK
  <2>2. \A m \in Elements(k) : m.seq \in Nat
    BY <2>1, Members
  <2>3. ASSUME NEW m \in Elements(k), ~m.dup
        PROVE  Behind(q, m.seq) /\ \A l \in Elements(net[q]) : Reach(l) <= m.seq
    <3>1. m.seq > Len(outLog[Other(q)]) BY <2>3 DEF New
    <3> QED BY <2>2, <3>1, UnusedAhead
  <2>4. Line(net[q] \o k) /\ Elements(net[q] \o k) = Elements(net[q]) \cup Elements(k)
    BY <2>1, <2>3, LineMore
  <2>5. FreshAhead(q)' BY <1>1, <2>3, <2>4 DEF FreshAhead
  <2>6. Idle(q)'
    <3>1. state[q] # "loggedOut" BY <1>4 DEF Idle
    <3> QED BY <3>1 DEF Same, Idle
  <2> QED BY <1>1, <2>4, <2>5, <2>6
<1> QED BY <1>2, <1>3, <1>4

LEMMA HelloSide ==
  ASSUME TypeOK, Ordered, NEW p \in Peer, NEW n, NEW b, Takes(p, n, b),
         Onward(p, b), Around(p, n), hello' = hello
  PROVE  HelloAhead'
<1>0. /\ Other(Initiator) = Acceptor /\ Other(Acceptor) = Initiator
      /\ Initiator \in Peer /\ Acceptor \in Peer /\ p \in {Initiator, Acceptor}
  BY OtherOfOther DEF Other, Peer
<1> SUFFICES ASSUME NEW h \in hello, h.conn = conn'[Initiator]
             PROVE  Behind(Acceptor, h.seq)' /\ \A m \in Elements(net'[Acceptor]) : Reach(m) <= h.seq
  BY DEF HelloAhead
<1>1. h.conn # 0 /\ h.conn # conn[Acceptor] BY DEF Ordered, Connections
<1>2. \A q \in Peer : conn'[q] = conn[q] \/ conn'[q] = 0
  <2>1. \A q \in Peer : q = p \/ q = Other(p) BY DEF Other, Peer
  <2> QED BY <2>1 DEF Around, Gone
<1>3. h.conn = conn[Initiator] BY <1>0, <1>1, <1>2
<1>4. /\ Behind(Acceptor, h.seq) /\ h.seq \in Nat
      /\ \A m \in Elements(net[Acceptor]) : Reach(m) <= h.seq
  BY <1>3 DEF Ordered, HelloAhead, TypeOK
<1>5. CASE p = Acceptor
  <2>1. /\ Elements(n[p]) \subseteq Elements(net[p])
        /\ b = 0 \/ \E m \in Elements(net[p]) : b = Reach(m)
    BY WhatIsLeft DEF Ordered
  <2>2. b <= h.seq BY <1>4, <1>5, <2>1
  <2>3. net'[p] = n[p] \/ net'[p] = <<>> BY DEF Around, Gone
  <2>4. \A m \in Elements(net'[p]) : Reach(m) <= h.seq
    BY <1>4, <1>5, <2>1, <2>3, Single
  <2> QED BY <1>4, <1>5, <2>2, <2>4 DEF Onward
<1>6. CASE p = Initiator
  <2>1. Same(Acceptor) BY <1>0, <1>6 DEF Around
  <2>2. net'[Acceptor] = n[Acceptor]
    BY <1>0, <1>1, <1>3, <1>6 DEF Around, Sends
  <2>3. n[Acceptor] = net[Acceptor] BY <1>0, <1>6, WhatIsLeft DEF Ordered
  <2> QED BY <1>4, <2>1, <2>2, <2>3, SameKeeps
<1> QED BY <1>0, <1>5, <1>6

LEMMA PeerStepKeeps ==
  ASSUME TypeOK, Bounded, Ordered, NEW p \in Peer, NEW n, NEW b, Takes(p, n, b),
         Onward(p, b), Around(p, n), hello' = hello, used'["connect"] = used["connect"]
  PROVE  Ordered'
<1>0. /\ Other(p) \in Peer /\ Other(Other(p)) = p /\ Initiator \in Peer /\ Acceptor \in Peer
      /\ \A q \in Peer : q = p \/ q = Other(p)
  BY OtherOfOther DEF Other, Peer
<1>1. \A q \in Peer : Core(q) /\ Line(net[q]) /\ FreshAhead(q) /\ Idle(q)
  BY DEF Ordered
<1>2. Core(p)' /\ Line(net[p])' /\ FreshAhead(p)' /\ Idle(p)' BY OwnSide
<1>3. /\ Core(Other(p))' /\ Line(net[Other(p)])' /\ FreshAhead(Other(p))'
      /\ Idle(Other(p))'
  <2>1. n[Other(p)] = net[Other(p)] BY <1>1, WhatIsLeft
  <2>2. Same(Other(p)) /\ conn'[Other(p)] = conn[Other(p)] /\ Sends(p, conn[p], n)
    BY DEF Around
  <2> QED BY <1>0, <1>1, <2>1, <2>2, OtherSide
<1>4. \A q \in Peer : Core(q)' /\ Line(net[q])' /\ FreshAhead(q)' /\ Idle(q)'
  BY <1>0, <1>2, <1>3
<1>5. Connections'
  <2>1. \A q \in Peer : conn'[q] = conn[q] \/ conn'[q] = 0
    BY <1>0 DEF Around, Gone
  <2>2. used["connect"] \in Nat BY DEF TypeOK, Budget
  <2>3. Connections BY DEF Ordered
  <2> QED BY <1>0, <2>1, <2>2, <2>3 DEF Connections
<1>6. HelloAhead' BY HelloSide
<1> QED BY <1>4, <1>5, <1>6 DEF Ordered

LEMMA SystemKeeps ==
  ASSUME TypeOK, Bounded, Ordered, NEW p \in Peer, System(p)
  PROVE  Ordered'
<1>0. /\ Core(p) /\ Line(net[p]) /\ FreshAhead(p) /\ Idle(p) /\ net[p] \in Seq(Message)
  BY DEF Ordered, TypeOK
<1>1. CASE Deliver(p)
  <2>1. /\ net[p] # <<>> /\ state[p] # "loggedOut" /\ UNCHANGED envVars
    BY <1>1 DEF Deliver
  <2>2. Head(net[p]) \in Elements(net[p]) BY <1>0, <2>1, LineLess
  <2>3. Onward(p, Reach(Head(net[p]))) BY <1>0, <1>1, <2>2, DeliverOn DEF FreshAhead
  <2>4. Around(p, [net EXCEPT ![p] = Tail(@)]) BY <1>1, <2>1, DeliverAround
  <2>5. Takes(p, [net EXCEPT ![p] = Tail(@)], Reach(Head(net[p]))) BY <2>1 DEF Takes
  <2>6. hello' = hello /\ used'["connect"] = used["connect"] BY <2>1 DEF envVars
  <2> QED BY <2>3, <2>4, <2>5, <2>6, PeerStepKeeps
<1>2. CASE Continue(p)
  <2>1. todo[p] # <<>> /\ UNCHANGED envVars
    BY <1>2 DEF Continue, Play, Open, Persist, Drain, Drained, Replay, Doing
  <2>2. state[p] # "loggedOut" BY <1>0, <2>1 DEF Idle
  <2>3. Onward(p, 0) /\ Around(p, net) BY <1>0, <1>2, <2>2, ContinueOn, ContinueAround
  <2>4. Takes(p, net, 0) BY DEF Takes
  <2>5. hello' = hello /\ used'["connect"] = used["connect"] BY <2>1 DEF envVars
  <2> QED BY <2>3, <2>4, <2>5, PeerStepKeeps
<1>3. CASE ConnectionLost(p) \/ CleanUp(p)
  <2>1. Resting(p) /\ Die(p, net) /\ UNCHANGED <<storeVars, delivered, envVars>>
    BY <1>3 DEF ConnectionLost, CleanUp
  <2>2. Onward(p, 0) /\ Around(p, net) BY <1>0, <2>1, RestingOn
  <2>3. Takes(p, net, 0) BY DEF Takes
  <2>4. hello' = hello /\ used'["connect"] = used["connect"] BY <2>1 DEF envVars
  <2> QED BY <2>2, <2>3, <2>4, PeerStepKeeps
<1> QED BY <1>1, <1>2, <1>3 DEF System

LEMMA EnvironmentKeeps ==
  ASSUME TypeOK, Bounded, Ordered, NEW p \in Peer, Environment(p), ~Crash(p), ~NextDay(p)
  PROVE  Ordered'
<1>0. Core(p) /\ Takes(p, net, 0) BY DEF Ordered, Takes
<1>1. ASSUME NEW k \in Budget, k # "connect", Spend(k)
      PROVE  used'["connect"] = used["connect"]
  BY <1>1 DEF Spend, TypeOK
<1>2. CASE Send(p) \/ Skip(p) \/ Hole(p) \/ SendHeartbeat(p)
  <2>1. used'["connect"] = used["connect"]
    BY <1>1, <1>2 DEF Send, Skip, Hole, SendHeartbeat, Budget
  <2>2. /\ Resting(p) /\ UNCHANGED <<protocolVars, inSeq, inLast, gapVars, callVars, delivered, hello>>
        /\ \/ net' = net
           \/ Emit(p, conn[p], net, <<Item("App", 0, "app")>>)
           \/ Emit(p, conn[p], net, <<Admin("Heartbeat")>>)
    BY <1>2 DEF Send, Skip, Hole, SendHeartbeat, AppSend
  <2>3. net' = net \/ \E batch \in Seq(Written) : Emit(p, conn[p], net, batch)
    BY <2>2, Batch
  <2>4. state' = state /\ UNCHANGED <<conn, inSeq, inLast, gapVars, callVars, delivered>>
    BY <2>2 DEF protocolVars
  <2>5. Onward(p, 0) /\ Around(p, net) BY <1>0, <2>2, <2>3, <2>4, RestingOn
  <2> QED BY <1>0, <2>1, <2>2, <2>5, PeerStepKeeps
<1>3. ASSUME NEW again \in BOOLEAN, Logoff(p, again) PROVE Ordered'
  <2>1. used'["connect"] = used["connect"] /\ hello' = hello /\ Resting(p)
    BY <1>1, <1>3 DEF Logoff, Budget
  <2>2. CASE Die(p, net) /\ UNCHANGED <<storeVars, delivered>>
    <3>1. Onward(p, 0) /\ Around(p, net) BY <1>0, <2>1, <2>2, RestingOn
    <3> QED BY <1>0, <2>1, <3>1, PeerStepKeeps
  <2>3. CASE ~(Die(p, net) /\ UNCHANGED <<storeVars, delivered>>)
    <3>1. /\ state[p] = "normal" /\ state' = [state EXCEPT ![p] = "awaitingLogout"]
          /\ Emit(p, conn[p], net, <<Admin("Logout")>>)
          /\ UNCHANGED <<conn, inSeq, inLast, gapVars, callVars, delivered>>
      BY <1>3, <2>3 DEF Logoff
    <3>2. \E batch \in Seq(Written) : Emit(p, conn[p], net, batch) BY <3>1, Batch
    <3>3. Onward(p, 0) /\ Around(p, net) BY <1>0, <2>1, <3>1, <3>2, RestingOn
    <3> QED BY <1>0, <2>1, <3>3, PeerStepKeeps
  <2> QED BY <2>2, <2>3
<1>4. CASE Drop(p)
  <2>1. /\ Resting(p) /\ Die(p, net) /\ UNCHANGED <<storeVars, delivered, hello>>
        /\ used'["connect"] = used["connect"]
    BY <1>1, <1>4 DEF Drop, Budget
  <2>2. Onward(p, 0) /\ Around(p, net) BY <1>0, <2>1, RestingOn
  <2> QED BY <1>0, <2>1, <2>2, PeerStepKeeps
<1> QED BY <1>2, <1>3, <1>4 DEF Environment

-----------------------------------------------------------------------------
(* The connections come and go.                                            *)
LEMMA QuietKeeps ==
  ASSUME TypeOK, Ordered, hello' \subseteq hello,
         UNCHANGED <<protocolVars, inSeq, inLast, gapVars, callVars, net, delivered, used>>
  PROVE  Ordered'
<1>1. ASSUME NEW p \in Peer
      PROVE  Core(p)' /\ Line(net[p])' /\ FreshAhead(p)' /\ Idle(p)'
  <2>1. Same(p) BY DEF Same, protocolVars, gapVars, callVars
  <2>2. Core(p) /\ Line(net[p]) /\ FreshAhead(p) /\ Idle(p) BY DEF Ordered
  <2>3. Core(p)' /\ \A x : Behind(p, x) => Behind(p, x)' BY <2>1, <2>2, SameKeeps
  <2> QED BY <2>2, <2>3 DEF FreshAhead, Idle, protocolVars, callVars
<1>2. HelloAhead'
  <2>1. Same(Acceptor) BY DEF Same, protocolVars, gapVars, callVars
  <2>2. \A x : Behind(Acceptor, x) => Behind(Acceptor, x)' BY <2>1, SameKeeps
  <2> QED BY <2>2 DEF Ordered, HelloAhead, protocolVars
<1>3. Connections' BY DEF Ordered, Connections, protocolVars
<1> QED BY <1>1, <1>2, <1>3 DEF Ordered

LEMMA AcceptLogonKeeps ==
  ASSUME TypeOK, Bounded, Ordered, NEW h \in hello, h.conn = conn[Initiator],
         used' = used, hello' = hello \ {h}, AcceptLogon(h)
  PROVE  Ordered'
<1>0. /\ Other(Initiator) = Acceptor /\ Other(Acceptor) = Initiator
      /\ Initiator \in Peer /\ Acceptor \in Peer /\ Initiator # Acceptor
      /\ \A q \in Peer : q = Initiator \/ q = Acceptor
      /\ net \in Nets
  BY OtherOfOther DEF Other, Peer, TypeOK, Nets
<1> DEFINE reply == <<Admin("Logon")>>
<1>1. /\ state[Acceptor] = "loggedOut" /\ conn' = [conn EXCEPT ![Acceptor] = h.conn]
      /\ \/ LogonInSequence(Acceptor, h.conn, net, reply, h.seq)
         \/ LogonOutOfSequence(Acceptor, h.conn, net, reply, h.seq)
  BY DEF AcceptLogon
<1>2. reply \in Seq(Written) BY <1>0, Batch
<1> HIDE DEF reply
<1>3. net[Acceptor] = <<>> /\ todo[Acceptor] = <<>> BY <1>0, <1>1 DEF Ordered, Idle
<1>4. h.seq \in Nat /\ inSeq[Acceptor] <= h.seq
  BY DEF TypeOK, Ordered, HelloAhead, Behind
<1>5. Core(Acceptor)'
  <2>1. Core(Acceptor) /\ state[Acceptor] # "gap" BY <1>0, <1>1 DEF Ordered
  <2>2. Onward(Acceptor, h.seq + 1) BY <1>0, <1>1, <1>3, <1>4, <2>1, LogonOn
  <2> QED BY <2>2 DEF Onward
<1>6. /\ state'[Acceptor] # "loggedOut" /\ Same(Initiator)
      /\ \E batch \in Seq(Written) : Emit(Acceptor, h.conn, net, batch)
  <2>1. CASE LogonInSequence(Acceptor, h.conn, net, reply, h.seq)
    <3>1. Emit(Acceptor, h.conn, net, reply \o <<Admin("Heartbeat")>>)
      BY <2>1 DEF LogonInSequence
    <3>2. reply \o <<Admin("Heartbeat")>> \in Seq(Written) BY <1>0, <1>2, Batch
    <3>3. state'[Acceptor] # "loggedOut" /\ Same(Initiator)
      BY <1>0, <2>1 DEF LogonInSequence, PersistAndAdvance, Same, TypeOK, gapVars, callVars
    <3> QED BY <3>1, <3>2, <3>3
  <2>2. CASE LogonOutOfSequence(Acceptor, h.conn, net, reply, h.seq)
    <3>1. Emit(Acceptor, h.conn, net, reply \o <<ResendFrom(inSeq[Acceptor])>>)
      BY <2>2 DEF LogonOutOfSequence
    <3>2. reply \o <<ResendFrom(inSeq[Acceptor])>> \in Seq(Written) BY <1>0, <1>2, Batch
    <3>3. state'[Acceptor] # "loggedOut" /\ Same(Initiator)
      BY <1>0, <2>2 DEF LogonOutOfSequence, StartGap, Same, TypeOK, gapVars, callVars
    <3> QED BY <3>1, <3>2, <3>3
  <2> QED BY <1>1, <2>1, <2>2
<1>7. Sends(Acceptor, h.conn, net) /\ net'[Acceptor] = <<>>
  BY <1>0, <1>3, <1>6, EmitSends
<1>8. /\ Core(Acceptor)' /\ Line(net[Acceptor])' /\ FreshAhead(Acceptor)'
      /\ Idle(Acceptor)'
  <2>1. Elements(net[Acceptor])' = {} /\ Line(net[Acceptor])'
    BY <1>7, Single DEF Line
  <2> QED BY <1>5, <1>6, <2>1 DEF FreshAhead, Idle
<1>9. conn'[Initiator] = conn[Initiator] /\ conn'[Acceptor] = h.conn
  BY <1>0, <1>1 DEF TypeOK
<1>10. /\ Core(Initiator)' /\ Line(net[Initiator])' /\ FreshAhead(Initiator)'
       /\ Idle(Initiator)'
  <2>1. /\ Core(Initiator) /\ Line(net[Initiator]) /\ FreshAhead(Initiator)
        /\ Idle(Initiator)
    BY <1>0 DEF Ordered
  <2> QED BY <1>0, <1>6, <1>7, <1>9, <2>1, OtherSide
<1>11. \A g \in hello' : g \in hello /\ g.conn # h.conn
  BY DEF Ordered, Connections
<1>12. HelloAhead' BY <1>9, <1>11 DEF HelloAhead
<1>13. Connections'
  BY <1>0, <1>9, <1>11 DEF Ordered, Connections
<1> QED BY <1>0, <1>8, <1>10, <1>12, <1>13 DEF Ordered

LEMMA ConnectKeeps ==
  ASSUME TypeOK, Bounded, Ordered, Connect
  PROVE  Ordered'
<1>0. /\ Other(Acceptor) = Initiator
      /\ Initiator \in Peer /\ Acceptor \in Peer /\ Initiator # Acceptor
      /\ \A q \in Peer : q = Initiator \/ q = Acceptor
      /\ used["connect"] \in Nat
  BY OtherOfOther DEF Other, Peer, TypeOK, Budget
<1> DEFINE c == used["connect"] + 1
           x == Len(outLog[Initiator]) + 1
           greeting == [conn |-> c, seq |-> x]
<1>1. /\ state[Initiator] = "loggedOut"
      /\ state' = [state EXCEPT ![Initiator] = "awaitingLogon"]
      /\ conn' = [conn EXCEPT ![Initiator] = c]
      /\ hello' = hello \cup {greeting}
      /\ used'["connect"] = c
      /\ UNCHANGED <<inSeq, inLast, gapVars, callVars, net, delivered>>
  BY DEF Connect, Spend, TypeOK, Budget
<1>2. x \in Nat /\ x > Len(outLog[Other(Acceptor)])
  <2>1. outLog \in Logs BY DEF TypeOK, Logs
  <2>2. Len(outLog[Initiator]) \in Nat BY <1>0, <2>1, LogLength
  <2> QED BY <1>0, <2>2
<1>3. greeting.conn = c /\ greeting.seq = x OBVIOUS
<1>4. /\ c \in Nat /\ c # 0 /\ c > used["connect"] /\ conn'[Initiator] = c
      /\ conn'[Acceptor] = conn[Acceptor] /\ conn[Acceptor] <= used["connect"]
      /\ conn[Acceptor] \in Nat
  <2>1. c \in Nat /\ c # 0 /\ c > used["connect"] BY <1>0
  <2>2. conn \in [Peer -> Nat] BY DEF TypeOK
  <2>3. conn[Acceptor] <= used["connect"] BY <1>0 DEF Ordered, Connections
  <2> HIDE DEF c
  <2> QED BY <1>0, <1>1, <2>1, <2>2, <2>3
<1> HIDE DEF c, x, greeting
<1>5. \A y : \A q \in Peer : Behind(q, y) => Behind(q, y)'
  BY <1>1 DEF Behind, Tasks, gapVars, callVars
<1>6. \A q \in Peer : Core(q)'
  <2>1. Core(Acceptor)'
    <3>1. Same(Acceptor) BY <1>0, <1>1 DEF Same, TypeOK, gapVars, callVars
    <3> QED BY <1>0, <3>1, SameKeeps DEF Ordered
  <2>2. Core(Initiator)'
    <3>1. todo[Initiator] = <<>> /\ replay[Initiator] = {} /\ Core(Initiator)
      BY <1>0, <1>1 DEF Ordered, Idle
    <3>2. Tasks(Initiator) = {} BY <3>1, Single DEF Tasks
    <3>3. state'[Initiator] = "awaitingLogon" BY <1>0, <1>1 DEF TypeOK
    <3> QED BY <1>1, <3>1, <3>2, <3>3
         DEF Core, Callback, Waiting, Gap, Delivery, Tasks, Has, Given, gapVars, callVars
  <2> QED BY <1>0, <2>1, <2>2
<1>7. ASSUME NEW q \in Peer PROVE Line(net[q])' /\ FreshAhead(q)' /\ Idle(q)'
  <2>1. Line(net[q]) /\ FreshAhead(q) /\ Idle(q) BY DEF Ordered
  <2>2. state'[q] = "loggedOut" => state[q] = "loggedOut" /\ conn'[q] = conn[q]
    BY <1>0, <1>1, <1>4 DEF TypeOK
  <2> QED BY <1>1, <1>5, <2>1, <2>2 DEF FreshAhead, Idle, callVars
<1>8. HelloAhead'
  <2> SUFFICES ASSUME NEW g \in hello', g.conn = c
               PROVE  Behind(Acceptor, g.seq)' /\ \A m \in Elements(net[Acceptor]) : Reach(m) <= g.seq
    BY <1>1, <1>4 DEF HelloAhead
  <2>1. g = greeting
    <3>1. \A k \in hello : k.conn <= used["connect"] /\ k.conn \in Nat
      BY DEF Ordered, Connections, TypeOK
    <3> QED BY <1>0, <1>1, <1>4, <3>1
  <2> QED BY <1>0, <1>2, <1>3, <1>5, <2>1, UnusedAhead
<1>9. Connections'
  <2>1. \A q \in Peer : conn[q] \in Nat /\ conn[q] <= used["connect"]
    BY DEF TypeOK, Ordered, Connections
  <2>2. /\ \A k \in hello : /\ k.conn \in Nat /\ k.conn <= used["connect"]
                            /\ k.conn # conn[Acceptor] /\ k.conn # 0
        /\ \A k, g \in hello : k.conn = g.conn => k = g
    BY DEF TypeOK, Ordered, Connections
  <2>3. \A q \in Peer : conn'[q] <= c BY <1>0, <1>4, <2>1
  <2>4. \A k \in hello' : k \in hello \/ k = greeting BY <1>1
  <2>5. \A k \in hello' : k.conn <= c /\ k.conn # conn[Acceptor] /\ k.conn # 0
    BY <1>0, <1>3, <1>4, <2>2, <2>4
  <2>6. \A k, g \in hello' : k.conn = g.conn => k = g
    BY <1>0, <1>3, <1>4, <2>2, <2>4
  <2> QED BY <1>1, <1>4, <2>3, <2>5, <2>6 DEF Connections
<1> QED BY <1>6, <1>7, <1>8, <1>9 DEF Ordered

-----------------------------------------------------------------------------
LEMMA CalmBefore ==
  ASSUME TypeOK, [Next]_vars, Calm'
  PROVE  /\ Calm /\ \A p \in Peer : ~Crash(p) /\ ~NextDay(p)
         /\ ReadLogon => \E h \in hello :
              /\ h.conn = conn[Initiator] /\ used' = used /\ hello' = hello \ {h}
              /\ AcceptLogon(h) \/ RefuseLogon(h)
<1>1. used \in [Budget -> Nat] /\ "late" \in Budget BY DEF TypeOK, Budget
<1>2. NoRestart /\ \A p \in Peer : ~Crash(p) /\ ~NextDay(p)
  BY RestartSpends DEF Calm
<1>3. ~Spend("late") BY <1>1 DEF Spend, Calm
<1>4. used'["late"] = used["late"]
  <2>0. ASSUME NEW k \in Budget, k # "late", Spend(k) PROVE used'["late"] = used["late"]
    BY <1>1, <2>0 DEF Spend
  <2>1. CASE \E p \in Peer : System(p)
    <3> PICK p \in Peer : System(p) BY <2>1
    <3>1. UNCHANGED envVars
      BY DEF System, Deliver, Continue, Play, Open, Persist, Drain, Drained, Replay,
             ConnectionLost, CleanUp
    <3> QED BY <3>1 DEF envVars
  <2>2. CASE \E p \in Peer : Environment(p)
    <3>1. \E k \in Budget \ {"late"} : Spend(k)
      BY <1>2, <2>2 DEF Environment, Send, Skip, Hole, SendHeartbeat, Logoff, Drop, Budget
    <3> QED BY <2>0, <3>1
  <2>3. CASE ReadLogon BY <1>3, <2>3 DEF ReadLogon
  <2>4. CASE \E h \in hello : HelloLost(h) BY <2>4 DEF HelloLost
  <2>5. CASE Connect BY <2>0, <2>5 DEF Connect, Budget
  <2>6. CASE AllowLogon BY <2>6 DEF AllowLogon
  <2>7. CASE UNCHANGED vars BY <2>7 DEF vars, envVars
  <2> QED BY <2>1, <2>2, <2>3, <2>4, <2>5, <2>6, <2>7 DEF Next
<1>5. Calm BY <1>2, <1>4 DEF Calm
<1>6. ASSUME ReadLogon
      PROVE  \E h \in hello : /\ h.conn = conn[Initiator] /\ used' = used
                              /\ hello' = hello \ {h}
                              /\ AcceptLogon(h) \/ RefuseLogon(h)
  BY <1>3, <1>6 DEF ReadLogon
<1> QED BY <1>2, <1>5, <1>6

LEMMA StepOrdered ==
  ASSUME TypeOK, IInv, OInv, [Next]_vars
  PROVE  OInv'
<1> SUFFICES ASSUME Calm' PROVE Ordered'
  BY DEF OInv
<1>1. /\ Bounded /\ Ordered /\ \A p \in Peer : ~Crash(p) /\ ~NextDay(p)
      /\ ReadLogon => \E h \in hello :
           /\ h.conn = conn[Initiator] /\ used' = used /\ hello' = hello \ {h}
           /\ AcceptLogon(h) \/ RefuseLogon(h)
  BY CalmBefore DEF OInv, IInv, Calm
<1>2. CASE \E p \in Peer : System(p) \/ Environment(p)
  BY <1>1, <1>2, SystemKeeps, EnvironmentKeeps
<1>3. CASE ReadLogon
  <2> PICK h \in hello : /\ h.conn = conn[Initiator] /\ used' = used
                         /\ hello' = hello \ {h}
                         /\ AcceptLogon(h) \/ RefuseLogon(h)
    BY <1>1, <1>3
  <2>1. CASE AcceptLogon(h) BY <1>1, <2>1, AcceptLogonKeeps
  <2>2. CASE RefuseLogon(h)
    <3>1. /\ hello' \subseteq hello
          /\ UNCHANGED <<protocolVars, inSeq, inLast, gapVars, callVars, net, delivered, used>>
      BY <2>2 DEF RefuseLogon
    <3> QED BY <1>1, <3>1, QuietKeeps
  <2> QED BY <2>1, <2>2
<1>4. CASE \E h \in hello : HelloLost(h)
  <2>1. /\ hello' \subseteq hello
        /\ UNCHANGED <<protocolVars, inSeq, inLast, gapVars, callVars, net, delivered, used>>
    BY <1>4 DEF HelloLost, storeVars
  <2> QED BY <1>1, <2>1, QuietKeeps
<1>5. CASE Connect BY <1>1, <1>5, ConnectKeeps
<1>6. CASE AllowLogon
  <2>1. /\ hello' \subseteq hello
        /\ UNCHANGED <<protocolVars, inSeq, inLast, gapVars, callVars, net, delivered, used>>
    BY <1>6 DEF AllowLogon, storeVars
  <2> QED BY <1>1, <2>1, QuietKeeps
<1>7. CASE UNCHANGED vars
  <2>1. /\ hello' \subseteq hello
        /\ UNCHANGED <<protocolVars, inSeq, inLast, gapVars, callVars, net, delivered, used>>
    BY <1>7 DEF vars, storeVars, envVars
  <2> QED BY <1>1, <2>1, QuietKeeps
<1> QED BY <1>2, <1>3, <1>4, <1>5, <1>6, <1>7 DEF Next

LEMMA InitOrdered == Init => OInv
<1> SUFFICES ASSUME Init PROVE Ordered
  BY DEF OInv
<1>1. ASSUME NEW p \in Peer
      PROVE  Core(p) /\ Line(net[p]) /\ FreshAhead(p) /\ Idle(p)
  <2>1. /\ state[p] = "loggedOut" /\ conn[p] = 0 /\ inSeq[p] = 1 /\ inLast[p] = 0
        /\ queue[p] = {} /\ pending[p] = {} /\ replay[p] = {} /\ todo[p] = <<>>
        /\ net[p] = <<>> /\ delivered[p] = <<>>
    BY DEF Init, NextKey
  <2>2. Tasks(p) = {} /\ Elements(net[p]) = {} BY <2>1, Single DEF Tasks
  <2>3. Given(p) = {} BY <2>1 DEF Given
  <2>4. Core(p)
    BY <2>1, <2>2, <2>3
       DEF Core, Callback, Waiting, Gap, Delivery, Has, Ranked, Rising, Distinct
  <2> QED BY <2>1, <2>2, <2>4 DEF Line, FreshAhead, Idle
<1>2. HelloAhead BY DEF Init, HelloAhead
<1>3. Connections BY DEF Init, Connections, Budget
<1> QED BY <1>1, <1>2, <1>3 DEF Ordered

(* While no process has been restarted and no Logon was read from a        *)
(* connection given up, each application gets every number at most once    *)
(* and in rising order: no resend, no message put aside and replayed, no   *)
(* number recovered in the gap queue and no reconnection makes             *)
(* app.on_message see a message twice or behind a later one.               *)
THEOREM InOrderWithoutRestart == Spec => []InOrderUnlessLowered
<1>1. TypeOK /\ IInv /\ OInv /\ [Next]_vars => OInv' BY StepOrdered
<1>2. TypeOK /\ IInv /\ [Next]_vars => IInv' BY StepFits
<1>3. TypeOK /\ OInv => InOrderUnlessLowered
  <2> SUFFICES ASSUME TypeOK, OInv, used["late"] + used["crash"] + used["newday"] = 0
               PROVE  InOrder
    BY DEF InOrderUnlessLowered
  <2>1. used["late"] \in Nat /\ used["crash"] \in Nat /\ used["newday"] \in Nat
    BY DEF TypeOK, Budget
  <2>2. Calm BY <2>1 DEF Calm, NoRestart
  <2> QED BY <2>2 DEF OInv, Ordered, Core, Delivery, Rising, InOrder
<1> QED BY <1>1, <1>2, <1>3, InitOrdered, InitFits, TypeCorrect, PTL DEF Spec

(* Under the same conditions persist_and_advance is never called with a    *)
(* number in_db already has, by a handler or for a Logon: its assertion,   *)
(* which would cost the connection after the application has seen the      *)
(* message, holds.                                                         *)
THEOREM PersistAssertionHolds == Spec => [](Calm => PersistAssertion)
<1>1. TypeOK /\ IInv /\ OInv /\ [Next]_vars => OInv' BY StepOrdered
<1>2. TypeOK /\ IInv /\ [Next]_vars => IInv' BY StepFits
<1>3. TypeOK /\ OInv => (Calm => PersistAssertion)
  <2> SUFFICES ASSUME TypeOK, OInv, Calm PROVE PersistAssertion
    OBVIOUS
  <2>1. ASSUME NEW p \in Peer PROVE Core(p) /\ Persistable(p, inSeq[p])
    <3>1. Core(p) BY DEF OInv, Ordered
    <3>2. inLast[p] < inSeq[p] BY <3>1 DEF Core, Delivery
    <3> QED BY <3>1, <3>2, Numbers DEF Persistable, NextKey
  <2>2. ASSUME NEW p \in Peer, Doing(p, "persist") PROVE Head(todo[p]).seq = inSeq[p]
    <3>1. Head(todo[p]) \in Tasks(p) /\ Head(todo[p]).do = "persist"
      BY <2>1, <2>2, AtHand DEF Doing
    <3> QED BY <2>1, <3>1 DEF Core, Callback
  <2> QED BY <2>1, <2>2 DEF PersistAssertion, LogonIsDue, Peer
<1> QED BY <1>1, <1>2, <1>3, InitOrdered, InitFits, TypeCorrect, PTL DEF Spec
=============================================================================
