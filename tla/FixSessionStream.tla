---------------------------- MODULE FixSessionStream ----------------------------
(***************************************************************************)
(* On one connection each direction is a stream: nothing is lost, nothing  *)
(* comes out of order, and this however the two sides ask for gaps, resend *)
(* and fill them.                                                          *)
(*                                                                         *)
(* Three things have to fit.  The receiver accounts for every number below *)
(* in_msg_seq_num (Whole).  What it is told is true: a gap fill hides no   *)
(* stored message and no session message uses the number of one            *)
(* (Truthful).  And what is resent leads up to what is behind it: whatever *)
(* a receiver lacks below a duplicate is in the duplicates in front of it, *)
(* whatever it lacks below the rest of a playback is on the wire, and      *)
(* nobody asks for less than it lacks (Led, Playing, Asked).  So the next  *)
(* duplicate always is the next number that is missing.                    *)
(***************************************************************************)
EXTENDS FixSessionOrder

(* The numbers that p has to get yet.                                      *)
Lacks(p, x) == x \in miss[p] \/ x >= inSeq[p]

Covers(m, x) == m.seq <= x /\ x < Reach(m)

Linked(p) == conn[p] # 0 /\ conn[p] = conn[Other(p)]

(* Awaiting the Logout, p takes no message into account.                   *)
Heeds(p) == state[p] # "awaitingLogout"

Resent(p, x) == \E m \in Elements(net[p]) : m.dup /\ Covers(m, x)

Asked(p) ==
  \A m \in Elements(net[Other(p)]) :
    m.type = "ResendRequest" => \A x \in Nat : x < m.arg => ~Lacks(p, x)

Led(p) ==
  Heeds(p) => \A i \in DOMAIN net[p] : net[p][i].dup =>
    \A x \in Nat : x < net[p][i].seq /\ Lacks(p, x) =>
      \E j \in 1..i - 1 : net[p][j].dup /\ Covers(net[p][j], x)

Playing(p) ==
  Heeds(p) /\ Linked(p) => \A t \in Tasks(Other(p)) : t.do = "play" =>
    \A x \in Nat : x < t.seq /\ Lacks(p, x) => Resent(p, x)

(* The application messages for p that the other side has stored.          *)
Due(p) == Stored(outLog, Other(p))

Truthful(M, S) ==
  \A m \in M : /\ m.type = "GapFill" => m.dup /\ \A x \in S : ~Covers(m, x)
               /\ m.type \notin {"App", "GapFill"} => m.seq \notin S

Tidy(p) ==
  /\ \A t \in Tasks(p) : /\ t.do # "save"
                         /\ t.do = "persist" /\ t.seq \in Due(p) => t.seq \in Given(p)
  /\ \A x \in queue[p] : x < inSeq[p]
  /\ \A x \in miss[p] : x <= last[p] /\ x < inSeq[p] /\ state[p] = "gap"
  /\ \A m \in pending[p] \cup replay[p] : m.type # "ResendRequest"
  /\ Truthful(pending[p] \cup replay[p], Due(p))

Whole(p) ==
  \A n \in Due(p) : n < inSeq[p] => n \in Given(p) \cup miss[p] \cup queue[p]

(* p will not get anything any more.                                       *)
Over(p) ==
  state[p] = "loggedOut" /\ used["connect"] # 0 /\ (p = Acceptor => hello = {})

(* Before the acceptor has read the Logon nothing else happens.            *)
Opening ==
  /\ used["connect"] = 0 => hello = {} /\ \A p \in Peer : state[p] = "loggedOut"
  /\ hello # {} => state[Acceptor] = "loggedOut"
  /\ \A h \in hello :
       /\ h.seq \notin Stored(outLog, Initiator)
       /\ h.conn = conn[Initiator] => net[Initiator] = <<>> /\ todo[Initiator] = <<>>

Side(p) ==
  /\ Tidy(p) /\ Truthful(Elements(net[p]), Due(p))
  /\ Asked(p) /\ Led(p) /\ Playing(p)
  /\ Over(p) \/ Whole(p)

(* Neither a restart nor a second connection.                              *)
OneLink == Calm /\ used["connect"] <= 1

SInv == OneLink => Opening /\ \A p \in Peer : Side(p)

-----------------------------------------------------------------------------
(* What a step of p that takes the messages M does to its own side.        *)

(* x is the next message for the application.                              *)
Gives(p) ==
  \E n \in Due(p) : /\ delivered'[p] = Append(delivered[p], n)
                    /\ n \notin Given(p)
                    /\ \A k \in Due(p) : k < n => k \in Given(p)

Bridged(p, a, b) ==
  Linked(Other(p)) => \A x \in Nat : a <= x /\ x < b => Resent(Other(p), x)'

Forward(p, M) ==
  /\ Tidy(p)'
  /\ \A x \in Nat : Lacks(p, x)' => Lacks(p, x)
  /\ \A m \in M : m.dup /\ state'[p] # "loggedOut" /\ Heeds(p)' =>
       \A x \in Nat : Covers(m, x) => ~Lacks(p, x)'
  /\ Whole(p) => /\ state'[p] = "loggedOut" \/ Whole(p)'
                 /\ delivered'[p] = delivered[p] \/ Gives(p)
  /\ \A t \in Tasks(p)' : t.do = "play" =>
       \/ \E m \in M : m.type = "ResendRequest" /\ t.seq = m.arg
       \/ \E s \in Tasks(p) : s.do = "play" /\ Bridged(p, s.seq, t.seq)

(* What it writes on connection c.                                         *)
Tells(p, c, n) ==
  \/ net'[Other(p)] = n[Other(p)]
  \/ /\ c # 0 /\ c = conn[Other(p)]
     /\ \E k \in Seq(Message) :
          /\ net'[Other(p)] = n[Other(p)] \o k
          /\ Truthful(Elements(k), Stored(outLog', p))
          /\ \A m \in Elements(k) :
               /\ m.type = "ResendRequest" => \A x \in Nat : x < m.arg => ~Lacks(p, x)'
               /\ m.dup => \E t \in Tasks(p) : t.do = "play" /\ t.seq = m.seq

Compiles(p) == Longer(outLog, outLog') /\ outLog'[Other(p)] = outLog[Other(p)]

-----------------------------------------------------------------------------
LEMMA Concat ==
  ASSUME NEW S, NEW a \in Seq(S), NEW b \in Seq(S)
  PROVE  /\ a \o b \in Seq(S) /\ Elements(a \o b) = Elements(a) \cup Elements(b)
         /\ \A i \in DOMAIN a : i \in DOMAIN (a \o b) /\ (a \o b)[i] = a[i]
         /\ \A i \in DOMAIN (a \o b) :
              \/ i \in DOMAIN a /\ (a \o b)[i] = a[i]
              \/ (a \o b)[i] \in Elements(b) /\ DOMAIN a \subseteq 1..i - 1
<1>1. /\ Len(a) \in Nat /\ Len(b) \in Nat
      /\ DOMAIN a = 1..Len(a) /\ DOMAIN b = 1..Len(b)
      /\ a \o b \in Seq(S) /\ Len(a \o b) = Len(a) + Len(b)
      /\ \A n \in 1..Len(a) + Len(b) :
           (a \o b)[n] = IF n <= Len(a) THEN a[n] ELSE b[n - Len(a)]
  BY LenProperties, ConcatProperties
<1>2. DOMAIN (a \o b) = 1..Len(a) + Len(b) BY <1>1, LenProperties
<1>3. \A i \in DOMAIN a : i \in DOMAIN (a \o b) /\ (a \o b)[i] = a[i]
  BY <1>1, <1>2
<1>4. \A i \in DOMAIN (a \o b) : i > Len(a) =>
        /\ i - Len(a) \in DOMAIN b /\ (a \o b)[i] = b[i - Len(a)]
        /\ DOMAIN a \subseteq 1..i - 1
  BY <1>1, <1>2
<1>5. \A i \in DOMAIN (a \o b) :
        \/ i \in DOMAIN a /\ (a \o b)[i] = a[i]
        \/ (a \o b)[i] \in Elements(b) /\ DOMAIN a \subseteq 1..i - 1
  <2> SUFFICES ASSUME NEW i \in DOMAIN (a \o b), i \notin DOMAIN a
               PROVE  (a \o b)[i] \in Elements(b) /\ DOMAIN a \subseteq 1..i - 1
    BY <1>3
  <2>1. i > Len(a) BY <1>1, <1>2
  <2> QED BY <1>4, <2>1 DEF Elements
<1>6. \A i \in DOMAIN b : i + Len(a) \in DOMAIN (a \o b) /\ (a \o b)[i + Len(a)] = b[i]
  <2> SUFFICES ASSUME NEW i \in DOMAIN b
               PROVE  i + Len(a) \in DOMAIN (a \o b) /\ (a \o b)[i + Len(a)] = b[i]
    OBVIOUS
  <2>1. i + Len(a) \in 1..Len(a) + Len(b) /\ ~(i + Len(a) <= Len(a)) /\ i + Len(a) - Len(a) = i
    BY <1>1
  <2> QED BY <1>1, <1>2, <2>1
<1>7. Elements(a \o b) = Elements(a) \cup Elements(b)
  <2>1. \A t \in Elements(a \o b) : t \in Elements(a) \cup Elements(b)
    BY <1>5 DEF Elements
  <2>2. \A t \in Elements(a) : t \in Elements(a \o b) BY <1>3 DEF Elements
  <2>3. \A t \in Elements(b) : t \in Elements(a \o b) BY <1>6 DEF Elements
  <2> QED BY <2>1, <2>2, <2>3
<1> QED BY <1>1, <1>3, <1>5, <1>7

LEMMA Playbacks ==
  ASSUME NEW b \in Nat, NEW e \in Nat
  PROVE  /\ Playback(b, e) \in Seq(Task)
         /\ \A t \in Elements(Playback(b, e)) : t.do = "play" /\ t.seq = b
<1> DEFINE task == [do |-> "play", seq |-> b, to |-> e]
<1>1. task \in Task /\ task.do = "play" /\ task.seq = b BY DEF Task
<1>2. Playback(b, e) = IF b > e THEN <<>> ELSE <<task>> BY DEF Playback
<1> HIDE DEF task
<1>3. <<>> \in Seq(Task) /\ <<task>> \in Seq(Task)
      /\ Elements(<<>>) = {} /\ Elements(<<task>>) = {task}
  BY <1>1, Single DEF Between
<1> QED BY <1>1, <1>2, <1>3

(* What is known of a message at hand besides Taken.                       *)
Handy(p, m) ==
  /\ Truthful({m}, Due(p))
  /\ m.type = "App" => m.seq \in Due(p)
  /\ m.dup => \A x \in Nat : x < m.seq => ~Lacks(p, x)

LEMMA DueIsNat == ASSUME TypeOK, NEW p \in Peer PROVE Due(p) \subseteq Nat
BY DEF Due, Stored

LEMMA Empty ==
  ASSUME TypeOK, NEW p \in Peer, Core(p), Tidy(p), state[p] # "gap"
  PROVE  miss[p] = {} /\ queue[p] = {} /\ pending[p] = {}
BY DEF Core, Gap, Tidy

LEMMA InSequenceForward ==
  ASSUME TypeOK, NEW p \in Peer, Core(p), Tidy(p), NEW m, NEW n, NEW left, NEW rest,
         Taken(p, m, left, rest), Handy(p, m), state[p] = "normal", ~m.dup, m.seq = inSeq[p],
         InSequence(p, m, n, rest), replay' = [replay EXCEPT ![p] = left],
         outLog'[Other(p)] = outLog[Other(p)]
  PROVE  Forward(p, {m})
<1>0. m \in Message /\ m.seq \in Nat /\ m.arg \in Nat BY DEF Taken, Message
<1>1. PICK first \in Seq(Task) :
        /\ todo' = [todo EXCEPT ![p] = first \o <<Do("persist", m.seq)>> \o rest]
        /\ \A t \in Elements(first) :
             t.do = "play" /\ m.type = "ResendRequest" /\ t.seq = m.arg
  <2>1. <<>> \in Seq(Task) /\ Elements(<<>>) = {} BY Single DEF Between
  <2>2. /\ PlaybackAll(p, m) \in Seq(Task)
        /\ \A t \in Elements(PlaybackAll(p, m)) : t.do = "play" /\ t.seq = m.arg
    BY <1>0, Playbacks, LenProperties DEF PlaybackAll, TypeOK
  <2> QED BY <2>1, <2>2 DEF InSequence
<1>2. /\ inSeq' = inSeq /\ state' = state /\ miss' = miss /\ last' = last
      /\ queue' = queue /\ pending' = pending
      /\ \/ delivered' = delivered /\ m.type # "App"
         \/ delivered' = [delivered EXCEPT ![p] = Append(delivered[p], m.seq)] /\ m.type = "App"
  BY DEF InSequence, protocolVars, storeVars, gapVars
<1>3. /\ Tasks(p)' = Elements(first) \cup {Do("persist", m.seq)} \cup Elements(rest)
      /\ Do("persist", m.seq).do = "persist" /\ Do("persist", m.seq).seq = m.seq
      /\ \A t \in Elements(rest) : t.do = "replay"
  <2> DEFINE own == <<Do("persist", m.seq)>>
  <2>1. /\ own \in Seq(Task) /\ Elements(own) = {Do("persist", m.seq)}
        /\ Do("persist", m.seq).do = "persist" /\ Do("persist", m.seq).seq = m.seq
    BY <1>0, Parts DEF Between
  <2>2. rest \in Seq(Task) /\ \A t \in Elements(rest) : t.do = "replay"
    BY Rest DEF Between
  <2>3. todo'[p] = first \o own \o rest BY <1>1 DEF TypeOK
  <2> HIDE DEF own
  <2>4. first \o own \in Seq(Task) /\ Elements(first \o own) = Elements(first) \cup Elements(own)
    BY <2>1, Concat
  <2>5. Elements(first \o own \o rest) = Elements(first \o own) \cup Elements(rest)
    BY <2>2, <2>4, Concat
  <2> QED BY <2>1, <2>2, <2>3, <2>4, <2>5 DEF Tasks
<1>4. /\ m.type = "App" => Given(p)' = Given(p) \cup {m.seq}
      /\ m.type # "App" => Given(p)' = Given(p)
  <2>1. CASE m.type = "App"
    <3>1. delivered'[p] = Append(delivered[p], m.seq) BY <1>2, <2>1 DEF TypeOK
    <3>2. \A i \in DOMAIN delivered[p] : delivered[p][i] < m.seq BY DEF Taken, Given
    <3>3. Rising(delivered[p]) /\ delivered[p] \in Seq(Nat) BY Numbers DEF Core, Delivery
    <3>4. {Append(delivered[p], m.seq)[i] : i \in DOMAIN Append(delivered[p], m.seq)}
          = {delivered[p][i] : i \in DOMAIN delivered[p]} \cup {m.seq}
      BY <1>0, <3>2, <3>3, GivenMore
    <3> QED BY <2>1, <3>1, <3>4 DEF Given
  <2>2. CASE m.type # "App" BY <1>2, <2>2 DEF Given
  <2> QED BY <2>1, <2>2
<1>5. Due(p)' = Due(p) /\ miss[p] = {} /\ queue[p] = {} /\ pending[p] = {}
  BY Empty DEF Due, Stored
<1>6. replay'[p] = left /\ left \subseteq replay[p] BY DEF TypeOK, Taken
<1>7. Tidy(p)'
  <2>1. m.seq \in Due(p) => m.seq \in Given(p)'
    BY <1>4 DEF Handy, Truthful, InSequence
  <2>2. \A t \in Tasks(p)' : /\ t.do # "save"
                             /\ t.do = "persist" /\ t.seq \in Due(p)' => t.seq \in Given(p)'
    BY <1>1, <1>3, <1>5, <2>1
  <2>3. \A x \in pending'[p] \cup replay'[p] : x \in pending[p] \cup replay[p]
    BY <1>2, <1>6
  <2>4. /\ \A x \in pending'[p] \cup replay'[p] : x.type # "ResendRequest"
        /\ Truthful(pending'[p] \cup replay'[p], Due(p))
    BY <2>3 DEF Tidy, Truthful
  <2> QED BY <1>2, <1>5, <2>2, <2>4 DEF Tidy
<1>8. Whole(p) => Whole(p)' BY <1>2, <1>4, <1>5 DEF Whole
<1>9. Whole(p) => delivered'[p] = delivered[p] \/ Gives(p)
  <2> SUFFICES ASSUME Whole(p), m.type = "App" PROVE Gives(p)
    BY <1>2
  <2>1. delivered'[p] = Append(delivered[p], m.seq) BY <1>2 DEF TypeOK
  <2>2. m.seq \in Due(p) BY DEF Handy
  <2>3. m.seq \notin Given(p)
    <3>1. \A d \in Given(p) : d < m.seq /\ d \in Nat BY Numbers DEF Taken
    <3> QED BY <1>0, <3>1
  <2> QED BY <1>5, <2>1, <2>2, <2>3 DEF Gives, Whole
<1>10. \A t \in Tasks(p)' : t.do = "play" => m.type = "ResendRequest" /\ t.seq = m.arg
  BY <1>1, <1>3
<1> QED BY <1>2, <1>7, <1>8, <1>9, <1>10 DEF Forward, Lacks

LEMMA ForwardMore ==
  ASSUME NEW p, Forward(p, {}), NEW M, (\A m \in M : ~m.dup) \/ state'[p] = "loggedOut"
  PROVE  Forward(p, M)
BY DEF Forward

LEMMA StartGapForward ==
  ASSUME TypeOK, NEW p \in Peer, Core(p), Tidy(p), NEW seq \in Nat, inSeq[p] <= seq,
         state[p] # "gap", StartGap(p, seq), delivered' = delivered,
         outLog'[Other(p)] = outLog[Other(p)], replay'[p] \subseteq replay[p],
         \A t \in Tasks(p)' : t.do = "replay"
  PROVE  Forward(p, {}) /\ \A x \in Nat : x < inSeq[p] => ~Lacks(p, x)'
<1>1. /\ state'[p] = "gap" /\ miss'[p] = inSeq[p]..seq /\ last'[p] = seq
      /\ queue'[p] = {} /\ pending'[p] = {} /\ inSeq'[p] = seq + 1
  BY DEF StartGap, Missing, TypeOK
<1>2. miss[p] = {} /\ queue[p] = {} BY Empty
<1>3. inSeq[p] \in Nat /\ Due(p) \subseteq Nat /\ Given(p)' = Given(p) /\ Due(p)' = Due(p)
  BY Numbers, DueIsNat DEF Given, Due, Stored
<1>4. Tidy(p)'
  <2>1. \A m \in pending'[p] \cup replay'[p] : m \in pending[p] \cup replay[p] BY <1>1
  <2>2. /\ \A m \in pending'[p] \cup replay'[p] : m.type # "ResendRequest"
        /\ Truthful(pending'[p] \cup replay'[p], Due(p))
    BY <2>1 DEF Tidy, Truthful
  <2>3. \A x \in miss'[p] : x <= last'[p] /\ x < inSeq'[p] BY <1>1, <1>3
  <2> QED BY <1>1, <1>3, <2>2, <2>3 DEF Tidy
<1>5. Whole(p) => Whole(p)' BY <1>1, <1>2, <1>3 DEF Whole
<1>6. \A x \in Nat : Lacks(p, x)' => Lacks(p, x) BY <1>1, <1>3 DEF Lacks
<1>7. \A x \in Nat : x < inSeq[p] => ~Lacks(p, x)' BY <1>1, <1>3 DEF Lacks
<1> QED BY <1>4, <1>5, <1>6, <1>7 DEF Forward

LEMMA DieForward ==
  ASSUME TypeOK, NEW p \in Peer, NEW n, Die(p, n), delivered' = delivered,
         outLog'[Other(p)] = outLog[Other(p)], inSeq'[p] \in Nat, inSeq'[p] >= inSeq[p]
  PROVE  Forward(p, {}) /\ state'[p] = "loggedOut"
<1>1. /\ state'[p] = "loggedOut" /\ miss'[p] = {} /\ queue'[p] = {}
      /\ pending'[p] = {} /\ replay'[p] = {} /\ todo'[p] = <<>>
  BY DEF Die, TypeOK
<1>2. Tasks(p)' = {} BY <1>1, Single DEF Tasks
<1>3. Tidy(p)' BY <1>1, <1>2 DEF Tidy, Truthful
<1>4. \A x \in Nat : Lacks(p, x)' => Lacks(p, x) BY <1>1, Numbers DEF Lacks
<1> QED BY <1>1, <1>2, <1>3, <1>4 DEF Forward

LEMMA OutOfSequenceForward ==
  ASSUME TypeOK, NEW p \in Peer, Core(p), Tidy(p), NEW m, NEW n, NEW left, NEW rest,
         Taken(p, m, left, rest), state[p] = "normal", ~m.dup, m.seq # inSeq[p],
         OutOfSequence(p, m, n, rest), replay' = [replay EXCEPT ![p] = left],
         outLog'[Other(p)] = outLog[Other(p)]
  PROVE  /\ Forward(p, {m})
         /\ m.type # "ResendRequest" => \A x \in Nat : x < inSeq[p] => ~Lacks(p, x)'
<1>0. /\ m \in Message /\ m.seq \in Nat /\ m.arg \in Nat /\ inSeq[p] <= m.seq
      /\ replay'[p] = left /\ left \subseteq replay[p]
  BY DEF Taken, Message, TypeOK
<1>1. rest \in Seq(Task) /\ \A t \in Elements(rest) : t.do = "replay"
  BY Rest DEF Between
<1>2. CASE m.type = "ResendRequest"
  <2> DEFINE first == PlaybackAll(p, m)
             own == <<Do("open", m.seq)>>
  <2>1. /\ todo'[p] = first \o own \o rest
        /\ UNCHANGED <<protocolVars, storeVars, gapVars, delivered>>
    BY <1>2 DEF OutOfSequence, TypeOK
  <2>2. /\ first \in Seq(Task)
        /\ \A t \in Elements(first) : t.do = "play" /\ t.seq = m.arg
    BY <1>0, Playbacks, LenProperties DEF PlaybackAll, TypeOK
  <2>3. /\ own \in Seq(Task) /\ Elements(own) = {Do("open", m.seq)}
        /\ Do("open", m.seq).do = "open"
    BY <1>0, Parts DEF Between
  <2> HIDE DEF first, own
  <2>4. first \o own \in Seq(Task) /\ Elements(first \o own) = Elements(first) \cup Elements(own)
    BY <2>2, <2>3, Concat
  <2>5. Elements(first \o own \o rest) = Elements(first \o own) \cup Elements(rest)
    BY <1>1, <2>4, Concat
  <2>6. Tasks(p)' = Elements(first) \cup {Do("open", m.seq)} \cup Elements(rest)
    BY <2>1, <2>3, <2>4, <2>5 DEF Tasks
  <2>7. /\ inSeq' = inSeq /\ state' = state /\ miss' = miss /\ last' = last
        /\ queue' = queue /\ pending' = pending /\ delivered' = delivered
        /\ Due(p)' = Due(p) /\ Given(p)' = Given(p)
    BY <2>1 DEF protocolVars, storeVars, gapVars, Due, Stored, Given
  <2>8. Tidy(p)'
    <3>1. \A x \in pending'[p] \cup replay'[p] : x \in pending[p] \cup replay[p]
      BY <1>0, <2>7
    <3>2. /\ \A x \in pending'[p] \cup replay'[p] : x.type # "ResendRequest"
          /\ Truthful(pending'[p] \cup replay'[p], Due(p))
      BY <3>1 DEF Tidy, Truthful
    <3>3. \A t \in Tasks(p)' : t.do \notin {"save", "persist"} BY <1>1, <2>2, <2>3, <2>6
    <3> QED BY <2>7, <3>2, <3>3 DEF Tidy
  <2>9. \A t \in Tasks(p)' : t.do = "play" => t.seq = m.arg BY <1>1, <2>2, <2>3, <2>6
  <2>10. Whole(p) => Whole(p)' BY <2>7 DEF Whole
  <2> QED BY <1>2, <2>7, <2>8, <2>9, <2>10 DEF Forward, Lacks
<1>3. CASE m.type # "ResendRequest"
  <2>1. /\ StartGap(p, m.seq) /\ delivered' = delivered
        /\ todo'[p] = rest /\ Tasks(p)' = Elements(rest)
    BY <1>3 DEF OutOfSequence, TypeOK, Tasks
  <2>2. \A t \in Tasks(p)' : t.do = "replay" BY <1>1, <2>1
  <2>3. state[p] # "gap" /\ replay'[p] \subseteq replay[p] BY <1>0
  <2>4. Forward(p, {}) /\ \A x \in Nat : x < inSeq[p] => ~Lacks(p, x)'
    BY <1>0, <2>1, <2>2, <2>3, StartGapForward
  <2> QED BY <2>4, ForwardMore
<1> QED BY <1>2, <1>3

LEMMA RaiseForward ==
  ASSUME TypeOK, NEW p \in Peer, NEW n, Raise(p, n), NEW M
  PROVE  Forward(p, M)
<1>1. /\ Die(p, n) /\ delivered' = delivered /\ outLog' = outLog
      /\ inSeq'[p] \in Nat /\ inSeq'[p] >= inSeq[p]
  BY Numbers DEF Raise, storeVars
<1> QED BY <1>1, DieForward, ForwardMore

LEMMA OnMsgNormalForward ==
  ASSUME TypeOK, NEW p \in Peer, Core(p), Tidy(p), NEW m, NEW n, NEW left, NEW rest,
         Taken(p, m, left, rest), Handy(p, m), state[p] = "normal",
         OnMsgNormal(p, m, n, left, rest), outLog'[Other(p)] = outLog[Other(p)]
  PROVE  Forward(p, {m})
<1>1. CASE Raise(p, n) BY <1>1, RaiseForward
<1>2. CASE ~Raise(p, n)
  BY <1>2, InSequenceForward, OutOfSequenceForward DEF OnMsgNormal
<1> QED BY <1>1, <1>2

(* A duplicate is the next thing p lacks, or nothing p lacks.              *)
LEMMA DupNext ==
  ASSUME TypeOK, NEW p \in Peer, Tidy(p), NEW m, NEW left, NEW rest,
         Taken(p, m, left, rest), Handy(p, m), state[p] = "gap", m.dup
  PROVE  /\ m.seq \in Nat /\ m.arg \in Nat
         /\ \A x \in miss[p] : m.seq <= x
         /\ m.seq < inSeq[p]
<1>1. m.seq \in Nat /\ m.arg \in Nat BY DEF Taken, Message
<1>2. inSeq[p] \in Nat /\ miss[p] \subseteq Nat BY Numbers
<1>3. \A x \in miss[p] : m.seq <= x BY <1>1, <1>2 DEF Handy, Lacks
<1>4. PICK x \in miss[p] : TRUE BY DEF Taken
<1>5. x < inSeq[p] BY DEF Tidy
<1> QED BY <1>1, <1>2, <1>3, <1>5

LEMMA GapTasks ==
  ASSUME TypeOK, NEW p \in Peer, NEW m, NEW left, NEW rest, Taken(p, m, left, rest),
         m.dup \/ m.type = "GapFill", NEW gaps,
         todo' = [todo EXCEPT ![p] = WhenFilled(gaps) \o rest],
         replay' = [replay EXCEPT ![p] = left]
  PROVE  replay'[p] = {} /\ \A t \in Tasks(p)' : t.do = "drain"
<1>1. left = {} /\ rest = <<>> BY DEF Taken
<1>2. /\ WhenFilled(gaps) \in Seq(Task)
      /\ Elements(WhenFilled(gaps)) \subseteq {Do("drain", 0)} /\ Do("drain", 0).do = "drain"
  BY Parts DEF Between
<1>3. <<>> \in Seq(Task) /\ Elements(<<>>) = {} BY Single DEF Between
<1>4. Elements(WhenFilled(gaps) \o rest) = Elements(WhenFilled(gaps))
  BY <1>1, <1>2, <1>3, Concat
<1> QED BY <1>1, <1>2, <1>4 DEF TypeOK, Tasks

LEMMA OnGapFillForward ==
  ASSUME TypeOK, NEW p \in Peer, Core(p), Tidy(p), NEW m, NEW n, NEW left, NEW rest,
         Taken(p, m, left, rest), Handy(p, m), state[p] = "gap", m.type = "GapFill",
         OnGapFill(p, m, n, left, rest), outLog'[Other(p)] = outLog[Other(p)]
  PROVE  Forward(p, {m})
<1>0. m.dup /\ \A x \in Due(p) : ~Covers(m, x) BY DEF Handy, Truthful
<1>1. /\ m.seq \in Nat /\ m.arg \in Nat /\ \A x \in miss[p] : m.seq <= x
      /\ m.seq < inSeq[p] /\ inSeq[p] \in Nat /\ Reach(m) = m.arg
  BY <1>0, DupNext, Numbers DEF Reach
<1>2. /\ inSeq'[p] = Advance(inSeq[p], m.arg) /\ delivered' = delivered
  BY DEF OnGapFill, TypeOK
<1>3. /\ inSeq'[p] \in Nat /\ inSeq'[p] >= inSeq[p] /\ inSeq'[p] >= m.arg
      /\ inSeq'[p] = inSeq[p] \/ inSeq'[p] = m.arg
  BY <1>1, <1>2 DEF Advance
<1>4. CASE Die(p, n) BY <1>2, <1>3, <1>4, DieForward, ForwardMore
<1>5. CASE ~Die(p, n)
  <2> DEFINE gaps == miss[p] \ (m.seq..(m.arg - 1))
  <2>1. /\ miss' = [miss EXCEPT ![p] = gaps]
        /\ todo' = [todo EXCEPT ![p] = WhenFilled(gaps) \o rest]
        /\ replay' = [replay EXCEPT ![p] = left]
        /\ UNCHANGED <<state, last, queue, pending>>
    BY <1>5 DEF OnGapFill, protocolVars
  <2>2. /\ miss'[p] \subseteq miss[p]
        /\ \A x \in Nat : Covers(m, x) => x \notin miss'[p]
        /\ \A x \in miss[p] : x \in miss'[p] \/ Covers(m, x)
    <3>1. miss'[p] = gaps BY <2>1 DEF TypeOK
    <3>2. miss[p] \subseteq Nat BY Numbers
    <3> QED BY <1>1, <3>1, <3>2 DEF Covers
  <2> HIDE DEF gaps
  <2>3. replay'[p] = {} /\ \A t \in Tasks(p)' : t.do = "drain"
    BY <2>1, GapTasks
  <2>4. Given(p)' = Given(p) /\ Due(p)' = Due(p) /\ Due(p) \subseteq Nat
    BY <1>2, DueIsNat DEF Given, Due, Stored
  <2>5. miss[p] \subseteq Nat /\ queue[p] \subseteq Nat /\ last[p] \in Nat BY Numbers
  <2>6. Tidy(p)'
    <3>1. /\ \A x \in queue[p] : x \in Nat /\ x < inSeq[p]
          /\ \A x \in miss[p] : x \in Nat /\ x <= last[p] /\ x < inSeq[p]
      BY <2>5 DEF Tidy
    <3>2. \A x \in Nat : x < inSeq[p] => x < inSeq'[p] BY <1>1, <1>3
    <3>3. \A x \in miss'[p] : x <= last[p] /\ x < inSeq'[p] BY <2>2, <3>1, <3>2
    <3>4. \A x \in queue[p] : x < inSeq'[p] BY <3>1, <3>2
    <3> QED BY <2>1, <2>3, <2>4, <3>3, <3>4 DEF Tidy, Truthful
  <2>7. \A x \in Nat : Lacks(p, x)' => Lacks(p, x)
    BY <1>1, <1>3, <2>2 DEF Lacks
  <2>8. \A x \in Nat : Covers(m, x) => ~Lacks(p, x)'
    BY <1>1, <1>3, <2>2 DEF Lacks, Covers
  <2>9. Whole(p) => Whole(p)'
    <3> SUFFICES ASSUME Whole(p), NEW x \in Due(p), x < inSeq'[p]
                 PROVE  x \in Given(p) \cup miss'[p] \cup queue[p]
      BY <2>1, <2>4 DEF Whole
    <3>1. CASE x < inSeq[p] BY <1>0, <2>2, <3>1 DEF Whole
    <3>2. CASE ~(x < inSeq[p])
      <4>1. Covers(m, x) BY <1>1, <1>3, <2>4, <3>2 DEF Covers
      <4> QED BY <1>0, <4>1
    <3> QED BY <3>1, <3>2
  <2> QED BY <1>2, <2>3, <2>6, <2>7, <2>8, <2>9 DEF Forward
<1> QED BY <1>4, <1>5

LEMMA RecoveredForward ==
  ASSUME TypeOK, NEW p \in Peer, Core(p), Tidy(p), NEW m, NEW n, NEW left, NEW rest,
         Taken(p, m, left, rest), Handy(p, m), state[p] = "gap", m.type # "GapFill", m.dup,
         OnMsgGap(p, m, n, left, rest)
  PROVE  Forward(p, {m})
<1> DEFINE gaps == miss[p] \ {m.seq}
<1>1. /\ m.seq \in Nat /\ \A x \in miss[p] : m.seq <= x
      /\ m.seq < inSeq[p] /\ inSeq[p] \in Nat /\ Reach(m) = m.seq + 1
  BY DupNext, Numbers DEF Reach
<1>2. /\ miss' = [miss EXCEPT ![p] = gaps]
      /\ queue'[p] = IF m.seq \in miss[p] \/ m.seq > last[p] THEN queue[p] \cup {m.seq}
                                                             ELSE queue[p]
      /\ todo' = [todo EXCEPT ![p] = WhenFilled(gaps) \o rest]
      /\ replay' = [replay EXCEPT ![p] = left]
      /\ UNCHANGED <<protocolVars, storeVars, last, pending, delivered>>
  BY DEF OnMsgGap, TypeOK, Urgent
<1>3. miss'[p] = miss[p] \ {m.seq} BY <1>2 DEF TypeOK
<1> HIDE DEF gaps
<1>4. replay'[p] = {} /\ \A t \in Tasks(p)' : t.do = "drain" BY <1>2, GapTasks
<1>5. /\ Given(p)' = Given(p) /\ Due(p)' = Due(p) /\ state' = state /\ inSeq' = inSeq
      /\ last' = last /\ pending' = pending /\ delivered' = delivered
  BY <1>2 DEF Given, Due, Stored, protocolVars, storeVars
<1>6. Tidy(p)'
  <2>1. \A x \in queue'[p] : x < inSeq'[p] BY <1>1, <1>2, <1>5 DEF Tidy
  <2> QED BY <1>3, <1>4, <1>5, <2>1 DEF Tidy, Truthful
<1>7. \A x \in Nat : Lacks(p, x)' => Lacks(p, x) BY <1>3, <1>5 DEF Lacks
<1>8. \A x \in Nat : Covers(m, x) => ~Lacks(p, x)'
  <2>1. \A x \in Nat : Covers(m, x) => x = m.seq BY <1>1 DEF Covers
  <2> QED BY <1>1, <1>3, <1>5, <2>1 DEF Lacks
<1>9. Whole(p) => Whole(p)' BY <1>2, <1>3, <1>5 DEF Whole
<1> QED BY <1>4, <1>5, <1>6, <1>7, <1>8, <1>9 DEF Forward

LEMMA PutAsideForward ==
  ASSUME TypeOK, NEW p \in Peer, Core(p), Tidy(p), NEW m, NEW n, NEW left, NEW rest,
         Taken(p, m, left, rest), Handy(p, m), state[p] = "gap", m.type # "GapFill", ~m.dup,
         OnMsgGap(p, m, n, left, rest)
  PROVE  Forward(p, {m})
<1>0. /\ m \in Message /\ m.seq \in Nat /\ m.arg \in Nat /\ miss[p] # {}
      /\ left \subseteq replay[p]
  BY DEF Taken, Message
<1>1. rest \in Seq(Task) /\ \A t \in Elements(rest) : t.do = "replay"
  BY Rest DEF Between
<1> DEFINE none == WhenFilled(miss[p])
<1>2. none \in Seq(Task) /\ Elements(none) = {} BY <1>0, Parts DEF Between
<1> HIDE DEF none
<1>3. /\ inSeq' = inSeq /\ state' = state /\ miss' = miss /\ last' = last /\ queue' = queue
      /\ delivered' = delivered /\ outLog' = outLog /\ replay' = [replay EXCEPT ![p] = left]
      /\ \/ pending' = pending
         \/ pending' = [pending EXCEPT ![p] = @ \cup {m}] /\ m.type # "ResendRequest"
  BY DEF OnMsgGap, protocolVars, storeVars, gapVars, Urgent
<1>4. \A t \in Tasks(p)' :
        \/ t.do = "replay"
        \/ t.do = "play" /\ m.type = "ResendRequest" /\ t.seq = m.arg
        \/ t.do = "persist" /\ m.type = "ResendRequest" /\ t.seq = m.seq
  <2>1. CASE Urgent(m)
    <3> DEFINE first == PlaybackAll(p, m)
               own == IF m.seq = inSeq[p] THEN <<Do("persist", m.seq)>> ELSE <<>>
    <3>1. todo'[p] = first \o own \o none \o rest
      BY <2>1 DEF OnMsgGap, Urgent, none, TypeOK
    <3>2. /\ first \in Seq(Task)
          /\ \A t \in Elements(first) : t.do = "play" /\ t.seq = m.arg
      BY <1>0, Playbacks, LenProperties DEF PlaybackAll, TypeOK
    <3>3. /\ own \in Seq(Task)
          /\ \A t \in Elements(own) : t.do = "persist" /\ t.seq = m.seq
      <4> DEFINE it == <<Do("persist", m.seq)>>
      <4>1. /\ it \in Seq(Task) /\ Elements(it) = {Do("persist", m.seq)}
            /\ Do("persist", m.seq).do = "persist" /\ Do("persist", m.seq).seq = m.seq
        BY <1>0, Parts DEF Between
      <4>2. <<>> \in Seq(Task) /\ Elements(<<>>) = {} BY Single DEF Between
      <4>3. own = it \/ own = <<>> OBVIOUS
      <4> HIDE DEF it, own
      <4> QED BY <4>1, <4>2, <4>3
    <3> HIDE DEF first, own
    <3>4. first \o own \in Seq(Task) /\ Elements(first \o own) = Elements(first) \cup Elements(own)
      BY <3>2, <3>3, Concat
    <3>5. /\ first \o own \o none \in Seq(Task)
          /\ Elements(first \o own \o none) = Elements(first \o own) \cup Elements(none)
      BY <1>2, <3>4, Concat
    <3>6. Elements(first \o own \o none \o rest)
          = Elements(first \o own \o none) \cup Elements(rest)
      BY <1>1, <3>5, Concat
    <3> QED BY <1>1, <1>2, <2>1, <3>1, <3>2, <3>3, <3>4, <3>5, <3>6 DEF Tasks, Urgent
  <2>2. CASE ~Urgent(m)
    <3>1. todo'[p] = none \o rest BY <2>2 DEF OnMsgGap, none, TypeOK
    <3>2. Elements(none \o rest) = Elements(none) \cup Elements(rest) BY <1>1, <1>2, Concat
    <3> QED BY <1>1, <1>2, <3>1, <3>2 DEF Tasks
  <2> QED BY <2>1, <2>2
<1>5. /\ \A x \in pending'[p] \cup replay'[p] :
           x \in pending[p] \cup replay[p] \/ (x = m /\ m.type # "ResendRequest")
  BY <1>0, <1>3 DEF TypeOK
<1>6. /\ \A x \in pending'[p] \cup replay'[p] : x.type # "ResendRequest"
      /\ Truthful(pending'[p] \cup replay'[p], Due(p))
  BY <1>5 DEF Tidy, Truthful, Handy
<1>7. Given(p)' = Given(p) /\ Due(p)' = Due(p) BY <1>3 DEF Given, Due, Stored
<1>8. Tidy(p)'
  <2>1. m.type = "ResendRequest" => m.seq \notin Due(p) BY DEF Handy, Truthful
  <2>2. \A t \in Tasks(p)' : /\ t.do # "save"
                             /\ t.do = "persist" => t.seq \notin Due(p)
    BY <1>4, <2>1
  <2> QED BY <1>3, <1>6, <1>7, <2>2 DEF Tidy
<1>9. Whole(p) => Whole(p)' BY <1>3, <1>7 DEF Whole
<1>10. \A t \in Tasks(p)' : t.do = "play" => m.type = "ResendRequest" /\ t.seq = m.arg
  BY <1>4
<1> QED BY <1>3, <1>8, <1>9, <1>10 DEF Forward, Lacks

LEMMA OnMsgGapForward ==
  ASSUME TypeOK, NEW p \in Peer, Core(p), Tidy(p), NEW m, NEW n, NEW left, NEW rest,
         Taken(p, m, left, rest), Handy(p, m), state[p] = "gap",
         OnMsgGap(p, m, n, left, rest), outLog'[Other(p)] = outLog[Other(p)]
  PROVE  Forward(p, {m})
<1>1. CASE m.type = "GapFill"
  <2>1. OnGapFill(p, m, n, left, rest)
    BY <1>1 DEF OnMsgGap, Urgent
  <2> QED BY <1>1, <2>1, OnGapFillForward
<1>2. CASE m.type # "GapFill" /\ m.dup BY <1>2, RecoveredForward
<1>3. CASE m.type # "GapFill" /\ ~m.dup BY <1>3, PutAsideForward
<1> QED BY <1>1, <1>2, <1>3

-----------------------------------------------------------------------------
(* The rest of a callback.                                                 *)
LEMMA PlayForward ==
  ASSUME TypeOK, NEW p \in Peer, Core(p), Tidy(p), Play(p)
  PROVE  Forward(p, {})
<1> DEFINE h == Head(todo[p])
           end == Head(todo[p]).to
<1>1. todo[p] # <<>> /\ h.do = "play" BY DEF Play, Doing
<1>2. h.seq \in Nat /\ end \in Nat BY <1>1, TaskAtHand
<1>3. PICK j \in LastOfItem(p, h.seq, end) :
        /\ todo' = [todo EXCEPT ![p] = Playback(j + 1, end) \o Tail(todo[p])]
        /\ net' = Wire(net, p, conn[p], <<ResentItem(p, h.seq, j)>>)
  BY DEF Play, Then
<1>4. j \in Nat /\ j + 1 \in Nat BY <1>2 DEF LastOfItem
<1>5. /\ h \in Tasks(p) /\ Tasks(p) = {h} \cup Elements(Tail(todo[p]))
      /\ Tail(todo[p]) \in Seq(Task)
  BY <1>1, AtHand DEF Between
<1> DEFINE more == Playback(j + 1, end)
           r == ResentItem(p, h.seq, j)
<1>6. more \in Seq(Task) /\ \A t \in Elements(more) : t.do = "play" /\ t.seq = j + 1
  BY <1>2, <1>4, Playbacks
<1>7. /\ r.dup /\ \A x \in Nat : h.seq <= x /\ x < j + 1 => Covers(r, x)
      /\ r \in Message
  <2>1. j = h.seq \/ ~StoredApp(p, h.seq) BY DEF LastOfItem
  <2>2. CASE StoredApp(p, h.seq)
    BY <1>2, <1>4, <2>1, <2>2 DEF ResentItem, Covers, Reach, Message, MsgType
  <2>3. CASE ~StoredApp(p, h.seq)
    BY <1>2, <1>4, <2>3 DEF ResentItem, Covers, Reach, Message, MsgType
  <2> QED BY <2>2, <2>3
<1> DEFINE rest == Tail(todo[p])
<1>16. rest \in Seq(Task) /\ Tasks(p) = {h} \cup Elements(rest) BY <1>5
<1>17. todo'[p] = more \o rest BY <1>3 DEF TypeOK
<1> HIDE DEF h, end, more, r, rest
<1>8. Elements(more \o rest) = Elements(more) \cup Elements(rest)
  BY <1>6, <1>16, Concat
<1>9. \A t \in Tasks(p)' : (t.do = "play" /\ t.seq = j + 1) \/ t \in Tasks(p)
  BY <1>6, <1>8, <1>16, <1>17 DEF Tasks
<1>10. Bridged(p, h.seq, j + 1)
  <2> SUFFICES ASSUME Linked(Other(p)), NEW x \in Nat, h.seq <= x, x < j + 1
               PROVE  Resent(Other(p), x)'
    BY DEF Bridged
  <2>1. conn[p] # 0 /\ conn[p] = conn[Other(p)] BY OtherOfOther DEF Linked
  <2>2. net'[Other(p)] = net[Other(p)] \o <<r>>
    BY <1>3, <2>1, OtherOfOther DEF Wire, TypeOK, r, h
  <2> DEFINE old == net[Other(p)]
             new == <<r>>
  <2>3. old \in Seq(Message) /\ new \in Seq(Message) /\ r \in Elements(new)
    <3>1. new \in Seq(Message) /\ DOMAIN new = {1} /\ new[1] = r BY <1>7
    <3>2. old \in Seq(Message) BY OtherOfOther DEF TypeOK
    <3> QED BY <3>1, <3>2 DEF Elements
  <2>4. net'[Other(p)] = old \o new BY <2>2
  <2> HIDE DEF old, new
  <2>5. Elements(old \o new) = Elements(old) \cup Elements(new) BY <2>3, Concat
  <2>6. r \in Elements(net'[Other(p)]) BY <2>3, <2>4, <2>5
  <2> QED BY <1>7, <2>6 DEF Resent
<1>11. \A s \in Tasks(p) : Bridged(p, s.seq, s.seq)
  <2>1. \A s \in Tasks(p) : s.seq \in Nat BY Numbers
  <2> QED BY <2>1 DEF Bridged
<1>12. UNCHANGED <<state, inSeq, miss, last, queue, pending, replay, delivered, outLog>>
  BY DEF Play, protocolVars, storeVars, gapVars
<1>13. Given(p)' = Given(p) /\ Due(p)' = Due(p) BY <1>12 DEF Given, Due, Stored
<1>14. Tidy(p)' BY <1>9, <1>12, <1>13 DEF Tidy
<1>15. Whole(p) => Whole(p)' BY <1>12, <1>13 DEF Whole
<1> QED BY <1>1, <1>5, <1>9, <1>10, <1>11, <1>12, <1>14, <1>15 DEF Forward, Lacks, h

LEMMA OpenForward ==
  ASSUME TypeOK, NEW p \in Peer, Core(p), Tidy(p), Open(p)
  PROVE  Forward(p, {}) /\ \A x \in Nat : x < inSeq[p] => ~Lacks(p, x)'
<1> DEFINE h == Head(todo[p])
<1>1. /\ todo[p] # <<>> /\ h.do = "open" /\ StartGap(p, h.seq)
      /\ todo' = [todo EXCEPT ![p] = <<>> \o Tail(todo[p])]
      /\ UNCHANGED <<delivered, replay>> /\ outLog'[Other(p)] = outLog[Other(p)]
  BY OtherOfOther DEF Open, Doing, Then, Emit, Record, TypeOK
<1>2. /\ h \in Tasks(p) /\ h \in Task /\ h.seq \in Nat
      /\ Tasks(p) = {h} \cup Elements(Tail(todo[p]))
      /\ Between(Tail(todo[p]), Rank(h) + 1, 4)
      /\ \A t \in Elements(Tail(todo[p])) : Rank(h) < Rank(t)
  BY <1>1, AtHand
<1>3. Rank(h) = 2 BY <1>1, <1>2, RankTells DEF Moves
<1>4. todo'[p] = Tail(todo[p]) BY <1>1, <1>2 DEF TypeOK, Between
<1> HIDE DEF h
<1>5. h.seq > inSeq[p] /\ state[p] = "normal" BY <1>1, <1>2 DEF Core, Callback
<1>6. \A t \in Tasks(p)' : t.do = "replay"
  <2>1. \A t \in Elements(Tail(todo[p])) : t \in Task /\ Rank(t) \in {3, 4}
    BY <1>2, <1>3, Numbers, RankIsNat
  <2>2. \A t \in Elements(Tail(todo[p])) : t.do # "drain"
    BY <1>2, <1>5 DEF Core, Callback
  <2>3. \A t \in Elements(Tail(todo[p])) : t.do = "replay" BY <2>1, <2>2, RankTells
  <2> QED BY <1>4, <2>3 DEF Tasks
<1>7. inSeq[p] <= h.seq BY <1>2, <1>5, Numbers
<1>8. replay'[p] \subseteq replay[p] /\ state[p] # "gap" BY <1>1, <1>5
<1> QED BY <1>1, <1>2, <1>6, <1>7, <1>8, StartGapForward

LEMMA PersistForward ==
  ASSUME TypeOK, NEW p \in Peer, Core(p), Tidy(p), Persist(p)
  PROVE  Forward(p, {})
<1> DEFINE h == Head(todo[p])
<1>1. CASE Raise(p, net) BY <1>1, RaiseForward
<1>2. CASE ~Raise(p, net)
  <2>1. /\ todo[p] # <<>> /\ h.do \in {"persist", "save"}
        /\ PersistAndAdvance(p, h.seq) /\ Then(p, <<>>)
        /\ UNCHANGED <<protocolVars, outLog, gapVars, replay, net, delivered>>
    BY <1>2 DEF Persist, Doing
  <2>2. /\ h \in Tasks(p) /\ h \in Task /\ h.seq \in Nat
        /\ Tasks(p) = {h} \cup Elements(Tail(todo[p])) /\ Tail(todo[p]) \in Seq(Task)
    BY <2>1, AtHand DEF Between
  <2>3. h.seq = inSeq[p] /\ (h.seq \in Due(p) => h.seq \in Given(p))
    BY <2>1, <2>2 DEF Tidy, Core, Callback
  <2>4. /\ inSeq'[p] = inSeq[p] + 1 /\ todo'[p] = Tail(todo[p])
        /\ UNCHANGED <<state, miss, last, queue, pending, replay, delivered, outLog>>
    BY <2>1, <2>2, <2>3 DEF PersistAndAdvance, Then, TypeOK, protocolVars, gapVars
  <2> HIDE DEF h
  <2>5. Tasks(p)' \subseteq Tasks(p) BY <2>2, <2>4 DEF Tasks
  <2>6. /\ Given(p)' = Given(p) /\ Due(p)' = Due(p) /\ Due(p) \subseteq Nat
        /\ inSeq[p] \in Nat /\ miss[p] \subseteq Nat /\ queue[p] \subseteq Nat
    BY <2>4, Numbers, DueIsNat DEF Given, Due, Stored
  <2>7. \A x \in Nat : /\ x < inSeq[p] => x < inSeq'[p]
                       /\ x < inSeq'[p] => x < inSeq[p] \/ x = inSeq[p]
    BY <2>4, <2>6
  <2>8. Tidy(p)' BY <2>4, <2>5, <2>6, <2>7 DEF Tidy
  <2>9. Whole(p) => Whole(p)' BY <2>3, <2>4, <2>6, <2>7 DEF Whole
  <2>10. \A x \in Nat : Lacks(p, x)' => Lacks(p, x) BY <2>4, <2>6 DEF Lacks
  <2>11. \A s \in Tasks(p) : Bridged(p, s.seq, s.seq)
    <3>1. \A s \in Tasks(p) : s.seq \in Nat BY Numbers
    <3> QED BY <3>1 DEF Bridged
  <2> QED BY <2>4, <2>5, <2>8, <2>9, <2>10, <2>11 DEF Forward
<1> QED BY <1>1, <1>2

LEMMA DrainForward ==
  ASSUME TypeOK, Bounded, NEW p \in Peer, Core(p), Tidy(p), Drain(p)
  PROVE  Forward(p, {})
<1> DEFINE h == Head(todo[p])
<1>1. todo[p] # <<>> /\ h.do = "drain" BY DEF Drain, Doing
<1>2. PICK s \in queue[p] :
        /\ \A x \in queue[p] : s <= x
        /\ queue' = [queue EXCEPT ![p] = queue[p] \ {s}]
        /\ delivered' = [delivered EXCEPT ![p] = Append(delivered[p], s)]
        /\ todo' = [todo EXCEPT ![p] =
                      (IF s < inSeq[p] THEN <<>> ELSE <<Do("save", s)>>) \o todo[p]]
  BY DEF Drain
<1>3. h \in Tasks(p) BY <1>1, AtHand
<1>4. miss[p] = {} BY <1>1, <1>3 DEF Core, Callback
<1> HIDE DEF h
<1>5. /\ s \in Nat /\ s < inSeq[p] /\ s \in Due(p)
  <2>1. queue[p] \subseteq Due(p) BY DEF Bounded, FitQueue, Due
  <2> QED BY <2>1, Numbers DEF Tidy
<1>6. /\ todo'[p] = todo[p] /\ queue'[p] = queue[p] \ {s}
      /\ delivered'[p] = Append(delivered[p], s)
      /\ UNCHANGED <<state, inSeq, miss, last, pending, replay, outLog>>
  <2>1. <<>> \o todo[p] = todo[p] BY DEF TypeOK
  <2> QED BY <1>2, <1>5, <2>1 DEF Drain, TypeOK, protocolVars, storeVars
<1>7. Due(p)' = Due(p) /\ Tasks(p)' = Tasks(p) BY <1>6 DEF Due, Stored, Tasks
<1>8. /\ Given(p)' = Given(p) \cup {s} /\ s \notin Given(p)
  <2>1. /\ Rising(delivered[p]) /\ delivered[p] \in Seq(Nat)
        /\ Given(p) \subseteq Nat /\ \A d \in Given(p) : d < s
    BY Numbers DEF Core, Delivery
  <2>2. \A i \in DOMAIN delivered[p] : delivered[p][i] < s BY <2>1 DEF Given
  <2>3. {Append(delivered[p], s)[i] : i \in DOMAIN Append(delivered[p], s)} = Given(p) \cup {s}
    BY <1>5, <2>1, <2>2, GivenMore DEF Given
  <2>4. s \notin Given(p) BY <1>5, <2>1
  <2> QED BY <1>6, <2>3, <2>4 DEF Given
<1>9. Tidy(p)' BY <1>6, <1>7, <1>8 DEF Tidy
<1>10. Whole(p) => Whole(p)' BY <1>6, <1>7, <1>8 DEF Whole
<1>11. Whole(p) => Gives(p)
  <2> SUFFICES ASSUME Whole(p), NEW k \in Due(p), k < s PROVE k \in Given(p)
    BY <1>5, <1>6, <1>8 DEF Gives
  <2>1. k \in Nat /\ k < inSeq[p] /\ k \notin queue[p]
    <3>1. k \in Nat /\ inSeq[p] \in Nat BY DueIsNat, Numbers
    <3>2. k < inSeq[p] BY <1>5, <3>1
    <3>3. k \notin queue[p] BY <1>2, <1>5, <3>1
    <3> QED BY <3>1, <3>2, <3>3
  <2> QED BY <1>4, <2>1 DEF Whole
<1>12. \A t \in Tasks(p) : Bridged(p, t.seq, t.seq)
  <2>1. \A t \in Tasks(p) : t.seq \in Nat BY Numbers
  <2> QED BY <2>1 DEF Bridged
<1> QED BY <1>6, <1>7, <1>9, <1>10, <1>11, <1>12 DEF Forward, Lacks

LEMMA DrainedForward ==
  ASSUME TypeOK, NEW p \in Peer, Core(p), Tidy(p), Drained(p)
  PROVE  Forward(p, {})
<1> DEFINE h == Head(todo[p])
           rest == IF Unseen(p) = {} THEN <<>> ELSE <<Do("replay", 0)>>
<1>1. /\ todo[p] # <<>> /\ h.do = "drain" /\ queue[p] = {}
      /\ todo' = [todo EXCEPT ![p] = rest \o Tail(todo[p])]
      /\ state'[p] = "normal" /\ replay'[p] = Unseen(p) /\ pending'[p] = {} /\ miss'[p] = {}
      /\ UNCHANGED <<inSeq, outLog, queue, delivered>>
  BY DEF Drained, Doing, Then, TypeOK, storeVars
<1>2. /\ h \in Tasks(p) /\ Tasks(p) = {h} \cup Elements(Tail(todo[p]))
      /\ Tail(todo[p]) \in Seq(Task)
      /\ \A t \in Elements(Tail(todo[p])) : Rank(h) < Rank(t)
  BY <1>1, AtHand DEF Between
<1>3. miss[p] = {} BY <1>1, <1>2 DEF Core, Callback
<1>4. \A t \in Elements(Tail(todo[p])) : t.do = "replay"
  <2>1. h \in Task /\ Rank(h) = 3 BY <1>1, <1>2, Numbers, RankTells
  <2>2. \A t \in Elements(Tail(todo[p])) : t \in Task /\ Rank(t) = 4
    BY <1>2, <2>1, Numbers, RankIsNat
  <2> QED BY <2>2, RankTells
<1>5. rest \in Seq(Task) /\ \A t \in Elements(rest) : t.do = "replay"
  BY Parts, Single DEF Between
<1> HIDE DEF h, rest
<1>6. \A t \in Tasks(p)' : t.do = "replay"
  <2> DEFINE tail == Tail(todo[p])
  <2>1. tail \in Seq(Task) /\ (\A t \in Elements(tail) : t.do = "replay") BY <1>2, <1>4
  <2>2. todo'[p] = rest \o tail BY <1>1 DEF TypeOK
  <2> HIDE DEF tail
  <2>3. Elements(rest \o tail) = Elements(rest) \cup Elements(tail) BY <1>5, <2>1, Concat
  <2> QED BY <1>5, <2>1, <2>2, <2>3 DEF Tasks
<1>7. Given(p)' = Given(p) /\ Due(p)' = Due(p) BY <1>1 DEF Given, Due, Stored
<1>8. Tidy(p)'
  <2>1. \A m \in pending'[p] \cup replay'[p] : m \in pending[p] BY <1>1 DEF Unseen
  <2>2. /\ \A m \in pending'[p] \cup replay'[p] : m.type # "ResendRequest"
        /\ Truthful(pending'[p] \cup replay'[p], Due(p))
    BY <2>1 DEF Tidy, Truthful
  <2> QED BY <1>1, <1>6, <1>7, <2>2 DEF Tidy
<1>9. Whole(p) => Whole(p)' BY <1>1, <1>3, <1>7 DEF Whole
<1> QED BY <1>1, <1>6, <1>8, <1>9 DEF Forward, Lacks

LEMMA ReplayForward ==
  ASSUME TypeOK, Bounded, NEW p \in Peer, Core(p), Tidy(p), Replay(p),
         outLog'[Other(p)] = outLog[Other(p)]
  PROVE  Forward(p, {})
<1>1. PICK m \in replay[p] : \E left, rest :
        /\ Taken(p, m, left, rest) /\ ~m.dup /\ m.type # "GapFill"
        /\ \/ state[p] = "normal" /\ OnMsgNormal(p, m, net, left, rest)
           \/ state[p] = "gap" /\ OnMsgGap(p, m, net, left, rest)
  BY ReplayTakes
<1> PICK left, rest :
      /\ Taken(p, m, left, rest) /\ ~m.dup /\ m.type # "GapFill"
      /\ \/ state[p] = "normal" /\ OnMsgNormal(p, m, net, left, rest)
         \/ state[p] = "gap" /\ OnMsgGap(p, m, net, left, rest)
  BY <1>1
<1>2. Handy(p, m) /\ m.type # "ResendRequest"
  <2>1. m \in Fitting(outLog, Other(p)) BY DEF Bounded, FitSets
  <2> QED BY <1>1, <2>1 DEF Handy, Tidy, Truthful, Fitting, Due
<1>3. Forward(p, {m}) BY <1>1, <1>2, OnMsgNormalForward, OnMsgGapForward
<1> QED BY <1>2, <1>3 DEF Forward

LEMMA ContinueForward ==
  ASSUME TypeOK, Bounded, NEW p \in Peer, Core(p), Tidy(p), Continue(p),
         outLog'[Other(p)] = outLog[Other(p)]
  PROVE  Forward(p, {})
BY PlayForward, OpenForward, PersistForward, DrainForward, DrainedForward, ReplayForward
   DEF Continue

-----------------------------------------------------------------------------
(* A message from the connection, and what happens between the callbacks.  *)
LEMMA LogonForward ==
  ASSUME TypeOK, NEW p \in Peer, Core(p), Tidy(p), NEW c, NEW n, NEW reply, NEW seq \in Nat,
         todo[p] = <<>>, state[p] # "gap", inSeq[p] <= seq, seq \notin Due(p),
         LogonInSequence(p, c, n, reply, seq) \/ LogonOutOfSequence(p, c, n, reply, seq),
         outLog'[Other(p)] = outLog[Other(p)]
  PROVE  Forward(p, {})
<1>1. Tasks(p) = {} BY Single DEF Tasks
<1>2. CASE LogonOutOfSequence(p, c, n, reply, seq)
  <2>1. StartGap(p, seq) /\ UNCHANGED <<delivered, todo, replay>>
    BY <1>2 DEF LogonOutOfSequence, callVars
  <2>2. Tasks(p)' = {} /\ replay'[p] \subseteq replay[p] BY <1>1, <2>1 DEF Tasks
  <2>3. \A t \in Tasks(p)' : t.do = "replay" BY <2>2
  <2> QED BY <2>1, <2>2, <2>3, StartGapForward
<1>3. CASE LogonInSequence(p, c, n, reply, seq)
  <2>1. /\ seq = inSeq[p] /\ state'[p] = "normal" /\ inSeq'[p] = inSeq[p] + 1
        /\ UNCHANGED <<miss, last, queue, pending, replay, todo, delivered>>
    BY <1>3 DEF LogonInSequence, PersistAndAdvance, TypeOK, gapVars, callVars
  <2>2. Tasks(p)' = {} BY <1>1, <2>1 DEF Tasks
  <2>3. /\ miss[p] = {} /\ queue[p] = {} /\ inSeq[p] \in Nat /\ Due(p) \subseteq Nat
        /\ Given(p)' = Given(p) /\ Due(p)' = Due(p)
    BY <2>1, Empty, Numbers, DueIsNat DEF Given, Due, Stored
  <2>4. Tidy(p)' BY <2>1, <2>2, <2>3 DEF Tidy
  <2>5. Whole(p) => Whole(p)'
    <3> SUFFICES ASSUME Whole(p), NEW x \in Due(p), x < inSeq[p] + 1 PROVE x \in Given(p)
      BY <2>1, <2>3 DEF Whole
    <3>1. x \in Nat /\ x # inSeq[p] BY <2>1, <2>3
    <3>2. x < inSeq[p] BY <2>3, <3>1
    <3> QED BY <2>3, <3>2 DEF Whole
  <2>6. \A x \in Nat : Lacks(p, x)' => Lacks(p, x) BY <2>1, <2>3 DEF Lacks
  <2> QED BY <2>1, <2>2, <2>4, <2>5, <2>6 DEF Forward
<1> QED BY <1>2, <1>3

LEMMA DeliverForward ==
  ASSUME TypeOK, NEW p \in Peer, Core(p), Tidy(p), Deliver(p),
         ~Head(net[p]).dup => Behind(p, Head(net[p]).seq),
         Heeds(p) => Handy(p, Head(net[p])), outLog'[Other(p)] = outLog[Other(p)]
  PROVE  Forward(p, {Head(net[p])})
<1> DEFINE m == Head(net[p])
           n == [net EXCEPT ![p] = Tail(@)]
<1>1. Taken(p, m, {}, <<>>) /\ todo[p] = <<>> BY DeliverTakes DEF Deliver, Resting
<1>2. \/ state[p] = "awaitingLogon" /\ OnMsgAwaitingLogon(p, m, n)
      \/ state[p] = "normal" /\ OnMsgNormal(p, m, n, {}, <<>>)
      \/ state[p] = "gap" /\ OnMsgGap(p, m, n, {}, <<>>)
      \/ state[p] = "awaitingLogout" /\ OnMsgAwaitingLogout(p, m, n)
  BY DEF Deliver
<1>3. Heeds(p) => Handy(p, m) OBVIOUS
<1> SUFFICES Forward(p, {m})
  OBVIOUS
<1> HIDE DEF m, n
<1>4. CASE state[p] = "awaitingLogon" /\ OnMsgAwaitingLogon(p, m, n)
  <2>1. CASE Raise(p, n) BY <2>1, RaiseForward
  <2>2. CASE /\ m.type = "Logon" /\ ~m.dup
             /\ \/ LogonInSequence(p, conn[p], n, <<>>, m.seq)
                \/ LogonOutOfSequence(p, conn[p], n, <<>>, m.seq)
    <3>1. Handy(p, m) BY <1>3, <1>4 DEF Heeds
    <3>2. m.seq \in Nat /\ inSeq[p] <= m.seq BY <1>1, <2>2 DEF Taken, Message
    <3>3. m.seq \notin Due(p) BY <2>2, <3>1 DEF Handy, Truthful
    <3>4. state[p] # "gap" BY <1>4
    <3>5. Forward(p, {}) BY <1>1, <2>2, <3>2, <3>3, <3>4, LogonForward
    <3>6. \A x \in {m} : ~x.dup BY <2>2
    <3> QED BY <3>5, <3>6, ForwardMore
  <2> QED BY <1>4, <2>1, <2>2 DEF OnMsgAwaitingLogon
<1>5. CASE state[p] = "awaitingLogout" /\ OnMsgAwaitingLogout(p, m, n)
  <2>1. UNCHANGED <<state, inSeq, outLog, miss, last, queue, pending, replay, todo, delivered>>
    BY <1>5 DEF OnMsgAwaitingLogout, storeVars, gapVars, callVars
  <2>2. Tasks(p)' = {} BY <1>1, <2>1, Single DEF Tasks
  <2>3. ~Heeds(p)' BY <1>5, <2>1 DEF Heeds
  <2>4. Given(p)' = Given(p) /\ Due(p)' = Due(p) BY <2>1 DEF Given, Due, Stored
  <2>5. Tidy(p)' BY <2>1, <2>2, <2>4 DEF Tidy
  <2>6. Whole(p) => Whole(p)' BY <2>1, <2>4 DEF Whole
  <2> QED BY <2>1, <2>2, <2>3, <2>5, <2>6 DEF Forward, Lacks
<1>6. CASE state[p] = "normal" /\ OnMsgNormal(p, m, n, {}, <<>>)
  BY <1>1, <1>3, <1>6, OnMsgNormalForward DEF Heeds
<1>7. CASE state[p] = "gap" /\ OnMsgGap(p, m, n, {}, <<>>)
  BY <1>1, <1>3, <1>7, OnMsgGapForward DEF Heeds
<1> QED BY <1>2, <1>4, <1>5, <1>6, <1>7

LEMMA RestingForward ==
  ASSUME TypeOK, NEW p \in Peer, Core(p), Tidy(p), Resting(p),
         \/ Die(p, net) /\ UNCHANGED <<storeVars, delivered>>
         \/ /\ UNCHANGED <<inSeq, gapVars, callVars, delivered>>
            /\ \/ state' = state
               \/ state[p] = "normal" /\ state' = [state EXCEPT ![p] = "awaitingLogout"],
         outLog'[Other(p)] = outLog[Other(p)]
  PROVE  Forward(p, {})
<1>1. CASE Die(p, net) /\ UNCHANGED <<storeVars, delivered>>
  BY <1>1, RaiseForward DEF Raise
<1>2. CASE /\ UNCHANGED <<inSeq, gapVars, callVars, delivered>>
           /\ \/ state' = state
              \/ state[p] = "normal" /\ state' = [state EXCEPT ![p] = "awaitingLogout"]
  <2>1. /\ UNCHANGED <<inSeq, miss, last, queue, pending, replay, todo, delivered>>
        /\ state'[p] = state[p] \/ (state[p] # "gap" /\ state'[p] # "gap")
    BY <1>2 DEF TypeOK, gapVars, callVars
  <2>2. Tasks(p)' = {} BY <2>1, Single DEF Tasks, Resting
  <2>3. Given(p)' = Given(p) /\ Due(p)' = Due(p) BY <2>1 DEF Given, Due, Stored
  <2>4. Tidy(p)'
    <3>1. miss[p] # {} => state'[p] = "gap" BY <2>1 DEF Tidy
    <3> QED BY <2>1, <2>2, <2>3, <3>1 DEF Tidy
  <2>5. Whole(p) => Whole(p)' BY <2>1, <2>3 DEF Whole
  <2> QED BY <2>1, <2>2, <2>4, <2>5 DEF Forward, Lacks
<1> QED BY <1>1, <1>2

-----------------------------------------------------------------------------
(* What p writes, and what it compiles.                                    *)

(* p lacks nothing below the number it stood at.                           *)
Clean(p) == \A x \in Nat : x < inSeq[p] => ~Lacks(p, x)'

Asks(p, batch) ==
  \A b \in Elements(batch) : b.type = "ResendRequest" => b.arg = inSeq[p] /\ Clean(p)

LEMMA Small ==
  /\ \A a : Elements(<<a>>) = {a}
  /\ \A a, b : Elements(<<a, b>>) = {a, b}
<1>1. \A a : DOMAIN <<a>> = {1} /\ <<a>>[1] = a OBVIOUS
<1>2. \A a, b : DOMAIN <<a, b>> = {1, 2} /\ <<a, b>>[1] = a /\ <<a, b>>[2] = b OBVIOUS
<1> QED BY <1>1, <1>2 DEF Elements

LEMMA Asking ==
  ASSUME TypeOK, NEW p \in Peer
  PROVE  /\ Asks(p, <<LogoutReply>>) /\ Asks(p, <<Item("App", 0, "app")>>)
         /\ \A t \in {"Logon", "Logout", "Heartbeat"} : Asks(p, <<Admin(t)>>)
         /\ Clean(p) => /\ Asks(p, <<ResendFrom(inSeq[p])>>)
                        /\ Asks(p, <<ResendFrom(inSeq[p]), LogoutReply>>)
                        /\ Asks(p, <<>> \o <<ResendFrom(inSeq[p])>>)
                        /\ Asks(p, <<Admin("Logon")>> \o <<ResendFrom(inSeq[p])>>)
         /\ Asks(p, <<>> \o <<Admin("Heartbeat")>>)
         /\ Asks(p, <<Admin("Logon")>> \o <<Admin("Heartbeat")>>)
<1>1. /\ LogoutReply.type = "Logout" /\ Item("App", 0, "app").type = "App"
      /\ \A t : Admin(t).type = t
      /\ ResendFrom(inSeq[p]).arg = inSeq[p]
  BY DEF LogoutReply, Item, Admin, ResendFrom
<1>2. ASSUME NEW r \in Seq(Written), NEW b \in Written
      PROVE  Elements(r \o <<b>>) = Elements(r) \cup {b}
  <2> DEFINE one == <<b>>
  <2>1. one \in Seq(Written) /\ Elements(one) = {b} BY Small
  <2>2. Elements(r \o one) = Elements(r) \cup Elements(one)
    <3> HIDE DEF one
    <3> QED BY <2>1, Concat
  <2> QED BY <2>1, <2>2
<1>3. /\ Admin("Logon") \in Written /\ Admin("Heartbeat") \in Written
      /\ ResendFrom(inSeq[p]) \in Written
  BY WrittenTypes, Numbers DEF MsgType
<1> DEFINE none == <<>>
           greeting == <<Admin("Logon")>>
<1>4. /\ none \in Seq(Written) /\ Elements(none) = {}
      /\ greeting \in Seq(Written) /\ Elements(greeting) = {Admin("Logon")}
  BY <1>3, Single, Small
<1>5. /\ Elements(none \o <<ResendFrom(inSeq[p])>>) = {ResendFrom(inSeq[p])}
      /\ Elements(none \o <<Admin("Heartbeat")>>) = {Admin("Heartbeat")}
      /\ Elements(greeting \o <<ResendFrom(inSeq[p])>>)
         = {Admin("Logon"), ResendFrom(inSeq[p])}
      /\ Elements(greeting \o <<Admin("Heartbeat")>>)
         = {Admin("Logon"), Admin("Heartbeat")}
  <2> HIDE DEF none, greeting
  <2>1. /\ Elements(none \o <<ResendFrom(inSeq[p])>>) = Elements(none) \cup {ResendFrom(inSeq[p])}
        /\ Elements(none \o <<Admin("Heartbeat")>>) = Elements(none) \cup {Admin("Heartbeat")}
    BY <1>2, <1>3, <1>4
  <2>2. /\ Elements(greeting \o <<ResendFrom(inSeq[p])>>)
           = Elements(greeting) \cup {ResendFrom(inSeq[p])}
        /\ Elements(greeting \o <<Admin("Heartbeat")>>)
           = Elements(greeting) \cup {Admin("Heartbeat")}
    BY <1>2, <1>3, <1>4
  <2> QED BY <1>4, <2>1, <2>2
<1> QED BY <1>1, <1>5, Small DEF Asks

LEMMA NumberedTells ==
  ASSUME TypeOK, NEW p \in Peer, NEW batch \in Seq(Written), Record(p, batch), Asks(p, batch)
  PROVE  LET k == Numbered(p, batch) IN
         /\ k \in Seq(Message) /\ Truthful(Elements(k), Stored(outLog', p))
         /\ \A m \in Elements(k) :
              /\ ~m.dup
              /\ m.type = "ResendRequest" => \A x \in Nat : x < m.arg => ~Lacks(p, x)'
<1> DEFINE k == Numbered(p, batch)
<1>1. Len(batch) \in Nat /\ DOMAIN batch = 1..Len(batch) BY LenProperties
<1>2. \A i \in 1..Len(batch) : batch[i] \in Written /\ batch[i] \in Elements(batch)
  BY <1>1, ElementOfSeq DEF Elements
<1>3. /\ DOMAIN k = 1..Len(batch)
      /\ \A i \in 1..Len(batch) : /\ k[i].seq = Len(outLog[p]) + i /\ ~k[i].dup
                                  /\ k[i].type = batch[i].type /\ k[i].arg = batch[i].arg
  BY <1>1 DEF Numbered
<1>4. k \in Seq(Message) BY NumberedNew DEF New
<1> HIDE DEF k
<1>5. \A i \in 1..Len(batch) :
        /\ k[i].type # "GapFill"
        /\ k[i].type = "App" <=> k[i].seq \in Stored(outLog', p)
  BY <1>2, <1>3, RecordStores DEF Written, Items
<1>6. Truthful(Elements(k), Stored(outLog', p)) BY <1>3, <1>5 DEF Truthful, Elements
<1>7. \A i \in 1..Len(batch) :
        k[i].type = "ResendRequest" => k[i].arg = inSeq[p] /\ Clean(p)
  BY <1>2, <1>3 DEF Asks
<1>8. \A m \in Elements(k) :
        /\ ~m.dup
        /\ m.type = "ResendRequest" => \A x \in Nat : x < m.arg => ~Lacks(p, x)'
  BY <1>3, <1>7 DEF Elements, Clean
<1> QED BY <1>4, <1>6, <1>8 DEF k

LEMMA RecordCompiles ==
  ASSUME TypeOK, NEW p \in Peer,
         outLog' = outLog \/ \E batch \in Seq(Items) : Record(p, batch)
  PROVE  Compiles(p)
<1>1. outLog'[Other(p)] = outLog[Other(p)] BY OtherOfOther DEF Record, TypeOK
<1> QED BY <1>1, SameLonger, RecordLength DEF Compiles

LEMMA EmitTells ==
  ASSUME TypeOK, NEW p \in Peer, NEW n \in Nets, NEW c, NEW batch \in Seq(Written),
         Asks(p, batch), Emit(p, c, n, batch)
  PROVE  Tells(p, c, n) /\ Compiles(p)
<1>1. Record(p, batch) /\ net' = Wire(n, p, c, Numbered(p, batch)) BY DEF Emit
<1>2. Compiles(p) BY <1>1, WrittenAreItems, RecordCompiles
<1> DEFINE k == Numbered(p, batch)
<1>3. /\ k \in Seq(Message) /\ Truthful(Elements(k), Stored(outLog', p))
      /\ \A m \in Elements(k) :
           /\ ~m.dup
           /\ m.type = "ResendRequest" => \A x \in Nat : x < m.arg => ~Lacks(p, x)'
  BY <1>1, NumberedTells
<1>4. \/ net'[Other(p)] = n[Other(p)]
      \/ c # 0 /\ c = conn[Other(p)] /\ net'[Other(p)] = n[Other(p)] \o k
  BY <1>1, OtherOfOther DEF Wire, Nets
<1> HIDE DEF k
<1> QED BY <1>2, <1>3, <1>4 DEF Tells

(* A step of p that neither writes nor compiles.                           *)
LEMMA SilentTells ==
  ASSUME TypeOK, NEW p \in Peer, NEW n \in Nets, NEW c, outLog' = outLog,
         net' = n \/ Die(p, n)
  PROVE  Tells(p, c, n) /\ Compiles(p)
<1>1. net'[Other(p)] = n[Other(p)] BY OtherOfOther DEF Die, Nets
<1> QED BY <1>1, RecordCompiles DEF Tells

LEMMA OutOfSequenceTells ==
  ASSUME TypeOK, NEW p \in Peer, NEW m, NEW n \in Nets, NEW rest,
         OutOfSequence(p, m, n, rest), m.type # "ResendRequest" => Clean(p)
  PROVE  Tells(p, conn[p], n) /\ Compiles(p)
<1>1. CASE m.type = "ResendRequest"
  <2>1. net' = n /\ outLog' = outLog BY <1>1 DEF OutOfSequence, storeVars
  <2> QED BY <2>1, SilentTells
<1>2. CASE m.type # "ResendRequest"
  <2>1. \/ Emit(p, conn[p], n, <<ResendFrom(inSeq[p])>>)
        \/ Emit(p, conn[p], n, <<ResendFrom(inSeq[p]), LogoutReply>>)
    BY <1>2 DEF OutOfSequence
  <2> QED BY <1>2, <2>1, Asking, Batch, EmitTells
<1> QED BY <1>1, <1>2

LEMMA OnMsgNormalTells ==
  ASSUME TypeOK, NEW p \in Peer, Core(p), Tidy(p), NEW m, NEW n \in Nets, NEW left, NEW rest,
         Taken(p, m, left, rest), Handy(p, m), state[p] = "normal",
         OnMsgNormal(p, m, n, left, rest), outLog'[Other(p)] = outLog[Other(p)]
  PROVE  Tells(p, conn[p], n) /\ Compiles(p)
<1>1. CASE Raise(p, n) BY <1>1, SilentTells DEF Raise, storeVars
<1>2. CASE ~Raise(p, n) /\ m.seq = inSeq[p]
  <2>1. InSequence(p, m, n, rest) BY <1>2 DEF OnMsgNormal
  <2>2. (net' = n /\ outLog' = outLog) \/ Emit(p, conn[p], n, <<LogoutReply>>)
    BY <2>1 DEF InSequence, storeVars
  <2> QED BY <2>2, Asking, Batch, EmitTells, SilentTells
<1>3. CASE ~Raise(p, n) /\ m.seq # inSeq[p]
  <2>1. /\ ~m.dup /\ OutOfSequence(p, m, n, rest) /\ replay' = [replay EXCEPT ![p] = left]
    BY <1>3 DEF OnMsgNormal
  <2>2. m.type # "ResendRequest" => Clean(p)
    BY <1>3, <2>1, OutOfSequenceForward DEF Clean
  <2> QED BY <2>1, <2>2, OutOfSequenceTells
<1> QED BY <1>1, <1>2, <1>3

LEMMA OnMsgGapTells ==
  ASSUME TypeOK, NEW p \in Peer, NEW m, NEW n \in Nets, NEW left, NEW rest,
         OnMsgGap(p, m, n, left, rest)
  PROVE  Tells(p, conn[p], n) /\ Compiles(p)
<1>1. outLog' = outLog /\ (net' = n \/ Die(p, n))
  BY DEF OnMsgGap, OnGapFill, storeVars
<1> QED BY <1>1, SilentTells

LEMMA LogonTells ==
  ASSUME TypeOK, NEW p \in Peer, Core(p), Tidy(p), NEW c, NEW n \in Nets, NEW seq \in Nat,
         NEW reply \in {<<>>, <<Admin("Logon")>>}, todo[p] = <<>>, state[p] # "gap",
         inSeq[p] <= seq,
         LogonInSequence(p, c, n, reply, seq) \/ LogonOutOfSequence(p, c, n, reply, seq),
         outLog'[Other(p)] = outLog[Other(p)]
  PROVE  Tells(p, c, n) /\ Compiles(p)
<1>0. reply \in Seq(Written)
  <2>1. <<>> \in Seq(Written) OBVIOUS
  <2> QED BY <2>1, Batch
<1>1. CASE LogonInSequence(p, c, n, reply, seq)
  <2>1. Emit(p, c, n, reply \o <<Admin("Heartbeat")>>) BY <1>1 DEF LogonInSequence
  <2>2. reply \o <<Admin("Heartbeat")>> \in Seq(Written) BY <1>0, Batch
  <2>3. Asks(p, reply \o <<Admin("Heartbeat")>>) BY Asking
  <2> QED BY <2>1, <2>2, <2>3, EmitTells
<1>2. CASE LogonOutOfSequence(p, c, n, reply, seq)
  <2>1. /\ StartGap(p, seq) /\ Emit(p, c, n, reply \o <<ResendFrom(inSeq[p])>>)
        /\ UNCHANGED <<delivered, todo, replay>>
    BY <1>2 DEF LogonOutOfSequence, callVars
  <2>2. reply \o <<ResendFrom(inSeq[p])>> \in Seq(Written) BY <1>0, Batch
  <2>3. \A t \in Tasks(p)' : t.do = "replay"
    BY <2>1, Single DEF Tasks
  <2>4. replay'[p] \subseteq replay[p] BY <2>1
  <2>5. Clean(p) BY <2>1, <2>3, <2>4, StartGapForward DEF Clean
  <2>6. Asks(p, reply \o <<ResendFrom(inSeq[p])>>) BY <2>5, Asking
  <2> QED BY <2>1, <2>2, <2>6, EmitTells
<1> QED BY <1>1, <1>2

LEMMA DeliverTells ==
  ASSUME TypeOK, NEW p \in Peer, Core(p), Tidy(p), Deliver(p),
         ~Head(net[p]).dup => Behind(p, Head(net[p]).seq),
         Heeds(p) => Handy(p, Head(net[p])), outLog'[Other(p)] = outLog[Other(p)]
  PROVE  Tells(p, conn[p], [net EXCEPT ![p] = Tail(@)]) /\ Compiles(p)
<1> DEFINE m == Head(net[p])
           n == [net EXCEPT ![p] = Tail(@)]
<1>1. /\ Taken(p, m, {}, <<>>) /\ todo[p] = <<>>
  BY DeliverTakes DEF Deliver, Resting
<1>2. \/ state[p] = "awaitingLogon" /\ OnMsgAwaitingLogon(p, m, n)
      \/ state[p] = "normal" /\ OnMsgNormal(p, m, n, {}, <<>>)
      \/ state[p] = "gap" /\ OnMsgGap(p, m, n, {}, <<>>)
      \/ state[p] = "awaitingLogout" /\ OnMsgAwaitingLogout(p, m, n)
  BY DEF Deliver
<1>3. Heeds(p) => Handy(p, m) OBVIOUS
<1>4. n \in Nets BY ReceiveType DEF Deliver
<1> SUFFICES Tells(p, conn[p], n) /\ Compiles(p)
  OBVIOUS
<1> HIDE DEF m, n
<1>5. CASE state[p] = "awaitingLogon" /\ OnMsgAwaitingLogon(p, m, n)
  <2>1. CASE Raise(p, n) BY <1>4, <2>1, SilentTells DEF Raise, storeVars
  <2>2. CASE /\ m.type = "Logon" /\ ~m.dup
             /\ \/ LogonInSequence(p, conn[p], n, <<>>, m.seq)
                \/ LogonOutOfSequence(p, conn[p], n, <<>>, m.seq)
    <3>1. m.seq \in Nat /\ inSeq[p] <= m.seq /\ state[p] # "gap"
      BY <1>1, <1>5, <2>2 DEF Taken, Message
    <3> QED BY <1>1, <1>4, <2>2, <3>1, LogonTells
  <2> QED BY <1>5, <2>1, <2>2 DEF OnMsgAwaitingLogon
<1>6. CASE state[p] = "awaitingLogout" /\ OnMsgAwaitingLogout(p, m, n)
  <2>1. net' = n /\ outLog' = outLog BY <1>6 DEF OnMsgAwaitingLogout, storeVars
  <2> QED BY <1>4, <2>1, SilentTells
<1>7. CASE state[p] = "normal" /\ OnMsgNormal(p, m, n, {}, <<>>)
  BY <1>1, <1>3, <1>4, <1>7, OnMsgNormalTells DEF Heeds
<1>8. CASE state[p] = "gap" /\ OnMsgGap(p, m, n, {}, <<>>)
  BY <1>4, <1>8, OnMsgGapTells
<1> QED BY <1>2, <1>5, <1>6, <1>7, <1>8

LEMMA PlayTells ==
  ASSUME TypeOK, NEW p \in Peer, Core(p), Play(p)
  PROVE  Tells(p, conn[p], net) /\ Compiles(p)
<1> DEFINE h == Head(todo[p])
           end == Head(todo[p]).to
<1>1. todo[p] # <<>> /\ h.do = "play" BY DEF Play, Doing
<1>2. h.seq \in Nat /\ end \in Nat /\ h \in Tasks(p) BY <1>1, TaskAtHand, AtHand
<1>3. PICK j \in LastOfItem(p, h.seq, end) :
        net' = Wire(net, p, conn[p], <<ResentItem(p, h.seq, j)>>)
  BY DEF Play
<1>4. j \in Nat /\ j >= h.seq BY <1>2 DEF LastOfItem
<1> DEFINE r == ResentItem(p, h.seq, j)
           k == <<ResentItem(p, h.seq, j)>>
<1>5. outLog' = outLog BY DEF Play, storeVars
<1>6. /\ r \in Message /\ r.dup /\ r.seq = h.seq /\ r.type \in {"App", "GapFill"}
      /\ r.type = "GapFill" => \A x \in Stored(outLog, p) : ~Covers(r, x)
  <2>1. CASE StoredApp(p, h.seq) BY <1>2, <2>1 DEF ResentItem, Message, MsgType
  <2>2. CASE ~StoredApp(p, h.seq)
    <3>1. /\ r \in Message /\ r.dup /\ r.seq = h.seq /\ r.type = "GapFill" /\ r.arg = j + 1
      BY <1>2, <1>4, <2>2 DEF ResentItem, Message, MsgType
    <3>2. \A x \in h.seq..j : ~StoredApp(p, x) BY <1>3, <2>2 DEF LastOfItem
    <3>3. ASSUME NEW x \in Stored(outLog, p), Covers(r, x) PROVE FALSE
      <4>1. x \in Nat /\ outLog[p][x] = "app" BY DEF Stored
      <4>2. x \in h.seq..j BY <1>2, <1>4, <3>1, <3>3, <4>1 DEF Covers, Reach
      <4> QED BY <3>2, <4>1, <4>2 DEF StoredApp
    <3> QED BY <3>1, <3>3
  <2> QED BY <2>1, <2>2
<1>7. k \in Seq(Message) /\ Elements(k) = {r} BY <1>6, Small
<1>8. \/ net'[Other(p)] = net[Other(p)]
      \/ conn[p] # 0 /\ conn[p] = conn[Other(p)] /\ net'[Other(p)] = net[Other(p)] \o k
  BY <1>3, OtherOfOther DEF Wire, TypeOK
<1> HIDE DEF h, end, r, k
<1>9. Truthful(Elements(k), Stored(outLog', p))
  BY <1>5, <1>6, <1>7 DEF Truthful
<1>10. \A m \in Elements(k) : /\ m.type # "ResendRequest"
                              /\ \E t \in Tasks(p) : t.do = "play" /\ t.seq = m.seq
  BY <1>1, <1>2, <1>6, <1>7
<1>11. Tells(p, conn[p], net) BY <1>7, <1>8, <1>9, <1>10 DEF Tells
<1> QED BY <1>5, <1>11, RecordCompiles

LEMMA ContinueTells ==
  ASSUME TypeOK, Bounded, NEW p \in Peer, Core(p), Tidy(p), Continue(p),
         outLog'[Other(p)] = outLog[Other(p)]
  PROVE  Tells(p, conn[p], net) /\ Compiles(p)
<1>0. net \in Nets BY DEF TypeOK, Nets
<1>1. CASE Open(p)
  <2>1. Emit(p, conn[p], net, <<ResendFrom(inSeq[p])>>) BY <1>1 DEF Open
  <2>2. Clean(p) BY <1>1, OpenForward DEF Clean
  <2> QED BY <1>0, <2>1, <2>2, Asking, Batch, EmitTells
<1>2. CASE Persist(p) \/ Drain(p) \/ Drained(p)
  <2>1. outLog' = outLog /\ (net' = net \/ Die(p, net))
    BY <1>2 DEF Persist, Raise, Drain, Drained, storeVars
  <2> QED BY <1>0, <2>1, SilentTells
<1>3. CASE Replay(p)
  <2> PICK m \in replay[p] : \E left, rest :
        /\ Taken(p, m, left, rest) /\ ~m.dup /\ m.type # "GapFill"
        /\ \/ state[p] = "normal" /\ OnMsgNormal(p, m, net, left, rest)
           \/ state[p] = "gap" /\ OnMsgGap(p, m, net, left, rest)
    BY <1>3, ReplayTakes
  <2> PICK left, rest :
        /\ Taken(p, m, left, rest) /\ ~m.dup /\ m.type # "GapFill"
        /\ \/ state[p] = "normal" /\ OnMsgNormal(p, m, net, left, rest)
           \/ state[p] = "gap" /\ OnMsgGap(p, m, net, left, rest)
    OBVIOUS
  <2>1. m \in Fitting(outLog, Other(p)) BY DEF Bounded, FitSets
  <2>2. Handy(p, m) BY <2>1 DEF Handy, Tidy, Truthful, Fitting, Due
  <2> QED BY <1>0, <2>2, OnMsgNormalTells, OnMsgGapTells
<1>4. CASE Play(p) BY <1>4, PlayTells
<1> QED BY <1>1, <1>2, <1>3, <1>4 DEF Continue

-----------------------------------------------------------------------------
(* A step of p: n is what it leaves on the wire, M the message it takes.   *)
Reads(p, n, M) ==
  \/ n = net /\ M = {}
  \/ net[p] # <<>> /\ n = [net EXCEPT ![p] = Tail(@)] /\ M = {Head(net[p])}

Stays(p, M) ==
  /\ state[p] = "loggedOut" => /\ state'[p] = "loggedOut" /\ inSeq'[p] = inSeq[p]
                               /\ delivered'[p] = delivered[p]
  /\ Heeds(p)' => Heeds(p) \/ Gone(p)
  /\ M = {} /\ todo[p] = <<>> => todo'[p] = <<>>

Acts(p, n, M) ==
  /\ Reads(p, n, M) /\ Around(p, n)
  /\ Forward(p, M) /\ Tells(p, conn[p], n) /\ Compiles(p) /\ Stays(p, M)
  /\ hello' = hello /\ used'["connect"] = used["connect"]

LEMMA FirstAndRest ==
  ASSUME NEW s \in Seq(Message), s # <<>>
  PROVE  /\ DOMAIN s \subseteq Nat \ {0} /\ 1 \in DOMAIN s /\ Head(s) = s[1]
         /\ Head(s) \in Elements(s)
         /\ \A i \in DOMAIN Tail(s) : i \in Nat /\ i + 1 \in DOMAIN s /\ Tail(s)[i] = s[i + 1]
         /\ \A j \in DOMAIN s : j = 1 \/ (j - 1 \in DOMAIN Tail(s) /\ Tail(s)[j - 1] = s[j])
         /\ Elements(s) = {Head(s)} \cup Elements(Tail(s))
<1>1. /\ Len(s) \in Nat /\ DOMAIN s = 1..Len(s) /\ Len(s) >= 1
      /\ Head(s) = s[1] /\ Tail(s) \in Seq(Message) /\ Len(Tail(s)) = Len(s) - 1
      /\ \A i \in 1..Len(s) - 1 : Tail(s)[i] = s[i + 1]
  BY LenProperties, HeadTailProperties, EmptySeq
<1>2. DOMAIN Tail(s) = 1..Len(s) - 1 BY <1>1, LenProperties
<1>3. \A i \in DOMAIN Tail(s) : i \in Nat /\ i + 1 \in DOMAIN s /\ Tail(s)[i] = s[i + 1]
  BY <1>1, <1>2
<1>4. \A j \in DOMAIN s : j = 1 \/ (j - 1 \in DOMAIN Tail(s) /\ Tail(s)[j - 1] = s[j])
  <2> SUFFICES ASSUME NEW j \in DOMAIN s, j # 1
               PROVE  j - 1 \in DOMAIN Tail(s) /\ Tail(s)[j - 1] = s[j]
    OBVIOUS
  <2>1. j - 1 \in 1..Len(s) - 1 /\ (j - 1) + 1 = j BY <1>1
  <2> QED BY <1>1, <1>2, <2>1
<1>5. DOMAIN s \subseteq Nat \ {0} /\ 1 \in DOMAIN s BY <1>1
<1>6. Head(s) \in Elements(s) BY <1>1, <1>5 DEF Elements
<1>7. \A m \in Elements(Tail(s)) : m \in Elements(s) BY <1>3 DEF Elements
<1>8. \A m \in Elements(s) : m = Head(s) \/ m \in Elements(Tail(s))
  <2> SUFFICES ASSUME NEW m \in Elements(s), m # Head(s) PROVE m \in Elements(Tail(s))
    OBVIOUS
  <2> PICK j \in DOMAIN s : m = s[j] BY DEF Elements
  <2>1. j - 1 \in DOMAIN Tail(s) /\ Tail(s)[j - 1] = m BY <1>1, <1>4
  <2> QED BY <2>1 DEF Elements
<1>9. Elements(s) = {Head(s)} \cup Elements(Tail(s)) BY <1>6, <1>7, <1>8
<1> QED BY <1>1, <1>3, <1>4, <1>5, <1>6, <1>9

(* What was stored below the end of a log is all that is stored there.     *)
LEMMA LongerStoredBack ==
  ASSUME NEW log, NEW log2, Longer(log, log2), NEW q \in Peer,
         NEW x \in Stored(log2, q), x <= Len(log[q])
  PROVE  x \in Stored(log, q)
<1>1. Len(log[q]) \in Nat /\ Len(log2[q]) \in Nat BY LogLength DEF Longer
<1>2. x \in 1..Len(log[q]) /\ log2[q][x] = "app" BY <1>1 DEF Stored
<1> QED BY <1>2 DEF Longer, Stored

LEMMA TruthfulLonger ==
  ASSUME NEW log, NEW log2, Longer(log, log2), NEW q \in Peer,
         NEW M \in SUBSET Fitting(log, q), Truthful(M, Stored(log, q))
  PROVE  Truthful(M, Stored(log2, q))
<1>0. Len(log[q]) \in Nat BY LogLength DEF Longer
<1>1. \A m \in M : /\ m.seq \in Nat /\ m.arg \in Nat /\ m.seq <= Len(log[q])
                   /\ m.type = "GapFill" => m.arg <= Len(log[q]) + 1
  BY DEF Fitting, Message
<1>2. ASSUME NEW m \in M, m.type = "GapFill", NEW x \in Stored(log2, q), Covers(m, x)
      PROVE  FALSE
  <2>1. x \in Nat BY DEF Stored
  <2>2. x < m.arg BY <1>2 DEF Covers, Reach
  <2>3. x <= Len(log[q]) BY <1>0, <1>1, <1>2, <2>1, <2>2
  <2>4. x \in Stored(log, q) BY <2>3, LongerStoredBack
  <2> QED BY <1>2, <2>4 DEF Truthful
<1>3. ASSUME NEW m \in M, m.type \notin {"App", "GapFill"}, m.seq \in Stored(log2, q)
      PROVE  FALSE
  <2>1. m.seq \in Stored(log, q) BY <1>1, <1>3, LongerStoredBack
  <2> QED BY <1>3, <2>1 DEF Truthful
<1> QED BY <1>2, <1>3 DEF Truthful

LEMMA Remains ==
  ASSUME TypeOK, NEW p \in Peer, NEW n, NEW M, Reads(p, n, M)
  PROVE  n[Other(p)] = net[Other(p)] /\ Elements(n[p]) \subseteq Elements(net[p])
<1>0. /\ net[p] \in Seq(Message) /\ net \in [Peer -> Seq(Message)]
      /\ Other(p) \in Peer /\ Other(p) # p
  BY OtherOfOther DEF TypeOK
<1>1. CASE n = net BY <1>1
<1>2. CASE net[p] # <<>> /\ n = [net EXCEPT ![p] = Tail(@)]
  <2>1. n[p] = Tail(net[p]) /\ n[Other(p)] = net[Other(p)] BY <1>0, <1>2
  <2> QED BY <1>0, <1>2, <2>1, FirstAndRest
<1> QED BY <1>1, <1>2 DEF Reads

LEMMA OwnStream ==
  ASSUME TypeOK, Ordered, Opening, NEW p \in Peer, Side(p), NEW n, NEW M, Acts(p, n, M)
  PROVE  Side(p)'
<1>0. /\ net[p] \in Seq(Message) /\ net \in [Peer -> Seq(Message)]
      /\ Other(p) \in Peer /\ Other(p) # p
      /\ Core(p) /\ Idle(p)
  BY OtherOfOther DEF TypeOK, Ordered
<1>1. Due(p)' = Due(p) BY DEF Acts, Compiles, Due, Stored
<1>2. Tidy(p)' /\ \A x \in Nat : Lacks(p, x)' => Lacks(p, x) BY DEF Acts, Forward
<1>3. n[Other(p)] = net[Other(p)] /\ Elements(n[p]) \subseteq Elements(net[p])
  BY Remains DEF Acts
<1>4. \/ Gone(p)
      \/ conn'[p] = conn[p] /\ net'[p] = n[p] /\ (state'[p] = "loggedOut" => Same(p))
  BY DEF Acts, Around
<1>5. Gone(p) => net'[p] = <<>> /\ Elements(net'[p]) = {} /\ conn'[p] = 0
  BY Single DEF Gone
<1>6. Truthful(Elements(net'[p]), Due(p)')
  <2>1. Elements(net'[p]) \subseteq Elements(net[p]) BY <1>3, <1>4, <1>5
  <2> QED BY <1>1, <2>1 DEF Side, Truthful
<1>7. Asked(p)'
  <2> SUFFICES ASSUME NEW m \in Elements(net'[Other(p)]), m.type = "ResendRequest",
                      NEW x \in Nat, x < m.arg
               PROVE  ~Lacks(p, x)'
    BY DEF Asked
  <2>1. CASE m \in Elements(net[Other(p)]) BY <1>2, <2>1 DEF Side, Asked
  <2>2. CASE m \notin Elements(net[Other(p)])
    <3>1. net'[Other(p)] # n[Other(p)] BY <1>3, <2>2
    <3> PICK k \in Seq(Message) :
          /\ net'[Other(p)] = n[Other(p)] \o k
          /\ \A l \in Elements(k) :
               l.type = "ResendRequest" => \A y \in Nat : y < l.arg => ~Lacks(p, y)'
      BY <3>1 DEF Acts, Tells
    <3> DEFINE old == n[Other(p)]
    <3>2. old \in Seq(Message) BY <1>0, <1>3
    <3>3. net'[Other(p)] = old \o k /\ Elements(old) = Elements(net[Other(p)]) BY <1>3
    <3> HIDE DEF old
    <3>4. Elements(old \o k) = Elements(old) \cup Elements(k) BY <3>2, Concat
    <3>5. m \in Elements(k) BY <2>2, <3>3, <3>4
    <3> QED BY <3>5
  <2> QED BY <2>1, <2>2
<1>8. ASSUME Heeds(p)', ~Gone(p), NEW x \in Nat, Lacks(p, x)'
      PROVE  /\ Heeds(p) /\ net'[p] = n[p] /\ Lacks(p, x)
             /\ \A m \in M : m.dup => ~Covers(m, x)
  <2>1. Heeds(p) /\ net'[p] = n[p] /\ Lacks(p, x) BY <1>2, <1>4, <1>8 DEF Acts, Stays
  <2>2. ASSUME NEW m \in M, m.dup, Covers(m, x) PROVE FALSE
    <3>1. state'[p] = "loggedOut" BY <1>8, <2>2 DEF Acts, Forward
    <3>2. state[p] = "loggedOut" BY <1>4, <1>8, <3>1 DEF Same
    <3>3. net[p] = <<>> BY <1>0, <3>2 DEF Idle
    <3> QED BY <2>2, <3>3 DEF Acts, Reads
  <2> QED BY <2>1, <2>2
<1>9. Led(p)'
  <2> SUFFICES ASSUME Heeds(p)', NEW i \in DOMAIN net'[p], net'[p][i].dup,
                      NEW x \in Nat, x < net'[p][i].seq, Lacks(p, x)'
               PROVE  \E j \in 1..i - 1 : net'[p][j].dup /\ Covers(net'[p][j], x)
    BY DEF Led
  <2>0. ~Gone(p) BY <1>5 DEF Elements
  <2>1. /\ Heeds(p) /\ net'[p] = n[p] /\ Lacks(p, x)
        /\ \A m \in M : m.dup => ~Covers(m, x)
    BY <1>8, <2>0
  <2>2. CASE n = net BY <2>1, <2>2 DEF Side, Led
  <2>3. CASE net[p] # <<>> /\ n = [net EXCEPT ![p] = Tail(@)] /\ M = {Head(net[p])}
    <3>1. n[p] = Tail(net[p]) BY <1>0, <2>3
    <3>2. i \in Nat /\ i + 1 \in DOMAIN net[p] /\ net'[p][i] = net[p][i + 1]
      BY <1>0, <2>1, <2>3, <3>1, FirstAndRest
    <3>3. PICK j \in 1..(i + 1) - 1 : net[p][j].dup /\ Covers(net[p][j], x)
      BY <2>1, <3>2 DEF Side, Led
    <3>4. j # 1 BY <1>0, <2>1, <2>3, <3>3, FirstAndRest
    <3>5. j \in DOMAIN net[p]
      <4>1. DOMAIN net[p] = 1..Len(net[p]) /\ Len(net[p]) \in Nat BY <1>0, LenProperties
      <4> QED BY <3>2, <4>1
    <3>6. j - 1 \in 1..i - 1 BY <3>2, <3>4
    <3>7. net'[p][j - 1] = net[p][j]
      BY <1>0, <2>1, <2>3, <3>1, <3>4, <3>5, FirstAndRest
    <3> QED BY <3>3, <3>6, <3>7
  <2> QED BY <2>2, <2>3 DEF Acts, Reads
<1>10. Playing(p)'
  <2> SUFFICES ASSUME Heeds(p)', Linked(p)', NEW t \in Tasks(Other(p))', t.do = "play",
                      NEW x \in Nat, x < t.seq, Lacks(p, x)'
               PROVE  Resent(p, x)'
    BY DEF Playing
  <2>0. ~Gone(p) BY <1>5 DEF Linked
  <2>1. /\ Heeds(p) /\ net'[p] = n[p] /\ Lacks(p, x)
        /\ \A m \in M : m.dup => ~Covers(m, x)
    BY <1>8, <2>0
  <2>2. Linked(p) /\ t \in Tasks(Other(p))
    BY <1>4, <2>0 DEF Linked, Acts, Around, Same, Tasks
  <2>3. PICK m \in Elements(net[p]) : m.dup /\ Covers(m, x)
    BY <2>1, <2>2 DEF Side, Playing, Resent
  <2>4. m \in Elements(n[p])
    <3>1. CASE n = net BY <3>1
    <3>2. CASE net[p] # <<>> /\ n = [net EXCEPT ![p] = Tail(@)] /\ M = {Head(net[p])}
      <4>1. n[p] = Tail(net[p]) BY <1>0, <3>2
      <4> QED BY <1>0, <2>1, <2>3, <3>2, <4>1, FirstAndRest
    <3> QED BY <3>1, <3>2 DEF Acts, Reads
  <2> QED BY <2>1, <2>3, <2>4 DEF Resent
<1>11. Over(p)' \/ Whole(p)'
  <2>1. used'["connect"] = used["connect"] /\ hello' = hello BY DEF Acts
  <2>2. CASE state[p] = "loggedOut"
    <3>1. state'[p] = "loggedOut" /\ inSeq'[p] = inSeq[p] /\ Given(p)' = Given(p)
      BY <2>2 DEF Acts, Stays, Given
    <3>2. CASE Over(p) BY <2>1, <3>1, <3>2 DEF Over
    <3>3. CASE Whole(p)
      <4>1. miss[p] = {} /\ queue[p] = {} BY <1>0, <2>2, Empty DEF Side
      <4> QED BY <1>1, <3>1, <3>3, <4>1 DEF Whole
    <3> QED BY <3>2, <3>3 DEF Side
  <2>3. CASE state[p] # "loggedOut"
    <3>1. Whole(p) BY <2>3 DEF Side, Over
    <3>2. used["connect"] # 0 /\ (p = Acceptor => hello = {}) BY <2>3 DEF Opening
    <3> QED BY <2>1, <3>1, <3>2 DEF Acts, Forward, Over
  <2> QED BY <2>2, <2>3
<1> QED BY <1>2, <1>6, <1>7, <1>9, <1>10, <1>11 DEF Side

(* The messages another step adds change nothing for q.                    *)
LEMMA StillTrue ==
  ASSUME TypeOK, Bounded, NEW q \in Peer, Same(q), Longer(outLog, outLog'),
         Tidy(q), Truthful(Elements(net[q]), Due(q))
  PROVE  /\ Tidy(q)' /\ Truthful(Elements(net[q]), Due(q)')
         /\ Whole(q) => Whole(q)'
<1> DEFINE p == Other(q)
<1>0. p \in Peer /\ p = Other(q) /\ outLog \in Logs /\ Len(outLog[p]) \in Nat
  BY OtherOfOther, LogLength DEF TypeOK, Logs
<1>1. Due(q) = Stored(outLog, p) /\ Due(q)' = Stored(outLog', p) BY DEF Due
<1> HIDE DEF p
<1>2. Given(q)' = Given(q) /\ Tasks(q)' = Tasks(q) BY DEF Same, Given, Tasks
<1>3. ASSUME NEW x \in Due(q)', x <= Len(outLog[p]) PROVE x \in Due(q)
  BY <1>0, <1>1, <1>3, LongerStoredBack
<1>4. ASSUME NEW N \in SUBSET Fitting(outLog, p), Truthful(N, Due(q))
      PROVE  Truthful(N, Due(q)')
  BY <1>0, <1>1, <1>4, TruthfulLonger
<1>5. Tidy(q)'
  <2>1. ASSUME NEW t \in Tasks(q), t.do = "persist", t.seq \in Due(q)' PROVE t.seq \in Given(q)
    <3>1. todo[q] \in Seq(Owed(outLog, q)) BY DEF Bounded, FitTodo
    <3>2. t \in Owed(outLog, q) BY <3>1, ElementOfSeq, LenProperties DEF Tasks, Elements
    <3>3. t.seq <= Len(outLog[p]) BY <1>0, <2>1, <3>2 DEF Owed
    <3> QED BY <1>3, <2>1, <3>3 DEF Tidy
  <2>2. pending[q] \cup replay[q] \in SUBSET Fitting(outLog, p)
    BY <1>0 DEF Bounded, FitSets
  <2>3. Truthful(pending[q] \cup replay[q], Due(q)') BY <1>4, <2>2 DEF Tidy
  <2> QED BY <1>2, <2>1, <2>3 DEF Tidy, Same
<1>6. Truthful(Elements(net[q]), Due(q)')
  <2>1. net[q] \in Seq(Fitting(outLog, p)) BY <1>0 DEF Bounded, FitNets
  <2>2. Elements(net[q]) \in SUBSET Fitting(outLog, p)
    BY <2>1, ElementOfSeq, LenProperties DEF Elements
  <2> QED BY <1>4, <2>2
<1>7. Whole(q) => Whole(q)'
  <2> SUFFICES ASSUME Whole(q), NEW x \in Due(q)', x < inSeq[q]
               PROVE  x \in Given(q) \cup miss[q] \cup queue[q]
    BY <1>2 DEF Whole, Same
  <2>1. inSeq[q] <= Len(outLog[p]) + 1 /\ inSeq[q] \in Nat
    BY <1>0, Numbers DEF Bounded, FitIn
  <2>2. x \in Nat BY <1>1 DEF Stored
  <2>3. x <= Len(outLog[p]) BY <1>0, <2>1, <2>2
  <2> QED BY <1>3, <2>3 DEF Whole
<1> QED BY <1>5, <1>6, <1>7

(* q, while the other side takes such a step.                              *)
LEMMA OtherStream ==
  ASSUME TypeOK, Bounded, Ordered, NEW p \in Peer, NEW q \in Peer, q = Other(p), Side(q),
         NEW n, NEW M, Acts(p, n, M)
  PROVE  Side(q)'
<1>0. /\ Other(q) = p /\ net[q] \in Seq(Message) /\ net[p] \in Seq(Message)
  BY OtherOfOther DEF TypeOK
<1>1. /\ Same(q) /\ conn'[q] = conn[q] /\ Longer(outLog, outLog')
      /\ hello' = hello /\ used'["connect"] = used["connect"]
  BY DEF Acts, Around, Compiles
<1>2. n[q] = net[q] /\ Elements(n[p]) \subseteq Elements(net[p])
  BY Remains DEF Acts
<1>3. /\ \A x : Lacks(q, x)' = Lacks(q, x)
      /\ Given(q)' = Given(q) /\ Heeds(q)' = Heeds(q) /\ Tasks(q)' = Tasks(q)
  BY <1>1 DEF Same, Lacks, Given, Heeds, Tasks
<1>4. Due(q) = Stored(outLog, p) /\ Due(q)' = Stored(outLog', p) BY <1>0 DEF Due
<1>5. /\ Tidy(q)' /\ Truthful(Elements(net[q]), Due(q)')
      /\ Whole(q) => Whole(q)'
  BY <1>1, StillTrue DEF Side
<1>6. \/ net'[q] = net[q]
      \/ /\ Linked(q)
         /\ \E k \in Seq(Message) :
              /\ net'[q] = net[q] \o k
              /\ Truthful(Elements(k), Due(q)')
              /\ \A m \in Elements(k) :
                   m.dup => \E t \in Tasks(p) : t.do = "play" /\ t.seq = m.seq
  BY <1>0, <1>2, <1>4 DEF Acts, Tells, Linked
<1>7. /\ Truthful(Elements(net'[q]), Due(q)')
      /\ \A x : Resent(q, x) => Resent(q, x)'
      /\ Led(q)'
  <2>2. CASE net'[q] = net[q]
    <3>1. Led(q)' BY <1>3, <2>2 DEF Side, Led
    <3> QED BY <1>5, <2>2, <3>1 DEF Resent
  <2>3. CASE net'[q] # net[q]
    <3> PICK k \in Seq(Message) :
          /\ net'[q] = net[q] \o k
          /\ Truthful(Elements(k), Due(q)')
          /\ \A m \in Elements(k) :
               m.dup => \E t \in Tasks(p) : t.do = "play" /\ t.seq = m.seq
      BY <1>6, <2>3
    <3> DEFINE old == net[q]
    <3>0. old \in Seq(Message) /\ net'[q] = old \o k BY <1>0
    <3>1. old = net[q] OBVIOUS
    <3> HIDE DEF old
    <3>2. /\ Elements(old \o k) = Elements(old) \cup Elements(k)
          /\ \A i \in DOMAIN old : i \in DOMAIN (old \o k) /\ (old \o k)[i] = old[i]
          /\ \A i \in DOMAIN (old \o k) :
               \/ i \in DOMAIN old /\ (old \o k)[i] = old[i]
               \/ (old \o k)[i] \in Elements(k) /\ DOMAIN old \subseteq 1..i - 1
      BY <3>0, Concat
    <3>3. Truthful(Elements(net'[q]), Due(q)') BY <1>5, <3>0, <3>1, <3>2 DEF Truthful
    <3>4. \A x : Resent(q, x) => Resent(q, x)' BY <3>0, <3>1, <3>2 DEF Resent
    <3>5. ASSUME Heeds(q), NEW i \in DOMAIN net'[q], net'[q][i].dup,
                 NEW x \in Nat, x < net'[q][i].seq, Lacks(q, x)
          PROVE  \E j \in 1..i - 1 : net'[q][j].dup /\ Covers(net'[q][j], x)
      <4>1. CASE i \in DOMAIN old /\ net'[q][i] = old[i]
        <5> PICK j \in 1..i - 1 : old[j].dup /\ Covers(old[j], x)
          BY <3>1, <3>5, <4>1 DEF Side, Led
        <5>1. DOMAIN old = 1..Len(old) /\ Len(old) \in Nat BY <3>0, LenProperties
        <5>2. j \in DOMAIN old BY <4>1, <5>1
        <5> QED BY <3>0, <3>2, <5>2
      <4>2. CASE net'[q][i] \in Elements(k) /\ DOMAIN old \subseteq 1..i - 1
        <5>1. Linked(q) BY <1>6, <2>3
        <5> PICK t \in Tasks(p) : t.do = "play" /\ t.seq = net'[q][i].seq BY <3>5, <4>2
        <5>2. Resent(q, x) BY <1>0, <3>5, <5>1 DEF Side, Playing
        <5> PICK m \in Elements(old) : m.dup /\ Covers(m, x) BY <3>1, <5>2 DEF Resent
        <5> PICK j \in DOMAIN old : m = old[j] BY DEF Elements
        <5>3. j \in 1..i - 1 /\ net'[q][j] = m BY <3>0, <3>2, <4>2
        <5> QED BY <5>3
      <4> QED BY <3>0, <3>2, <4>1, <4>2
    <3>6. Led(q)' BY <1>3, <3>5 DEF Led
    <3> QED BY <3>3, <3>4, <3>6
  <2> QED BY <2>2, <2>3
<1>8. Asked(q)'
  <2>1. Elements(net'[p]) \subseteq Elements(net[p])
    <3>1. net'[p] = n[p] \/ net'[p] = <<>> BY DEF Acts, Around, Gone
    <3> QED BY <1>2, <3>1, Single
  <2> QED BY <1>0, <1>3, <2>1 DEF Side, Asked
<1>9. Playing(q)'
  <2> SUFFICES ASSUME Heeds(q)', Linked(q)', NEW t \in Tasks(p)', t.do = "play",
                      NEW x \in Nat, x < t.seq, Lacks(q, x)'
               PROVE  Resent(q, x)'
    BY <1>0 DEF Playing
  <2>1. Linked(q)
    <3>1. conn'[p] # 0 BY <1>0 DEF Linked
    <3>2. conn'[p] = conn[p] BY <3>1 DEF Acts, Around, Gone
    <3> QED BY <1>0, <1>1, <3>2 DEF Linked
  <2>2. Heeds(q) /\ Lacks(q, x) BY <1>3
  <2>3. CASE \E m \in M : m.type = "ResendRequest" /\ t.seq = m.arg
    <3> PICK m \in M : m.type = "ResendRequest" /\ t.seq = m.arg BY <2>3
    <3>1. m \in Elements(net[p]) BY <1>0, FirstAndRest DEF Acts, Reads
    <3> QED BY <1>0, <2>2, <3>1 DEF Side, Asked
  <2>4. CASE \E s \in Tasks(p) : s.do = "play" /\ Bridged(p, s.seq, t.seq)
    <3> PICK s \in Tasks(p) : s.do = "play" /\ Bridged(p, s.seq, t.seq) BY <2>4
    <3>1. s.seq \in Nat
      <4>1. todo[p] \in Seq(Task) BY DEF TypeOK
      <4>2. s \in Task BY <4>1, ElementOfSeq, LenProperties DEF Tasks, Elements
      <4> QED BY <4>2 DEF Task
    <3>2. CASE x < s.seq
      <4>1. Resent(q, x) BY <1>0, <2>1, <2>2, <3>2 DEF Side, Playing
      <4> QED BY <1>7, <4>1
    <3>3. CASE s.seq <= x BY <2>1, <3>3 DEF Bridged
    <3> QED BY <3>1, <3>2, <3>3
  <2> QED BY <2>3, <2>4 DEF Acts, Forward
<1>10. Over(q)' \/ Whole(q)'
  <2>1. CASE Over(q) BY <1>1, <2>1 DEF Over, Same
  <2> QED BY <1>5, <2>1 DEF Side
<1> QED BY <1>5, <1>7, <1>8, <1>9, <1>10 DEF Side

LEMMA OpeningKeeps ==
  ASSUME TypeOK, Bounded, Ordered, Opening, NEW p \in Peer, NEW n, NEW M, Acts(p, n, M)
  PROVE  Opening'
<1>0. /\ Initiator \in Peer /\ Acceptor \in Peer /\ Other(p) \in Peer
      /\ \A q \in Peer : q = p \/ q = Other(p)
      /\ outLog \in Logs /\ Len(outLog[Initiator]) \in Nat
  BY OtherOfOther, LogLength DEF Other, Peer, TypeOK, Logs
<1>1. /\ hello' = hello /\ used'["connect"] = used["connect"]
      /\ Longer(outLog, outLog') /\ Same(Other(p)) /\ conn'[Other(p)] = conn[Other(p)]
  BY DEF Acts, Around, Compiles
<1>2. \A q \in Peer : state[q] = "loggedOut" => state'[q] = "loggedOut"
  BY <1>0, <1>1 DEF Acts, Stays, Same
<1>3. ASSUME NEW h \in hello PROVE h.seq \notin Stored(outLog', Initiator)
  <2>1. h.seq <= Len(outLog[Initiator]) BY DEF Bounded, FitHello
  <2> QED BY <1>0, <1>1, <2>1, LongerStoredBack DEF Opening
<1>4. ASSUME NEW h \in hello, h.conn = conn'[Initiator]
      PROVE  net'[Initiator] = <<>> /\ todo'[Initiator] = <<>>
  <2>1. h.conn # 0 BY DEF Ordered, Connections
  <2>2. conn'[Initiator] = conn[Initiator]
    BY <1>0, <1>1, <1>4, <2>1 DEF Acts, Around, Gone
  <2>3. net[Initiator] = <<>> /\ todo[Initiator] = <<>> /\ state[Acceptor] = "loggedOut"
    BY <1>4, <2>2 DEF Opening
  <2>4. CASE p = Initiator
    <3>1. n = net /\ M = {} BY <2>3, <2>4 DEF Acts, Reads
    <3>2. net'[p] = n[p] BY <1>4, <2>1, <2>4 DEF Acts, Around, Gone
    <3> QED BY <2>3, <2>4, <3>1, <3>2 DEF Acts, Stays
  <2>5. CASE p # Initiator
    <3>1. p = Acceptor /\ Other(p) = Initiator BY <2>5, OtherOfOther DEF Peer
    <3>2. conn[p] = 0 BY <2>3, <3>1 DEF Ordered, Idle
    <3>3. net'[Initiator] = net[Initiator] BY <3>1, <3>2, Remains DEF Acts, Tells
    <3> QED BY <1>1, <2>3, <3>1, <3>3 DEF Same
  <2> QED BY <2>4, <2>5
<1> QED BY <1>1, <1>0, <1>2, <1>3, <1>4 DEF Opening

LEMMA ActsKeep ==
  ASSUME TypeOK, Bounded, Ordered, Opening, \A q \in Peer : Side(q),
         NEW p \in Peer, NEW n, NEW M, Acts(p, n, M)
  PROVE  Opening' /\ \A q \in Peer : Side(q)'
<1>1. Other(p) \in Peer /\ \A q \in Peer : q = p \/ q = Other(p)
  BY OtherOfOther DEF Other, Peer
<1>2. Side(p)' BY OwnStream
<1>3. Side(Other(p))' BY <1>1, OtherStream
<1> QED BY <1>1, <1>2, <1>3, OpeningKeeps

-----------------------------------------------------------------------------
(* The steps of a peer are such steps.                                     *)
LEMMA OthersLog ==
  ASSUME TypeOK, NEW p \in Peer, System(p) \/ Environment(p), ~Crash(p), ~NextDay(p)
  PROVE  outLog'[Other(p)] = outLog[Other(p)]
<1>1. Other(p) # p /\ Other(p) \in Peer BY OtherOfOther
<1>2. (\E batch : Record(p, batch)) => outLog'[Other(p)] = outLog[Other(p)]
  BY <1>1 DEF Record, TypeOK
<1>3. ASSUME NEW m, NEW n, NEW left, NEW rest, OnMsgNormal(p, m, n, left, rest)
      PROVE  outLog'[Other(p)] = outLog[Other(p)]
  BY <1>2, <1>3 DEF OnMsgNormal, InSequence, OutOfSequence, Emit, Raise, storeVars
<1>4. ASSUME NEW m, NEW n, NEW left, NEW rest, OnMsgGap(p, m, n, left, rest)
      PROVE  outLog'[Other(p)] = outLog[Other(p)]
  BY <1>4 DEF OnMsgGap, OnGapFill, storeVars
<1>5. CASE Deliver(p)
  BY <1>2, <1>3, <1>4, <1>5
     DEF Deliver, OnMsgAwaitingLogon, OnMsgAwaitingLogout, LogonInSequence, LogonOutOfSequence,
         Emit, Raise, storeVars
<1>6. CASE Continue(p)
  BY <1>2, <1>3, <1>4, <1>6
     DEF Continue, Play, Open, Persist, Drain, Drained, Replay, Emit, Raise, storeVars
<1>7. CASE ConnectionLost(p) \/ CleanUp(p)
  BY <1>7 DEF ConnectionLost, CleanUp, storeVars
<1>8. CASE Environment(p)
  BY <1>2, <1>8 DEF Environment, Send, Skip, Hole, SendHeartbeat, AppSend, Logoff, Drop,
                    Emit, storeVars
<1> QED BY <1>5, <1>6, <1>7, <1>8 DEF System

LEMMA RestingActs ==
  ASSUME TypeOK, NEW p \in Peer, Core(p), Tidy(p), Resting(p),
         outLog'[Other(p)] = outLog[Other(p)],
         hello' = hello, used'["connect"] = used["connect"],
         \/ Die(p, net) /\ UNCHANGED <<storeVars, delivered>>
         \/ /\ UNCHANGED <<conn, inSeq, inLast, gapVars, callVars, delivered>>
            /\ \/ state' = state
               \/ state[p] = "normal" /\ state' = [state EXCEPT ![p] = "awaitingLogout"]
            /\ \/ net' = net /\ \E batch \in Seq(Items) : Record(p, batch)
               \/ \E batch \in Seq(Written) : Asks(p, batch) /\ Emit(p, conn[p], net, batch)
  PROVE  Acts(p, net, {})
<1>0. net \in Nets BY DEF TypeOK, Nets
<1>1. Reads(p, net, {}) BY DEF Reads
<1>2. Forward(p, {}) BY RestingForward
<1>3. Around(p, net) BY RestingOn
<1>4. Tells(p, conn[p], net) /\ Compiles(p)
  <2>1. CASE Die(p, net) /\ UNCHANGED <<storeVars, delivered>>
    <3>1. outLog' = outLog BY <2>1 DEF storeVars
    <3> QED BY <1>0, <2>1, <3>1, SilentTells
  <2>2. CASE net' = net /\ \E batch \in Seq(Items) : Record(p, batch)
    BY <2>2, RecordCompiles DEF Tells
  <2>3. CASE \E batch \in Seq(Written) : Asks(p, batch) /\ Emit(p, conn[p], net, batch)
    BY <1>0, <2>3, EmitTells
  <2> QED BY <2>1, <2>2, <2>3
<1>5. Stays(p, {})
  <2>1. CASE Die(p, net) /\ UNCHANGED <<storeVars, delivered>>
    <3>1. inSeq' = inSeq /\ inLast' = inLast /\ delivered' = delivered BY <2>1 DEF storeVars
    <3>2. Gone(p) BY <1>0, <2>1, <3>1, DieAround
    <3> QED BY <3>1, <3>2 DEF Stays, Gone
  <2>2. CASE /\ UNCHANGED <<conn, inSeq, inLast, gapVars, callVars, delivered>>
             /\ \/ state' = state
                \/ state[p] = "normal" /\ state' = [state EXCEPT ![p] = "awaitingLogout"]
    BY <2>2 DEF Stays, Heeds, callVars, TypeOK
  <2> QED BY <2>1, <2>2
<1> QED BY <1>1, <1>2, <1>3, <1>4, <1>5 DEF Acts

LEMMA DeliverActs ==
  ASSUME TypeOK, Bounded, Ordered, NEW p \in Peer, Side(p), Deliver(p)
  PROVE  Acts(p, [net EXCEPT ![p] = Tail(@)], {Head(net[p])})
<1> DEFINE m == Head(net[p])
           n == [net EXCEPT ![p] = Tail(@)]
<1>0. /\ Core(p) /\ FreshAhead(p) /\ Tidy(p) /\ net[p] \in Seq(Message)
      /\ net[p] \in Seq(Fitting(outLog, Other(p)))
  BY DEF Ordered, Side, TypeOK, Bounded, FitNets
<1>1. net[p] # <<>> /\ state[p] # "loggedOut" /\ UNCHANGED envVars BY DEF Deliver
<1>2. /\ 1 \in DOMAIN net[p] /\ m = net[p][1] /\ m \in Elements(net[p])
  BY <1>0, <1>1, FirstAndRest
<1>3. m \in Fitting(outLog, Other(p))
  BY <1>0, <1>2, ElementOfSeq, LenProperties
<1>4. ~m.dup => Behind(p, m.seq) BY <1>0, <1>2 DEF FreshAhead
<1>5. Heeds(p) => Handy(p, m)
  <2> SUFFICES ASSUME Heeds(p) PROVE Handy(p, m)
    OBVIOUS
  <2>1. Truthful({m}, Due(p)) BY <1>2 DEF Side, Truthful
  <2>2. m.type = "App" => m.seq \in Due(p) BY <1>3 DEF Fitting, Due
  <2>3. m.dup => \A x \in Nat : x < m.seq => ~Lacks(p, x)
    BY <1>2 DEF Side, Led
  <2> QED BY <2>1, <2>2, <2>3 DEF Handy
<1>6. outLog'[Other(p)] = outLog[Other(p)]
  <2>1. ~Crash(p) /\ ~NextDay(p)
    <3>1. used \in [Budget -> Nat] /\ used' = used BY <1>1 DEF TypeOK, envVars
    <3> QED BY <3>1 DEF Crash, NextDay, Spend, Budget
  <2> QED BY <2>1, OthersLog DEF System
<1>7. Reads(p, n, {m}) BY <1>1 DEF Reads
<1>8. Around(p, n) BY <1>1, DeliverAround
<1>9. Forward(p, {m}) BY <1>0, <1>4, <1>5, <1>6, DeliverForward
<1>10. Tells(p, conn[p], n) /\ Compiles(p) BY <1>0, <1>4, <1>5, <1>6, DeliverTells
<1>11. Stays(p, {m})
  <2>1. state[p] = "awaitingLogout" => state' = state
    BY DEF Deliver, OnMsgAwaitingLogout
  <2> QED BY <1>1, <2>1 DEF Stays, Heeds
<1>12. hello' = hello /\ used'["connect"] = used["connect"] BY <1>1 DEF envVars
<1> QED BY <1>7, <1>8, <1>9, <1>10, <1>11, <1>12 DEF Acts

LEMMA ContinueActs ==
  ASSUME TypeOK, Bounded, Ordered, NEW p \in Peer, Side(p), Continue(p)
  PROVE  Acts(p, net, {})
<1>0. Core(p) /\ Tidy(p) /\ Idle(p) BY DEF Ordered, Side
<1>1. todo[p] # <<>> /\ UNCHANGED envVars
  BY DEF Continue, Play, Open, Persist, Drain, Drained, Replay, Doing
<1>2. state[p] # "loggedOut" BY <1>0, <1>1 DEF Idle
<1>3. outLog'[Other(p)] = outLog[Other(p)]
  <2>1. ~Crash(p) /\ ~NextDay(p)
    <3>1. used \in [Budget -> Nat] /\ used' = used BY <1>1 DEF TypeOK, envVars
    <3> QED BY <3>1 DEF Crash, NextDay, Spend, Budget
  <2> QED BY <2>1, OthersLog DEF System
<1>4. Reads(p, net, {}) BY DEF Reads
<1>5. Around(p, net) BY <1>0, <1>2, ContinueAround
<1>6. Forward(p, {}) BY <1>0, <1>3, ContinueForward
<1>7. Tells(p, conn[p], net) /\ Compiles(p) BY <1>0, <1>3, ContinueTells
<1>8. state[p] = "awaitingLogout" => state'[p] = state[p] \/ Gone(p)
  <2>0. /\ Head(todo[p]) \in Tasks(p) /\ net \in Nets
        /\ Doing(p, "open") => state[p] = "normal"
        /\ Doing(p, "drain") => state[p] = "gap"
    BY <1>0, <1>1, AtHand DEF Doing, Core, Callback, TypeOK, Nets
  <2>1. CASE Play(p) BY <2>1 DEF Play, protocolVars
  <2>2. CASE Open(p) BY <2>0, <2>2 DEF Open
  <2>3. CASE Persist(p)
    <3>1. CASE Raise(p, net)
      <4>1. Die(p, net) /\ inSeq' = inSeq /\ inLast' = inLast /\ delivered' = delivered
        BY <3>1 DEF Raise, storeVars
      <4> QED BY <2>0, <4>1, DieAround
    <3> QED BY <2>3, <3>1 DEF Persist, protocolVars
  <2>4. CASE Drain(p) \/ Drained(p) BY <2>0, <2>4 DEF Drain, Drained
  <2>5. CASE Replay(p) BY <2>5 DEF Replay
  <2> QED BY <2>1, <2>2, <2>3, <2>4, <2>5 DEF Continue
<1>9. Stays(p, {}) BY <1>1, <1>2, <1>8 DEF Stays, Heeds
<1>10. hello' = hello /\ used'["connect"] = used["connect"] BY <1>1 DEF envVars
<1> QED BY <1>4, <1>5, <1>6, <1>7, <1>9, <1>10 DEF Acts

LEMMA SystemActs ==
  ASSUME TypeOK, Bounded, Ordered, NEW p \in Peer, Side(p), System(p)
  PROVE  \E n, M : Acts(p, n, M)
<1>1. CASE Deliver(p) BY <1>1, DeliverActs
<1>2. CASE Continue(p) BY <1>2, ContinueActs
<1>3. CASE ConnectionLost(p) \/ CleanUp(p)
  <2>1. Core(p) /\ Tidy(p) BY DEF Ordered, Side
  <2>2. /\ Resting(p) /\ Die(p, net) /\ UNCHANGED <<storeVars, delivered>>
        /\ hello' = hello /\ used' = used /\ outLog' = outLog
    BY <1>3 DEF ConnectionLost, CleanUp, envVars, storeVars
  <2> QED BY <2>1, <2>2, RestingActs
<1> QED BY <1>1, <1>2, <1>3 DEF System

LEMMA EnvironmentActs ==
  ASSUME TypeOK, Bounded, Ordered, NEW p \in Peer, Side(p),
         Environment(p), ~Crash(p), ~NextDay(p)
  PROVE  \E n, M : Acts(p, n, M)
<1>0. /\ Core(p) /\ Tidy(p) /\ outLog'[Other(p)] = outLog[Other(p)]
  BY OthersLog DEF Ordered, Side
<1>1. ASSUME NEW k \in Budget, k # "connect", Spend(k)
      PROVE  used'["connect"] = used["connect"]
  BY <1>1 DEF Spend, TypeOK
<1>2. CASE Send(p) \/ SendHeartbeat(p)
  <2>1. used'["connect"] = used["connect"]
    BY <1>1, <1>2 DEF Send, SendHeartbeat, Budget
  <2>2. /\ Resting(p) /\ UNCHANGED <<protocolVars, inSeq, inLast, gapVars, callVars, delivered, hello>>
        /\ \/ Emit(p, conn[p], net, <<Item("App", 0, "app")>>)
           \/ Emit(p, conn[p], net, <<Admin("Heartbeat")>>)
    BY <1>2 DEF Send, SendHeartbeat, AppSend
  <2>3. \E batch \in Seq(Written) : Asks(p, batch) /\ Emit(p, conn[p], net, batch)
    BY <2>2, Batch, Asking
  <2>4. state' = state /\ UNCHANGED <<conn, inSeq, inLast, gapVars, callVars, delivered>>
    BY <2>2 DEF protocolVars
  <2> QED BY <1>0, <2>1, <2>2, <2>3, <2>4, RestingActs
<1>3. CASE Skip(p) \/ Hole(p)
  <2>1. used'["connect"] = used["connect"] BY <1>1, <1>3 DEF Skip, Hole, Budget
  <2>2. /\ Resting(p) /\ UNCHANGED <<protocolVars, inSeq, inLast, gapVars, callVars, delivered, hello>>
        /\ net' = net
        /\ \/ Record(p, <<Item("App", 0, "app")>>)
           \/ Record(p, <<Item("App", 0, "unsaved")>>)
    BY <1>3 DEF Skip, Hole, AppSend
  <2>3. Item("App", 0, "app") \in Items /\ Item("App", 0, "unsaved") \in Items
    BY DEF Item, Items, MsgType, Kind
  <2>4. \A b \in Items : <<b>> \in Seq(Items) OBVIOUS
  <2>5. state' = state /\ UNCHANGED <<conn, inSeq, inLast, gapVars, callVars, delivered>>
    BY <2>2 DEF protocolVars
  <2>6. \E batch \in Seq(Items) : Record(p, batch) BY <2>2, <2>3, <2>4
  <2> QED BY <1>0, <2>1, <2>2, <2>5, <2>6, RestingActs
<1>4. ASSUME NEW again \in BOOLEAN, Logoff(p, again) PROVE Acts(p, net, {})
  <2>1. used'["connect"] = used["connect"] /\ hello' = hello /\ Resting(p)
    BY <1>1, <1>4 DEF Logoff, Budget
  <2>2. CASE Die(p, net) /\ UNCHANGED <<storeVars, delivered>>
    BY <1>0, <2>1, <2>2, RestingActs
  <2>3. CASE ~(Die(p, net) /\ UNCHANGED <<storeVars, delivered>>)
    <3>1. /\ state[p] = "normal" /\ state' = [state EXCEPT ![p] = "awaitingLogout"]
          /\ Emit(p, conn[p], net, <<Admin("Logout")>>)
          /\ UNCHANGED <<conn, inSeq, inLast, gapVars, callVars, delivered>>
      BY <1>4, <2>3 DEF Logoff
    <3>2. \E batch \in Seq(Written) : Asks(p, batch) /\ Emit(p, conn[p], net, batch)
      BY <3>1, Batch, Asking
    <3> QED BY <1>0, <2>1, <3>1, <3>2, RestingActs
  <2> QED BY <2>2, <2>3
<1>5. CASE Drop(p)
  <2>1. /\ Resting(p) /\ Die(p, net) /\ UNCHANGED <<storeVars, delivered, hello>>
        /\ used'["connect"] = used["connect"]
    BY <1>1, <1>5 DEF Drop, Budget
  <2> QED BY <1>0, <2>1, RestingActs
<1> QED BY <1>2, <1>3, <1>4, <1>5 DEF Environment

-----------------------------------------------------------------------------
(* The connection comes up.                                                *)
LEMMA QuietStream ==
  ASSUME TypeOK, Bounded, Opening, \A q \in Peer : Side(q), hello' \subseteq hello,
         UNCHANGED <<protocolVars, inSeq, inLast, gapVars, callVars, net, delivered, used>>,
         Compiles(Acceptor)
  PROVE  Opening' /\ \A q \in Peer : Side(q)'
<1>0. Other(Acceptor) = Initiator /\ Acceptor \in Peer /\ Initiator \in Peer
  BY OtherOfOther
<1>1. Opening'
  <2>1. Stored(outLog', Initiator) = Stored(outLog, Initiator)
    BY <1>0 DEF Compiles, Stored
  <2> QED BY <2>1 DEF Opening, protocolVars, callVars
<1>2. ASSUME NEW q \in Peer PROVE Side(q)'
  <2>1. Same(q) /\ Other(q) \in Peer
    BY OtherOfOther DEF Same, protocolVars, gapVars, callVars
  <2>2. /\ Tidy(q)' /\ Truthful(Elements(net[q]), Due(q)')
        /\ Whole(q) => Whole(q)'
    BY <2>1, StillTrue DEF Side, Compiles
  <2>3. /\ Asked(q)' = Asked(q) /\ Led(q)' = Led(q) /\ Playing(q)' = Playing(q)
        /\ Over(q) => Over(q)'
    BY DEF Asked, Led, Playing, Over, Lacks, Heeds, Linked, Resent, Tasks,
           protocolVars, gapVars, callVars
  <2> QED BY <2>2, <2>3 DEF Side
<1> QED BY <1>1, <1>2

LEMMA AcceptLogonStream ==
  ASSUME TypeOK, Bounded, Ordered, Opening, \A q \in Peer : Side(q),
         used["connect"] <= 1, NEW h \in hello, h.conn = conn[Initiator],
         used' = used, hello' = hello \ {h}, AcceptLogon(h)
  PROVE  Opening' /\ \A q \in Peer : Side(q)'
<1>0. /\ Other(Initiator) = Acceptor /\ Other(Acceptor) = Initiator
      /\ Initiator \in Peer /\ Acceptor \in Peer /\ Initiator # Acceptor
      /\ \A q \in Peer : q = Initiator \/ q = Acceptor
      /\ net \in Nets /\ used["connect"] \in Nat
  BY OtherOfOther DEF Other, Peer, TypeOK, Nets, Budget
<1>1. hello' = {} /\ used["connect"] # 0
  <2>1. \A g \in hello : g.conn \in Nat /\ g.conn # 0 /\ g.conn <= used["connect"]
    BY DEF TypeOK, Ordered, Connections
  <2>2. \A g \in hello : g.conn = h.conn BY <1>0, <2>1
  <2>3. \A g \in hello : g = h BY <2>2 DEF Ordered, Connections
  <2> QED BY <1>0, <2>1, <2>3
<1>2. Opening' BY <1>1 DEF Opening
<1> DEFINE reply == <<Admin("Logon")>>
<1>3. /\ state[Acceptor] = "loggedOut"
      /\ \/ LogonInSequence(Acceptor, h.conn, net, reply, h.seq)
         \/ LogonOutOfSequence(Acceptor, h.conn, net, reply, h.seq)
  BY DEF AcceptLogon
<1>4. /\ net[Acceptor] = <<>> /\ todo[Acceptor] = <<>>
      /\ net[Initiator] = <<>> /\ todo[Initiator] = <<>>
      /\ Elements(net[Acceptor]) = {} /\ Tasks(Acceptor) = {} /\ Tasks(Initiator) = {}
  BY <1>0, <1>3, Single DEF Ordered, Idle, Opening, Tasks
<1>5. h.seq \in Nat /\ inSeq[Acceptor] <= h.seq /\ h.seq \notin Due(Acceptor)
  BY <1>0 DEF TypeOK, Ordered, HelloAhead, Behind, Opening, Due
<1>6. outLog'[Initiator] = outLog[Initiator]
  BY <1>0, <1>3 DEF LogonInSequence, LogonOutOfSequence, Emit, Record, TypeOK
<1>7. Core(Acceptor) /\ Tidy(Acceptor) /\ state[Acceptor] # "gap"
  BY <1>0, <1>3 DEF Ordered, Side
<1>8. reply \in {<<>>, <<Admin("Logon")>>} OBVIOUS
<1> HIDE DEF reply
<1>9. Forward(Acceptor, {})
  BY <1>0, <1>3, <1>4, <1>5, <1>6, <1>7, LogonForward
<1>10. Tells(Acceptor, h.conn, net) /\ Compiles(Acceptor)
  BY <1>0, <1>3, <1>4, <1>5, <1>6, <1>7, <1>8, LogonTells
<1>11. /\ todo' = todo /\ Same(Initiator)
       /\ state'[Acceptor] # "loggedOut" /\ net'[Acceptor] = <<>>
  <2>1. todo' = todo /\ Same(Initiator) /\ state'[Acceptor] # "loggedOut"
    BY <1>0, <1>3 DEF LogonInSequence, LogonOutOfSequence, PersistAndAdvance, StartGap,
                      Same, TypeOK, gapVars, callVars
  <2>2. \E batch : net' = Wire(net, Acceptor, h.conn, Numbered(Acceptor, batch))
    BY <1>3 DEF LogonInSequence, LogonOutOfSequence, Emit
  <2>3. net'[Acceptor] = net[Acceptor] BY <1>0, <2>2 DEF Wire, Nets
  <2> QED BY <1>4, <2>1, <2>3
<1>12. /\ Tasks(Acceptor)' = {} /\ Tasks(Initiator)' = {} /\ Elements(net'[Acceptor]) = {}
  BY <1>4, <1>11, Single DEF Tasks
<1>13. /\ Truthful(Elements(net'[Initiator]), Due(Initiator)')
       /\ \A m \in Elements(net'[Initiator]) :
            /\ ~m.dup
            /\ m.type = "ResendRequest" => \A x \in Nat : x < m.arg => ~Lacks(Acceptor, x)'
  <2>1. Due(Initiator)' = Stored(outLog', Acceptor) BY <1>0 DEF Due
  <2>2. CASE net'[Initiator] = net[Initiator]
    <3>1. Elements(net'[Initiator]) = {} BY <1>4, <2>2, Single
    <3> QED BY <3>1 DEF Truthful
  <2>3. CASE net'[Initiator] # net[Initiator]
    <3> PICK k \in Seq(Message) :
          /\ net'[Initiator] = net[Initiator] \o k
          /\ Truthful(Elements(k), Stored(outLog', Acceptor))
          /\ \A m \in Elements(k) :
               /\ m.type = "ResendRequest" => \A x \in Nat : x < m.arg => ~Lacks(Acceptor, x)'
               /\ m.dup => \E t \in Tasks(Acceptor) : t.do = "play" /\ t.seq = m.seq
      BY <1>0, <1>10, <2>3 DEF Tells
    <3>1. net'[Initiator] = k BY <1>4, ConcatEmptySeq
    <3> QED BY <1>4, <2>1, <3>1
  <2> QED BY <2>2, <2>3
<1>14. Side(Acceptor)'
  <2>1. Tidy(Acceptor)' BY <1>9 DEF Forward
  <2>2. Truthful(Elements(net[Acceptor])', Due(Acceptor)') BY <1>12 DEF Truthful
  <2>3. Asked(Acceptor)' BY <1>0, <1>13 DEF Asked
  <2>4. Led(Acceptor)' BY <1>12 DEF Led, Elements
  <2>5. Playing(Acceptor)' BY <1>0, <1>12 DEF Playing
  <2>6. Whole(Acceptor) BY <1>0 DEF Side, Over
  <2>7. Whole(Acceptor)' BY <1>9, <1>11, <2>6 DEF Forward
  <2> QED BY <2>1, <2>2, <2>3, <2>4, <2>5, <2>7 DEF Side
<1>15. Side(Initiator)'
  <2>1. /\ Tidy(Initiator)'
        /\ Whole(Initiator) => Whole(Initiator)'
    BY <1>0, <1>10, <1>11, StillTrue DEF Side, Compiles
  <2>2. Asked(Initiator)' BY <1>0, <1>12 DEF Asked
  <2>3. Led(Initiator)' BY <1>13 DEF Led, Elements
  <2>4. Playing(Initiator)' BY <1>0, <1>12 DEF Playing
  <2>5. Whole(Initiator)
    <3>1. conn[Initiator] # 0 BY DEF Ordered, Connections
    <3>2. state[Initiator] # "loggedOut" BY <1>0, <3>1 DEF Ordered, Idle
    <3> QED BY <1>0, <3>2 DEF Side, Over
  <2>6. Truthful(Elements(net[Initiator])', Due(Initiator)') BY <1>13
  <2> QED BY <2>1, <2>2, <2>3, <2>4, <2>5, <2>6 DEF Side
<1> QED BY <1>0, <1>2, <1>14, <1>15

LEMMA ConnectStream ==
  ASSUME TypeOK, Bounded, Ordered, Opening, \A q \in Peer : Side(q),
         used'["connect"] <= 1, Connect
  PROVE  Opening' /\ \A q \in Peer : Side(q)'
<1>0. /\ Other(Initiator) = Acceptor /\ Other(Acceptor) = Initiator
      /\ Initiator \in Peer /\ Acceptor \in Peer /\ Initiator # Acceptor
      /\ \A q \in Peer : q = Initiator \/ q = Acceptor
      /\ used["connect"] \in Nat /\ outLog \in Logs
  BY OtherOfOther DEF Other, Peer, TypeOK, Logs, Budget
<1> DEFINE x == Len(outLog[Initiator]) + 1
           greeting == [conn |-> used["connect"] + 1, seq |-> x]
<1>1. /\ state' = [state EXCEPT ![Initiator] = "awaitingLogon"]
      /\ hello' = hello \cup {greeting} /\ greeting.seq = x
      /\ used'["connect"] = used["connect"] + 1
      /\ Record(Initiator, <<Admin("Logon")>>)
      /\ UNCHANGED <<inSeq, inLast, gapVars, callVars, net, delivered>>
  BY DEF Connect, Spend, TypeOK, Budget
<1> HIDE DEF greeting
<1>2. used["connect"] = 0 /\ used'["connect"] # 0 BY <1>0, <1>1
<1>3. hello = {} /\ \A q \in Peer : state[q] = "loggedOut" BY <1>2 DEF Opening
<1>4. ASSUME NEW q \in Peer
      PROVE  /\ net'[q] = <<>> /\ Elements(net'[q]) = {}
             /\ todo'[q] = <<>> /\ Tasks(q)' = {} /\ Tasks(q) = {}
  BY <1>1, <1>3, Single DEF Ordered, Idle, Tasks, callVars
<1>5. Compiles(Initiator)
  <2>1. Admin("Logon") \in Items BY DEF Admin, Item, Items, MsgType, Kind
  <2>2. <<Admin("Logon")>> \in Seq(Items) BY <2>1
  <2> QED BY <1>0, <1>1, <2>2, RecordCompiles
<1>6. x \notin Stored(outLog', Initiator)
  <2> DEFINE batch == <<Admin("Logon")>>
  <2>1. batch \in Seq(Written) /\ Record(Initiator, batch) BY <1>0, <1>1, Batch
  <2>2. 1 \in 1..Len(batch) /\ batch[1].type # "App" BY DEF Admin, Item
  <2> HIDE DEF batch
  <2> QED BY <1>0, <2>1, <2>2, RecordStores
<1>7. Opening'
  <2>1. state'[Acceptor] = "loggedOut" BY <1>0, <1>1, <1>3 DEF TypeOK
  <2>2. \A g \in hello' : g.seq = x BY <1>1, <1>3
  <2> QED BY <1>0, <1>2, <1>4, <1>6, <2>1, <2>2 DEF Opening
<1>8. ASSUME NEW q \in Peer
      PROVE  Asked(q)' /\ Led(q)' /\ Playing(q)' /\ Truthful(Elements(net[q])', Due(q)')
  <2>1. Other(q) \in Peer BY OtherOfOther
  <2> QED BY <1>4, <2>1 DEF Asked, Led, Playing, Truthful
<1>9. \A q \in Peer : Whole(q) BY <1>2 DEF Side, Over
<1>10. Side(Acceptor)'
  <2>1. Same(Acceptor) BY <1>0, <1>1 DEF Same, TypeOK, gapVars, callVars
  <2>2. Tidy(Acceptor)' /\ Whole(Acceptor)'
    BY <1>0, <1>5, <1>9, <2>1, StillTrue DEF Side, Compiles
  <2> QED BY <1>0, <1>8, <2>2 DEF Side
<1>11. Side(Initiator)'
  <2>1. Due(Initiator)' = Due(Initiator) BY <1>0, <1>5 DEF Compiles, Due, Stored
  <2>2. UNCHANGED <<inSeq, miss, last, queue, pending, replay, todo, delivered>>
    BY <1>1 DEF gapVars, callVars
  <2>3. miss[Initiator] = {}
    <3>1. state[Initiator] # "gap" BY <1>0, <1>3
    <3> QED BY <1>0, <3>1, Empty DEF Side, Ordered
  <2>4. Tidy(Initiator)'
    BY <1>0, <1>4, <2>1, <2>2, <2>3 DEF Side, Tidy
  <2>5. Whole(Initiator)' BY <1>0, <1>9, <2>1, <2>2 DEF Whole, Given
  <2> QED BY <1>0, <1>8, <2>4, <2>5 DEF Side
<1> QED BY <1>0, <1>7, <1>10, <1>11

-----------------------------------------------------------------------------
LEMMA InitStream == Init => SInv
<1> SUFFICES ASSUME Init PROVE Opening /\ \A p \in Peer : Side(p)
  BY DEF SInv
<1>1. Opening BY DEF Init, Opening, Budget
<1>2. ASSUME NEW p \in Peer PROVE Side(p)
  <2>1. Other(p) \in Peer BY OtherOfOther
  <2>2. \A q \in Peer : net[q] = <<>> /\ Elements(net[q]) = {} /\ Tasks(q) = {}
    BY Single DEF Init, Tasks
  <2>3. /\ miss[p] = {} /\ queue[p] = {} /\ pending[p] = {} /\ replay[p] = {}
    BY DEF Init
  <2>4. Tidy(p) /\ Truthful(Elements(net[p]), Due(p))
    BY <2>2, <2>3 DEF Tidy, Truthful
  <2>5. Asked(p) /\ Led(p) /\ Playing(p) BY <2>1, <2>2 DEF Asked, Led, Playing
  <2>6. Due(p) = {}
    <3>1. outLog[Other(p)] = <<>> /\ Len(<<>>) = 0 BY <2>1, EmptySeq DEF Init
    <3> QED BY <3>1 DEF Due, Stored
  <2>7. Whole(p) BY <2>6 DEF Whole
  <2> QED BY <2>4, <2>5, <2>7 DEF Side
<1> QED BY <1>1, <1>2

LEMMA OneLinkBefore ==
  ASSUME TypeOK, [Next]_vars, OneLink'
  PROVE  OneLink
<1>0. Calm BY CalmBefore DEF OneLink
<1>1. used \in [Budget -> Nat] /\ "connect" \in Budget BY DEF TypeOK, Budget
<1>2. used'["connect"] <= 1 BY DEF OneLink
<1>3. ASSUME NEW k \in Budget, Spend(k) PROVE used["connect"] <= used'["connect"]
  BY <1>1, <1>3 DEF Spend
<1>4. used' = used \/ \E k \in Budget : Spend(k)
  <2>1. CASE \E p \in Peer : System(p)
    <3> PICK p \in Peer : System(p) BY <2>1
    <3>1. UNCHANGED envVars
      BY DEF System, Deliver, Continue, Play, Open, Persist, Drain, Drained, Replay,
             ConnectionLost, CleanUp
    <3> QED BY <3>1 DEF envVars
  <2>2. CASE \E p \in Peer : Environment(p)
    BY <2>2 DEF Environment, Send, Skip, Hole, SendHeartbeat, Logoff, Drop, Crash, NextDay,
                Budget
  <2>3. CASE ReadLogon BY <2>3 DEF ReadLogon, Budget
  <2>4. CASE \E h \in hello : HelloLost(h) BY <2>4 DEF HelloLost
  <2>5. CASE Connect BY <2>5 DEF Connect, Budget
  <2>6. CASE AllowLogon BY <2>6 DEF AllowLogon
  <2>7. CASE UNCHANGED vars BY <2>7 DEF vars, envVars
  <2> QED BY <2>1, <2>2, <2>3, <2>4, <2>5, <2>6, <2>7 DEF Next
<1>5. used["connect"] <= 1
  <2>1. used' \in [Budget -> Nat]
    BY <1>1, <1>4 DEF Spend
  <2> QED BY <1>1, <1>2, <1>3, <1>4, <2>1
<1> QED BY <1>0, <1>5 DEF OneLink

LEMMA StepStream ==
  ASSUME TypeOK, IInv, OInv, SInv, [Next]_vars
  PROVE  SInv'
<1> SUFFICES ASSUME OneLink' PROVE Opening' /\ \A q \in Peer : Side(q)'
  BY DEF SInv
<1>1. /\ Bounded /\ Ordered /\ \A p \in Peer : ~Crash(p) /\ ~NextDay(p)
      /\ ReadLogon => \E h \in hello :
           /\ h.conn = conn[Initiator] /\ used' = used /\ hello' = hello \ {h}
           /\ AcceptLogon(h) \/ RefuseLogon(h)
  BY CalmBefore DEF OInv, IInv, OneLink, Calm
<1>2. /\ Opening /\ \A q \in Peer : Side(q)
      /\ used["connect"] <= 1 /\ used'["connect"] <= 1
  BY OneLinkBefore DEF SInv, OneLink
<1>3. Acceptor \in Peer BY OtherOfOther
<1>4. outLog' = outLog => Compiles(Acceptor) BY <1>3, RecordCompiles
<1>5. CASE \E p \in Peer : System(p) \/ Environment(p)
  <2> PICK p \in Peer : System(p) \/ Environment(p) BY <1>5
  <2>1. \E n, M : Acts(p, n, M) BY <1>1, <1>2, SystemActs, EnvironmentActs
  <2> QED BY <1>1, <1>2, <2>1, ActsKeep
<1>6. CASE ReadLogon
  <2> PICK h \in hello : /\ h.conn = conn[Initiator] /\ used' = used
                         /\ hello' = hello \ {h}
                         /\ AcceptLogon(h) \/ RefuseLogon(h)
    BY <1>1, <1>6
  <2>1. CASE AcceptLogon(h) BY <1>1, <1>2, <2>1, AcceptLogonStream
  <2>2. CASE RefuseLogon(h)
    <3>1. /\ hello' \subseteq hello
          /\ UNCHANGED <<protocolVars, inSeq, inLast, gapVars, callVars, net, delivered, used>>
          /\ outLog' = outLog \/ Record(Acceptor, <<Admin("Logon")>>)
      BY <2>2 DEF RefuseLogon
    <3>2. Admin("Logon") \in Items BY DEF Admin, Item, Items, MsgType, Kind
    <3>3. <<Admin("Logon")>> \in Seq(Items) BY <3>2
    <3>4. Compiles(Acceptor) BY <1>3, <3>1, <3>3, RecordCompiles
    <3> QED BY <1>1, <1>2, <3>1, <3>4, QuietStream
  <2> QED BY <2>1, <2>2
<1>7. CASE \/ \E h \in hello : HelloLost(h)
           \/ AllowLogon
           \/ UNCHANGED vars
  <2>1. /\ hello' \subseteq hello
        /\ UNCHANGED <<protocolVars, inSeq, inLast, gapVars, callVars, net, delivered, used>>
        /\ outLog' = outLog
    BY <1>7 DEF HelloLost, AllowLogon, vars, storeVars, envVars
  <2> QED BY <1>1, <1>2, <1>4, <2>1, QuietStream
<1>8. CASE Connect BY <1>1, <1>2, <1>8, ConnectStream
<1> QED BY <1>5, <1>6, <1>7, <1>8 DEF Next

(* On the first connection of the day, with no restart, a session that is  *)
(* back to normal processing has given its application every message the   *)
(* other side stored below in_msg_seq_num: whatever gaps both sides had,   *)
(* whatever was resent, covered by a gap fill, put aside and replayed.     *)
THEOREM NothingLostOnOneConnection == Spec => [](OneLink => NothingLost)
<1>1. TypeOK /\ IInv /\ OInv /\ SInv /\ [Next]_vars => SInv' BY StepStream
<1>2. TypeOK /\ IInv /\ OInv /\ [Next]_vars => OInv' BY StepOrdered
<1>3. TypeOK /\ IInv /\ [Next]_vars => IInv' BY StepFits
<1>4. TypeOK /\ OInv /\ SInv => (OneLink => NothingLost)
  <2> SUFFICES ASSUME TypeOK, Ordered, \A q \in Peer : Side(q), NEW p \in Peer,
                      state[p] \in {"normal", "awaitingLogout"},
                      NEW n \in DOMAIN outLog[Other(p)],
                      outLog[Other(p)][n] = "app", n < inSeq[p]
               PROVE  n \in Given(p)
    BY DEF OInv, SInv, OneLink, NothingLost
  <2>1. Core(p) /\ Tidy(p) /\ Whole(p) BY DEF Ordered, Side, Over
  <2>2. miss[p] = {} /\ queue[p] = {} BY <2>1, Empty
  <2>3. DOMAIN outLog[Other(p)] = 1..Len(outLog[Other(p)])
    BY OtherOfOther, LenProperties DEF TypeOK
  <2>4. n \in Due(p) BY <2>3 DEF Due, Stored
  <2> QED BY <2>1, <2>2, <2>4 DEF Whole
<1> QED BY <1>1, <1>2, <1>3, <1>4, InitOrdered, InitFits, InitStream, TypeCorrect, PTL DEF Spec

-----------------------------------------------------------------------------
(* Each direction is a stream.                                             *)
LEMMA Prefix ==
  ASSUME NEW s \in Seq(Kind), NEW t \in Seq(Kind), Len(s) <= Len(t),
         \A i \in 1..Len(s) : t[i] = s[i]
  PROVE  SubSeq(s, 1, Len(s)) = SubSeq(t, 1, Len(s))
<1>1. Len(s) \in Nat /\ Len(t) \in Nat BY LenProperties
<1>2. \A i \in 1..Len(s) : i \in 1..Len(t) BY <1>1
<1>3. /\ SubSeq(s, 1, Len(s)) = [i \in 1..(Len(s) - 1 + 1) |-> s[1 + i - 1]]
      /\ SubSeq(t, 1, Len(s)) = [i \in 1..(Len(s) - 1 + 1) |-> t[1 + i - 1]]
  BY <1>1, <1>2, SubSeqProperties
<1>4. Len(s) - 1 + 1 = Len(s) /\ \A i \in 1..Len(s) : 1 + i - 1 = i BY <1>1
<1> QED BY <1>3, <1>4

Extends(s, t) == Len(s) <= Len(t) /\ SubSeq(s, 1, Len(s)) = SubSeq(t, 1, Len(s)) /\ s # t

(* The stream to p.                                                        *)
Flows(p) ==
  \/ UNCHANGED <<outLog[Other(p)], delivered[p]>>
  \/ Extends(outLog[Other(p)], outLog'[Other(p)]) /\ UNCHANGED delivered[p]
  \/ Gives(p) /\ UNCHANGED outLog[Other(p)]

LEMMA StepFlows ==
  ASSUME TypeOK, IInv, OInv, SInv, OneLink', [Next]_vars, NEW p \in Peer
  PROVE  Flows(p)
<1>0. /\ Other(p) \in Peer /\ Other(Other(p)) = p
      /\ \A q \in Peer : q = p \/ q = Other(p)
      /\ Acceptor \in Peer /\ Initiator \in Peer
  BY OtherOfOther DEF Other, Peer
<1>1. /\ Bounded /\ Ordered /\ \A q \in Peer : ~Crash(q) /\ ~NextDay(q)
      /\ ReadLogon => \E h \in hello : AcceptLogon(h) \/ RefuseLogon(h)
  BY CalmBefore DEF OInv, IInv, OneLink, Calm
<1>2. Side(p) /\ Side(Other(p)) BY <1>0, OneLinkBefore DEF SInv
<1>3. ASSUME Longer(outLog, outLog'), delivered'[p] = delivered[p] PROVE Flows(p)
  <2>1. outLog[Other(p)] \in Seq(Kind) /\ outLog'[Other(p)] \in Seq(Kind)
    BY <1>0, <1>3 DEF Longer, Logs
  <2> QED BY <1>0, <1>3, <2>1, Prefix DEF Flows, Extends, Longer
<1>4. CASE \E q \in Peer : System(q) \/ Environment(q)
  <2> PICK q \in Peer : System(q) \/ Environment(q) BY <1>4
  <2> PICK n, M : Acts(q, n, M) BY <1>0, <1>1, <1>2, SystemActs, EnvironmentActs
  <2>1. CASE q = p
    <3>1. outLog'[Other(p)] = outLog[Other(p)] BY <2>1 DEF Acts, Compiles
    <3>2. delivered'[p] = delivered[p] \/ Gives(p)
      BY <1>2, <2>1 DEF Acts, Forward, Stays, Side, Over
    <3> QED BY <3>1, <3>2 DEF Flows
  <2>2. CASE q = Other(p)
    <3>1. Longer(outLog, outLog') /\ delivered'[p] = delivered[p]
      BY <1>0, <2>2 DEF Acts, Compiles, Around, Same
    <3> QED BY <1>3, <3>1
  <2> QED BY <1>0, <2>1, <2>2
<1>5. CASE ReadLogon \/ Connect
  <2>1. \E batch \in Seq(Items) : Record(Initiator, batch) \/ Record(Acceptor, batch)
           \/ outLog' = outLog
    <3>1. Admin("Logon") \in Items BY DEF Admin, Item, Items, MsgType, Kind
    <3>2. <<Admin("Logon")>> \in Seq(Items) BY <3>1
    <3>3. <<Admin("Logon")>> \in Seq(Written) BY <1>0, Batch
    <3>4. /\ <<Admin("Logon")>> \o <<Admin("Heartbeat")>> \in Seq(Items)
          /\ <<Admin("Logon")>> \o <<ResendFrom(inSeq[Acceptor])>> \in Seq(Items)
      BY <1>0, <3>3, Batch, WrittenAreItems
    <3>5. CASE Connect BY <3>2, <3>5 DEF Connect
    <3>6. CASE ReadLogon
      BY <1>1, <3>2, <3>4, <3>6 DEF AcceptLogon, RefuseLogon, LogonInSequence,
                                    LogonOutOfSequence, Emit
    <3> QED BY <1>5, <3>5, <3>6
  <2>2. Longer(outLog, outLog')
    <3>1. outLog' = outLog => Compiles(Acceptor) BY <1>0, RecordCompiles
    <3> QED BY <1>0, <2>1, <3>1, RecordCompiles DEF Compiles
  <2>3. delivered' = delivered
    BY <1>1, <1>5 DEF Connect, AcceptLogon, RefuseLogon, LogonInSequence, LogonOutOfSequence
  <2> QED BY <1>3, <2>2, <2>3
<1>6. CASE \/ \E h \in hello : HelloLost(h)
           \/ AllowLogon
           \/ UNCHANGED vars
  <2>1. outLog' = outLog /\ delivered' = delivered
    BY <1>6 DEF HelloLost, AllowLogon, vars, storeVars
  <2> QED BY <2>1 DEF Flows
<1> QED BY <1>4, <1>5, <1>6 DEF Next

(* On the first connection of the day, with no restart, what the two       *)
(* applications see implements the abstract stream in both directions:     *)
(* every step that gives an application a message gives it the first       *)
(* stored one it has not had.                                              *)
THEOREM StreamsOnOneConnection == Spec /\ []OneLink => BothStreams
<1>1. TypeOK /\ IInv /\ OInv /\ SInv /\ [Next]_vars => SInv' BY StepStream
<1>2. TypeOK /\ IInv /\ OInv /\ [Next]_vars => OInv' BY StepOrdered
<1>3. TypeOK /\ IInv /\ [Next]_vars => IInv' BY StepFits
<1>4. Init => ToInitiator!Init /\ ToAcceptor!Init
  <2>1. Initiator \in Peer /\ Acceptor \in Peer BY OtherOfOther
  <2> QED BY <2>1 DEF Init, ToInitiator!Init, ToAcceptor!Init
<1>5. ASSUME TypeOK, NEW p \in Peer, Gives(p)
      PROVE  \E n \in DOMAIN outLog[Other(p)] :
               /\ outLog[Other(p)][n] = "app" /\ n \notin Given(p)
               /\ \A k \in 1..(n - 1) : outLog[Other(p)][k] = "app" => k \in Given(p)
               /\ delivered'[p] = Append(delivered[p], n)
  <2> PICK n \in Due(p) : /\ delivered'[p] = Append(delivered[p], n)
                          /\ n \notin Given(p)
                          /\ \A k \in Due(p) : k < n => k \in Given(p)
    BY <1>5 DEF Gives
  <2>1. /\ DOMAIN outLog[Other(p)] = 1..Len(outLog[Other(p)])
        /\ Len(outLog[Other(p)]) \in Nat
    BY <1>5, OtherOfOther, LenProperties DEF TypeOK
  <2>2. n \in 1..Len(outLog[Other(p)]) /\ outLog[Other(p)][n] = "app" BY DEF Due, Stored
  <2>3. ASSUME NEW k \in 1..(n - 1), outLog[Other(p)][k] = "app" PROVE k \in Given(p)
    <3>1. k \in 1..Len(outLog[Other(p)]) /\ k < n BY <2>1, <2>2
    <3> QED BY <2>3, <3>1 DEF Due, Stored
  <2> QED BY <2>1, <2>2, <2>3
<1>6. TypeOK /\ IInv /\ OInv /\ SInv /\ OneLink' /\ [Next]_vars
      => /\ [ToInitiator!Compile \/ ToInitiator!Deliver]_(ToInitiator!vars)
         /\ [ToAcceptor!Compile \/ ToAcceptor!Deliver]_(ToAcceptor!vars)
  <2> SUFFICES ASSUME TypeOK, IInv, OInv, SInv, OneLink', [Next]_vars
               PROVE  /\ [ToInitiator!Compile \/ ToInitiator!Deliver]_(ToInitiator!vars)
                      /\ [ToAcceptor!Compile \/ ToAcceptor!Deliver]_(ToAcceptor!vars)
    OBVIOUS
  <2>1. /\ Initiator \in Peer /\ Acceptor \in Peer
        /\ Other(Initiator) = Acceptor /\ Other(Acceptor) = Initiator
    BY OtherOfOther DEF Other
  <2>2. Flows(Initiator) /\ Flows(Acceptor) BY <2>1, StepFlows
  <2>3. [ToInitiator!Compile \/ ToInitiator!Deliver]_(ToInitiator!vars)
    BY <1>5, <2>1, <2>2
       DEF Flows, Extends, Given, ToInitiator!Compile, ToInitiator!Deliver, ToInitiator!vars,
           ToInitiator!Given, ToInitiator!ToSet, ToInitiator!IsStrictPrefix, ToInitiator!IsPrefix
  <2>4. [ToAcceptor!Compile \/ ToAcceptor!Deliver]_(ToAcceptor!vars)
    BY <1>5, <2>1, <2>2
       DEF Flows, Extends, Given, ToAcceptor!Compile, ToAcceptor!Deliver, ToAcceptor!vars,
           ToAcceptor!Given, ToAcceptor!ToSet, ToAcceptor!IsStrictPrefix, ToAcceptor!IsPrefix
  <2> QED BY <2>3, <2>4
<1> QED BY <1>1, <1>2, <1>3, <1>4, <1>6, InitOrdered, InitFits, InitStream, TypeCorrect, PTL
    DEF Spec, BothStreams, ToInitiator!Spec, ToAcceptor!Spec
=============================================================================
