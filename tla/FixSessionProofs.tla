-------------------------- MODULE FixSessionProofs --------------------------
(***************************************************************************)
(* Type correctness of FixSession; and that, as long as no process         *)
(* restarts, nobody is ahead of its peer and nothing is replayed to the    *)
(* application that was not sent.                                          *)
(***************************************************************************)
EXTENDS FixSession, SequenceTheorems, TLAPS

Items == [type: MsgType \ {"GapFill"}, arg: Nat, kind: Kind]
Nets == [Peer -> Seq(Message)]
Logs == [Peer -> Seq(Kind)]

LEMMA OtherIsPeer == \A p \in Peer : Other(p) \in Peer
BY DEF Other, Peer

(* The batches the code compiles.                                          *)
LEMMA ItemTypes ==
  /\ \A t \in MsgType \ {"GapFill"} : Admin(t) \in Items
  /\ LogoutReply \in Items
  /\ \A b \in Nat : ResendFrom(b) \in Items
  /\ \A k \in Kind : Item("App", 0, k) \in Items
BY DEF Admin, LogoutReply, ResendFrom, Item, Items, MsgType, Kind

LEMMA NumberedType ==
  ASSUME NEW p \in Peer, outLog \in Logs, NEW batch \in Seq(Items)
  PROVE  Numbered(p, batch) \in Seq(Message)
<1> DEFINE msg(k) == [type |-> batch[k].type, seq |-> Len(outLog[p]) + k,
                      dup |-> FALSE, arg |-> batch[k].arg]
<1>1. Len(outLog[p]) \in Nat BY LenProperties DEF Logs
<1>2. Len(batch) \in Nat /\ DOMAIN batch = 1..Len(batch) BY LenProperties
<1>3. \A k \in 1..Len(batch) : batch[k] \in Items BY ElementOfSeq
<1>4. \A k \in 1..Len(batch) : msg(k) \in Message
  BY <1>1, <1>3 DEF Items, Message
<1> HIDE DEF msg
<1>5. [k \in 1..Len(batch) |-> msg(k)] \in Seq(Message) BY <1>2, <1>4, IsASeq
<1> QED BY <1>2, <1>5 DEF Numbered, msg

LEMMA RecordType ==
  ASSUME NEW p \in Peer, outLog \in Logs, NEW batch \in Seq(Items), Record(p, batch)
  PROVE  outLog' \in Logs
<1> DEFINE kinds == [k \in DOMAIN batch |-> batch[k].kind]
<1>2. Len(batch) \in Nat /\ DOMAIN batch = 1..Len(batch) BY LenProperties
<1>3. \A k \in 1..Len(batch) : batch[k] \in Items BY ElementOfSeq
<1>4. \A k \in 1..Len(batch) : batch[k].kind \in Kind BY <1>3 DEF Items
<1>7. kinds \in Seq(Kind) BY <1>2, <1>4, IsASeq
<1>5. outLog[p] \in Seq(Kind) BY DEF Logs
<1> HIDE DEF kinds
<1>6. outLog[p] \o kinds \in Seq(Kind) BY <1>7, <1>5, ConcatProperties
<1> QED BY <1>6 DEF Record, Logs, kinds

LEMMA WireType ==
  ASSUME NEW n \in Nets, NEW p \in Peer, NEW c, NEW msgs \in Seq(Message)
  PROVE  Wire(n, p, c, msgs) \in Nets
<1>1. n[Other(p)] \o msgs \in Seq(Message)
  BY OtherIsPeer, ConcatProperties DEF Nets
<1> QED BY <1>1, OtherIsPeer DEF Wire, Nets

LEMMA EmitType ==
  ASSUME NEW n \in Nets, NEW p \in Peer, NEW c, outLog \in Logs,
         NEW batch \in Seq(Items), Emit(p, c, n, batch)
  PROVE  outLog' \in Logs /\ net' \in Nets
BY NumberedType, RecordType, WireType DEF Emit

LEMMA DieType ==
  ASSUME TypeOK, NEW p \in Peer, NEW n \in Nets, Die(p, n)
  PROVE  /\ state' \in [Peer -> State]
         /\ conn' \in [Peer -> Nat]
         /\ closing' \in [Peer -> BOOLEAN]
         /\ miss' \in [Peer -> SUBSET Nat]
         /\ last' \in [Peer -> Nat]
         /\ queue' \in [Peer -> SUBSET Nat]
         /\ pending' \in [Peer -> SUBSET Message]
         /\ replay' \in [Peer -> SUBSET Message]
         /\ todo' \in [Peer -> Seq(Task)]
         /\ net' \in Nets
BY EmptySeq DEF Die, TypeOK, Nets, State

LEMMA StartGapType ==
  ASSUME TypeOK, NEW p \in Peer, NEW seq \in Nat, StartGap(p, seq)
  PROVE  /\ state' \in [Peer -> State]
         /\ inSeq' \in [Peer -> Nat \ {0}]
         /\ miss' \in [Peer -> SUBSET Nat]
         /\ last' \in [Peer -> Nat]
         /\ queue' \in [Peer -> SUBSET Nat]
         /\ pending' \in [Peer -> SUBSET Message]
<1>1. Missing(p, seq) \in SUBSET Nat BY DEF Missing, TypeOK
<1>2. seq + 1 \in Nat \ {0} OBVIOUS
<1> QED BY <1>1, <1>2 DEF StartGap, TypeOK, State

(* What the typed variables of a callback's continuation are.              *)
LEMMA TaskTypes ==
  /\ \A w \in {"open", "persist", "save", "drain", "replay"}, s \in Nat :
       <<Do(w, s)>> \in Seq(Task)
  /\ \A b, e \in Nat : Playback(b, e) \in Seq(Task)
  /\ \A g : WhenFilled(g) \in Seq(Task)
  /\ <<>> \in Seq(Task)
<1>1. \A w \in {"open", "persist", "save", "drain", "replay"}, s \in Nat :
        Do(w, s) \in Task
  BY DEF Do, Task
<1>2. \A w \in {"open", "persist", "save", "drain", "replay"}, s \in Nat :
        <<Do(w, s)>> \in Seq(Task)
  BY <1>1
<1>3. \A b, e \in Nat : Playback(b, e) \in Seq(Task)
  <2> TAKE b, e \in Nat
  <2> DEFINE task == [do |-> "play", seq |-> b, to |-> e]
  <2>1. task \in Task BY DEF Task
  <2>2. Playback(b, e) = IF b > e THEN <<>> ELSE <<task>> BY DEF Playback
  <2> HIDE DEF task
  <2>3. <<task>> \in Seq(Task) BY <2>1
  <2> QED BY <2>2, <2>3, EmptySeq
<1>4. \A g : WhenFilled(g) \in Seq(Task)
  <2> TAKE g
  <2>1. <<Do("drain", 0)>> \in Seq(Task) BY <1>2
  <2> QED BY <2>1 DEF WhenFilled
<1>5. <<>> \in Seq(Task) BY EmptySeq
<1> QED BY <1>2, <1>3, <1>4, <1>5

LEMMA PlaybackAllType ==
  ASSUME TypeOK, NEW p \in Peer, NEW m \in Message
  PROVE  PlaybackAll(p, m) \in Seq(Task)
BY TaskTypes, LenProperties DEF PlaybackAll, TypeOK, Message

LEMMA InSequenceType ==
  ASSUME TypeOK, NEW p \in Peer, NEW m \in Message, NEW n \in Nets,
         NEW rest \in Seq(Task), UNCHANGED envVars, replay' \in [Peer -> SUBSET Message],
         InSequence(p, m, n, rest)
  PROVE  TypeOK'
<1>1. /\ outLog \in Logs /\ net \in Nets /\ todo \in [Peer -> Seq(Task)]
      /\ m.seq \in Nat
  BY DEF TypeOK, Logs, Nets, Message
<1>2. \A first \in Seq(Task) : first \o <<Do("persist", m.seq)>> \o rest \in Seq(Task)
  BY <1>1, TaskTypes, ConcatProperties
<1>3. /\ <<>> \o <<Do("persist", m.seq)>> \o rest \in Seq(Task)
      /\ PlaybackAll(p, m) \o <<Do("persist", m.seq)>> \o rest \in Seq(Task)
  BY <1>2, TaskTypes, PlaybackAllType
<1>4. CASE m.type = "App" /\ InSequence(p, m, n, rest)
  <2>1. Append(delivered[p], m.seq) \in Seq(Nat) BY <1>1 DEF TypeOK
  <2>2. delivered' \in [Peer -> Seq(Nat)] BY <1>4, <2>1 DEF InSequence, TypeOK
  <2>3. todo' \in [Peer -> Seq(Task)] BY <1>1, <1>3, <1>4 DEF InSequence
  <2>4. /\ net' = n
        /\ UNCHANGED <<protocolVars, storeVars, gapVars>>
    BY <1>4 DEF InSequence
  <2> QED BY <2>2, <2>3, <2>4 DEF TypeOK, Nets, protocolVars, storeVars, gapVars, envVars
<1>5. CASE m.type = "Heartbeat" /\ InSequence(p, m, n, rest)
  <2>1. todo' \in [Peer -> Seq(Task)] BY <1>1, <1>3, <1>5 DEF InSequence
  <2>2. net' = n /\ UNCHANGED <<protocolVars, storeVars, gapVars, delivered>>
    BY <1>5 DEF InSequence
  <2> QED BY <2>1, <2>2 DEF TypeOK, Nets, protocolVars, storeVars, gapVars, envVars
<1>6. CASE m.type = "ResendRequest" /\ InSequence(p, m, n, rest)
  <2>1. todo' \in [Peer -> Seq(Task)] BY <1>1, <1>3, <1>6 DEF InSequence
  <2>2. net' = n /\ UNCHANGED <<protocolVars, storeVars, gapVars, delivered>>
    BY <1>6 DEF InSequence
  <2> QED BY <2>1, <2>2 DEF TypeOK, Nets, protocolVars, storeVars, gapVars, envVars
<1>7. CASE m.type = "Logout" /\ InSequence(p, m, n, rest)
  <2>1. <<LogoutReply>> \in Seq(Items) BY ItemTypes
  <2>2. Emit(p, conn[p], n, <<LogoutReply>>) BY <1>7 DEF InSequence
  <2>3. outLog' \in Logs /\ net' \in Nets BY <1>1, <2>1, <2>2, EmitType
  <2>4. todo' \in [Peer -> Seq(Task)] BY <1>1, <1>3, <1>7 DEF InSequence
  <2>5. /\ closing' = [closing EXCEPT ![p] = TRUE]
        /\ UNCHANGED <<state, conn, inSeq, inLast, gapVars, delivered>>
    BY <1>7 DEF InSequence
  <2> QED BY <2>3, <2>4, <2>5 DEF TypeOK, Nets, Logs, gapVars, envVars
<1> QED BY <1>4, <1>5, <1>6, <1>7 DEF InSequence

LEMMA RaiseType ==
  ASSUME TypeOK, NEW p \in Peer, NEW n \in Nets, Raise(p, n), UNCHANGED envVars
  PROVE  TypeOK'
<1>1. Die(p, n) /\ UNCHANGED <<storeVars, delivered>> BY DEF Raise
<1> QED BY <1>1, DieType DEF TypeOK, Nets, storeVars, envVars

LEMMA OutOfSequenceType ==
  ASSUME TypeOK, NEW p \in Peer, NEW m \in Message, NEW n \in Nets,
         NEW rest \in Seq(Task), UNCHANGED envVars, replay' \in [Peer -> SUBSET Message],
         OutOfSequence(p, m, n, rest)
  PROVE  TypeOK'
<1>1. /\ outLog \in Logs /\ net \in Nets /\ todo \in [Peer -> Seq(Task)]
      /\ m.seq \in Nat /\ inSeq[p] \in Nat
  BY DEF TypeOK, Logs, Nets, Message
<1>2. /\ <<ResendFrom(inSeq[p])>> \in Seq(Items)
      /\ <<ResendFrom(inSeq[p]), LogoutReply>> \in Seq(Items)
  BY <1>1, ItemTypes
<1>3. CASE m.type = "ResendRequest" /\ OutOfSequence(p, m, n, rest)
  <2>1. PlaybackAll(p, m) \o <<Do("open", m.seq)>> \o rest \in Seq(Task)
    BY <1>1, TaskTypes, PlaybackAllType, ConcatProperties
  <2>2. todo' \in [Peer -> Seq(Task)] BY <1>1, <1>3, <2>1 DEF OutOfSequence
  <2>3. /\ net' = n
        /\ UNCHANGED <<protocolVars, storeVars, gapVars, delivered>>
    BY <1>3 DEF OutOfSequence
  <2> QED BY <2>2, <2>3 DEF TypeOK, Nets, protocolVars, storeVars, gapVars, envVars
<1>4. CASE m.type \in {"App", "Heartbeat"} /\ OutOfSequence(p, m, n, rest)
  <2>1. /\ StartGap(p, m.seq)
        /\ Emit(p, conn[p], n, <<ResendFrom(inSeq[p])>>)
        /\ todo' = [todo EXCEPT ![p] = rest]
        /\ UNCHANGED <<conn, closing, inLast, delivered>>
    BY <1>4 DEF OutOfSequence
  <2>2. outLog' \in Logs /\ net' \in Nets BY <1>1, <1>2, <2>1, EmitType
  <2>3. todo' \in [Peer -> Seq(Task)] BY <1>1, <2>1
  <2> QED BY <1>1, <2>1, <2>2, <2>3, StartGapType DEF TypeOK, Nets, Logs, envVars
<1>5. CASE m.type = "Logout" /\ OutOfSequence(p, m, n, rest)
  <2>1. /\ StartGap(p, m.seq)
        /\ Emit(p, conn[p], n, <<ResendFrom(inSeq[p]), LogoutReply>>)
        /\ closing' = [closing EXCEPT ![p] = TRUE]
        /\ todo' = [todo EXCEPT ![p] = rest]
        /\ UNCHANGED <<conn, inLast, delivered>>
    BY <1>5 DEF OutOfSequence
  <2>2. outLog' \in Logs /\ net' \in Nets BY <1>1, <1>2, <2>1, EmitType
  <2>3. todo' \in [Peer -> Seq(Task)] BY <1>1, <2>1
  <2> QED BY <1>1, <2>1, <2>2, <2>3, StartGapType DEF TypeOK, Nets, Logs, envVars
<1> QED BY <1>3, <1>4, <1>5 DEF OutOfSequence

LEMMA OnMsgNormalType ==
  ASSUME TypeOK, NEW p \in Peer, NEW m \in Message, NEW n \in Nets,
         NEW left \in SUBSET Message, NEW rest \in Seq(Task), UNCHANGED envVars,
         OnMsgNormal(p, m, n, left, rest)
  PROVE  TypeOK'
<1>1. CASE Raise(p, n) BY <1>1, RaiseType
<1>2. CASE replay' = [replay EXCEPT ![p] = left]
  <2>1. replay' \in [Peer -> SUBSET Message] BY <1>2 DEF TypeOK
  <2> QED BY <1>1, <2>1, InSequenceType, OutOfSequenceType DEF OnMsgNormal
<1> QED BY <1>1, <1>2 DEF OnMsgNormal

LEMMA OnGapFillType ==
  ASSUME TypeOK, NEW p \in Peer, NEW m \in Message, NEW n \in Nets,
         NEW left \in SUBSET Message, NEW rest \in Seq(Task), UNCHANGED envVars,
         OnGapFill(p, m, n, left, rest)
  PROVE  TypeOK'
<1>1. m.arg \in Nat /\ m.seq \in Nat BY DEF Message
<1>2. Advance(inSeq[p], m.arg) \in Nat \ {0} BY <1>1 DEF Advance, TypeOK
<1>3. inSeq' \in [Peer -> Nat \ {0}] /\ UNCHANGED <<inLast, outLog, delivered>>
  BY <1>2 DEF OnGapFill, TypeOK
<1>4. CASE Die(p, n)
  BY <1>3, <1>4, DieType DEF TypeOK, Nets, envVars
<1>5. ASSUME NEW gaps \in SUBSET Nat,
             miss' = [miss EXCEPT ![p] = gaps],
             todo' = [todo EXCEPT ![p] = WhenFilled(gaps) \o rest],
             net' = n, replay' = [replay EXCEPT ![p] = left],
             UNCHANGED <<protocolVars, last, queue, pending>>
      PROVE  TypeOK'
  <2>1. WhenFilled(gaps) \o rest \in Seq(Task) BY TaskTypes, ConcatProperties
  <2>2. todo' \in [Peer -> Seq(Task)] BY <1>5, <2>1 DEF TypeOK
  <2>3. replay' \in [Peer -> SUBSET Message] /\ miss' \in [Peer -> SUBSET Nat]
    BY <1>5 DEF TypeOK
  <2> QED BY <1>3, <1>5, <2>2, <2>3 DEF TypeOK, Nets, protocolVars, envVars
<1>6. miss[p] \ (m.seq..(m.arg - 1)) \in SUBSET Nat BY DEF TypeOK
<1> QED BY <1>4, <1>5, <1>6 DEF OnGapFill

LEMMA OnMsgGapType ==
  ASSUME TypeOK, NEW p \in Peer, NEW m \in Message, NEW n \in Nets,
         NEW left \in SUBSET Message, NEW rest \in Seq(Task), UNCHANGED envVars,
         OnMsgGap(p, m, n, left, rest)
  PROVE  TypeOK'
<1>1. m.seq \in Nat /\ miss[p] \in SUBSET Nat BY DEF TypeOK, Message
<1>2. CASE OnGapFill(p, m, n, left, rest) BY <1>2, OnGapFillType
<1>3. CASE Urgent(m) /\ ~m.dup /\ OnMsgGap(p, m, n, left, rest) /\ m.type # "GapFill"
  <2> DEFINE own == IF m.seq = inSeq[p] THEN <<Do("persist", m.seq)>> ELSE <<>>
             tasks == PlaybackAll(p, m) \o own \o WhenFilled(miss[p]) \o rest
  <2>1. own \in Seq(Task) BY <1>1, TaskTypes
  <2> HIDE DEF own
  <2>2. tasks \in Seq(Task) BY <2>1, TaskTypes, PlaybackAllType, ConcatProperties
  <2>3. /\ todo' = [todo EXCEPT ![p] = tasks]
        /\ net' = n
        /\ replay' = [replay EXCEPT ![p] = left]
        /\ UNCHANGED <<protocolVars, storeVars, gapVars, delivered>>
    BY <1>3 DEF OnMsgGap, own
  <2> HIDE DEF tasks
  <2>4. todo' \in [Peer -> Seq(Task)] /\ replay' \in [Peer -> SUBSET Message]
    BY <2>2, <2>3 DEF TypeOK
  <2> QED BY <2>3, <2>4 DEF TypeOK, Nets, protocolVars, storeVars, gapVars, envVars
<1>4. CASE m.type # "GapFill" /\ ~Urgent(m) /\ ~m.dup /\ OnMsgGap(p, m, n, left, rest)
  <2>1. WhenFilled(miss[p]) \o rest \in Seq(Task) BY TaskTypes, ConcatProperties
  <2>2. /\ pending' = [pending EXCEPT ![p] = @ \cup {m}]
        /\ todo' = [todo EXCEPT ![p] = WhenFilled(miss[p]) \o rest]
        /\ net' = n
        /\ replay' = [replay EXCEPT ![p] = left]
        /\ UNCHANGED <<protocolVars, storeVars, miss, last, queue, delivered>>
    BY <1>4 DEF OnMsgGap
  <2>3. /\ todo' \in [Peer -> Seq(Task)] /\ replay' \in [Peer -> SUBSET Message]
        /\ pending' \in [Peer -> SUBSET Message]
    BY <2>1, <2>2 DEF TypeOK
  <2> QED BY <2>2, <2>3 DEF TypeOK, Nets, protocolVars, storeVars, envVars
<1>5. CASE m.type # "GapFill" /\ m.dup /\ OnMsgGap(p, m, n, left, rest)
  <2> DEFINE gaps == miss[p] \ {m.seq}
             recovered == m.seq \in miss[p] \/ m.seq > last[p]
             more == IF recovered THEN queue[p] \cup {m.seq} ELSE queue[p]
  <2>1. WhenFilled(gaps) \o rest \in Seq(Task) BY TaskTypes, ConcatProperties
  <2>2. /\ miss' = [miss EXCEPT ![p] = gaps]
        /\ queue' = [queue EXCEPT ![p] = more]
        /\ todo' = [todo EXCEPT ![p] = WhenFilled(gaps) \o rest]
        /\ net' = n
        /\ replay' = [replay EXCEPT ![p] = left]
        /\ UNCHANGED <<protocolVars, storeVars, last, pending, delivered>>
    BY <1>5 DEF OnMsgGap
  <2>3. gaps \in SUBSET Nat /\ more \in SUBSET Nat BY <1>1 DEF TypeOK
  <2> HIDE DEF gaps, more
  <2>4. /\ todo' \in [Peer -> Seq(Task)] /\ replay' \in [Peer -> SUBSET Message]
        /\ miss' \in [Peer -> SUBSET Nat] /\ queue' \in [Peer -> SUBSET Nat]
    BY <2>1, <2>2, <2>3 DEF TypeOK
  <2> QED BY <2>2, <2>4 DEF TypeOK, Nets, protocolVars, storeVars, envVars
<1> QED BY <1>2, <1>3, <1>4, <1>5 DEF OnMsgGap, Urgent

LEMMA OnMsgAwaitingLogoutType ==
  ASSUME TypeOK, NEW p \in Peer, NEW m \in Message, NEW n \in Nets, UNCHANGED envVars,
         OnMsgAwaitingLogout(p, m, n)
  PROVE  TypeOK'
BY DEF OnMsgAwaitingLogout, TypeOK, Nets, storeVars, gapVars, callVars, envVars

LEMMA PersistAndAdvanceType ==
  ASSUME TypeOK, NEW p \in Peer, NEW seq \in Nat, PersistAndAdvance(p, seq)
  PROVE  inLast' \in [Peer -> Nat] /\ inSeq' \in [Peer -> Nat \ {0}]
<1>1. seq + 1 \in Nat \ {0} OBVIOUS
<1> QED BY <1>1 DEF PersistAndAdvance, TypeOK

(* The two ways to log on, for either side: conn and what envVars holds    *)
(* change in the caller.                                                   *)
LEMMA LogonType ==
  ASSUME TypeOK, NEW p \in Peer, NEW c, NEW n \in Nets, NEW reply \in Seq(Items),
         NEW seq \in Nat,
         conn' \in [Peer -> Nat], want' \in BOOLEAN, hello' \subseteq [conn: Nat, seq: Nat],
         used' \in [Budget -> Nat],
         LogonInSequence(p, c, n, reply, seq) \/ LogonOutOfSequence(p, c, n, reply, seq)
  PROVE  TypeOK'
<1>1. outLog \in Logs /\ inSeq[p] \in Nat BY DEF TypeOK, Logs
<1>2. CASE LogonInSequence(p, c, n, reply, seq)
  <2>1. /\ PersistAndAdvance(p, seq)
        /\ state' = [state EXCEPT ![p] = "normal"]
        /\ Emit(p, c, n, reply \o <<Admin("Heartbeat")>>)
        /\ UNCHANGED <<gapVars, closing, callVars, delivered>>
    BY <1>2 DEF LogonInSequence
  <2>2. <<Admin("Heartbeat")>> \in Seq(Items)
    <3>1. Admin("Heartbeat") \in Items BY ItemTypes DEF MsgType
    <3> QED BY <3>1
  <2>3. reply \o <<Admin("Heartbeat")>> \in Seq(Items) BY <2>2, ConcatProperties
  <2>4. outLog' \in Logs /\ net' \in Nets BY <1>1, <2>1, <2>3, EmitType
  <2>5. state' \in [Peer -> State] BY <2>1 DEF TypeOK, State
  <2> QED BY <2>1, <2>4, <2>5, PersistAndAdvanceType
        DEF TypeOK, Nets, Logs, gapVars, callVars
<1>3. CASE LogonOutOfSequence(p, c, n, reply, seq)
  <2>1. /\ StartGap(p, seq)
        /\ Emit(p, c, n, reply \o <<ResendFrom(inSeq[p])>>)
        /\ UNCHANGED <<inLast, closing, callVars, delivered>>
    BY <1>3 DEF LogonOutOfSequence
  <2>2. <<ResendFrom(inSeq[p])>> \in Seq(Items) BY <1>1, ItemTypes
  <2>3. reply \o <<ResendFrom(inSeq[p])>> \in Seq(Items) BY <2>2, ConcatProperties
  <2>4. outLog' \in Logs /\ net' \in Nets BY <1>1, <2>1, <2>3, EmitType
  <2> QED BY <2>1, <2>4, StartGapType DEF TypeOK, Nets, Logs, callVars
<1> QED BY <1>2, <1>3

LEMMA OnMsgAwaitingLogonType ==
  ASSUME TypeOK, NEW p \in Peer, NEW m \in Message, NEW n \in Nets, UNCHANGED envVars,
         OnMsgAwaitingLogon(p, m, n)
  PROVE  TypeOK'
<1>1. CASE Raise(p, n) BY <1>1, RaiseType
<1>2. CASE /\ UNCHANGED conn
           /\ \/ LogonInSequence(p, conn[p], n, <<>>, m.seq)
              \/ LogonOutOfSequence(p, conn[p], n, <<>>, m.seq)
  <2>1. /\ conn' \in [Peer -> Nat] /\ want' \in BOOLEAN
        /\ hello' \subseteq [conn: Nat, seq: Nat] /\ used' \in [Budget -> Nat]
        /\ <<>> \in Seq(Items) /\ m.seq \in Nat
    BY <1>2, EmptySeq DEF TypeOK, envVars, Message
  <2> QED BY <1>2, <2>1, LogonType
<1> QED BY <1>1, <1>2 DEF OnMsgAwaitingLogon

(* The message at hand is one, and what is left of net is typed.           *)
LEMMA ReceiveType ==
  ASSUME TypeOK, NEW p \in Peer, net[p] # <<>>
  PROVE  Head(net[p]) \in Message /\ [net EXCEPT ![p] = Tail(@)] \in Nets
<1>1. net[p] \in Seq(Message) BY DEF TypeOK
<1>2. Head(net[p]) \in Message /\ Tail(net[p]) \in Seq(Message)
  BY <1>1, HeadTailProperties
<1> QED BY <1>2 DEF TypeOK, Nets

LEMMA DeliverType ==
  ASSUME TypeOK, NEW p \in Peer, Deliver(p)
  PROVE  TypeOK'
<1> DEFINE m == Head(net[p])
           n == [net EXCEPT ![p] = Tail(@)]
<1>1. net[p] # <<>> /\ UNCHANGED envVars BY DEF Deliver
<1>2. m \in Message /\ n \in Nets BY <1>1, ReceiveType
<1>3. {} \in SUBSET Message /\ <<>> \in Seq(Task) BY EmptySeq
<1>4. \/ OnMsgAwaitingLogon(p, m, n)
      \/ OnMsgNormal(p, m, n, {}, <<>>)
      \/ OnMsgGap(p, m, n, {}, <<>>)
      \/ OnMsgAwaitingLogout(p, m, n)
  BY DEF Deliver
<1> HIDE DEF m, n
<1> QED BY <1>1, <1>2, <1>3, <1>4, OnMsgAwaitingLogonType, OnMsgNormalType,
           OnMsgGapType, OnMsgAwaitingLogoutType

(* The task at hand is one, and Then leaves typed tasks.                   *)
LEMMA TaskAtHand ==
  ASSUME TypeOK, NEW p \in Peer, todo[p] # <<>>
  PROVE  /\ Head(todo[p]) \in Task /\ Tail(todo[p]) \in Seq(Task)
         /\ Head(todo[p]).seq \in Nat /\ Head(todo[p]).to \in Nat
<1>1. todo[p] \in Seq(Task) BY DEF TypeOK
<1>2. Head(todo[p]) \in Task /\ Tail(todo[p]) \in Seq(Task)
  BY <1>1, HeadTailProperties
<1> QED BY <1>2 DEF Task

LEMMA ThenType ==
  ASSUME TypeOK, NEW p \in Peer, todo[p] # <<>>, NEW first \in Seq(Task), Then(p, first)
  PROVE  todo' \in [Peer -> Seq(Task)]
<1>1. Tail(todo[p]) \in Seq(Task) BY TaskAtHand
<1>2. first \o Tail(todo[p]) \in Seq(Task) BY <1>1, ConcatProperties
<1> QED BY <1>2 DEF Then, TypeOK

LEMMA PlayType ==
  ASSUME TypeOK, NEW p \in Peer, Play(p)
  PROVE  TypeOK'
<1> DEFINE i == Head(todo[p]).seq
           end == Head(todo[p]).to
<1>1. todo[p] # <<>> BY DEF Play, Doing
<1>2. i \in Nat /\ end \in Nat BY <1>1, TaskAtHand
<1>3. PICK j \in LastOfItem(p, i, end) :
        /\ net' = Wire(net, p, conn[p], <<ResentItem(p, i, j)>>)
        /\ Then(p, Playback(j + 1, end))
  BY DEF Play
<1>4. UNCHANGED <<protocolVars, storeVars, gapVars, replay, delivered, envVars>>
  BY DEF Play
<1> HIDE DEF i, end
<1>5. j \in Nat BY <1>2 DEF LastOfItem
<1>6. ResentItem(p, i, j) \in Message BY <1>2, <1>5 DEF ResentItem, Message, MsgType
<1>7. <<ResentItem(p, i, j)>> \in Seq(Message) BY <1>6
<1>8. net' \in Nets
  <2>1. net \in Nets BY DEF TypeOK, Nets
  <2> QED BY <2>1, <1>3, <1>7, WireType
<1>9. todo' \in [Peer -> Seq(Task)]
  <2>1. j + 1 \in Nat BY <1>5
  <2>2. Playback(j + 1, end) \in Seq(Task) BY <2>1, <1>2, TaskTypes
  <2> QED BY <2>2, <1>1, <1>3, ThenType
<1> QED BY <1>4, <1>8, <1>9 DEF TypeOK, Nets, protocolVars, storeVars, gapVars, envVars

LEMMA OpenType ==
  ASSUME TypeOK, NEW p \in Peer, Open(p)
  PROVE  TypeOK'
<1>1. todo[p] # <<>> BY DEF Open, Doing
<1>2. /\ StartGap(p, Head(todo[p]).seq)
      /\ Emit(p, conn[p], net, <<ResendFrom(inSeq[p])>>)
      /\ Then(p, <<>>)
      /\ UNCHANGED <<conn, closing, inLast, replay, delivered, envVars>>
  BY DEF Open
<1>3. outLog \in Logs /\ net \in Nets /\ inSeq[p] \in Nat BY DEF TypeOK, Logs, Nets
<1>4. <<ResendFrom(inSeq[p])>> \in Seq(Items) BY <1>3, ItemTypes
<1>5. outLog' \in Logs /\ net' \in Nets BY <1>2, <1>3, <1>4, EmitType
<1>6. todo' \in [Peer -> Seq(Task)] BY <1>1, <1>2, TaskTypes, ThenType
<1>7. Head(todo[p]).seq \in Nat BY <1>1, TaskAtHand
<1> QED BY <1>2, <1>5, <1>6, <1>7, StartGapType DEF TypeOK, Nets, Logs, envVars

LEMMA PersistType ==
  ASSUME TypeOK, NEW p \in Peer, Persist(p)
  PROVE  TypeOK'
<1>1. todo[p] # <<>> /\ UNCHANGED envVars BY DEF Persist, Doing
<1>2. CASE Raise(p, net)
  <2>1. net \in Nets BY DEF TypeOK, Nets
  <2> QED BY <1>1, <1>2, <2>1, RaiseType
<1>3. CASE /\ PersistAndAdvance(p, Head(todo[p]).seq)
           /\ Then(p, <<>>)
           /\ UNCHANGED <<protocolVars, outLog, gapVars, replay, net, delivered>>
  <2>1. todo' \in [Peer -> Seq(Task)] BY <1>1, <1>3, TaskTypes, ThenType
  <2>2. inLast' \in [Peer -> Nat] /\ inSeq' \in [Peer -> Nat \ {0}]
    BY <1>1, <1>3, TaskAtHand, PersistAndAdvanceType
  <2> QED BY <1>1, <1>3, <2>1, <2>2 DEF TypeOK, protocolVars, gapVars, envVars
<1> QED BY <1>2, <1>3 DEF Persist

LEMMA DrainType ==
  ASSUME TypeOK, NEW p \in Peer, Drain(p)
  PROVE  TypeOK'
<1>1. PICK s \in queue[p] :
        /\ delivered' = [delivered EXCEPT ![p] = Append(@, s)]
        /\ queue' = [queue EXCEPT ![p] = @ \ {s}]
        /\ todo' = [todo EXCEPT ![p] =
                      (IF s < inSeq[p] THEN <<>> ELSE <<Do("save", s)>>) \o @]
  BY DEF Drain
<1>2. UNCHANGED <<protocolVars, storeVars, miss, last, pending, replay, net, envVars>>
  BY DEF Drain
<1>3. s \in Nat BY DEF TypeOK
<1>4. todo' \in [Peer -> Seq(Task)]
  <2> DEFINE saving == IF s < inSeq[p] THEN <<>> ELSE <<Do("save", s)>>
  <2>1. saving \in Seq(Task) BY <1>3, TaskTypes
  <2>2. todo' = [todo EXCEPT ![p] = saving \o todo[p]] BY <1>1
  <2> HIDE DEF saving
  <2>3. saving \o todo[p] \in Seq(Task) BY <2>1, ConcatProperties DEF TypeOK
  <2> QED BY <2>2, <2>3 DEF TypeOK
<1>5. delivered' \in [Peer -> Seq(Nat)]
  <2>1. Append(delivered[p], s) \in Seq(Nat) BY <1>3 DEF TypeOK
  <2> QED BY <1>1, <2>1 DEF TypeOK
<1>6. queue' \in [Peer -> SUBSET Nat] BY <1>1 DEF TypeOK
<1> QED BY <1>2, <1>4, <1>5, <1>6 DEF TypeOK, protocolVars, storeVars, envVars

LEMMA DrainedType ==
  ASSUME TypeOK, NEW p \in Peer, Drained(p)
  PROVE  TypeOK'
<1> DEFINE first == IF Unseen(p) = {} THEN <<>> ELSE <<Do("replay", 0)>>
<1>1. /\ todo[p] # <<>>
      /\ state' = [state EXCEPT ![p] = "normal"]
      /\ replay' = [replay EXCEPT ![p] = Unseen(p)]
      /\ Then(p, first)
      /\ pending' = [pending EXCEPT ![p] = {}]
      /\ miss' = [miss EXCEPT ![p] = {}]
      /\ last' = [last EXCEPT ![p] = 0]
      /\ UNCHANGED <<conn, closing, storeVars, queue, net, delivered, envVars>>
  BY DEF Drained, Doing
<1>2. first \in Seq(Task) BY TaskTypes
<1> HIDE DEF first
<1>3. todo' \in [Peer -> Seq(Task)] BY <1>1, <1>2, ThenType
<1>4. Unseen(p) \in SUBSET Message BY DEF Unseen, TypeOK
<1>5. replay' \in [Peer -> SUBSET Message] BY <1>1, <1>4 DEF TypeOK
<1>6. state' \in [Peer -> State] BY <1>1 DEF TypeOK, State
<1> QED BY <1>1, <1>3, <1>5, <1>6 DEF TypeOK, storeVars, envVars

LEMMA ReplayType ==
  ASSUME TypeOK, NEW p \in Peer, Replay(p)
  PROVE  TypeOK'
<1>1. todo[p] # <<>> /\ UNCHANGED envVars BY DEF Replay, Doing
<1> DEFINE again(m) == IF replay[p] \ {m} = {} THEN <<>> ELSE <<Do("replay", 0)>>
<1>2. PICK m \in replay[p] :
        \/ OnMsgNormal(p, m, net, replay[p] \ {m}, again(m) \o Tail(todo[p]))
        \/ OnMsgGap(p, m, net, replay[p] \ {m}, again(m) \o Tail(todo[p]))
  BY DEF Replay
<1>3. again(m) \in Seq(Task) BY TaskTypes
<1> HIDE DEF again
<1>4. again(m) \o Tail(todo[p]) \in Seq(Task)
  BY <1>1, <1>3, TaskAtHand, ConcatProperties
<1>5. m \in Message /\ replay[p] \ {m} \in SUBSET Message /\ net \in Nets
  BY DEF TypeOK, Nets
<1> QED BY <1>1, <1>2, <1>4, <1>5, OnMsgNormalType, OnMsgGapType

(* Every way to lose or give up a connection, with what it costs.          *)
LEMMA DownType ==
  ASSUME TypeOK, NEW p \in Peer, Die(p, net), UNCHANGED <<storeVars, delivered>>,
         want' \in BOOLEAN, hello' = hello, used' \in [Budget -> Nat]
  PROVE  TypeOK'
<1>1. net \in Nets BY DEF TypeOK, Nets
<1> QED BY <1>1, DieType DEF TypeOK, Nets, storeVars

LEMMA SpendType ==
  ASSUME TypeOK, NEW k \in Budget, Spend(k)
  PROVE  used' \in [Budget -> Nat]
<1>1. used[k] + 1 \in Nat BY DEF TypeOK
<1> QED BY <1>1 DEF Spend, TypeOK

LEMMA SystemType ==
  ASSUME TypeOK, NEW p \in Peer, System(p)
  PROVE  TypeOK'
<1>1. CASE Deliver(p) BY <1>1, DeliverType
<1>2. CASE Continue(p)
  BY <1>2, PlayType, OpenType, PersistType, DrainType, DrainedType, ReplayType
     DEF Continue
<1>3. CASE ConnectionLost(p) \/ CleanUp(p)
  <2>1. Die(p, net) /\ UNCHANGED <<storeVars, delivered, envVars>>
    BY <1>3 DEF ConnectionLost, CleanUp
  <2> QED BY <2>1, DownType DEF envVars, TypeOK
<1> QED BY <1>1, <1>2, <1>3 DEF System

LEMMA ConnectType ==
  ASSUME TypeOK, Connect
  PROVE  TypeOK'
<1> DEFINE c == used["connect"] + 1
           greeting == [conn |-> c, seq |-> Len(outLog[Initiator]) + 1]
<1>1. /\ Spend("connect")
      /\ state' = [state EXCEPT ![Initiator] = "awaitingLogon"]
      /\ conn' = [conn EXCEPT ![Initiator] = c]
      /\ Record(Initiator, <<Admin("Logon")>>)
      /\ hello' = hello \cup {greeting}
      /\ UNCHANGED <<closing, inSeq, inLast, gapVars, callVars, net, delivered, want>>
  BY DEF Connect
<1>2. c \in Nat BY DEF TypeOK, Budget
<1>3. greeting \in [conn: Nat, seq: Nat]
  <2>1. Len(outLog[Initiator]) \in Nat BY LenProperties DEF TypeOK, Peer
  <2> QED BY <1>2, <2>1
<1>4. used' \in [Budget -> Nat] BY <1>1, SpendType DEF Budget
<1>5. outLog' \in Logs
  <2>1. Admin("Logon") \in Items BY ItemTypes DEF MsgType
  <2>2. <<Admin("Logon")>> \in Seq(Items) BY <2>1
  <2>3. outLog \in Logs /\ Initiator \in Peer BY DEF TypeOK, Logs, Peer
  <2> QED BY <1>1, <2>2, <2>3, RecordType
<1> HIDE DEF c, greeting
<1>6. hello' \subseteq [conn: Nat, seq: Nat] BY <1>1, <1>3 DEF TypeOK
<1>7. state' \in [Peer -> State] /\ conn' \in [Peer -> Nat]
  BY <1>1, <1>2 DEF TypeOK, State
<1> QED BY <1>1, <1>4, <1>5, <1>6, <1>7 DEF TypeOK, Logs, gapVars, callVars

LEMMA ReadLogonType ==
  ASSUME TypeOK, ReadLogon
  PROVE  TypeOK'
<1>1. PICK h \in hello :
        /\ IF h.conn = conn[Initiator] THEN UNCHANGED used ELSE Spend("late")
        /\ hello' = hello \ {h}
        /\ AcceptLogon(h) \/ RefuseLogon(h)
  BY DEF ReadLogon
<1>2. h.conn \in Nat /\ h.seq \in Nat BY DEF TypeOK
<1>3. used' \in [Budget -> Nat] BY <1>1, SpendType DEF TypeOK, Budget
<1>4. hello' \subseteq [conn: Nat, seq: Nat] BY <1>1 DEF TypeOK
<1>5. <<Admin("Logon")>> \in Seq(Items)
  <2>1. Admin("Logon") \in Items BY ItemTypes DEF MsgType
  <2> QED BY <2>1
<1>6. Acceptor \in Peer BY DEF Peer
<1>7. net \in Nets BY DEF TypeOK, Nets
<1>8. CASE AcceptLogon(h)
  <2>1. conn' \in [Peer -> Nat] /\ want' \in BOOLEAN
    BY <1>2, <1>8 DEF AcceptLogon, TypeOK
  <2>2. \/ LogonInSequence(Acceptor, h.conn, net, <<Admin("Logon")>>, h.seq)
        \/ LogonOutOfSequence(Acceptor, h.conn, net, <<Admin("Logon")>>, h.seq)
    BY <1>8 DEF AcceptLogon
  <2> QED BY <1>2, <1>3, <1>4, <1>5, <1>6, <1>7, <2>1, <2>2, LogonType
<1>9. CASE RefuseLogon(h)
  <2>1. UNCHANGED <<protocolVars, inSeq, inLast, gapVars, callVars, net, delivered, want>>
    BY <1>9 DEF RefuseLogon
  <2>2. outLog' \in Logs
    <3>1. outLog \in Logs BY DEF TypeOK, Logs
    <3>2. UNCHANGED outLog \/ Record(Acceptor, <<Admin("Logon")>>)
      BY <1>9 DEF RefuseLogon
    <3> QED BY <1>5, <1>6, <3>1, <3>2, RecordType
  <2> QED BY <1>3, <1>4, <2>1, <2>2 DEF TypeOK, Logs, protocolVars, gapVars, callVars
<1> QED BY <1>1, <1>8, <1>9

LEMMA AppSendType ==
  ASSUME TypeOK, NEW p \in Peer, NEW kind \in Kind, NEW sent \in BOOLEAN,
         AppSend(p, kind, sent), used' \in [Budget -> Nat]
  PROVE  TypeOK'
<1> DEFINE batch == <<Item("App", 0, kind)>>
<1>1. batch \in Seq(Items)
  <2>1. Item("App", 0, kind) \in Items BY ItemTypes
  <2> QED BY <2>1
<1>2. /\ Emit(p, conn[p], net, batch) \/ (Record(p, batch) /\ UNCHANGED net)
      /\ UNCHANGED <<protocolVars, inSeq, inLast, gapVars, callVars, delivered, want, hello>>
  BY DEF AppSend
<1> HIDE DEF batch
<1>3. outLog \in Logs /\ net \in Nets BY DEF TypeOK, Logs, Nets
<1>4. outLog' \in Logs /\ net' \in Nets BY <1>1, <1>2, <1>3, EmitType, RecordType
<1> QED BY <1>2, <1>4 DEF TypeOK, Logs, Nets, protocolVars, gapVars, callVars

LEMMA RestartType ==
  ASSUME TypeOK, NEW p \in Peer, NEW n \in Nets, Restart(p, n), used' \in [Budget -> Nat],
         inSeq' \in [Peer -> Nat \ {0}], inLast' \in [Peer -> Nat], outLog' \in Logs
  PROVE  TypeOK'
<1>1. Die(p, n) /\ UNCHANGED delivered BY DEF Restart
<1>2. want' \in BOOLEAN /\ hello' \subseteq [conn: Nat, seq: Nat] BY DEF Restart, TypeOK
<1> QED BY <1>1, <1>2, DieType DEF TypeOK, Nets, Logs

LEMMA DieAnsweringType ==
  ASSUME TypeOK, NEW h \in hello, DieAnswering(h)
  PROVE  outLog' \in Logs /\ \E n \in Nets : Restart(Acceptor, n)
<1> DEFINE reply == <<Admin("Logon")>>
           n == Wire(net, Acceptor, h.conn, Numbered(Acceptor, reply))
<1>1. reply \in Seq(Items)
  <2>1. Admin("Logon") \in Items BY ItemTypes DEF MsgType
  <2> QED BY <2>1
<1>2. Record(Acceptor, reply) /\ Restart(Acceptor, n) BY DEF DieAnswering
<1>3. outLog \in Logs /\ net \in Nets /\ Acceptor \in Peer BY DEF TypeOK, Logs, Nets, Peer
<1> HIDE DEF reply
<1>4. n \in Nets BY <1>1, <1>3, NumberedType, WireType
<1>5. outLog' \in Logs BY <1>1, <1>2, <1>3, RecordType
<1> QED BY <1>2, <1>4, <1>5

LEMMA EnvironmentType ==
  ASSUME TypeOK, NEW p \in Peer, Environment(p)
  PROVE  TypeOK'
<1>0. outLog \in Logs /\ net \in Nets BY DEF TypeOK, Logs, Nets
<1>1. CASE Send(p) \/ Skip(p) \/ Hole(p)
  <2>1. PICK kind \in Kind, sent \in BOOLEAN : AppSend(p, kind, sent)
    BY <1>1 DEF Send, Skip, Hole, Kind
  <2>2. used' \in [Budget -> Nat] BY <1>1, SpendType DEF Send, Skip, Hole, Budget
  <2> QED BY <2>1, <2>2, AppSendType
<1>2. CASE SendHeartbeat(p)
  <2>1. /\ Spend("beat")
        /\ Emit(p, conn[p], net, <<Admin("Heartbeat")>>)
        /\ UNCHANGED <<protocolVars, inSeq, inLast, gapVars, callVars, delivered, want, hello>>
    BY <1>2 DEF SendHeartbeat
  <2>2. Admin("Heartbeat") \in Items BY ItemTypes DEF MsgType
  <2>3. <<Admin("Heartbeat")>> \in Seq(Items) BY <2>2
  <2>4. outLog' \in Logs /\ net' \in Nets BY <1>0, <2>1, <2>3, EmitType
  <2>5. used' \in [Budget -> Nat] BY <2>1, SpendType DEF Budget
  <2> QED BY <2>1, <2>4, <2>5 DEF TypeOK, Logs, Nets, protocolVars, gapVars, callVars
<1>3. ASSUME NEW again \in BOOLEAN, Logoff(p, again) PROVE TypeOK'
  <2>1. used' \in [Budget -> Nat] BY <1>3, SpendType DEF Logoff, Budget
  <2>2. want' \in BOOLEAN /\ hello' = hello BY <1>3 DEF Logoff, TypeOK
  <2>3. CASE Die(p, net) /\ UNCHANGED <<storeVars, delivered>>
    BY <2>1, <2>2, <2>3, DownType
  <2>4. CASE /\ Emit(p, conn[p], net, <<Admin("Logout")>>)
             /\ state' = [state EXCEPT ![p] = "awaitingLogout"]
             /\ UNCHANGED <<conn, closing, inSeq, inLast, gapVars, callVars, delivered>>
    <3>1. Admin("Logout") \in Items BY ItemTypes DEF MsgType
    <3>2. <<Admin("Logout")>> \in Seq(Items) BY <3>1
    <3>3. outLog' \in Logs /\ net' \in Nets BY <1>0, <2>4, <3>2, EmitType
    <3>4. state' \in [Peer -> State] BY <2>4 DEF TypeOK, State
    <3> QED BY <2>1, <2>2, <2>4, <3>3, <3>4 DEF TypeOK, Logs, Nets, gapVars, callVars
  <2> QED BY <1>3, <2>3, <2>4 DEF Logoff
<1>4. CASE Drop(p)
  <2>1. /\ Spend("drop") /\ Die(p, net)
        /\ UNCHANGED <<storeVars, delivered, want, hello>>
    BY <1>4 DEF Drop
  <2>2. used' \in [Budget -> Nat] /\ want' \in BOOLEAN
    BY <2>1, SpendType DEF Budget, TypeOK
  <2> QED BY <2>1, <2>2, DownType
<1>5. CASE Crash(p)
  <2>1. /\ Spend("crash") /\ inSeq' = [inSeq EXCEPT ![p] = NextKey(inLast[p])]
        /\ UNCHANGED inLast
    BY <1>5 DEF Crash
  <2>2. used' \in [Budget -> Nat] BY <2>1, SpendType DEF Budget
  <2>3. NextKey(inLast[p]) \in Nat \ {0} BY DEF NextKey, TypeOK
  <2>4. inSeq' \in [Peer -> Nat \ {0}] /\ inLast' \in [Peer -> Nat]
    BY <2>1, <2>3 DEF TypeOK
  <2>5. outLog' \in Logs /\ \E n \in Nets : Restart(p, n)
    <3>1. CASE p = Acceptor /\ \E h \in hello : DieAnswering(h)
      BY <3>1, DieAnsweringType
    <3>2. CASE /\ Restart(p, net)
               /\ \E k \in LastSaved(outLog[p]) : outLog' = [outLog EXCEPT ![p] = SubSeq(@, 1, k)]
      <4>1. PICK k \in LastSaved(outLog[p]) : outLog' = [outLog EXCEPT ![p] = SubSeq(@, 1, k)]
        BY <3>2
      <4>2. outLog[p] \in Seq(Kind) /\ Len(outLog[p]) \in Nat
        BY <1>0, LenProperties DEF Logs
      <4>3. k \in 0..Len(outLog[p]) BY DEF LastSaved
      <4>4. SubSeq(outLog[p], 1, k) \in Seq(Kind)
        BY <4>2, <4>3, SubSeqProperties
      <4> QED BY <1>0, <3>2, <4>1, <4>4 DEF Logs
    <3> QED BY <1>5, <3>1, <3>2 DEF Crash
  <2> QED BY <2>2, <2>4, <2>5, RestartType
<1>6. CASE NextDay(p)
  <2>1. /\ Spend("newday") /\ Restart(p, net)
        /\ inSeq' = [inSeq EXCEPT ![p] = NextKey(0)]
        /\ inLast' = [inLast EXCEPT ![p] = 0]
        /\ outLog' = [outLog EXCEPT ![p] = <<>>]
    BY <1>6 DEF NextDay
  <2>2. used' \in [Budget -> Nat] BY <2>1, SpendType DEF Budget
  <2>3. /\ inSeq' \in [Peer -> Nat \ {0}] /\ inLast' \in [Peer -> Nat]
        /\ outLog' \in Logs
    BY <1>0, <2>1, EmptySeq DEF TypeOK, NextKey, Logs
  <2> QED BY <1>0, <2>1, <2>2, <2>3, RestartType
<1> QED BY <1>1, <1>2, <1>3, <1>4, <1>5, <1>6 DEF Environment

(* TypeOK holds for any two peers, whoever sends and whatever the limits.  *)
THEOREM TypeCorrect == Spec => []TypeOK
<1>1. Init => TypeOK
  BY EmptySeq DEF Init, TypeOK, State, NextKey, Budget
<1>2. TypeOK /\ [Next]_vars => TypeOK'
  <2> SUFFICES ASSUME TypeOK, [Next]_vars PROVE TypeOK'
    OBVIOUS
  <2>1. CASE \E p \in Peer : System(p) \/ Environment(p)
    BY <2>1, SystemType, EnvironmentType
  <2>2. CASE ReadLogon BY <2>2, ReadLogonType
  <2>3. CASE \E h \in hello : HelloLost(h)
    BY <2>3 DEF HelloLost, TypeOK, protocolVars, storeVars, gapVars, callVars
  <2>4. CASE Connect BY <2>4, ConnectType
  <2>5. CASE AllowLogon
    BY <2>5 DEF AllowLogon, TypeOK, protocolVars, storeVars, gapVars, callVars
  <2>6. CASE UNCHANGED vars
    BY <2>6 DEF vars, TypeOK, protocolVars, storeVars, gapVars, callVars, envVars
  <2> QED BY <2>1, <2>2, <2>3, <2>4, <2>5, <2>6 DEF Next
<1> QED BY <1>1, <1>2, PTL DEF Spec

-----------------------------------------------------------------------------
(***************************************************************************)
(* NeverAhead and WasSent are invariant as long as no process restarts.    *)
(* They are not inductive by themselves: a number reaches in_msg_seq_num,  *)
(* and the application, from a message that was on its way, put aside,     *)
(* replayed or recovered, from a task of the running callback, or from a   *)
(* Logon not read yet.  Bounded says that none of these names a number the *)
(* sender has not compiled, and that what shows an application message     *)
(* shows one the sender stored.                                            *)
(***************************************************************************)

(* The numbers under which q stored an application message.                *)
Stored(log, q) == {i \in 1..Len(log[q]) : log[q][i] = "app"}

(* What q, whose logs are log, can have sent: it resends nothing but       *)
(* stored application messages and gap fills.                              *)
Fitting(log, q) ==
  {m \in Message : /\ m.seq <= Len(log[q])
                   /\ m.type = "GapFill" => m.arg <= Len(log[q]) + 1
                   /\ m.type = "ResendRequest" => m.arg # 0
                   /\ m.type = "App" => m.seq \in Stored(log, q)
                   /\ m.dup => m.type \in {"App", "GapFill"}}

(* What is compiled to be written.                                         *)
Written == {b \in Items : /\ b.type = "App" <=> b.kind = "app"
                          /\ b.type = "ResendRequest" => b.arg # 0}

(* What the callback of p can still have to do.                            *)
Owed(log, p) ==
  {t \in Task : IF t.do = "play" THEN t.seq # 0 /\ t.to <= Len(log[p])
                                 ELSE t.seq <= Len(log[Other(p)])}

FitIn(log, f)    == \A p \in Peer : f[p] <= Len(log[Other(p)]) + 1
FitNets(log, n)  == \A p \in Peer : n[p] \in Seq(Fitting(log, Other(p)))
FitSets(log, f)  == \A p \in Peer : f[p] \subseteq Fitting(log, Other(p))
FitQueue(log, f) == \A p \in Peer : f[p] \subseteq Stored(log, Other(p))
FitTodo(log, f)  == \A p \in Peer : f[p] \in Seq(Owed(log, p))
FitHello(log, h) == \A g \in h : g.seq <= Len(log[Initiator])
FitGiven(log, d) == \A p \in Peer : d[p] \in Seq(Stored(log, Other(p)))

Bounded ==
  /\ FitIn(outLog, inSeq)
  /\ FitNets(outLog, net)
  /\ FitSets(outLog, pending)
  /\ FitSets(outLog, replay)
  /\ FitQueue(outLog, queue)
  /\ FitTodo(outLog, todo)
  /\ FitHello(outLog, hello)
  /\ FitGiven(outLog, delivered)

NoRestart == used["crash"] = 0 /\ used["newday"] = 0

IInv == NoRestart => Bounded

-----------------------------------------------------------------------------
LEMMA OtherOfOther ==
  /\ \A p \in Peer : Other(p) \in Peer /\ Other(p) # p /\ Other(Other(p)) = p
  /\ Other(Acceptor) = Initiator /\ Acceptor \in Peer /\ Initiator \in Peer
BY PeersDiffer DEF Other, Peer

LEMMA SeqMonotone ==
  ASSUME NEW S, NEW T, S \subseteq T
  PROVE  Seq(S) \subseteq Seq(T)
<1> SUFFICES ASSUME NEW s \in Seq(S) PROVE s \in Seq(T)
  OBVIOUS
<1>1. Len(s) \in Nat /\ DOMAIN s = 1..Len(s) /\ s = [i \in 1..Len(s) |-> s[i]]
  BY LenProperties
<1>2. \A i \in 1..Len(s) : s[i] \in T BY <1>1, ElementOfSeq
<1>3. [i \in 1..Len(s) |-> s[i]] \in Seq(T) BY <1>1, <1>2, IsASeq
<1> QED BY <1>1, <1>3

(* Logs only grow, without a restart: what fitted the old ones fits the    *)
(* new ones.                                                               *)
Longer(log, log2) == /\ log \in Logs /\ log2 \in Logs
                     /\ \A q \in Peer :
                          /\ Len(log[q]) <= Len(log2[q])
                          /\ \A i \in 1..Len(log[q]) : log2[q][i] = log[q][i]

LEMMA LogLength ==
  ASSUME NEW log \in Logs, NEW q \in Peer
  PROVE  Len(log[q]) \in Nat
BY LenProperties DEF Logs

LEMMA LongerStored ==
  ASSUME NEW log, NEW log2, Longer(log, log2), NEW q \in Peer
  PROVE  Stored(log, q) \subseteq Stored(log2, q)
<1>1. Len(log[q]) \in Nat /\ Len(log2[q]) \in Nat /\ Len(log[q]) <= Len(log2[q])
  BY LogLength DEF Longer
<1>2. \A i \in 1..Len(log[q]) : log2[q][i] = log[q][i] BY DEF Longer
<1> QED BY <1>1, <1>2 DEF Stored

LEMMA LongerFitting ==
  ASSUME NEW log, NEW log2, Longer(log, log2), NEW q \in Peer
  PROVE  Fitting(log, q) \subseteq Fitting(log2, q)
<1>1. Len(log[q]) \in Nat /\ Len(log2[q]) \in Nat /\ Len(log[q]) <= Len(log2[q])
  BY LogLength DEF Longer
<1>2. Stored(log, q) \subseteq Stored(log2, q) BY LongerStored
<1> QED BY <1>1, <1>2 DEF Fitting, Message

LEMMA LongerOwed ==
  ASSUME NEW log, NEW log2, Longer(log, log2), NEW p \in Peer
  PROVE  Owed(log, p) \subseteq Owed(log2, p)
<1>1. \A q \in Peer : Len(log[q]) \in Nat /\ Len(log2[q]) \in Nat /\ Len(log[q]) <= Len(log2[q])
  BY LogLength DEF Longer
<1>2. Other(p) \in Peer BY OtherOfOther
<1> QED BY <1>1, <1>2 DEF Owed, Task

LEMMA LongerKeeps ==
  ASSUME TypeOK, Bounded, NEW log, Longer(outLog, log)
  PROVE  /\ FitIn(log, inSeq) /\ FitNets(log, net) /\ FitSets(log, pending)
         /\ FitSets(log, replay) /\ FitQueue(log, queue) /\ FitTodo(log, todo)
         /\ FitHello(log, hello) /\ FitGiven(log, delivered)
<1>1. \A q \in Peer : /\ Len(outLog[q]) \in Nat /\ Len(log[q]) \in Nat
                      /\ Len(outLog[q]) <= Len(log[q])
  BY LogLength DEF Longer
<1>2. \A p \in Peer : Other(p) \in Peer BY OtherOfOther
<1>3. FitIn(log, inSeq)
  <2> SUFFICES ASSUME NEW p \in Peer PROVE inSeq[p] <= Len(log[Other(p)]) + 1
    BY DEF FitIn
  <2>1. inSeq[p] <= Len(outLog[Other(p)]) + 1 /\ inSeq[p] \in Nat
    BY DEF Bounded, FitIn, TypeOK
  <2> QED BY <1>1, <1>2, <2>1
<1>4. FitNets(log, net)
  <2> SUFFICES ASSUME NEW p \in Peer PROVE net[p] \in Seq(Fitting(log, Other(p)))
    BY DEF FitNets
  <2>1. Fitting(outLog, Other(p)) \subseteq Fitting(log, Other(p)) BY <1>2, LongerFitting
  <2>2. net[p] \in Seq(Fitting(outLog, Other(p))) BY DEF Bounded, FitNets
  <2> QED BY <2>1, <2>2, SeqMonotone
<1>5. FitSets(log, pending) /\ FitSets(log, replay)
  BY <1>2, LongerFitting DEF FitSets, Bounded
<1>6. FitQueue(log, queue) BY <1>2, LongerStored DEF FitQueue, Bounded
<1>7. FitTodo(log, todo)
  <2> SUFFICES ASSUME NEW p \in Peer PROVE todo[p] \in Seq(Owed(log, p))
    BY DEF FitTodo
  <2>1. Owed(outLog, p) \subseteq Owed(log, p) BY LongerOwed
  <2>2. todo[p] \in Seq(Owed(outLog, p)) BY DEF Bounded, FitTodo
  <2> QED BY <2>1, <2>2, SeqMonotone
<1>8. FitHello(log, hello)
  <2> SUFFICES ASSUME NEW g \in hello PROVE g.seq <= Len(log[Initiator])
    BY DEF FitHello
  <2>1. g.seq <= Len(outLog[Initiator]) BY DEF Bounded, FitHello
  <2>2. g.seq \in Nat BY DEF TypeOK
  <2> QED BY <1>1, <2>1, <2>2, OtherOfOther
<1>9. FitGiven(log, delivered)
  <2> SUFFICES ASSUME NEW p \in Peer PROVE delivered[p] \in Seq(Stored(log, Other(p)))
    BY DEF FitGiven
  <2>1. Stored(outLog, Other(p)) \subseteq Stored(log, Other(p)) BY <1>2, LongerStored
  <2>2. delivered[p] \in Seq(Stored(outLog, Other(p))) BY DEF Bounded, FitGiven
  <2> QED BY <2>1, <2>2, SeqMonotone
<1> QED BY <1>3, <1>4, <1>5, <1>6, <1>7, <1>8, <1>9

LEMMA SameLonger == ASSUME TypeOK PROVE Longer(outLog, outLog)
<1>1. outLog \in Logs BY DEF TypeOK, Logs
<1> QED BY <1>1, LogLength DEF Longer

-----------------------------------------------------------------------------
(* Compiling a batch gives its messages the numbers the log now has.       *)
LEMMA RecordLength ==
  ASSUME TypeOK, NEW p \in Peer, NEW batch \in Seq(Items), Record(p, batch)
  PROVE  /\ Longer(outLog, outLog')
         /\ Len(outLog'[p]) = Len(outLog[p]) + Len(batch)
<1> DEFINE kinds == [k \in DOMAIN batch |-> batch[k].kind]
<1>1. outLog \in Logs BY DEF TypeOK, Logs
<1>2. outLog' \in Logs BY <1>1, RecordType
<1>3. Len(batch) \in Nat /\ DOMAIN batch = 1..Len(batch) BY LenProperties
<1>0. \A k \in 1..Len(batch) : batch[k] \in Items BY ElementOfSeq
<1>4. \A k \in 1..Len(batch) : batch[k].kind \in Kind BY <1>0 DEF Items
<1>5. kinds \in Seq(Kind) /\ Len(kinds) = Len(batch) BY <1>3, <1>4, IsASeq, LenProperties
<1>6. outLog' = [outLog EXCEPT ![p] = outLog[p] \o kinds] BY DEF Record
<1> HIDE DEF kinds
<1>7. Len(outLog[p] \o kinds) = Len(outLog[p]) + Len(batch)
  <2>1. outLog[p] \in Seq(Kind) BY <1>1 DEF Logs
  <2>2. Len(outLog[p] \o kinds) = Len(outLog[p]) + Len(kinds)
    BY <1>5, <2>1, ConcatProperties
  <2> QED BY <1>5, <2>2
<1>8. outLog'[p] = outLog[p] \o kinds /\ \A q \in Peer \ {p} : outLog'[q] = outLog[q]
  BY <1>1, <1>6 DEF Logs
<1>9. \A q \in Peer : Len(outLog[q]) \in Nat BY <1>1, LogLength
<1>10. \A i \in 1..Len(outLog[p]) : (outLog[p] \o kinds)[i] = outLog[p][i]
  <2>1. outLog[p] \in Seq(Kind) BY <1>1 DEF Logs
  <2> QED BY <1>5, <2>1, ConcatProperties
<1> QED BY <1>1, <1>2, <1>3, <1>7, <1>8, <1>9, <1>10 DEF Longer

(* Its application messages, and no others, are stored under their numbers. *)
LEMMA RecordStores ==
  ASSUME TypeOK, NEW p \in Peer, NEW batch \in Seq(Written), Record(p, batch)
  PROVE  \A k \in 1..Len(batch) :
           batch[k].type = "App" <=> Len(outLog[p]) + k \in Stored(outLog', p)
<1> DEFINE kinds == [k \in DOMAIN batch |-> batch[k].kind]
<1>1. Len(batch) \in Nat /\ DOMAIN batch = 1..Len(batch) BY LenProperties
<1>2. \A k \in 1..Len(batch) : batch[k] \in Written BY ElementOfSeq
<1>3. \A k \in 1..Len(batch) : batch[k].kind \in Kind BY <1>2 DEF Written, Items
<1>4. kinds \in Seq(Kind) /\ Len(kinds) = Len(batch) BY <1>1, <1>3, IsASeq, LenProperties
<1>5. \A k \in 1..Len(batch) : batch[k].type = "App" <=> kinds[k] = "app"
  BY <1>1, <1>2 DEF Written
<1>6. outLog \in [Peer -> Seq(Kind)] /\ outLog[p] \in Seq(Kind) BY DEF TypeOK
<1>7. outLog' = [outLog EXCEPT ![p] = outLog[p] \o kinds] BY DEF Record
<1> HIDE DEF kinds
<1>8. outLog'[p] = outLog[p] \o kinds BY <1>6, <1>7
<1>9. /\ Len(outLog[p]) \in Nat
      /\ Len(outLog'[p]) = Len(outLog[p]) + Len(batch)
      /\ \A k \in 1..Len(batch) : outLog'[p][Len(outLog[p]) + k] = kinds[k]
  <2>1. Len(outLog[p]) \in Nat BY <1>6, LenProperties
  <2>2. /\ Len(outLog[p] \o kinds) = Len(outLog[p]) + Len(kinds)
        /\ \A i \in 1..Len(outLog[p]) + Len(kinds) :
             (outLog[p] \o kinds)[i] = IF i <= Len(outLog[p]) THEN outLog[p][i]
                                        ELSE kinds[i - Len(outLog[p])]
    BY <1>4, <1>6, ConcatProperties
  <2>3. \A k \in 1..Len(batch) :
          /\ Len(outLog[p]) + k \in 1..Len(outLog[p]) + Len(kinds)
          /\ ~(Len(outLog[p]) + k <= Len(outLog[p]))
          /\ Len(outLog[p]) + k - Len(outLog[p]) = k
    BY <1>1, <1>4, <2>1
  <2> QED BY <1>4, <1>8, <2>1, <2>2, <2>3
<1> QED BY <1>1, <1>5, <1>9 DEF Stored

LEMMA WrittenAreItems == Seq(Written) \subseteq Seq(Items)
BY SeqMonotone DEF Written

LEMMA NumberedFits ==
  ASSUME TypeOK, NEW p \in Peer, NEW batch \in Seq(Written), Record(p, batch)
  PROVE  Numbered(p, batch) \in Seq(Fitting(outLog', p))
<1> DEFINE msg(k) == [type |-> batch[k].type, seq |-> Len(outLog[p]) + k,
                      dup |-> FALSE, arg |-> batch[k].arg]
<1>1. Len(outLog[p]) \in Nat BY LenProperties DEF TypeOK
<1>2. Len(batch) \in Nat /\ DOMAIN batch = 1..Len(batch) BY LenProperties
<1>3. \A k \in 1..Len(batch) : batch[k] \in Written BY ElementOfSeq
<1>4. Len(outLog'[p]) = Len(outLog[p]) + Len(batch) BY WrittenAreItems, RecordLength
<1>5. \A k \in 1..Len(batch) :
        /\ msg(k) \in Message /\ msg(k).type # "GapFill"
        /\ msg(k).type = "ResendRequest" => msg(k).arg # 0
        /\ ~msg(k).dup
  BY <1>1, <1>3 DEF Written, Items, Message
<1>6. \A k \in 1..Len(batch) :
        /\ msg(k).seq <= Len(outLog'[p])
        /\ msg(k).type = "App" => msg(k).seq \in Stored(outLog', p)
  BY <1>1, <1>2, <1>4, RecordStores
<1> HIDE DEF msg
<1>7. \A k \in 1..Len(batch) : msg(k) \in Fitting(outLog', p)
  BY <1>5, <1>6 DEF Fitting
<1>8. [k \in 1..Len(batch) |-> msg(k)] \in Seq(Fitting(outLog', p))
  BY <1>2, <1>7, IsASeq
<1> QED BY <1>2, <1>8 DEF Numbered, msg

LEMMA WireFits ==
  ASSUME NEW log, NEW n \in Nets, FitNets(log, n), NEW p \in Peer, NEW c,
         NEW msgs \in Seq(Fitting(log, p))
  PROVE  FitNets(log, Wire(n, p, c, msgs))
<1>1. Other(p) \in Peer /\ Other(Other(p)) = p BY OtherOfOther
<1>2. n[Other(p)] \in Seq(Fitting(log, p)) BY <1>1 DEF FitNets
<1>3. n[Other(p)] \o msgs \in Seq(Fitting(log, p)) BY <1>2, ConcatProperties
<1>4. \A q \in Peer : Wire(n, p, c, msgs)[q] = n[q]
                      \/ (q = Other(p) /\ Wire(n, p, c, msgs)[q] = n[q] \o msgs)
  BY <1>1 DEF Wire, Nets
<1> QED BY <1>1, <1>3, <1>4 DEF FitNets

(* What p received and what is left of it.                                 *)
Receivable(p, m, n) ==
  /\ m \in Fitting(outLog, Other(p))
  /\ n \in Nets /\ FitNets(outLog, n)

LEMMA NetsLonger ==
  ASSUME NEW log, NEW log2, Longer(log, log2), NEW n, FitNets(log, n)
  PROVE  FitNets(log2, n)
<1> SUFFICES ASSUME NEW p \in Peer PROVE n[p] \in Seq(Fitting(log2, Other(p)))
  BY DEF FitNets
<1>1. Fitting(log, Other(p)) \subseteq Fitting(log2, Other(p))
  BY OtherOfOther, LongerFitting
<1>2. n[p] \in Seq(Fitting(log, Other(p))) BY DEF FitNets
<1> QED BY <1>1, <1>2, SeqMonotone

LEMMA EmitFits ==
  ASSUME TypeOK, NEW p \in Peer, NEW c, NEW n \in Nets, FitNets(outLog, n),
         NEW batch \in Seq(Written), Emit(p, c, n, batch)
  PROVE  FitNets(outLog', net') /\ Longer(outLog, outLog')
<1>1. Record(p, batch) /\ net' = Wire(n, p, c, Numbered(p, batch)) BY DEF Emit
<1>2. Longer(outLog, outLog') BY <1>1, WrittenAreItems, RecordLength
<1>3. FitNets(outLog', n) BY <1>2, NetsLonger
<1>4. Numbered(p, batch) \in Seq(Fitting(outLog', p)) BY <1>1, NumberedFits
<1> QED BY <1>1, <1>2, <1>3, <1>4, WireFits

-----------------------------------------------------------------------------
(* Changing one peer's part of a bounded variable.                         *)
LEMMA PointFits ==
  ASSUME NEW log, NEW p \in Peer, NEW f, f = [q \in Peer |-> f[q]], NEW x
  PROVE  /\ FitTodo(log, f) /\ x \in Seq(Owed(log, p)) => FitTodo(log, [f EXCEPT ![p] = x])
         /\ FitNets(log, f) /\ x \in Seq(Fitting(log, Other(p)))
              => FitNets(log, [f EXCEPT ![p] = x])
         /\ FitSets(log, f) /\ x \subseteq Fitting(log, Other(p))
              => FitSets(log, [f EXCEPT ![p] = x])
         /\ FitQueue(log, f) /\ x \subseteq Stored(log, Other(p))
              => FitQueue(log, [f EXCEPT ![p] = x])
         /\ FitGiven(log, f) /\ x \in Seq(Stored(log, Other(p)))
              => FitGiven(log, [f EXCEPT ![p] = x])
         /\ FitIn(log, f) /\ x <= Len(log[Other(p)]) + 1 => FitIn(log, [f EXCEPT ![p] = x])
BY DEF FitTodo, FitNets, FitSets, FitQueue, FitGiven, FitIn

LEMMA Functions ==
  ASSUME TypeOK
  PROVE  /\ todo = [q \in Peer |-> todo[q]]
         /\ net = [q \in Peer |-> net[q]]
         /\ pending = [q \in Peer |-> pending[q]]
         /\ replay = [q \in Peer |-> replay[q]]
         /\ queue = [q \in Peer |-> queue[q]]
         /\ inSeq = [q \in Peer |-> inSeq[q]]
         /\ delivered = [q \in Peer |-> delivered[q]]
BY DEF TypeOK

(* What is written besides application messages.                           *)
LEMMA WrittenTypes ==
  /\ \A t \in MsgType \ {"GapFill", "App", "ResendRequest"} : Admin(t) \in Written
  /\ LogoutReply \in Written
  /\ \A b \in Nat \ {0} : ResendFrom(b) \in Written
  /\ Item("App", 0, "app") \in Written
BY DEF Admin, LogoutReply, ResendFrom, Item, Written, Items, Kind, MsgType

LEMMA TaskFits ==
  ASSUME NEW log \in Logs, NEW p \in Peer
  PROVE  /\ \A w \in {"open", "persist", "save", "drain", "replay"}, s \in Nat :
              s <= Len(log[Other(p)]) => <<Do(w, s)>> \in Seq(Owed(log, p))
         /\ \A b, e \in Nat : b # 0 /\ e <= Len(log[p]) => Playback(b, e) \in Seq(Owed(log, p))
         /\ \A g : WhenFilled(g) \in Seq(Owed(log, p))
         /\ <<Do("replay", 0)>> \in Seq(Owed(log, p))
         /\ <<>> \in Seq(Owed(log, p))
<1>1. \A w \in {"open", "persist", "save", "drain", "replay"}, s \in Nat :
        s <= Len(log[Other(p)]) => Do(w, s) \in Owed(log, p)
  BY DEF Do, Task, Owed
<1>2. \A w \in {"open", "persist", "save", "drain", "replay"}, s \in Nat :
        s <= Len(log[Other(p)]) => <<Do(w, s)>> \in Seq(Owed(log, p))
  BY <1>1
<1>3. \A b, e \in Nat : b # 0 /\ e <= Len(log[p]) => Playback(b, e) \in Seq(Owed(log, p))
  <2> SUFFICES ASSUME NEW b \in Nat, NEW e \in Nat, b # 0, e <= Len(log[p])
               PROVE  Playback(b, e) \in Seq(Owed(log, p))
    OBVIOUS
  <2> DEFINE task == [do |-> "play", seq |-> b, to |-> e]
  <2>1. task \in Owed(log, p) BY DEF Task, Owed
  <2>2. Playback(b, e) = IF b > e THEN <<>> ELSE <<task>> BY DEF Playback
  <2> HIDE DEF task
  <2>3. <<task>> \in Seq(Owed(log, p)) BY <2>1
  <2> QED BY <2>2, <2>3, EmptySeq
<1>4. 0 <= Len(log[Other(p)]) BY LogLength, OtherOfOther
<1>5. /\ <<Do("drain", 0)>> \in Seq(Owed(log, p))
      /\ <<Do("replay", 0)>> \in Seq(Owed(log, p))
  BY <1>2, <1>4
<1>6. \A g : WhenFilled(g) \in Seq(Owed(log, p))
  <2> TAKE g
  <2> QED BY <1>5, EmptySeq DEF WhenFilled
<1> QED BY <1>2, <1>3, <1>5, <1>6, EmptySeq

LEMMA PlaybackAllFits ==
  ASSUME TypeOK, NEW p \in Peer, NEW m \in Message, m.arg # 0
  PROVE  PlaybackAll(p, m) \in Seq(Owed(outLog, p))
<1>1. outLog \in Logs /\ m.arg \in Nat /\ m.arg # 0 BY DEF TypeOK, Logs, Message
<1>2. Len(outLog[p]) \in Nat BY <1>1, LogLength
<1>3. Len(outLog[p]) <= Len(outLog[p]) BY <1>2
<1>4. \A b, e \in Nat :
        b # 0 /\ e <= Len(outLog[p]) => Playback(b, e) \in Seq(Owed(outLog, p))
  BY <1>1, TaskFits
<1> DEFINE begin == m.arg
           end == Len(outLog[p])
<1>5. begin \in Nat /\ begin # 0 /\ end \in Nat /\ end <= Len(outLog[p]) BY <1>1, <1>2, <1>3
<1> HIDE DEF begin, end
<1>6. Playback(begin, end) \in Seq(Owed(outLog, p)) BY <1>4, <1>5
<1> QED BY <1>6 DEF PlaybackAll, begin, end

LEMMA DieFits ==
  ASSUME TypeOK, Bounded, NEW p \in Peer, NEW n \in Nets, FitNets(outLog, n), Die(p, n),
         outLog' = outLog, hello' = hello, delivered' = delivered, FitIn(outLog, inSeq')
  PROVE  Bounded'
<1>1. n = [q \in Peer |-> n[q]] BY DEF Nets
<1>2. <<>> \in Seq(Fitting(outLog, Other(p))) /\ <<>> \in Seq(Owed(outLog, p))
  BY EmptySeq
<1>3. /\ queue' = [queue EXCEPT ![p] = {}] /\ pending' = [pending EXCEPT ![p] = {}]
      /\ replay' = [replay EXCEPT ![p] = {}] /\ todo' = [todo EXCEPT ![p] = <<>>]
      /\ net' = [n EXCEPT ![p] = <<>>]
  BY DEF Die
<1>4. FitNets(outLog, net') BY <1>1, <1>2, <1>3, PointFits
<1>5. FitTodo(outLog, todo') BY <1>2, <1>3, PointFits, Functions DEF Bounded
<1>6. FitSets(outLog, pending') /\ FitSets(outLog, replay')
  BY <1>3, PointFits, Functions DEF Bounded
<1>7. FitQueue(outLog, queue') BY <1>3, PointFits, Functions DEF Bounded
<1> QED BY <1>4, <1>5, <1>6, <1>7 DEF Bounded

LEMMA StartGapFits ==
  ASSUME TypeOK, Bounded, Longer(outLog, outLog'), NEW p \in Peer, NEW seq \in Nat,
         seq <= Len(outLog[Other(p)]), StartGap(p, seq)
  PROVE  /\ FitIn(outLog', inSeq')
         /\ FitQueue(outLog', queue')
         /\ FitSets(outLog', pending')
<1>1. /\ Len(outLog[Other(p)]) \in Nat /\ Len(outLog'[Other(p)]) \in Nat
      /\ Len(outLog[Other(p)]) <= Len(outLog'[Other(p)])
  BY LogLength, OtherOfOther DEF Longer
<1>2. seq + 1 <= Len(outLog'[Other(p)]) + 1 BY <1>1
<1>3. /\ queue' = [queue EXCEPT ![p] = {}] /\ pending' = [pending EXCEPT ![p] = {}]
      /\ inSeq' = [inSeq EXCEPT ![p] = seq + 1]
  BY DEF StartGap
<1>4. /\ FitIn(outLog', inSeq) /\ FitSets(outLog', pending) /\ FitQueue(outLog', queue)
  BY LongerKeeps
<1>5. FitIn(outLog', inSeq') BY <1>2, <1>3, <1>4, PointFits, Functions
<1>6. FitQueue(outLog', queue') BY <1>3, <1>4, PointFits, Functions
<1>7. FitSets(outLog', pending') BY <1>3, <1>4, PointFits, Functions
<1> QED BY <1>5, <1>6, <1>7

LEMMA PersistAndAdvanceFits ==
  ASSUME TypeOK, Bounded, Longer(outLog, outLog'), NEW p \in Peer, NEW seq \in Nat,
         seq <= Len(outLog[Other(p)]), PersistAndAdvance(p, seq)
  PROVE  FitIn(outLog', inSeq')
<1>1. /\ Len(outLog[Other(p)]) \in Nat /\ Len(outLog'[Other(p)]) \in Nat
      /\ Len(outLog[Other(p)]) <= Len(outLog'[Other(p)])
  BY LogLength, OtherOfOther DEF Longer
<1>2. seq + 1 <= Len(outLog'[Other(p)]) + 1 BY <1>1
<1>3. inSeq' = [inSeq EXCEPT ![p] = seq + 1] BY DEF PersistAndAdvance
<1>4. FitIn(outLog', inSeq) BY LongerKeeps
<1> QED BY <1>2, <1>3, <1>4, PointFits, Functions

LEMMA FittingNumbers ==
  ASSUME TypeOK, NEW q \in Peer, NEW m \in Fitting(outLog, q)
  PROVE  /\ m \in Message /\ m.seq \in Nat /\ m.arg \in Nat
         /\ m.seq <= Len(outLog[q])
         /\ m.type = "GapFill" => m.arg <= Len(outLog[q]) + 1
         /\ m.type = "ResendRequest" => m.arg # 0
         /\ m.type = "App" => m.seq \in Stored(outLog, q)
         /\ m.dup => m.type \in {"App", "GapFill"}
BY DEF Fitting, Message

-----------------------------------------------------------------------------
(* The handlers of a message that fits, with the rest of a callback.       *)
LEMMA InSequenceFits ==
  ASSUME TypeOK, Bounded, NEW p \in Peer, NEW m \in Fitting(outLog, Other(p)),
         NEW n \in Nets, FitNets(outLog, n), NEW rest \in Seq(Owed(outLog, p)),
         hello' = hello, FitSets(outLog, replay'),
         InSequence(p, m, n, rest)
  PROVE  Bounded'
<1>0. Other(p) \in Peer /\ outLog \in Logs BY OtherOfOther DEF TypeOK, Logs
<1>1. m \in Message /\ m.seq \in Nat /\ m.seq <= Len(outLog[Other(p)])
  BY <1>0, FittingNumbers
<1>2. <<Do("persist", m.seq)>> \in Seq(Owed(outLog, p)) BY <1>0, <1>1, TaskFits
<1>3. \A first \in Seq(Owed(outLog, p)) :
        first \o <<Do("persist", m.seq)>> \o rest \in Seq(Owed(outLog, p))
  BY <1>2, ConcatProperties
<1>4. /\ m.type = "ResendRequest" => PlaybackAll(p, m) \in Seq(Owed(outLog, p))
      /\ <<>> \in Seq(Owed(outLog, p))
  BY <1>0, <1>1, FittingNumbers, PlaybackAllFits, EmptySeq
<1>5. PICK first \in Seq(Owed(outLog, p)) :
        todo' = [todo EXCEPT ![p] = first \o <<Do("persist", m.seq)>> \o rest]
  BY <1>4 DEF InSequence
<1>6. FitTodo(outLog, todo')
  BY <1>3, <1>5, PointFits, Functions DEF Bounded
<1>7. CASE /\ net' = n /\ UNCHANGED <<protocolVars, storeVars, gapVars>>
           /\ \/ UNCHANGED delivered
              \/ m.type = "App" /\ delivered' = [delivered EXCEPT ![p] = Append(@, m.seq)]
  <2>1. CASE m.type = "App" /\ delivered' = [delivered EXCEPT ![p] = Append(@, m.seq)]
    <3>1. m.seq \in Stored(outLog, Other(p)) BY <1>0, <2>1, FittingNumbers
    <3>2. delivered[p] \in Seq(Stored(outLog, Other(p))) BY DEF Bounded, FitGiven
    <3>3. Append(delivered[p], m.seq) \in Seq(Stored(outLog, Other(p)))
      BY <3>1, <3>2, AppendProperties
    <3>4. FitGiven(outLog, delivered') BY <2>1, <3>3, PointFits, Functions DEF Bounded
    <3> QED BY <1>6, <1>7, <3>4 DEF Bounded, storeVars, gapVars
  <2>2. CASE UNCHANGED delivered
    BY <1>6, <1>7, <2>2 DEF Bounded, storeVars, gapVars
  <2> QED BY <1>7, <2>1, <2>2
<1>8. CASE /\ Emit(p, conn[p], n, <<LogoutReply>>)
           /\ UNCHANGED <<inSeq, gapVars, delivered>>
  <2>1. <<LogoutReply>> \in Seq(Written) BY WrittenTypes
  <2>2. FitNets(outLog', net') /\ Longer(outLog, outLog') BY <1>8, <2>1, EmitFits
  <2>3. FitTodo(outLog', todo') /\ FitSets(outLog', replay')
    <3>1. \A q \in Peer : Seq(Owed(outLog, q)) \subseteq Seq(Owed(outLog', q))
      BY <2>2, LongerOwed, SeqMonotone
    <3>2. \A q \in Peer : Fitting(outLog, q) \subseteq Fitting(outLog', q)
      BY <2>2, LongerFitting
    <3> QED BY <1>6, <3>1, <3>2, OtherOfOther DEF FitTodo, FitSets
  <2>4. /\ FitIn(outLog', inSeq) /\ FitSets(outLog', pending)
        /\ FitQueue(outLog', queue) /\ FitHello(outLog', hello)
        /\ FitGiven(outLog', delivered)
    BY <2>2, LongerKeeps
  <2> QED BY <1>8, <2>2, <2>3, <2>4 DEF Bounded, gapVars
<1> QED BY <1>7, <1>8 DEF InSequence

LEMMA OutOfSequenceFits ==
  ASSUME TypeOK, Bounded, NEW p \in Peer, NEW m \in Fitting(outLog, Other(p)),
         NEW n \in Nets, FitNets(outLog, n), NEW rest \in Seq(Owed(outLog, p)),
         hello' = hello, FitSets(outLog, replay'),
         OutOfSequence(p, m, n, rest)
  PROVE  Bounded'
<1>0. Other(p) \in Peer /\ outLog \in Logs /\ inSeq[p] \in Nat \ {0}
  BY OtherOfOther DEF TypeOK, Logs
<1>1. m \in Message /\ m.seq \in Nat /\ m.seq <= Len(outLog[Other(p)])
  BY <1>0, FittingNumbers
<1>2. CASE /\ m.type = "ResendRequest"
           /\ todo' = [todo EXCEPT ![p] = PlaybackAll(p, m) \o <<Do("open", m.seq)>> \o rest]
           /\ net' = n
           /\ UNCHANGED <<protocolVars, storeVars, gapVars, delivered>>
  <2>1. <<Do("open", m.seq)>> \in Seq(Owed(outLog, p)) BY <1>0, <1>1, TaskFits
  <2>2. PlaybackAll(p, m) \in Seq(Owed(outLog, p))
    BY <1>0, <1>1, <1>2, FittingNumbers, PlaybackAllFits
  <2>3. PlaybackAll(p, m) \o <<Do("open", m.seq)>> \o rest \in Seq(Owed(outLog, p))
    BY <2>1, <2>2, ConcatProperties
  <2>4. FitTodo(outLog, todo') BY <1>2, <2>3, PointFits, Functions DEF Bounded
  <2> QED BY <1>2, <2>4 DEF Bounded, storeVars, gapVars
<1>3. ASSUME NEW batch \in Seq(Written), Emit(p, conn[p], n, batch),
             StartGap(p, m.seq), todo' = [todo EXCEPT ![p] = rest], UNCHANGED delivered
      PROVE  Bounded'
  <2>2. FitNets(outLog', net') /\ Longer(outLog, outLog') BY <1>3, EmitFits
  <2>3. /\ FitIn(outLog', inSeq') /\ FitSets(outLog', pending') /\ FitQueue(outLog', queue')
    BY <1>1, <1>3, <2>2, StartGapFits
  <2>4. FitTodo(outLog', todo')
    <3>1. Seq(Owed(outLog, p)) \subseteq Seq(Owed(outLog', p))
      BY <2>2, LongerOwed, SeqMonotone
    <3>2. FitTodo(outLog', todo) BY <2>2, LongerKeeps
    <3> QED BY <1>3, <3>1, <3>2, PointFits, Functions
  <2>5. FitSets(outLog', replay')
    <3>1. \A q \in Peer : Fitting(outLog, q) \subseteq Fitting(outLog', q)
      BY <2>2, LongerFitting
    <3> QED BY <3>1, OtherOfOther DEF FitSets
  <2>6. FitHello(outLog', hello) /\ FitGiven(outLog', delivered) BY <2>2, LongerKeeps
  <2> QED BY <1>3, <2>2, <2>3, <2>4, <2>5, <2>6 DEF Bounded
<1>4. /\ <<ResendFrom(inSeq[p])>> \in Seq(Written)
      /\ <<ResendFrom(inSeq[p]), LogoutReply>> \in Seq(Written)
  <2>1. ResendFrom(inSeq[p]) \in Written /\ LogoutReply \in Written BY <1>0, WrittenTypes
  <2> QED BY <2>1
<1> QED BY <1>2, <1>3, <1>4 DEF OutOfSequence

LEMMA RaiseFits ==
  ASSUME TypeOK, Bounded, NEW p \in Peer, NEW n \in Nets, FitNets(outLog, n),
         Raise(p, n), hello' = hello
  PROVE  Bounded'
<1>1. Die(p, n) /\ outLog' = outLog /\ inSeq' = inSeq /\ delivered' = delivered
  BY DEF Raise, storeVars
<1>2. FitIn(outLog, inSeq') BY <1>1 DEF Bounded
<1> QED BY <1>1, <1>2, DieFits

LEMMA OnMsgNormalFits ==
  ASSUME TypeOK, Bounded, NEW p \in Peer, NEW m \in Fitting(outLog, Other(p)),
         NEW n \in Nets, FitNets(outLog, n), NEW rest \in Seq(Owed(outLog, p)),
         NEW left \in SUBSET Fitting(outLog, Other(p)),
         hello' = hello, OnMsgNormal(p, m, n, left, rest)
  PROVE  Bounded'
<1>1. CASE Raise(p, n) BY <1>1, RaiseFits
<1>2. CASE replay' = [replay EXCEPT ![p] = left]
  <2>1. FitSets(outLog, replay') BY <1>2, PointFits, Functions DEF Bounded
  <2> QED BY <1>1, <2>1, InSequenceFits, OutOfSequenceFits DEF OnMsgNormal
<1> QED BY <1>1, <1>2 DEF OnMsgNormal

LEMMA OnGapFillFits ==
  ASSUME TypeOK, Bounded, NEW p \in Peer, NEW m \in Fitting(outLog, Other(p)),
         m.type = "GapFill",
         NEW n \in Nets, FitNets(outLog, n), NEW rest \in Seq(Owed(outLog, p)),
         NEW left \in SUBSET Fitting(outLog, Other(p)),
         hello' = hello, OnGapFill(p, m, n, left, rest)
  PROVE  Bounded'
<1>0. Other(p) \in Peer /\ outLog \in Logs /\ outLog' = outLog /\ delivered' = delivered
  BY OtherOfOther DEF TypeOK, Logs, OnGapFill
<1>1. m.arg \in Nat /\ m.arg <= Len(outLog[Other(p)]) + 1 BY <1>0, FittingNumbers
<1>2. inSeq[p] <= Len(outLog[Other(p)]) + 1 BY DEF Bounded, FitIn
<1>3. Advance(inSeq[p], m.arg) <= Len(outLog[Other(p)]) + 1 BY <1>1, <1>2 DEF Advance
<1>4. inSeq' = [inSeq EXCEPT ![p] = Advance(inSeq[p], m.arg)] BY DEF OnGapFill
<1>5. FitIn(outLog, inSeq') BY <1>3, <1>4, PointFits, Functions DEF Bounded
<1>6. CASE Die(p, n) BY <1>0, <1>5, <1>6, DieFits
<1>7. ASSUME NEW gaps,
             todo' = [todo EXCEPT ![p] = WhenFilled(gaps) \o rest],
             net' = n, replay' = [replay EXCEPT ![p] = left],
             UNCHANGED <<protocolVars, last, queue, pending>>
      PROVE  Bounded'
  <2>1. WhenFilled(gaps) \in Seq(Owed(outLog, p)) BY <1>0, TaskFits
  <2>2. WhenFilled(gaps) \o rest \in Seq(Owed(outLog, p)) BY <2>1, ConcatProperties
  <2>3. FitTodo(outLog, todo') BY <1>7, <2>2, PointFits, Functions DEF Bounded
  <2>4. FitSets(outLog, replay') BY <1>7, PointFits, Functions DEF Bounded
  <2> QED BY <1>0, <1>5, <1>7, <2>3, <2>4 DEF Bounded
<1> QED BY <1>6, <1>7 DEF OnGapFill

LEMMA OnMsgGapFits ==
  ASSUME TypeOK, Bounded, NEW p \in Peer, NEW m \in Fitting(outLog, Other(p)),
         NEW n \in Nets, FitNets(outLog, n), NEW rest \in Seq(Owed(outLog, p)),
         NEW left \in SUBSET Fitting(outLog, Other(p)),
         hello' = hello, OnMsgGap(p, m, n, left, rest)
  PROVE  Bounded'
<1>0. Other(p) \in Peer /\ outLog \in Logs BY OtherOfOther DEF TypeOK, Logs
<1>1. m \in Message /\ m.seq \in Nat /\ m.seq <= Len(outLog[Other(p)])
  BY <1>0, FittingNumbers
<1>2. CASE m.type = "GapFill" /\ OnGapFill(p, m, n, left, rest) BY <1>2, OnGapFillFits
<1>3. ASSUME NEW tasks \in Seq(Owed(outLog, p)),
             todo' = [todo EXCEPT ![p] = tasks],
             FitSets(outLog, pending'), FitQueue(outLog, queue'),
             net' = n, replay' = [replay EXCEPT ![p] = left], UNCHANGED <<storeVars, delivered>>
      PROVE  Bounded'
  <2>1. FitTodo(outLog, todo') BY <1>3, PointFits, Functions DEF Bounded
  <2>2. FitSets(outLog, replay') BY <1>3, PointFits, Functions DEF Bounded
  <2> QED BY <1>3, <2>1, <2>2 DEF Bounded, storeVars
<1>4. \A g : WhenFilled(g) \o rest \in Seq(Owed(outLog, p))
  <2> TAKE g
  <2>1. WhenFilled(g) \in Seq(Owed(outLog, p)) BY <1>0, TaskFits
  <2> QED BY <2>1, ConcatProperties
<1>5. FitSets(outLog, pending) /\ FitQueue(outLog, queue) BY DEF Bounded
<1>6. CASE Urgent(m) /\ ~m.dup /\ m.type # "GapFill" /\ OnMsgGap(p, m, n, left, rest)
  <2> DEFINE own == IF m.seq = inSeq[p] THEN <<Do("persist", m.seq)>> ELSE <<>>
             tasks == PlaybackAll(p, m) \o own \o WhenFilled(miss[p]) \o rest
  <2>1. own \in Seq(Owed(outLog, p)) BY <1>0, <1>1, TaskFits
  <2>2. PlaybackAll(p, m) \in Seq(Owed(outLog, p))
    BY <1>0, <1>1, <1>6, FittingNumbers, PlaybackAllFits DEF Urgent
  <2>3. WhenFilled(miss[p]) \in Seq(Owed(outLog, p)) BY <1>0, TaskFits
  <2> HIDE DEF own
  <2>4. tasks \in Seq(Owed(outLog, p)) BY <2>1, <2>2, <2>3, ConcatProperties
  <2>5. /\ todo' = [todo EXCEPT ![p] = tasks]
        /\ net' = n
        /\ replay' = [replay EXCEPT ![p] = left]
        /\ UNCHANGED <<storeVars, gapVars, delivered>>
    BY <1>6 DEF OnMsgGap, own
  <2> HIDE DEF tasks
  <2>6. FitSets(outLog, pending') /\ FitQueue(outLog, queue') BY <1>5, <2>5 DEF gapVars
  <2> QED BY <1>3, <2>4, <2>5, <2>6
<1>7. CASE m.type # "GapFill" /\ ~Urgent(m) /\ ~m.dup /\ OnMsgGap(p, m, n, left, rest)
  <2>1. /\ pending' = [pending EXCEPT ![p] = pending[p] \cup {m}]
        /\ todo' = [todo EXCEPT ![p] = WhenFilled(miss[p]) \o rest]
        /\ net' = n
        /\ replay' = [replay EXCEPT ![p] = left]
        /\ UNCHANGED <<storeVars, queue, delivered>>
    BY <1>7 DEF OnMsgGap
  <2>2. pending[p] \cup {m} \subseteq Fitting(outLog, Other(p)) BY <1>5 DEF FitSets
  <2>3. FitSets(outLog, pending') BY <1>5, <2>1, <2>2, PointFits, Functions
  <2> QED BY <1>3, <1>4, <1>5, <2>1, <2>3
<1>8. CASE m.type # "GapFill" /\ m.dup /\ OnMsgGap(p, m, n, left, rest)
  <2> DEFINE recovered == m.seq \in miss[p] \/ m.seq > last[p]
             more == IF recovered THEN queue[p] \cup {m.seq} ELSE queue[p]
  <2>1. /\ queue' = [queue EXCEPT ![p] = more]
        /\ todo' = [todo EXCEPT ![p] = WhenFilled(miss[p] \ {m.seq}) \o rest]
        /\ net' = n
        /\ replay' = [replay EXCEPT ![p] = left]
        /\ UNCHANGED <<storeVars, pending, delivered>>
    BY <1>8 DEF OnMsgGap
  <2>2. more \subseteq Stored(outLog, Other(p))
    BY <1>0, <1>5, <1>8, FittingNumbers DEF FitQueue
  <2> HIDE DEF more
  <2>3. FitQueue(outLog, queue') BY <1>5, <2>1, <2>2, PointFits, Functions
  <2> QED BY <1>3, <1>4, <1>5, <2>1, <2>3
<1> QED BY <1>2, <1>6, <1>7, <1>8 DEF OnMsgGap, Urgent

LEMMA LogonFits ==
  ASSUME TypeOK, Bounded, NEW p \in Peer, NEW c, NEW n \in Nets, FitNets(outLog, n),
         NEW reply \in Seq(Written), NEW seq \in Nat, seq <= Len(outLog[Other(p)]),
         hello' \subseteq hello,
         LogonInSequence(p, c, n, reply, seq) \/ LogonOutOfSequence(p, c, n, reply, seq)
  PROVE  Bounded'
<1>0. inSeq[p] \in Nat \ {0} BY DEF TypeOK
<1>1. ASSUME NEW batch \in Seq(Written), Emit(p, c, n, batch),
             UNCHANGED <<callVars, delivered>>,
             Longer(outLog, outLog') => /\ FitIn(outLog', inSeq')
                                        /\ FitQueue(outLog', queue')
                                        /\ FitSets(outLog', pending')
      PROVE  Bounded'
  <2>1. FitNets(outLog', net') /\ Longer(outLog, outLog') BY <1>1, EmitFits
  <2>2. /\ FitTodo(outLog', todo) /\ FitSets(outLog', replay) /\ FitHello(outLog', hello)
        /\ FitGiven(outLog', delivered)
    BY <2>1, LongerKeeps
  <2>3. FitHello(outLog', hello') BY <2>2 DEF FitHello
  <2> QED BY <1>1, <2>1, <2>2, <2>3 DEF Bounded, callVars
<1>2. CASE LogonInSequence(p, c, n, reply, seq)
  <2>1. Admin("Heartbeat") \in Written BY WrittenTypes DEF MsgType
  <2>2. <<Admin("Heartbeat")>> \in Seq(Written) BY <2>1
  <2>3. reply \o <<Admin("Heartbeat")>> \in Seq(Written) BY <2>2, ConcatProperties
  <2>4. /\ Emit(p, c, n, reply \o <<Admin("Heartbeat")>>)
        /\ UNCHANGED <<callVars, gapVars, delivered>> /\ PersistAndAdvance(p, seq)
    BY <1>2 DEF LogonInSequence
  <2>5. Longer(outLog, outLog') => /\ FitIn(outLog', inSeq')
                                   /\ FitQueue(outLog', queue')
                                   /\ FitSets(outLog', pending')
    BY <2>4, PersistAndAdvanceFits, LongerKeeps DEF gapVars
  <2> QED BY <1>1, <2>3, <2>4, <2>5
<1>3. CASE LogonOutOfSequence(p, c, n, reply, seq)
  <2>1. ResendFrom(inSeq[p]) \in Written BY <1>0, WrittenTypes
  <2>2. reply \o <<ResendFrom(inSeq[p])>> \in Seq(Written) BY <2>1, ConcatProperties
  <2>3. /\ Emit(p, c, n, reply \o <<ResendFrom(inSeq[p])>>)
        /\ UNCHANGED <<callVars, delivered>> /\ StartGap(p, seq)
    BY <1>3 DEF LogonOutOfSequence
  <2> QED BY <1>1, <2>2, <2>3, StartGapFits
<1> QED BY <1>2, <1>3

LEMMA DeliverFits ==
  ASSUME TypeOK, Bounded, NEW p \in Peer, Deliver(p)
  PROVE  Bounded'
<1> DEFINE m == Head(net[p])
           n == [net EXCEPT ![p] = Tail(@)]
<1>1. net[p] # <<>> /\ hello' = hello BY DEF Deliver, envVars
<1>2. m \in Message /\ n \in Nets BY <1>1, ReceiveType
<1>3. m \in Fitting(outLog, Other(p)) /\ Tail(net[p]) \in Seq(Fitting(outLog, Other(p)))
  <2>1. net[p] \in Seq(Fitting(outLog, Other(p))) BY DEF Bounded, FitNets
  <2> QED BY <1>1, <2>1, HeadTailProperties
<1>4. FitNets(outLog, n) BY <1>3, PointFits, Functions DEF Bounded
<1>5. {} \in SUBSET Fitting(outLog, Other(p)) /\ <<>> \in Seq(Owed(outLog, p)) BY EmptySeq
<1>6. \/ OnMsgAwaitingLogon(p, m, n)
      \/ OnMsgNormal(p, m, n, {}, <<>>)
      \/ OnMsgGap(p, m, n, {}, <<>>)
      \/ OnMsgAwaitingLogout(p, m, n)
  BY DEF Deliver
<1> HIDE DEF m, n
<1>7. CASE OnMsgAwaitingLogon(p, m, n)
  <2>1. /\ <<>> \in Seq(Written) /\ m.seq \in Nat /\ m.seq <= Len(outLog[Other(p)])
    BY <1>3, EmptySeq, OtherOfOther, FittingNumbers
  <2>2. \/ Raise(p, n)
        \/ LogonInSequence(p, conn[p], n, <<>>, m.seq)
        \/ LogonOutOfSequence(p, conn[p], n, <<>>, m.seq)
    BY <1>7 DEF OnMsgAwaitingLogon
  <2>3. CASE Raise(p, n) BY <1>1, <1>2, <1>4, <2>3, RaiseFits
  <2>4. CASE \/ LogonInSequence(p, conn[p], n, <<>>, m.seq)
             \/ LogonOutOfSequence(p, conn[p], n, <<>>, m.seq)
    BY <1>1, <1>2, <1>4, <2>1, <2>4, LogonFits
  <2> QED BY <2>2, <2>3, <2>4
<1>8. CASE OnMsgAwaitingLogout(p, m, n)
  BY <1>1, <1>4, <1>8 DEF OnMsgAwaitingLogout, Bounded, storeVars, gapVars, callVars
<1> QED BY <1>1, <1>2, <1>3, <1>4, <1>5, <1>6, <1>7, <1>8, OnMsgNormalFits, OnMsgGapFits

(* The tasks of a running callback.                                        *)
LEMMA TaskInHand ==
  ASSUME TypeOK, Bounded, NEW p \in Peer, todo[p] # <<>>
  PROVE  /\ Head(todo[p]) \in Owed(outLog, p)
         /\ Tail(todo[p]) \in Seq(Owed(outLog, p))
<1>1. todo[p] \in Seq(Owed(outLog, p)) BY DEF Bounded, FitTodo
<1> QED BY <1>1, HeadTailProperties

LEMMA ThenFits ==
  ASSUME TypeOK, Bounded, NEW p \in Peer, todo[p] # <<>>, Longer(outLog, outLog'),
         NEW first \in Seq(Owed(outLog, p)), Then(p, first)
  PROVE  FitTodo(outLog', todo')
<1>1. first \o Tail(todo[p]) \in Seq(Owed(outLog, p)) BY TaskInHand, ConcatProperties
<1>2. Seq(Owed(outLog, p)) \subseteq Seq(Owed(outLog', p)) BY LongerOwed, SeqMonotone
<1>3. todo' = [todo EXCEPT ![p] = first \o Tail(todo[p])] BY DEF Then
<1>4. FitTodo(outLog', todo) BY LongerKeeps
<1> QED BY <1>1, <1>2, <1>3, <1>4, PointFits, Functions

LEMMA PlayFits ==
  ASSUME TypeOK, Bounded, NEW p \in Peer, Play(p)
  PROVE  Bounded'
<1> DEFINE i == Head(todo[p]).seq
           end == Head(todo[p]).to
<1>1. todo[p] # <<>> /\ Head(todo[p]).do = "play" BY DEF Play, Doing
<1>2. i \in Nat /\ end \in Nat BY <1>1, TaskAtHand
<1>3. i # 0 /\ end <= Len(outLog[p]) BY <1>1, TaskInHand DEF Owed
<1>4. PICK j \in LastOfItem(p, i, end) :
        /\ net' = Wire(net, p, conn[p], <<ResentItem(p, i, j)>>)
        /\ Then(p, Playback(j + 1, end))
  BY DEF Play
<1>5. UNCHANGED <<protocolVars, storeVars, gapVars, replay, delivered, envVars>>
  BY DEF Play
<1>6. outLog \in Logs /\ net \in Nets BY DEF TypeOK, Logs, Nets
<1>7. Len(outLog[p]) \in Nat BY <1>6, LogLength
<1> HIDE DEF i, end
<1>8. j \in Nat /\ i <= j /\ j <= end BY <1>2 DEF LastOfItem
<1>9. ResentItem(p, i, j) \in Message BY <1>2, <1>8 DEF ResentItem, Message, MsgType
<1>10. ResentItem(p, i, j) \in Fitting(outLog, p)
  <2>1. ResentItem(p, i, j).seq = i /\ ResentItem(p, i, j).arg \in {0, j + 1}
    BY DEF ResentItem
  <2>2. i <= Len(outLog[p]) /\ j + 1 <= Len(outLog[p]) + 1 /\ 0 <= Len(outLog[p]) + 1
    BY <1>2, <1>3, <1>7, <1>8
  <2>3. /\ ResentItem(p, i, j).type \in {"App", "GapFill"}
        /\ ResentItem(p, i, j).type = "GapFill" => ResentItem(p, i, j).arg = j + 1
        /\ ResentItem(p, i, j).type = "App" => outLog[p][i] = "app"
    BY DEF ResentItem, StoredApp
  <2>4. i \in 1..Len(outLog[p]) BY <1>2, <1>3, <1>7, <2>2
  <2> QED BY <1>9, <2>1, <2>2, <2>3, <2>4 DEF Fitting, Stored
<1>11. <<ResentItem(p, i, j)>> \in Seq(Fitting(outLog, p)) BY <1>10
<1>12. FitNets(outLog, net') BY <1>4, <1>6, <1>11, WireFits DEF Bounded
<1>13. FitTodo(outLog, todo')
  <2>1. j + 1 \in Nat /\ j + 1 # 0 BY <1>8
  <2>2. Playback(j + 1, end) \in Seq(Owed(outLog, p)) BY <2>1, <1>2, <1>3, <1>6, TaskFits
  <2>3. Longer(outLog, outLog') BY <1>5, SameLonger DEF storeVars
  <2> QED BY <1>1, <1>4, <1>5, <2>2, <2>3, ThenFits DEF storeVars
<1> QED BY <1>5, <1>12, <1>13 DEF Bounded, storeVars, gapVars, envVars

LEMMA OpenFits ==
  ASSUME TypeOK, Bounded, NEW p \in Peer, Open(p)
  PROVE  Bounded'
<1>1. todo[p] # <<>> /\ Head(todo[p]).do = "open" BY DEF Open, Doing
<1>2. /\ StartGap(p, Head(todo[p]).seq)
      /\ Emit(p, conn[p], net, <<ResendFrom(inSeq[p])>>)
      /\ Then(p, <<>>)
      /\ UNCHANGED <<replay, delivered, envVars>>
  BY DEF Open
<1>3. net \in Nets /\ inSeq[p] \in Nat \ {0} BY DEF TypeOK, Nets
<1>4. <<ResendFrom(inSeq[p])>> \in Seq(Written)
  <2>1. ResendFrom(inSeq[p]) \in Written BY <1>3, WrittenTypes
  <2> QED BY <2>1
<1>5. FitNets(outLog', net') /\ Longer(outLog, outLog')
  BY <1>2, <1>3, <1>4, EmitFits DEF Bounded
<1>6. Head(todo[p]).seq \in Nat /\ Head(todo[p]).seq <= Len(outLog[Other(p)])
  BY <1>1, TaskAtHand, TaskInHand DEF Owed
<1>7. /\ FitIn(outLog', inSeq') /\ FitQueue(outLog', queue') /\ FitSets(outLog', pending')
  BY <1>2, <1>5, <1>6, StartGapFits
<1>8. FitTodo(outLog', todo') BY <1>1, <1>2, <1>5, EmptySeq, ThenFits
<1>9. /\ FitSets(outLog', replay) /\ FitHello(outLog', hello)
      /\ FitGiven(outLog', delivered)
  BY <1>5, LongerKeeps
<1> QED BY <1>2, <1>5, <1>7, <1>8, <1>9 DEF Bounded, envVars

LEMMA PersistFits ==
  ASSUME TypeOK, Bounded, NEW p \in Peer, Persist(p)
  PROVE  Bounded'
<1>1. /\ todo[p] # <<>> /\ Head(todo[p]).do \in {"persist", "save"}
      /\ UNCHANGED envVars
  BY DEF Persist, Doing
<1>2. CASE Raise(p, net)
  <2>1. net \in Nets BY DEF TypeOK, Nets
  <2> QED BY <1>1, <1>2, <2>1, RaiseFits DEF Bounded, envVars
<1>3. CASE /\ PersistAndAdvance(p, Head(todo[p]).seq)
           /\ Then(p, <<>>)
           /\ UNCHANGED <<protocolVars, outLog, gapVars, replay, net, delivered>>
  <2>1. Head(todo[p]).seq \in Nat /\ Head(todo[p]).seq <= Len(outLog[Other(p)])
    BY <1>1, TaskAtHand, TaskInHand DEF Owed
  <2>2. Longer(outLog, outLog') BY <1>3, SameLonger
  <2>3. FitIn(outLog', inSeq') BY <1>3, <2>1, <2>2, PersistAndAdvanceFits
  <2>4. FitTodo(outLog', todo') BY <1>1, <1>3, <2>2, EmptySeq, ThenFits
  <2> QED BY <1>1, <1>3, <2>3, <2>4 DEF Bounded, gapVars, envVars
<1> QED BY <1>2, <1>3 DEF Persist

LEMMA DrainFits ==
  ASSUME TypeOK, Bounded, NEW p \in Peer, Drain(p)
  PROVE  Bounded'
<1>1. PICK s \in queue[p] :
        /\ queue' = [queue EXCEPT ![p] = queue[p] \ {s}]
        /\ delivered' = [delivered EXCEPT ![p] = Append(delivered[p], s)]
        /\ todo' = [todo EXCEPT ![p] =
                      (IF s < inSeq[p] THEN <<>> ELSE <<Do("save", s)>>) \o todo[p]]
  BY DEF Drain
<1>2. UNCHANGED <<protocolVars, storeVars, miss, last, pending, replay, net, envVars>>
  BY DEF Drain
<1>3. s \in Nat /\ outLog \in Logs BY DEF TypeOK, Logs
<1>0. s \in Stored(outLog, Other(p)) BY DEF Bounded, FitQueue
<1>4. s <= Len(outLog[Other(p)]) BY <1>0, <1>3, LogLength, OtherOfOther DEF Stored
<1>5. FitQueue(outLog, queue')
  <2>1. queue[p] \ {s} \subseteq Stored(outLog, Other(p)) BY DEF Bounded, FitQueue
  <2> QED BY <1>1, <2>1, PointFits, Functions DEF Bounded
<1>6. FitTodo(outLog, todo')
  <2> DEFINE saving == IF s < inSeq[p] THEN <<>> ELSE <<Do("save", s)>>
  <2>1. saving \in Seq(Owed(outLog, p)) BY <1>3, <1>4, TaskFits
  <2>2. todo' = [todo EXCEPT ![p] = saving \o todo[p]] BY <1>1
  <2> HIDE DEF saving
  <2>3. saving \o todo[p] \in Seq(Owed(outLog, p))
    BY <2>1, ConcatProperties DEF Bounded, FitTodo
  <2> QED BY <2>2, <2>3, PointFits, Functions DEF Bounded
<1>7. FitGiven(outLog, delivered')
  <2>1. delivered[p] \in Seq(Stored(outLog, Other(p))) BY DEF Bounded, FitGiven
  <2>2. Append(delivered[p], s) \in Seq(Stored(outLog, Other(p)))
    BY <1>0, <2>1, AppendProperties
  <2> QED BY <1>1, <2>2, PointFits, Functions DEF Bounded
<1> QED BY <1>2, <1>5, <1>6, <1>7 DEF Bounded, storeVars, envVars

LEMMA DrainedFits ==
  ASSUME TypeOK, Bounded, NEW p \in Peer, Drained(p)
  PROVE  Bounded'
<1> DEFINE first == IF Unseen(p) = {} THEN <<>> ELSE <<Do("replay", 0)>>
<1>1. /\ todo[p] # <<>>
      /\ replay' = [replay EXCEPT ![p] = Unseen(p)]
      /\ Then(p, first)
      /\ pending' = [pending EXCEPT ![p] = {}]
      /\ UNCHANGED <<conn, closing, storeVars, queue, net, delivered, envVars>>
  BY DEF Drained, Doing
<1>2. outLog \in Logs BY DEF TypeOK, Logs
<1>3. first \in Seq(Owed(outLog, p)) BY <1>2, TaskFits
<1> HIDE DEF first
<1>4. Longer(outLog, outLog') /\ outLog' = outLog BY <1>1, SameLonger DEF storeVars
<1>5. FitTodo(outLog, todo') BY <1>1, <1>3, <1>4, ThenFits
<1>6. Unseen(p) \subseteq Fitting(outLog, Other(p)) BY DEF Unseen, Bounded, FitSets
<1>7. FitSets(outLog, replay') BY <1>1, <1>6, PointFits, Functions DEF Bounded
<1>8. FitSets(outLog, pending') BY <1>1, PointFits, Functions DEF Bounded
<1> QED BY <1>1, <1>5, <1>7, <1>8 DEF Bounded, storeVars, envVars

LEMMA ReplayFits ==
  ASSUME TypeOK, Bounded, NEW p \in Peer, Replay(p)
  PROVE  Bounded'
<1>1. todo[p] # <<>> /\ hello' = hello BY DEF Replay, Doing, envVars
<1> DEFINE again(m) == IF replay[p] \ {m} = {} THEN <<>> ELSE <<Do("replay", 0)>>
<1>2. PICK m \in replay[p] :
        \/ OnMsgNormal(p, m, net, replay[p] \ {m}, again(m) \o Tail(todo[p]))
        \/ OnMsgGap(p, m, net, replay[p] \ {m}, again(m) \o Tail(todo[p]))
  BY DEF Replay
<1>3. outLog \in Logs /\ net \in Nets BY DEF TypeOK, Logs, Nets
<1>4. again(m) \in Seq(Owed(outLog, p)) BY <1>3, TaskFits
<1> HIDE DEF again
<1>5. again(m) \o Tail(todo[p]) \in Seq(Owed(outLog, p))
  BY <1>1, <1>4, TaskInHand, ConcatProperties
<1>6. /\ m \in Fitting(outLog, Other(p))
      /\ replay[p] \ {m} \in SUBSET Fitting(outLog, Other(p))
      /\ FitNets(outLog, net)
  BY DEF Bounded, FitSets
<1> QED BY <1>1, <1>2, <1>3, <1>5, <1>6, OnMsgNormalFits, OnMsgGapFits

LEMMA SystemFits ==
  ASSUME TypeOK, Bounded, NEW p \in Peer, System(p)
  PROVE  Bounded'
<1>1. CASE Deliver(p) BY <1>1, DeliverFits
<1>2. CASE Continue(p)
  BY <1>2, PlayFits, OpenFits, PersistFits, DrainFits, DrainedFits, ReplayFits
     DEF Continue
<1>3. CASE ConnectionLost(p) \/ CleanUp(p)
  <2>1. /\ Die(p, net) /\ outLog' = outLog /\ inSeq' = inSeq /\ hello' = hello
        /\ delivered' = delivered
    BY <1>3 DEF ConnectionLost, CleanUp, storeVars, envVars
  <2>2. net \in Nets BY DEF TypeOK, Nets
  <2> QED BY <2>1, <2>2, DieFits DEF Bounded
<1> QED BY <1>1, <1>2, <1>3 DEF System

-----------------------------------------------------------------------------
(* What only compiles, or compiles and writes.                             *)
LEMMA CompileFits ==
  ASSUME TypeOK, Bounded, NEW p \in Peer, NEW c, NEW batch \in Seq(Items),
         \/ batch \in Seq(Written) /\ Emit(p, c, net, batch)
         \/ Record(p, batch) /\ UNCHANGED net,
         UNCHANGED <<inSeq, gapVars, callVars, delivered>>,
         FitHello(outLog', hello')
  PROVE  Bounded'
<1>1. net \in Nets BY DEF TypeOK, Nets
<1>2. FitNets(outLog', net') /\ Longer(outLog, outLog')
  BY <1>1, EmitFits, RecordLength, LongerKeeps DEF Bounded
<1> QED BY <1>2, LongerKeeps DEF Bounded, gapVars, callVars

LEMMA ConnectFits ==
  ASSUME TypeOK, Bounded, Connect
  PROVE  Bounded'
<1> DEFINE greeting == [conn |-> used["connect"] + 1, seq |-> Len(outLog[Initiator]) + 1]
<1>1. /\ Record(Initiator, <<Admin("Logon")>>)
      /\ hello' = hello \cup {greeting}
      /\ UNCHANGED <<inSeq, gapVars, callVars, net, delivered>>
  BY DEF Connect
<1>2. <<Admin("Logon")>> \in Seq(Items) /\ Len(<<Admin("Logon")>>) = 1
  <2>1. Admin("Logon") \in Items BY ItemTypes DEF MsgType
  <2> QED BY <2>1
<1>3. Longer(outLog, outLog') /\ Len(outLog'[Initiator]) = Len(outLog[Initiator]) + 1
  <2>1. /\ Longer(outLog, outLog')
        /\ Len(outLog'[Initiator]) = Len(outLog[Initiator]) + Len(<<Admin("Logon")>>)
    BY <1>1, <1>2, OtherOfOther, RecordLength
  <2> QED BY <1>2, <2>1
<1>4. FitHello(outLog', hello) BY <1>3, LongerKeeps
<1>5. Len(outLog[Initiator]) + 1 <= Len(outLog'[Initiator])
  <2>1. outLog \in Logs BY DEF TypeOK, Logs
  <2>2. Len(outLog[Initiator]) \in Nat BY <2>1, LogLength, OtherOfOther
  <2> QED BY <1>3, <2>2
<1>6. FitHello(outLog', hello') BY <1>1, <1>4, <1>5 DEF FitHello
<1> QED BY <1>1, <1>2, <1>6, OtherOfOther, CompileFits

LEMMA ReadLogonFits ==
  ASSUME TypeOK, Bounded, ReadLogon
  PROVE  Bounded'
<1>1. PICK h \in hello : hello' = hello \ {h} /\ (AcceptLogon(h) \/ RefuseLogon(h))
  BY DEF ReadLogon
<1>2. h.seq \in Nat BY DEF TypeOK
<1>3. h.seq <= Len(outLog[Other(Acceptor)]) /\ Acceptor \in Peer
  BY OtherOfOther DEF Bounded, FitHello
<1>4. <<Admin("Logon")>> \in Seq(Written)
  <2>1. Admin("Logon") \in Written BY WrittenTypes DEF MsgType
  <2> QED BY <2>1
<1>5. CASE AcceptLogon(h)
  <2>1. net \in Nets BY DEF TypeOK, Nets
  <2>2. \/ LogonInSequence(Acceptor, h.conn, net, <<Admin("Logon")>>, h.seq)
        \/ LogonOutOfSequence(Acceptor, h.conn, net, <<Admin("Logon")>>, h.seq)
    BY <1>5 DEF AcceptLogon
  <2>3. FitNets(outLog, net) /\ hello' \subseteq hello BY <1>1 DEF Bounded
  <2> QED BY <1>2, <1>3, <1>4, <2>1, <2>2, <2>3, LogonFits
<1>6. CASE RefuseLogon(h)
  <2>1. /\ UNCHANGED outLog \/ Record(Acceptor, <<Admin("Logon")>>)
        /\ UNCHANGED <<inSeq, gapVars, callVars, net, delivered>>
    BY <1>6 DEF RefuseLogon
  <2>2. CASE Record(Acceptor, <<Admin("Logon")>>)
    <3>0. <<Admin("Logon")>> \in Seq(Items) BY <1>4, WrittenAreItems
    <3>1. Longer(outLog, outLog') BY <1>3, <2>2, <3>0, RecordLength
    <3>2. FitHello(outLog', hello) BY <3>1, LongerKeeps
    <3>3. FitHello(outLog', hello') BY <1>1, <3>2 DEF FitHello
    <3> QED BY <1>3, <2>1, <2>2, <3>0, <3>3, CompileFits
  <2>3. CASE UNCHANGED outLog
    <3>1. FitHello(outLog, hello') BY <1>1 DEF FitHello, Bounded
    <3> QED BY <2>1, <2>3, <3>1 DEF Bounded, gapVars, callVars
  <2> QED BY <2>1, <2>2, <2>3
<1> QED BY <1>1, <1>5, <1>6

LEMMA EnvironmentFits ==
  ASSUME TypeOK, Bounded, NEW p \in Peer, Environment(p), ~Crash(p), ~NextDay(p)
  PROVE  Bounded'
<1>1. ASSUME NEW batch \in Seq(Items),
             \/ batch \in Seq(Written) /\ Emit(p, conn[p], net, batch)
             \/ Record(p, batch) /\ UNCHANGED net,
             UNCHANGED <<inSeq, gapVars, callVars, delivered, hello>>
      PROVE  Bounded'
  <2>1. net \in Nets /\ FitNets(outLog, net) BY DEF TypeOK, Nets, Bounded
  <2>2. Longer(outLog, outLog') BY <1>1, <2>1, EmitFits, RecordLength
  <2>3. FitHello(outLog', hello') BY <1>1, <2>2, LongerKeeps
  <2> QED BY <1>1, <2>3, CompileFits
<1>2. ASSUME Die(p, net), UNCHANGED <<storeVars, delivered, hello>>
      PROVE  Bounded'
  <2>1. net \in Nets BY DEF TypeOK, Nets
  <2> QED BY <1>2, <2>1, DieFits DEF Bounded, storeVars
<1>3. \A t \in {"Heartbeat", "Logout"} :
        <<Admin(t)>> \in Seq(Written) /\ <<Admin(t)>> \in Seq(Items)
  <2>1. \A t \in {"Heartbeat", "Logout"} : Admin(t) \in Written
    BY WrittenTypes DEF MsgType
  <2>2. \A t \in {"Heartbeat", "Logout"} : <<Admin(t)>> \in Seq(Written) BY <2>1
  <2> QED BY <2>2, WrittenAreItems
<1>4. CASE Send(p) \/ Skip(p) \/ Hole(p)
  <2>1. PICK kind \in Kind, sent \in BOOLEAN :
          AppSend(p, kind, sent) /\ (sent => kind = "app")
    BY <1>4 DEF Send, Skip, Hole, Kind
  <2>2. /\ \/ kind = "app" /\ Emit(p, conn[p], net, <<Item("App", 0, kind)>>)
           \/ Record(p, <<Item("App", 0, kind)>>) /\ UNCHANGED net
        /\ UNCHANGED <<inSeq, gapVars, callVars, delivered, hello>>
    BY <2>1 DEF AppSend
  <2>3. Item("App", 0, kind) \in Items /\ (kind = "app" => Item("App", 0, kind) \in Written)
    BY ItemTypes, WrittenTypes
  <2>4. <<Item("App", 0, kind)>> \in Seq(Items) BY <2>3
  <2>5. kind = "app" => <<Item("App", 0, kind)>> \in Seq(Written) BY <2>3
  <2> QED BY <1>1, <2>2, <2>4, <2>5
<1>5. CASE SendHeartbeat(p)
  <2>1. /\ Emit(p, conn[p], net, <<Admin("Heartbeat")>>)
        /\ UNCHANGED <<inSeq, gapVars, callVars, delivered, hello>>
    BY <1>5 DEF SendHeartbeat
  <2> QED BY <1>1, <1>3, <2>1
<1>6. ASSUME NEW again \in BOOLEAN, Logoff(p, again) PROVE Bounded'
  <2>1. \/ /\ Emit(p, conn[p], net, <<Admin("Logout")>>)
           /\ UNCHANGED <<inSeq, gapVars, callVars, delivered, hello>>
        \/ Die(p, net) /\ UNCHANGED <<storeVars, delivered, hello>>
    BY <1>6 DEF Logoff
  <2> QED BY <1>1, <1>2, <1>3, <2>1
<1>7. CASE Drop(p)
  BY <1>2, <1>7 DEF Drop
<1> QED BY <1>4, <1>5, <1>6, <1>7 DEF Environment

-----------------------------------------------------------------------------
LEMMA RestartSpends ==
  ASSUME TypeOK, [Next]_vars, NoRestart'
  PROVE  NoRestart /\ \A p \in Peer : ~Crash(p) /\ ~NextDay(p)
<1>1. used \in [Budget -> Nat] BY DEF TypeOK
<1>2. \A p \in Peer : ~Crash(p) /\ ~NextDay(p)
  BY <1>1 DEF Crash, NextDay, Spend, NoRestart, Budget
<1>3. ASSUME NEW k \in Budget, k \notin {"crash", "newday"}, Spend(k)
      PROVE  NoRestart
  BY <1>1, <1>3 DEF Spend, NoRestart, Budget
<1>4. UNCHANGED used \/ \E k \in Budget \ {"crash", "newday"} : Spend(k)
  <2>1. CASE \E p \in Peer : System(p)
    <3> PICK p \in Peer : System(p) BY <2>1
    <3>1. UNCHANGED envVars
      BY DEF System, Deliver, Continue, Play, Open, Persist, Drain, Drained, Replay,
             ConnectionLost, CleanUp
    <3> QED BY <3>1 DEF envVars
  <2>2. CASE \E p \in Peer : Environment(p)
    BY <1>2, <2>2 DEF Environment, Send, Skip, Hole, SendHeartbeat, Logoff, Drop, Budget
  <2>3. CASE ReadLogon BY <2>3 DEF ReadLogon, Budget
  <2>4. CASE \E h \in hello : HelloLost(h) BY <2>4 DEF HelloLost
  <2>5. CASE Connect BY <2>5 DEF Connect, Budget
  <2>6. CASE AllowLogon BY <2>6 DEF AllowLogon
  <2>7. CASE UNCHANGED vars BY <2>7 DEF vars, envVars
  <2> QED BY <2>1, <2>2, <2>3, <2>4, <2>5, <2>6, <2>7 DEF Next
<1>5. UNCHANGED used => NoRestart BY DEF NoRestart
<1> QED BY <1>2, <1>3, <1>4, <1>5

LEMMA StepFits ==
  ASSUME TypeOK, IInv, [Next]_vars
  PROVE  IInv'
<1> SUFFICES ASSUME NoRestart' PROVE Bounded'
  BY DEF IInv
<1>1. Bounded /\ \A p \in Peer : ~Crash(p) /\ ~NextDay(p) BY RestartSpends DEF IInv
<1>2. CASE \E p \in Peer : System(p) \/ Environment(p)
  BY <1>1, <1>2, SystemFits, EnvironmentFits
<1>3. CASE ReadLogon BY <1>1, <1>3, ReadLogonFits
<1>4. CASE \E h \in hello : HelloLost(h)
  <2>1. /\ hello' \subseteq hello
        /\ UNCHANGED <<protocolVars, storeVars, gapVars, callVars, net, delivered>>
    BY <1>4 DEF HelloLost
  <2> QED BY <1>1, <2>1 DEF Bounded, FitHello, storeVars, gapVars, callVars
<1>5. CASE Connect BY <1>1, <1>5, ConnectFits
<1>6. CASE AllowLogon
  BY <1>1, <1>6 DEF AllowLogon, Bounded, storeVars, gapVars, callVars
<1>7. CASE UNCHANGED vars
  BY <1>1, <1>7 DEF vars, Bounded, storeVars, gapVars, callVars, envVars
<1> QED BY <1>2, <1>3, <1>4, <1>5, <1>6, <1>7 DEF Next

LEMMA InitFits == Init => IInv
<1> SUFFICES ASSUME Init PROVE Bounded
  BY DEF IInv
<1>1. outLog \in Logs BY EmptySeq DEF Init, Logs
<1>2. \A q \in Peer : Len(outLog[q]) = 0 BY EmptySeq DEF Init
<1>3. FitIn(outLog, inSeq) BY <1>2, OtherIsPeer DEF Init, FitIn, NextKey
<1>4. FitNets(outLog, net) /\ FitTodo(outLog, todo) /\ FitGiven(outLog, delivered)
  BY EmptySeq DEF Init, FitNets, FitTodo, FitGiven
<1>5. /\ FitSets(outLog, pending) /\ FitSets(outLog, replay) /\ FitQueue(outLog, queue)
      /\ FitHello(outLog, hello)
  BY DEF Init, FitSets, FitQueue, FitHello
<1> QED BY <1>3, <1>4, <1>5 DEF Bounded

(* While neither process has been restarted, in_msg_seq_num of either side *)
(* is at most one above what the other has compiled: for any limits on     *)
(* messages, logouts, connections, drops and late Logons, and through any  *)
(* interleaving of gaps on both sides.                                     *)
THEOREM NeverAheadWithoutRestart == Spec => [](NoRestart => NeverAhead)
<1>1. TypeOK /\ IInv /\ [Next]_vars => IInv' BY StepFits
<1>2. IInv => (NoRestart => NeverAhead)
  BY DEF IInv, Bounded, FitIn, NeverAhead
<1> QED BY <1>1, <1>2, InitFits, TypeCorrect, PTL DEF Spec

(* While neither process has been restarted, whatever an application is    *)
(* given under a number is what the other one compiled and stored under    *)
(* it: on_message never gets a number of a session message, of a hole, or  *)
(* one that was not used, in whatever order gaps, playbacks, gap fills,    *)
(* replayed messages, drops and late Logons come.                          *)
THEOREM WasSentWithoutRestart == Spec => [](NoRestart => WasSent)
<1>1. TypeOK /\ IInv /\ [Next]_vars => IInv' BY StepFits
<1>2. TypeOK /\ IInv => (NoRestart => WasSent)
  <2> SUFFICES ASSUME TypeOK, Bounded, NEW p \in Peer, NEW n \in Given(p)
               PROVE  n \in DOMAIN outLog[Other(p)] /\ outLog[Other(p)][n] = "app"
    BY DEF IInv, WasSent
  <2>1. delivered[p] \in Seq(Stored(outLog, Other(p))) BY DEF Bounded, FitGiven
  <2>2. n \in Stored(outLog, Other(p)) BY <2>1, ElementOfSeq, LenProperties DEF Given
  <2>3. DOMAIN outLog[Other(p)] = 1..Len(outLog[Other(p)])
    BY OtherOfOther, LenProperties DEF TypeOK
  <2> QED BY <2>2, <2>3 DEF Stored
<1> QED BY <1>1, <1>2, InitFits, TypeCorrect, PTL DEF Spec
=============================================================================
