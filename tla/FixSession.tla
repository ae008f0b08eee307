------------------------------ MODULE FixSession ------------------------------
(***************************************************************************)
(* Two FIX sessions of pyfix, an initiator and an acceptor, and the TCP    *)
(* connections between them: pyfix/FIXProtocol.py (the protocol and its    *)
(* state objects), pyfix/Session.py (sequence numbers, persistence),       *)
(* pyfix/ProtocolFactories.py (who may connect) and                        *)
(* pyfix/persistence/BerkeleyPersister.py (what a restart finds).          *)
(*                                                                         *)
(* A callback of the reactor is one or more steps: todo[p] is what is left *)
(* of the callback p is running.  No other callback of p starts before it  *)
(* is empty; the peer may run, and p may crash, in between.                *)
(***************************************************************************)
EXTENDS Naturals, Sequences, FiniteSets

CONSTANTS
  Initiator, Acceptor,  \* the two sessions
  Senders,              \* those whose application sends business messages
  Limit                 \* how often each event of the environment may happen

Peer == {Initiator, Acceptor}

(* "app": an application message is compiled and written; "skip": compiled *)
(* and persisted, never written; "hole": neither persisted nor written     *)
(* (the three kinds of order testIntermittentGaps.py sends).  "beat": the  *)
(* heartbeat timer fires.  "late": the acceptor reads the Logon of a       *)
(* connection the initiator has given up.  "newday": a restart after       *)
(* midnight, which opens the empty databases of another directory.         *)
Budget == {"app", "skip", "hole", "beat", "logoff",
           "connect", "late", "drop", "crash", "newday"}

ASSUME PeersDiffer == Initiator # Acceptor
ASSUME SendersArePeers == Senders \subseteq Peer
ASSUME LimitIsNat == Limit \in [Budget -> Nat]

VARIABLES
  state,      \* state object of the protocol bound to the session
  conn,       \* the connection of that protocol, 0 when there is none
  closing,    \* callLater(0, clean_up_and_die) is pending
  want,       \* want_to_be_logged_in of the acceptor's session
  inSeq,      \* Session.in_msg_seq_num
  inLast,     \* last key of in_db, 0 when it is empty
  outLog,     \* outLog[p][n]: what p compiled with sequence number n
  miss,       \* GapProcessing.gaps
  last,       \* GapProcessing.last_sequence
  queue,      \* GapProcessing.gap_queue
  pending,    \* GapProcessing.pending_application_messages
  replay,     \* filtered_items not yet replayed
  todo,       \* the rest of the running callback
  net,        \* net[p]: what p's current connection has still to give it
  hello,      \* connections whose Logon the acceptor has not read yet
  delivered,  \* history: application messages given to app.on_message
  used        \* history: how often each event of the environment happened

protocolVars == <<state, conn, closing>>
storeVars    == <<inSeq, inLast, outLog>>
gapVars      == <<miss, last, queue, pending>>
callVars     == <<replay, todo>>
envVars      == <<want, hello, used>>
vars == <<protocolVars, storeVars, gapVars, callVars, net, delivered, envVars>>

-----------------------------------------------------------------------------
Other(p) == IF p = Initiator THEN Acceptor ELSE Initiator

State == {"loggedOut", "awaitingLogon", "normal", "gap", "awaitingLogout"}

(* What out_db holds at a number: a message of the application, one of the *)
(* session, or nothing (compile_message with persist=False).               *)
Kind == {"app", "session", "unsaved"}

MsgType == {"Logon", "Logout", "Heartbeat", "ResendRequest", "GapFill", "App"}

(* arg is BeginSeqNo of a ResendRequest and NewSeqNo of a GapFill (a       *)
(* SequenceReset with GapFillFlag 'Y', the only one the code sends).       *)
Message == [type: MsgType, seq: Nat, dup: BOOLEAN, arg: Nat]

(* play: resend seq..to.  open: start GapProcessing on message seq.        *)
(* persist and save: persist_and_advance with and without the check.       *)
(* drain: the gaps are filled.  replay: feed back the pending messages.    *)
Task == [do: {"play", "open", "persist", "save", "drain", "replay"},
         seq: Nat, to: Nat]

Do(what, seq) == [do |-> what, seq |-> seq, to |-> 0]

Resting(p) == todo[p] = <<>>

Spend(k) == /\ used[k] < Limit[k]
            /\ used' = [used EXCEPT ![k] = @ + 1]

-----------------------------------------------------------------------------
(* Writing.  n is net after the message at hand was taken from it, c the   *)
(* connection of p.  What is written to a connection the peer has given up *)
(* is lost.                                                                *)
Wire(n, p, c, msgs) ==
  IF c # 0 /\ c = conn[Other(p)]
  THEN [n EXCEPT ![Other(p)] = @ \o msgs]
  ELSE n

Item(type, arg, kind) == [type |-> type, arg |-> arg, kind |-> kind]
Admin(type) == Item(type, 0, "session")
LogoutReply == Item("Logout", 0, "unsaved")
ResendFrom(begin) == Item("ResendRequest", begin, "session")

Numbered(p, batch) ==
  [k \in DOMAIN batch |-> [type |-> batch[k].type, seq |-> Len(outLog[p]) + k,
                           dup |-> FALSE, arg |-> batch[k].arg]]

(* compile_message for each item of the batch, then transport.write.       *)
Record(p, batch) ==
  outLog' = [outLog EXCEPT ![p] = @ \o [k \in DOMAIN batch |-> batch[k].kind]]

Emit(p, c, n, batch) ==
  /\ Record(p, batch)
  /\ net' = Wire(n, p, c, Numbered(p, batch))

(* clean_up_and_die, and what becomes of the connection: the session is    *)
(* released, the state objects go with the protocol.                       *)
Die(p, n) ==
  /\ state' = [state EXCEPT ![p] = "loggedOut"]
  /\ conn' = [conn EXCEPT ![p] = 0]
  /\ closing' = [closing EXCEPT ![p] = FALSE]
  /\ miss' = [miss EXCEPT ![p] = {}]
  /\ last' = [last EXCEPT ![p] = 0]
  /\ queue' = [queue EXCEPT ![p] = {}]
  /\ pending' = [pending EXCEPT ![p] = {}]
  /\ replay' = [replay EXCEPT ![p] = {}]
  /\ todo' = [todo EXCEPT ![p] = <<>>]
  /\ net' = [n EXCEPT ![p] = <<>>]

(* An exception out of dataReceived: the reactor drops the connection,     *)
(* connectionLost runs clean_up_and_die.  Session state set before stays.  *)
Raise(p, n) ==
  /\ Die(p, n)
  /\ UNCHANGED <<storeVars, delivered>>

-----------------------------------------------------------------------------
(* The numbers GapProcessing asks for: those it never saw and that of the  *)
(* message that opened the gap, which it does not keep.                    *)
MissingShort(p, seq) == inSeq[p]..(seq - 1)
Missing(p, seq) == inSeq[p]..seq

(* GapProcessing(protocol, msg, seq) and set_state.  The ResendRequest is  *)
(* part of the caller's batch.                                             *)
StartGap(p, seq) ==
  /\ state' = [state EXCEPT ![p] = "gap"]
  /\ miss' = [miss EXCEPT ![p] = Missing(p, seq)]
  /\ last' = [last EXCEPT ![p] = seq]
  /\ queue' = [queue EXCEPT ![p] = {}]
  /\ pending' = [pending EXCEPT ![p] = {}]
  /\ inSeq' = [inSeq EXCEPT ![p] = seq + 1]

(* on_resend_request: the part begin..end of out_db still to be resent.    *)
Playback(begin, end) ==
  IF begin > end THEN <<>> ELSE <<[do |-> "play", seq |-> begin, to |-> end]>>

PlaybackShort(p, m) == Playback(m.arg, Len(outLog[p]) - 1)
PlaybackAll(p, m) == Playback(m.arg, Len(outLog[p]))

(* getNextSeq: the number after the last key, 1 in an empty database.      *)
NextKeyLow(lastKey) == lastKey
NextKey(lastKey) == lastKey + 1

(* persist_and_advance(check_in_sequence=True) would pass its assertion.   *)
PersistableStrict(p, seq) == seq > NextKey(inLast[p])
Persistable(p, seq) == seq >= NextKey(inLast[p])

PersistAdvanceAdmin(p, seq) ==
  /\ inLast' = [inLast EXCEPT ![p] = IF seq > @ THEN seq ELSE @]
  /\ inSeq' = [inSeq EXCEPT ![p] =
                 IF \E i \in DOMAIN delivered[p] : delivered[p][i] = seq THEN @ ELSE seq + 1]

PersistAndAdvance(p, seq) ==
  /\ inLast' = [inLast EXCEPT ![p] = IF seq > @ THEN seq ELSE @]
  /\ inSeq' = [inSeq EXCEPT ![p] = seq + 1]

(* The state objects take m; n is net without it, left and rest are what   *)
(* remains to replay and to do when the message comes from the loop of     *)
(* GapProcessing.on_msg, and empty when it comes from the connection.      *)

(* NormalMessageProcessing.on_msg, msg in sequence: the session's handler, *)
(* app.on_message, persist_and_advance.                                    *)
InSequence(p, m, n, rest) ==
  LET finish(first) == todo' = [todo EXCEPT ![p] = first \o <<Do("persist", m.seq)>> \o rest]
  IN
  \/ /\ m.type = "App"
     /\ delivered' = [delivered EXCEPT ![p] = Append(@, m.seq)]
     /\ finish(<<>>)
     /\ net' = n
     /\ UNCHANGED <<protocolVars, storeVars, gapVars>>
  \/ /\ m.type = "Heartbeat"
     /\ finish(<<>>)
     /\ net' = n
     /\ UNCHANGED <<protocolVars, storeVars, gapVars, delivered>>
  \/ /\ m.type = "ResendRequest"
     /\ finish(PlaybackAll(p, m))
     /\ net' = n
     /\ UNCHANGED <<protocolVars, storeVars, gapVars, delivered>>
  \/ /\ m.type = "Logout"
     /\ Emit(p, conn[p], n, <<LogoutReply>>)
     /\ closing' = [closing EXCEPT ![p] = TRUE]
     /\ finish(<<>>)
     /\ UNCHANGED <<state, conn, inSeq, inLast, gapVars, delivered>>

(* NormalMessageProcessing.on_msg, msg out of sequence, higher or lower.   *)
OutOfSequence(p, m, n, rest) ==
  \/ /\ m.type = "ResendRequest"
     /\ todo' = [todo EXCEPT ![p] = PlaybackAll(p, m) \o <<Do("open", m.seq)>> \o rest]
     /\ net' = n
     /\ UNCHANGED <<protocolVars, storeVars, gapVars, delivered>>
  \/ /\ m.type \in {"App", "Heartbeat"}
     /\ StartGap(p, m.seq)
     /\ Emit(p, conn[p], n, <<ResendFrom(inSeq[p])>>)
     /\ todo' = [todo EXCEPT ![p] = rest]
     /\ UNCHANGED <<conn, closing, inLast, delivered>>
  \/ /\ m.type = "Logout"
     /\ StartGap(p, m.seq)
     /\ Emit(p, conn[p], n, <<ResendFrom(inSeq[p]), LogoutReply>>)
     /\ closing' = [closing EXCEPT ![p] = TRUE]
     /\ todo' = [todo EXCEPT ![p] = rest]
     /\ UNCHANGED <<conn, inLast, delivered>>

(* A duplicate raises AttributeError (session.inDb), a second Logon        *)
(* IllegalStateTransition.                                                 *)
OnMsgNormal(p, m, n, left, rest) ==
  IF m.dup \/ m.type \in {"Logon", "GapFill"}
  THEN Raise(p, n)
  ELSE /\ IF m.seq = inSeq[p] THEN InSequence(p, m, n, rest)
                              ELSE OutOfSequence(p, m, n, rest)
       /\ replay' = [replay EXCEPT ![p] = left]

(* The end of GapProcessing.on_msg: what follows when no gap is left.      *)
WhenFilled(gaps) == IF gaps = {} THEN <<Do("drain", 0)>> ELSE <<>>

(* A gap fill never moves in_msg_seq_num back.                             *)
AdvanceBlindly(current, newSeqNo) == newSeqNo
Advance(current, newSeqNo) == IF newSeqNo > current THEN newSeqNo ELSE current

OnGapFill(p, m, n, left, rest) ==
  LET covered == m.seq..(m.arg - 1)
      gaps == miss[p] \ covered
  IN
  /\ inSeq' = [inSeq EXCEPT ![p] = Advance(@, m.arg)]
  /\ UNCHANGED <<inLast, outLog, delivered>>
  /\ \/ /\ \A i \in covered : i \in miss[p] \/ i > last[p]
        /\ miss' = [miss EXCEPT ![p] = gaps]
        /\ todo' = [todo EXCEPT ![p] = WhenFilled(gaps) \o rest]
        /\ net' = n
        /\ replay' = [replay EXCEPT ![p] = left]
        /\ UNCHANGED <<protocolVars, last, queue, pending>>
     \/ /\ \E i \in covered : i \notin miss[p] /\ i <= last[p]
        /\ Die(p, n)

(* The one message that is not put aside while a gap is open.              *)
UrgentNone(m) == FALSE
Urgent(m) == m.type = "ResendRequest"

(* GapProcessing.on_msg.                                                   *)
OnMsgGap(p, m, n, left, rest) ==
  \/ /\ m.type = "GapFill"
     /\ OnGapFill(p, m, n, left, rest)
  \/ /\ Urgent(m) /\ ~m.dup
     /\ todo' = [todo EXCEPT ![p] =
                   PlaybackAll(p, m)
                   \o (IF m.seq = inSeq[p] THEN <<Do("persist", m.seq)>> ELSE <<>>)
                   \o WhenFilled(miss[p]) \o rest]
     /\ net' = n
     /\ replay' = [replay EXCEPT ![p] = left]
     /\ UNCHANGED <<protocolVars, storeVars, gapVars, delivered>>
  \/ /\ m.type # "GapFill" /\ ~Urgent(m) /\ ~m.dup
     /\ pending' = [pending EXCEPT ![p] = @ \cup {m}]
     /\ todo' = [todo EXCEPT ![p] = WhenFilled(miss[p]) \o rest]
     /\ net' = n
     /\ replay' = [replay EXCEPT ![p] = left]
     /\ UNCHANGED <<protocolVars, storeVars, miss, last, queue, delivered>>
  \/ /\ m.type # "GapFill" /\ m.dup
     /\ LET recovered == m.seq \in miss[p] \/ m.seq > last[p]
            gaps == miss[p] \ {m.seq}
        IN /\ miss' = [miss EXCEPT ![p] = gaps]
           /\ queue' = [queue EXCEPT ![p] = IF recovered THEN @ \cup {m.seq} ELSE @]
           /\ todo' = [todo EXCEPT ![p] = WhenFilled(gaps) \o rest]
     /\ net' = n
     /\ replay' = [replay EXCEPT ![p] = left]
     /\ UNCHANGED <<protocolVars, storeVars, last, pending, delivered>>

(* AwaitingLogout.on_msg: nothing but a Logout counts, and nothing is      *)
(* persisted.                                                              *)
OnMsgAwaitingLogoutCounted(p, m, n) ==
  /\ closing' = [closing EXCEPT ![p] = @ \/ m.type = "Logout"]
  /\ net' = n
  /\ PersistAndAdvance(p, m.seq)
  /\ UNCHANGED <<state, conn, outLog, gapVars, callVars, delivered>>

OnMsgAwaitingLogout(p, m, n) ==
  /\ closing' = [closing EXCEPT ![p] = @ \/ m.type = "Logout"]
  /\ net' = n
  /\ UNCHANGED <<state, conn, storeVars, gapVars, callVars, delivered>>

(* AwaitingLogon.on_msg of p on connection c: reply is what logon_processing *)
(* sends.  In sequence, send_heartbeat at its end finds the normal state   *)
(* and sends one.                                                          *)
LogonInSequence(p, c, n, reply, seq) ==
  /\ seq = inSeq[p] /\ Persistable(p, seq)
  /\ PersistAndAdvance(p, seq)
  /\ state' = [state EXCEPT ![p] = "normal"]
  /\ Emit(p, c, n, reply \o <<Admin("Heartbeat")>>)
  /\ UNCHANGED <<gapVars, closing, callVars, delivered>>

LogonOutOfSequence(p, c, n, reply, seq) ==
  /\ seq # inSeq[p]
  /\ StartGap(p, seq)
  /\ Emit(p, c, n, reply \o <<ResendFrom(inSeq[p])>>)
  /\ UNCHANGED <<inLast, closing, callVars, delivered>>

OnMsgAwaitingLogon(p, m, n) ==
  \/ /\ m.type = "Logon" /\ ~m.dup
     /\ \/ LogonInSequence(p, conn[p], n, <<>>, m.seq)
        \/ LogonOutOfSequence(p, conn[p], n, <<>>, m.seq)
     /\ UNCHANGED conn
  \/ /\ \/ m.type # "Logon" \/ m.dup
        \/ m.seq = inSeq[p] /\ ~Persistable(p, m.seq)
     /\ Raise(p, n)

-----------------------------------------------------------------------------
(* dataReceived: the next message of the connection.                       *)
Deliver(p) ==
  /\ Resting(p) /\ ~closing[p] /\ net[p] # <<>>
  /\ LET m == Head(net[p])
         n == [net EXCEPT ![p] = Tail(@)]
     IN \/ state[p] = "awaitingLogon" /\ OnMsgAwaitingLogon(p, m, n)
        \/ state[p] = "normal" /\ OnMsgNormal(p, m, n, {}, <<>>)
        \/ state[p] = "gap" /\ OnMsgGap(p, m, n, {}, <<>>)
        \/ state[p] = "awaitingLogout" /\ OnMsgAwaitingLogout(p, m, n)
  /\ UNCHANGED envVars

(* The steps of a callback after its first.                                *)
Doing(p, what) == todo[p] # <<>> /\ Head(todo[p]).do = what
Then(p, first) == todo' = [todo EXCEPT ![p] = first \o Tail(@)]

(* Resend one stored application message, or one run of numbers that hold  *)
(* none as a SequenceReset, neither persisted nor numbered anew.           *)
StoredAny(p, i) == outLog[p][i] # "unsaved"
StoredApp(p, i) == outLog[p][i] = "app"

LastOfItem(p, i, end) ==
  {j \in i..end : IF StoredApp(p, i)
                  THEN j = i
                  ELSE /\ \A k \in i..j : ~StoredApp(p, k)
                       /\ j = end \/ StoredApp(p, j + 1)}

ResentTooFar(p, i, j) ==
  IF StoredApp(p, i)
  THEN [type |-> "App", seq |-> i, dup |-> TRUE, arg |-> 0]
  ELSE [type |-> "GapFill", seq |-> i, dup |-> TRUE, arg |-> j + 2]

ResentItem(p, i, j) ==
  IF StoredApp(p, i)
  THEN [type |-> "App", seq |-> i, dup |-> TRUE, arg |-> 0]
  ELSE [type |-> "GapFill", seq |-> i, dup |-> TRUE, arg |-> j + 1]

Play(p) ==
  /\ Doing(p, "play")
  /\ LET i == Head(todo[p]).seq
         end == Head(todo[p]).to
     IN \E j \in LastOfItem(p, i, end) :
          /\ net' = Wire(net, p, conn[p], <<ResentItem(p, i, j)>>)
          /\ Then(p, Playback(j + 1, end))
  /\ UNCHANGED <<protocolVars, storeVars, gapVars, replay, delivered, envVars>>

Open(p) ==
  /\ Doing(p, "open")
  /\ StartGap(p, Head(todo[p]).seq)
  /\ Emit(p, conn[p], net, <<ResendFrom(inSeq[p])>>)
  /\ Then(p, <<>>)
  /\ UNCHANGED <<conn, closing, inLast, replay, delivered, envVars>>

Persist(p) ==
  /\ Doing(p, "persist") \/ Doing(p, "save")
  /\ LET seq == Head(todo[p]).seq
     IN \/ /\ Doing(p, "save") \/ Persistable(p, seq)
           /\ PersistAndAdvance(p, seq)
           /\ Then(p, <<>>)
           /\ UNCHANGED <<protocolVars, outLog, gapVars, replay, net, delivered>>
        \/ /\ Doing(p, "persist") /\ ~Persistable(p, seq)
           /\ Raise(p, net)
  /\ UNCHANGED envVars

(* The gaps are filled: the recovered messages go to the application in    *)
(* order, those below in_msg_seq_num without being persisted.              *)
DrainUnsorted(p) ==
  /\ Doing(p, "drain")
  /\ \E s \in queue[p] :
       /\ delivered' = [delivered EXCEPT ![p] = Append(@, s)]
       /\ queue' = [queue EXCEPT ![p] = @ \ {s}]
       /\ todo' = [todo EXCEPT ![p] =
                     (IF s < inSeq[p] THEN <<>> ELSE <<Do("save", s)>>) \o @]
  /\ UNCHANGED <<protocolVars, storeVars, miss, last, pending, replay, net, envVars>>

Drain(p) ==
  /\ Doing(p, "drain")
  /\ \E s \in queue[p] :
       /\ \A x \in queue[p] : s <= x
       /\ delivered' = [delivered EXCEPT ![p] = Append(@, s)]
       /\ queue' = [queue EXCEPT ![p] = @ \ {s}]
       /\ todo' = [todo EXCEPT ![p] =
                     (IF s < inSeq[p] THEN <<>> ELSE <<Do("save", s)>>) \o @]
  /\ UNCHANGED <<protocolVars, storeVars, miss, last, pending, replay, net, envVars>>

(* ... and then back to normal processing, which gets the messages that    *)
(* were put aside and that no gap fill has covered.                        *)
Unseen(p) == {m \in pending[p] : m.seq >= inSeq[p]}

Drained(p) ==
  /\ Doing(p, "drain") /\ queue[p] = {}
  /\ state' = [state EXCEPT ![p] = "normal"]
  /\ replay' = [replay EXCEPT ![p] = Unseen(p)]
  /\ Then(p, IF Unseen(p) = {} THEN <<>> ELSE <<Do("replay", 0)>>)
  /\ pending' = [pending EXCEPT ![p] = {}]
  /\ miss' = [miss EXCEPT ![p] = {}]
  /\ last' = [last EXCEPT ![p] = 0]
  /\ UNCHANGED <<conn, closing, storeVars, queue, net, delivered, envVars>>

(* protocol.state.on_msg(v, seq, False): the state may change on the way.  *)
Replay(p) ==
  /\ Doing(p, "replay")
  /\ \E m \in replay[p] :
       LET left == replay[p] \ {m}
           rest == (IF left = {} THEN <<>> ELSE <<Do("replay", 0)>>) \o Tail(todo[p])
       IN /\ \A x \in replay[p] : m.seq <= x.seq
          /\ \/ state[p] = "normal" /\ OnMsgNormal(p, m, net, left, rest)
             \/ state[p] = "gap" /\ OnMsgGap(p, m, net, left, rest)
  /\ UNCHANGED envVars

Continue(p) == Play(p) \/ Open(p) \/ Persist(p) \/ Drain(p) \/ Drained(p) \/ Replay(p)

-----------------------------------------------------------------------------
(* InitiatorFactory.logon, buildProtocol and connectionMade: the session   *)
(* is bound before anything is received, the Logon is on its way.          *)
Connect ==
  LET c == used["connect"] + 1
      logon == Admin("Logon")
  IN
  /\ state[Initiator] = "loggedOut" /\ Resting(Initiator)
  /\ Spend("connect")
  /\ state' = [state EXCEPT ![Initiator] = "awaitingLogon"]
  /\ conn' = [conn EXCEPT ![Initiator] = c]
  /\ Record(Initiator, <<logon>>)
  /\ hello' = hello \cup {[conn |-> c, seq |-> Len(outLog[Initiator]) + 1]}
  /\ UNCHANGED <<closing, inSeq, inLast, gapVars, callVars, net, delivered, want>>

(* AcceptorAwaitingLogon.on_msg: the new protocol is bound and answers ... *)
AcceptLogon(h) ==
  /\ Resting(Acceptor)
  /\ state[Acceptor] = "loggedOut" /\ want
  /\ conn' = [conn EXCEPT ![Acceptor] = h.conn]
  /\ \/ LogonInSequence(Acceptor, h.conn, net, <<Admin("Logon")>>, h.seq)
     \/ LogonOutOfSequence(Acceptor, h.conn, net, <<Admin("Logon")>>, h.seq)
  /\ UNCHANGED want

(* ... or raises: want_to_be_logged_in is off, bind_protocol finds the     *)
(* session still bound to the protocol of an earlier connection, or        *)
(* persist_and_advance refuses the number after the reply was compiled.    *)
RefuseLogon(h) ==
  /\ Resting(Acceptor)
  /\ \/ /\ state[Acceptor] # "loggedOut" \/ ~want
        /\ UNCHANGED outLog
     \/ /\ state[Acceptor] = "loggedOut" /\ want
        /\ h.seq = inSeq[Acceptor] /\ ~Persistable(Acceptor, h.seq)
        /\ Record(Acceptor, <<Admin("Logon")>>)
  /\ UNCHANGED <<protocolVars, inSeq, inLast, gapVars, callVars, net, delivered, want>>

(* The connection is gone before its Logon was read.                       *)
HelloLost(h) ==
  /\ h.conn # conn[Initiator]
  /\ hello' = hello \ {h}
  /\ UNCHANGED <<protocolVars, storeVars, gapVars, callVars, net, delivered, want, used>>

(* connectionLost.  What was still to be read may be lost with it.         *)
PeerGone(p) == /\ conn[Other(p)] # conn[p]
               /\ ~ \E h \in hello : h.conn = conn[p]

ConnectionLost(p) ==
  /\ Resting(p) /\ conn[p] # 0 /\ PeerGone(p)
  /\ Die(p, net)
  /\ UNCHANGED <<storeVars, delivered, envVars>>

(* The same for a network failure, which p happens to notice first.        *)
Drop(p) ==
  /\ Resting(p) /\ conn[p] # 0
  /\ Spend("drop")
  /\ Die(p, net)
  /\ UNCHANGED <<storeVars, delivered, want, hello>>

(* The callLater(0, clean_up_and_die) of on_logout and AwaitingLogout.     *)
CleanUp(p) ==
  /\ Resting(p) /\ closing[p]
  /\ Die(p, net)
  /\ UNCHANGED <<storeVars, delivered, envVars>>

-----------------------------------------------------------------------------
(* The application compiles a message; sent tells whether it writes it.    *)
AppSend(p, kind, sent) ==
  /\ p \in Senders /\ Resting(p)
  /\ sent => state[p] \in {"normal", "gap"}
  /\ IF sent THEN Emit(p, conn[p], net, <<Item("App", 0, kind)>>)
             ELSE Record(p, <<Item("App", 0, kind)>>) /\ UNCHANGED net
  /\ UNCHANGED <<protocolVars, inSeq, inLast, gapVars, callVars, delivered, want, hello>>

Send(p) == Spend("app")  /\ AppSend(p, "app", TRUE)
Skip(p) == Spend("skip") /\ AppSend(p, "app", FALSE)
Hole(p) == Spend("hole") /\ AppSend(p, "unsaved", FALSE)

(* The timer of send_heartbeat, which in any other state only rearms.      *)
SendHeartbeat(p) ==
  /\ Resting(p) /\ state[p] = "normal"
  /\ Spend("beat")
  /\ Emit(p, conn[p], net, <<Admin("Heartbeat")>>)
  /\ UNCHANGED <<protocolVars, inSeq, inLast, gapVars, callVars, delivered, want, hello>>

(* Session.logoff(again): outside the normal state _logoff drops the       *)
(* connection and cleans up (and then raises, with no session left).       *)
Logoff(p, again) ==
  /\ Resting(p) /\ state[p] # "loggedOut"
  /\ Spend("logoff")
  /\ want' = IF p = Acceptor THEN again ELSE want
  /\ \/ /\ state[p] = "normal"
        /\ Emit(p, conn[p], net, <<Admin("Logout")>>)
        /\ state' = [state EXCEPT ![p] = "awaitingLogout"]
        /\ UNCHANGED <<conn, closing, inSeq, inLast, gapVars, callVars, delivered>>
     \/ /\ state[p] # "normal"
        /\ Die(p, net)
        /\ UNCHANGED <<storeVars, delivered>>
  /\ UNCHANGED hello

(* Session.logon of the acceptor's session.                                *)
AllowLogon ==
  /\ Resting(Acceptor) /\ state[Acceptor] = "loggedOut" /\ ~want
  /\ want' = TRUE
  /\ UNCHANGED <<protocolVars, storeVars, gapVars, callVars, net, delivered, hello, used>>

(* getNextSeq finds the last key: what was not saved at the end is gone.   *)
LastSaved(log) ==
  {k \in 0..Len(log) : /\ k > 0 => log[k] # "unsaved"
                       /\ \A i \in (k + 1)..Len(log) : log[i] = "unsaved"}

(* The process of p dies at any point and is started again.                *)
Restart(p, n) ==
  /\ Die(p, n)
  /\ want' = (want \/ p = Acceptor)
  /\ hello' = IF p = Acceptor THEN {} ELSE hello
  /\ UNCHANGED delivered

(* The acceptor answers the Logon h and dies before it has persisted it.   *)
AcceptorFree == Resting(Acceptor) /\ state[Acceptor] = "loggedOut" /\ want

DieAnswering(h) ==
  LET reply == <<Admin("Logon")>> IN
  /\ AcceptorFree
  /\ Record(Acceptor, reply)
  /\ Restart(Acceptor, Wire(net, Acceptor, h.conn, Numbered(Acceptor, reply)))

(* The same day, set_persister takes the sequence numbers from the         *)
(* databases.                                                              *)
Crash(p) ==
  /\ Spend("crash")
  /\ inSeq' = [inSeq EXCEPT ![p] = NextKey(inLast[p])]
  /\ UNCHANGED inLast
  /\ \/ /\ Restart(p, net)
        /\ \E k \in LastSaved(outLog[p]) : outLog' = [outLog EXCEPT ![p] = SubSeq(@, 1, k)]
     \/ p = Acceptor /\ \E h \in hello : DieAnswering(h)

NextDay(p) ==
  /\ Spend("newday")
  /\ Restart(p, net)
  /\ inSeq' = [inSeq EXCEPT ![p] = NextKey(0)]
  /\ inLast' = [inLast EXCEPT ![p] = 0]
  /\ outLog' = [outLog EXCEPT ![p] = <<>>]

-----------------------------------------------------------------------------
Init ==
  /\ state = [p \in Peer |-> "loggedOut"]
  /\ conn = [p \in Peer |-> 0]
  /\ closing = [p \in Peer |-> FALSE]
  /\ want = TRUE
  /\ inSeq = [p \in Peer |-> NextKey(0)]
  /\ inLast = [p \in Peer |-> 0]
  /\ outLog = [p \in Peer |-> <<>>]
  /\ miss = [p \in Peer |-> {}]
  /\ last = [p \in Peer |-> 0]
  /\ queue = [p \in Peer |-> {}]
  /\ pending = [p \in Peer |-> {}]
  /\ replay = [p \in Peer |-> {}]
  /\ todo = [p \in Peer |-> <<>>]
  /\ net = [p \in Peer |-> <<>>]
  /\ hello = {}
  /\ delivered = [p \in Peer |-> <<>>]
  /\ used = [k \in Budget |-> 0]

System(p) == Deliver(p) \/ Continue(p) \/ ConnectionLost(p) \/ CleanUp(p)

ReadLogon ==
  \E h \in hello :
    /\ IF h.conn = conn[Initiator] THEN UNCHANGED used ELSE Spend("late")
    /\ hello' = hello \ {h}
    /\ AcceptLogon(h) \/ RefuseLogon(h)

Environment(p) ==
  \/ Send(p) \/ Skip(p) \/ Hole(p) \/ SendHeartbeat(p)
  \/ \E again \in BOOLEAN : Logoff(p, again)
  \/ Drop(p) \/ Crash(p) \/ NextDay(p)

Next ==
  \/ \E p \in Peer : System(p) \/ Environment(p)
  \/ ReadLogon
  \/ \E h \in hello : HelloLost(h)
  \/ Connect \/ AllowLogon

Spec == Init /\ [][Next]_vars

(* The reactors run: what was received, lost or scheduled with             *)
(* callLater(0) is handled in the end.  Nothing is assumed of the users.   *)
Fairness == (\A p \in Peer : WF_vars(System(p))) /\ WF_vars(ReadLogon)

FairSpec == Spec /\ Fairness
-----------------------------------------------------------------------------
(* Type invariant.                                                         *)
TypeOK ==
  /\ state \in [Peer -> State]
  /\ conn \in [Peer -> Nat]
  /\ closing \in [Peer -> BOOLEAN]
  /\ want \in BOOLEAN
  /\ inSeq \in [Peer -> Nat \ {0}]
  /\ inLast \in [Peer -> Nat]
  /\ outLog \in [Peer -> Seq(Kind)]
  /\ miss \in [Peer -> SUBSET Nat]
  /\ last \in [Peer -> Nat]
  /\ queue \in [Peer -> SUBSET Nat]
  /\ pending \in [Peer -> SUBSET Message]
  /\ replay \in [Peer -> SUBSET Message]
  /\ todo \in [Peer -> Seq(Task)]
  /\ net \in [Peer -> Seq(Message)]
  /\ hello \subseteq [conn: Nat, seq: Nat]
  /\ delivered \in [Peer -> Seq(Nat)]
  /\ used \in [Budget -> Nat]

(* in_msg_seq_num never runs ahead of what the peer has compiled: no       *)
(* message of the peer can ever come with a number already taken as        *)
(* received, whatever gap fills have covered.  (As long as no process      *)
(* restarts: with a restart see AheadOfForgottenOnly.)                     *)
NeverAhead == \A p \in Peer : inSeq[p] <= Len(outLog[Other(p)]) + 1

(* The same through crashes.  A peer that crashes uses the numbers of its  *)
(* last messages again if they were not persisted, and a gap fill may have *)
(* covered them before: in_msg_seq_num is then ahead by no more than the   *)
(* orders compiled with persist=False.  In particular the number of a      *)
(* Logout reply, which on_logout does not persist, is never counted, and   *)
(* neither is anything that was stored.                                    *)
Forgettable == IF used["crash"] = 0 THEN 0 ELSE used["hole"]

AheadOfForgottenOnly ==
  used["newday"] = 0 =>
    \A p \in Peer : inSeq[p] <= Len(outLog[Other(p)]) + 1 + Forgettable

(* What app.on_message got under a number is what the peer's application   *)
(* compiled under it: a playback of out_db, its gap fills and the renamed  *)
(* headers of resent messages never shift a number.                        *)
Given(p) == {delivered[p][i] : i \in DOMAIN delivered[p]}

WasSent == \A p \in Peer : \A n \in Given(p) :
             /\ n \in DOMAIN outLog[Other(p)]
             /\ outLog[Other(p)][n] = "app"

(* The application gets every message at most once and in the order of the *)
(* numbers, through resends, gap queue and replayed messages.              *)
InOrder == \A p \in Peer : \A i, j \in DOMAIN delivered[p] :
             i < j => delivered[p][i] < delivered[p][j]

(* What can break it: a restart before persist_and_advance, and a late     *)
(* Logon, which may lower in_msg_seq_num.                                  *)
InOrderUnlessLowered == used["late"] + used["crash"] + used["newday"] = 0 => InOrder

(* A session that is back to normal processing has given its application   *)
(* every stored message below in_msg_seq_num: gaps are closed, not skipped.*)
NothingLost == \A p \in Peer :
  state[p] \in {"normal", "awaitingLogout"} /\ Resting(p) =>
    \A n \in DOMAIN outLog[Other(p)] :
      outLog[Other(p)][n] = "app" /\ n < inSeq[p] => n \in Given(p)

(* The purpose of the protocol (testIntermittentGaps.py): each direction is *)
(* a stream of messages that arrive in order, once, and none before those  *)
(* in front of it, through skipped and unsaved numbers, resends, gap fills *)
(* and replayed messages.                                                  *)
ToInitiator == INSTANCE FixStream WITH sent <- outLog[Acceptor], got <- delivered[Initiator]
ToAcceptor == INSTANCE FixStream WITH sent <- outLog[Initiator], got <- delivered[Acceptor]

BothStreams == ToInitiator!Spec /\ ToAcceptor!Spec

(* The Logon that p is about to read on its connection is in sequence;     *)
(* and the same for a Logon h that the acceptor would accept.              *)
LogonIsNext(p) ==
  /\ Resting(p) /\ state[p] = "awaitingLogon" /\ net[p] # <<>>
  /\ Head(net[p]).type = "Logon" /\ Head(net[p]).seq = inSeq[p]

LogonIsDue(h) == AcceptorFree /\ h.seq = inSeq[Acceptor]

(* The assertion of persist_and_advance holds wherever it is evaluated:    *)
(* behind a handler and for a Logon in sequence, also after a late Logon   *)
(* or a crash has set in_msg_seq_num back.  It fails in one case, a Logon  *)
(* read late when another was read late before it.  (Excluded is a peer    *)
(* that starts the day anew and numbers from 1.)                           *)
PersistAssertion ==
  used["newday"] = 0 =>
    /\ \A p \in Peer :
         /\ Doing(p, "persist") => Persistable(p, Head(todo[p]).seq)
         /\ LogonIsNext(p) => Persistable(p, inSeq[p])
    /\ \A h \in hello :
         LogonIsDue(h) /\ ~Persistable(Acceptor, h.seq) =>
           h.conn # conn[Initiator] /\ used["late"] > 0

(* As long as no peer has forgotten numbers, in_msg_seq_num goes back in   *)
(* two cases only: a restart, which takes it from in_db, and a Logon that  *)
(* the acceptor reads from a connection the initiator has given up.        *)
OnlyLateLogonLowers ==
  [][used'["newday"] = 0 /\ Forgettable' = 0 =>
       \A p \in Peer : inSeq'[p] < inSeq[p] =>
         \/ used'["crash"] # used["crash"]
         \/ p = Acceptor /\ used'["late"] # used["late"]]_vars

(* A gap closes or the connection goes, also when both sides are in a gap  *)
(* and answer each other's ResendRequest.                                  *)
GapHeals == \A p \in Peer : state[p] = "gap" ~> state[p] # "gap"

(* An application message on its way reaches the application, from the     *)
(* pending messages or by a resend if need be, as long as the connection   *)
(* lasts: no message is put aside or discarded for good.                   *)
OnItsWay(p, n) ==
  \E i \in DOMAIN net[p] : net[p][i].type = "App" /\ net[p][i].seq = n

Arrives == \A p \in Peer : \A n \in 1..8 :
  OnItsWay(p, n) ~> (n \in Given(p) \/ conn[p] = 0)

(* testFIXSession.py: a session that asked for logout is logged out.       *)
LogoffEnds == \A p \in Peer : state[p] = "awaitingLogout" ~> state[p] = "loggedOut"
=============================================================================
