------------------------------- MODULE FixTimers -------------------------------
(***************************************************************************)
(* The delayed calls of one FIXProtocol and the clock of the reactor:      *)
(* send_heartbeat, check_heartbeat, check_test_request_acknowledged and    *)
(* clean_up_and_die of pyfix/FIXProtocol.py.                               *)
(*                                                                         *)
(* A pending call is the number of ticks left until it is due, and no tick *)
(* passes while a call is due.  The peer, the gaps in its numbering and    *)
(* the network are the environment: FixSession models them.                *)
(***************************************************************************)
EXTENDS Integers, FiniteSets

CONSTANTS
  Interval,      \* heartbeat_interval, in ticks
  Delays,        \* what random.normalvariate(heartbeat_interval, 1) may give
  MaxDelay,      \* the longest of them
  AckWait,       \* how long a TestRequest may stay unanswered (10 s)
  BeatEvery,     \* longest pause between the Heartbeats of a regular peer
  AnswerWithin   \* longest time a live peer leaves a TestRequest unanswered

ASSUME IntervalAssumption == Interval \in Nat \ {0}
ASSUME DelaysAssumption == MaxDelay \in Nat /\ Delays \subseteq 1..MaxDelay
ASSUME AckWaitAssumption == AckWait \in Nat \ {0}
ASSUME PeerAssumption == BeatEvery \in Nat /\ AnswerWithin \in Nat

(* heartbeat_interval * 1.5                                                *)
CheckWait == (3 * Interval) \div 2

VARIABLES
  phase,     \* state object of the protocol
  link,      \* "losing": after transport.loseConnection, nothing is read
  bound,     \* session.protocol is this protocol
  closing,   \* callLater(0, clean_up_and_die) is pending
  beat,      \* send_heartbeat_call
  checks,    \* heartbeat_checks
  acks,      \* test_request_checks still pending
  fired,     \* test_request_checks holds a call that has been called
  aside,     \* GapProcessing.pending_application_messages
  peer,      \* environment: what kind of peer this is
  answered,  \* environment: the pending requests the peer has answered
  quiet,     \* environment: ticks since the peer's last Heartbeat
  silence    \* history: ticks in the normal state without a sign of life

peerVars  == <<peer, answered, quiet>>
timerVars == <<beat, checks, acks, fired>>
vars == <<phase, link, bound, closing, timerVars, aside, peerVars, silence>>

-----------------------------------------------------------------------------
NoCall == -1

Phase == {"awaitingLogon", "normal", "gap", "awaitingLogout", "loggedOut"}

(* Messages of the peer that bear on the timers and wait for a gap to be   *)
(* filled: a Heartbeat, the answers to test requests, a Logout.            *)
Aside == [beat: BOOLEAN, acks: SUBSET (0..AckWait), logout: BOOLEAN]
NothingAside == [beat |-> FALSE, acks |-> {}, logout |-> FALSE]

(* "answers": a live peer, it answers every TestRequest in time and its    *)
(* messages come without gaps.  "regular": it also sends its Heartbeats in *)
(* time.  "any": nothing is known of it.                                   *)
PeerKind == {"any", "answers", "regular"}

Longest == MaxDelay + CheckWait + AckWait

LoseConnection == link' = IF link = "up" THEN "losing" ELSE link

(* send_heartbeat schedules the next one and the check of this one,        *)
(* whatever the state.                                                     *)
ScheduleBeatLate(d) ==
  /\ beat' = d + MaxDelay
  /\ checks' = checks \cup {CheckWait}

ScheduleBeatOnly(d) ==
  /\ beat' = d
  /\ checks' = checks

ScheduleBeat(d) ==
  /\ beat' = d
  /\ checks' = checks \cup {CheckWait}

(* The loop over the calls: send_heartbeat_call, test_request_checks,      *)
(* heartbeat_checks.  Cancelling a call that has been called raises        *)
(* AlreadyCalled, which the loop does not catch: what comes after it, the  *)
(* release of the session included, does not happen.                       *)
CancelAndReleaseForgetful ==
  /\ beat' = NoCall
  /\ checks' = {}
  /\ acks' = acks
  /\ bound' = FALSE

CancelAndRelease ==
  /\ beat' = NoCall
  /\ \/ ~fired /\ acks' = {} /\ checks' = {} /\ bound' = FALSE
     \/ /\ fired
        /\ \E cancelled \in SUBSET acks : acks' = acks \ cancelled
        /\ UNCHANGED <<checks, bound>>

CleanUpAndDie ==
  \/ /\ phase = "loggedOut"
     /\ UNCHANGED <<phase, bound, beat, checks, acks, aside>>
  \/ /\ phase # "loggedOut"
     /\ phase' = "loggedOut"
     /\ CancelAndRelease
     /\ aside' = NothingAside

-----------------------------------------------------------------------------
Init ==
  /\ phase = "awaitingLogon" /\ link = "up"
  /\ bound \in BOOLEAN          \* an initiator is bound before its Logon
  /\ closing = FALSE
  /\ beat = NoCall /\ checks = {} /\ acks = {} /\ fired = FALSE
  /\ aside = NothingAside
  /\ peer \in PeerKind
  /\ answered = {} /\ quiet = 0 /\ silence = 0

(* AwaitingLogon.on_msg: in sequence or not, send_heartbeat ends it.       *)
LoggedOn ==
  /\ phase = "awaitingLogon" /\ link = "up"
  /\ \/ phase' = "normal"
     \/ phase' = "gap" /\ peer = "any"
  /\ bound' = TRUE
  /\ \E d \in Delays : ScheduleBeat(d)
  /\ quiet' = 0 /\ silence' = 0
  /\ UNCHANGED <<link, closing, acks, fired, aside, peer, answered>>

(* send_heartbeat called by the reactor.                                   *)
SendHeartbeat ==
  /\ beat = 0
  /\ \E d \in Delays : ScheduleBeat(d)
  /\ UNCHANGED <<phase, link, bound, closing, acks, fired, aside, peerVars, silence>>

(* check_heartbeat: a TestRequest, in the normal state only.               *)
CheckHeartbeat ==
  /\ 0 \in checks
  /\ checks' = checks \ {0}
  /\ acks' = IF phase = "normal" THEN acks \cup {AckWait} ELSE acks
  /\ UNCHANGED <<phase, link, bound, closing, beat, fired, aside, peerVars, silence>>

(* check_test_request_acknowledged: in whatever state, Logout, lose the    *)
(* connection, clean up on the reactor's next turn.  The call stays in     *)
(* test_request_checks.                                                    *)
CheckTestRequestAcknowledged ==
  /\ 0 \in acks
  /\ acks' = acks \ {0}
  /\ answered' = answered \ {0}
  /\ aside' = [aside EXCEPT !.acks = @ \ {0}]
  /\ fired' = TRUE
  /\ closing' = TRUE
  /\ LoseConnection
  /\ UNCHANGED <<phase, bound, beat, checks, peer, quiet, silence>>

(* callLater(0, clean_up_and_die).                                         *)
CleanUp ==
  /\ closing
  /\ closing' = FALSE
  /\ CleanUpAndDie
  /\ answered' = {} /\ silence' = 0
  /\ UNCHANGED <<link, fired, peer, quiet>>

ConnectionLost ==
  /\ link # "lost"
  /\ link' = "lost"
  /\ CleanUpAndDie
  /\ answered' = {} /\ silence' = 0
  /\ UNCHANGED <<closing, fired, peer, quiet>>

(* Session.logoff and FIXProtocol._logoff.  Outside the normal state the   *)
(* protocol is cleaned up and, once the session is released, the code that *)
(* follows raises; a protocol that was cleaned up without being released   *)
(* writes a Logout and waits for the answer.                               *)
LogoffAnyone ==
  /\ phase' = "awaitingLogout"
  /\ UNCHANGED <<link, bound, closing, timerVars, aside, peerVars, silence>>

Logoff ==
  /\ bound
  /\ \/ /\ phase = "normal"
        /\ phase' = "awaitingLogout"
        /\ UNCHANGED <<link, bound, beat, checks, acks, aside, answered>>
     \/ /\ phase = "loggedOut"
        /\ phase' = "awaitingLogout"
        /\ LoseConnection
        /\ UNCHANGED <<bound, beat, checks, acks, aside, answered>>
     \/ /\ phase \notin {"normal", "loggedOut"}
        /\ LoseConnection
        /\ CleanUpAndDie
        /\ answered' = {}
  /\ silence' = 0
  /\ UNCHANGED <<closing, fired, peer, quiet>>

-----------------------------------------------------------------------------
(* What the peer sends.                                                    *)

LoggedOnPhase == phase \in {"normal", "gap", "awaitingLogout"} /\ link = "up"

(* on_heartbeat without TestReqID: every check is cancelled.               *)
HeartbeatClearsOldest(ticks) ==
  IF ticks = {} THEN {} ELSE ticks \ {CHOOSE t \in ticks : \A u \in ticks : t <= u}
HeartbeatClears(ticks) == {}

PeerHeartbeat ==
  /\ LoggedOnPhase
  /\ quiet' = 0
  /\ \/ /\ phase = "normal"
        /\ checks' = HeartbeatClears(checks)
        /\ silence' = 0
        /\ UNCHANGED aside
     \/ /\ phase = "gap"
        /\ aside' = [aside EXCEPT !.beat = TRUE]
        /\ UNCHANGED <<checks, silence>>
     \/ /\ phase = "awaitingLogout"
        /\ UNCHANGED <<checks, aside, silence>>
  /\ UNCHANGED <<phase, link, bound, closing, beat, acks, fired, peer, answered>>

(* on_heartbeat with the TestReqID of request a: that request's check is   *)
(* cancelled, the heartbeat checks are left.                               *)
AnswerIgnored(a) == acks
AnswerClears(a) == acks \ {a}

PeerAnswers ==
  /\ LoggedOnPhase
  /\ \E a \in acks \ answered :
       \/ /\ phase = "normal"
          /\ acks' = AnswerClears(a)
          /\ answered' = (answered \cup {a}) \cap AnswerClears(a)
          /\ silence' = 0
          /\ UNCHANGED aside
       \/ /\ phase = "gap"
          /\ aside' = [aside EXCEPT !.acks = @ \cup {a}]
          /\ answered' = answered \cup {a}
          /\ UNCHANGED <<acks, silence>>
       \/ /\ phase = "awaitingLogout"
          /\ answered' = answered \cup {a}
          /\ UNCHANGED <<acks, aside, silence>>
  /\ UNCHANGED <<phase, link, bound, closing, beat, checks, fired, peer, quiet>>

(* on_logout in the normal state, AwaitingLogout.on_msg, or put aside.     *)
PeerLogout ==
  /\ LoggedOnPhase
  /\ \/ /\ phase = "normal"
        /\ closing' = TRUE
        /\ LoseConnection
        /\ UNCHANGED aside
     \/ /\ phase = "awaitingLogout"
        /\ closing' = TRUE
        /\ UNCHANGED <<link, aside>>
     \/ /\ phase = "gap"
        /\ aside' = [aside EXCEPT !.logout = TRUE]
        /\ UNCHANGED <<link, closing>>
  /\ UNCHANGED <<phase, bound, timerVars, peerVars, silence>>

(* A message out of sequence; a Logout out of sequence is answered too.    *)
GapOpens ==
  /\ phase = "normal" /\ link = "up" /\ peer = "any"
  /\ phase' = "gap"
  /\ aside' = NothingAside
  /\ silence' = 0
  /\ \/ UNCHANGED <<link, closing>>
     \/ closing' = TRUE /\ LoseConnection
  /\ UNCHANGED <<bound, timerVars, peerVars>>

(* The last message of the gap.  Of what was put aside the code drops what *)
(* the gap fill has passed, feeds back some, and keeps the rest when one   *)
(* of these is out of sequence and opens a gap again.                      *)
GapFilled ==
  /\ phase = "gap" /\ link = "up"
  /\ \E b \in {FALSE, aside.beat}, l \in {FALSE, aside.logout},
        done \in SUBSET aside.acks :
       /\ checks' = IF b THEN HeartbeatClears(checks) ELSE checks
       /\ acks' = acks \ done
       /\ answered' = answered \ done
       /\ closing' = (closing \/ l)
       /\ IF l THEN LoseConnection ELSE UNCHANGED link
       /\ \/ phase' = "normal" /\ aside' = NothingAside
          \/ /\ phase' = "gap"
             /\ \E kept \in SUBSET (aside.acks \ done) :
                  aside' = [beat |-> aside.beat /\ ~b, acks |-> kept,
                            logout |-> aside.logout /\ ~l]
  /\ silence' = 0
  /\ UNCHANGED <<bound, beat, fired, peer, quiet>>

-----------------------------------------------------------------------------
Due == beat = 0 \/ 0 \in checks \/ 0 \in acks \/ closing

(* A live peer does not let this tick pass.                                *)
PeerOwes ==
  /\ LoggedOnPhase
  /\ \/ peer = "regular" /\ quiet = BeatEvery
     \/ peer # "any" /\ \E a \in acks \ answered : AckWait - a >= AnswerWithin

Earlier(ticks) == {t - 1 : t \in ticks}

Tick ==
  /\ ~Due /\ ~PeerOwes
  /\ beat' = IF beat = NoCall THEN NoCall ELSE beat - 1
  /\ checks' = Earlier(checks)
  /\ acks' = Earlier(acks)
  /\ answered' = Earlier(answered)
  /\ aside' = [aside EXCEPT !.acks = Earlier(@)]
  /\ quiet' = IF peer = "regular" /\ LoggedOnPhase THEN quiet + 1 ELSE quiet
  /\ silence' = IF phase = "normal" THEN silence + 1 ELSE silence
  /\ UNCHANGED <<phase, link, bound, closing, fired, peer>>

Next ==
  \/ LoggedOn \/ SendHeartbeat \/ CheckHeartbeat \/ CheckTestRequestAcknowledged
  \/ CleanUp \/ ConnectionLost \/ Logoff
  \/ PeerHeartbeat \/ PeerAnswers \/ PeerLogout \/ GapOpens \/ GapFilled
  \/ Tick

Spec == Init /\ [][Next]_vars

-----------------------------------------------------------------------------
TypeOK ==
  /\ phase \in Phase
  /\ link \in {"up", "losing", "lost"}
  /\ bound \in BOOLEAN /\ closing \in BOOLEAN /\ fired \in BOOLEAN
  /\ beat \in {NoCall} \cup 0..MaxDelay
  /\ checks \subseteq 0..CheckWait
  /\ acks \subseteq 0..AckWait
  /\ peer \in PeerKind
  /\ answered \subseteq acks
  /\ aside \in Aside /\ aside.acks \subseteq answered
  /\ quiet \in 0..BeatEvery
  /\ silence \in Nat

(* A peer that stops talking is noticed: a protocol in the normal state    *)
(* has heard a Heartbeat, or the answer to one of its requests, within the *)
(* longest heartbeat delay plus the two waits.  send_heartbeat,            *)
(* check_heartbeat and check_test_request_acknowledged each arm the next   *)
(* step of it, on_heartbeat disarms.                                       *)
DeadPeerNoticed == phase = "normal" => silence <= Longest

(* clean_up_and_die leaves nothing behind, neither a pending call nor a    *)
(* session that cannot be bound again, unless a test request timed out.    *)
CleanUnlessTimedOut ==
  phase = "loggedOut" /\ ~fired =>
    beat = NoCall /\ checks = {} /\ acks = {} /\ ~bound

(* The comment above the tables of delayed calls (FIXProtocol.py 417-419): *)
(* no call of a protocol is pending once it is dead.  Not so after a test  *)
(* request timed out: clean_up_and_die stops at the call that was called.  *)
NoGhostCalls ==
  phase = "loggedOut" => beat = NoCall /\ checks = {} /\ acks = {}

(* A dead protocol does nothing more: without a test request that timed    *)
(* out, no handler and no timer brings a logged out protocol back.         *)
DeadStaysDead ==
  [][phase = "loggedOut" /\ ~fired => phase' = "loggedOut" /\ ~fired']_vars

(* A peer that answers test requests in time is never cut off for silence, *)
(* however rarely it sends a Heartbeat of its own, while the protocol is   *)
(* in the normal state.  An open gap puts its answers aside, so such a     *)
(* peer leaves none; AwaitingLogout ignores them.                          *)
LivePeerKept ==
  [][peer # "any" /\ phase = "normal" => fired' = fired]_vars

(* The comment in send_heartbeat (FIXProtocol.py 451-459): the jitter of   *)
(* one second is too small to cause test requests, against a peer that is  *)
(* a pyfix too and sends its Heartbeats with the same delays.              *)
NoNeedlessTest == peer = "regular" => acks = {}
=============================================================================
