---------------------------- MODULE FixTimersProofs ----------------------------
(***************************************************************************)
(* What FixTimers promises for every interval, jitter and wait.            *)
(***************************************************************************)
EXTENDS FixTimers, TLAPS

(* In the normal state one of the calls that lead from a Heartbeat to a    *)
(* Logout is pending, and is due before the silence grows too long.        *)
Watched ==
  \/ closing
  \/ beat + silence <= MaxDelay
  \/ \E c \in checks : c + silence <= MaxDelay + CheckWait
  \/ \E a \in acks : a + silence <= Longest

Beating ==
  /\ phase \in {"normal", "gap"} => beat # NoCall
  /\ phase # "normal" => silence = 0
  /\ phase = "normal" => Watched

(* Messages are put aside in the gap state only.                           *)
AsideInGap == phase # "gap" => aside.acks = {}

IInv == TypeOK /\ Beating /\ AsideInGap /\ DeadPeerNoticed /\ CleanUnlessTimedOut

-----------------------------------------------------------------------------
LEMMA Waits ==
  /\ CheckWait \in Nat
  /\ MaxDelay \in Nat
  /\ AckWait \in Nat \ {0}
  /\ Longest \in Nat
  /\ \A d \in Delays : d \in 1..MaxDelay
<1>1. CheckWait \in Nat
  BY IntervalAssumption, SMT DEF CheckWait
<1> QED BY <1>1, DelaysAssumption, AckWaitAssumption, SMT DEF Longest

LEMMA Nothing == NothingAside \in Aside /\ NothingAside.acks = {}
BY DEF NothingAside, Aside

LEMMA Start == Init => IInv
<1>1. Init => TypeOK
  <2> SUFFICES ASSUME Init PROVE TypeOK
    OBVIOUS
  <2>1. /\ phase \in Phase
        /\ link \in {"up", "losing", "lost"}
        /\ bound \in BOOLEAN /\ closing \in BOOLEAN /\ fired \in BOOLEAN
    BY DEF Init, Phase
  <2>2. /\ beat \in {NoCall} \cup 0..MaxDelay
        /\ checks \subseteq 0..CheckWait
        /\ acks \subseteq 0..AckWait
        /\ answered \subseteq acks
        /\ aside \in Aside /\ aside.acks \subseteq answered
    BY Nothing DEF Init
  <2>3. quiet \in 0..BeatEvery /\ silence \in Nat /\ peer \in PeerKind
    BY PeerAssumption DEF Init
  <2> QED BY <2>1, <2>2, <2>3 DEF TypeOK
<1>2. Init => DeadPeerNoticed
  BY Waits DEF Init, DeadPeerNoticed
<1>3. Init => Beating /\ AsideInGap /\ CleanUnlessTimedOut
  BY Nothing DEF Init, Beating, AsideInGap, CleanUnlessTimedOut
<1> QED BY <1>1, <1>2, <1>3 DEF IInv

(* clean_up_and_die, wherever it is called from, keeps the invariant.      *)
LEMMA CleanedUp ==
  ASSUME IInv, CleanUpAndDie,
         link' \in {"up", "losing", "lost"}, closing' \in BOOLEAN,
         answered' = {}, silence' = 0, UNCHANGED <<fired, peer, quiet>>
  PROVE  IInv'
<1>1. phase' = "loggedOut"
  BY DEF CleanUpAndDie
<1>2. /\ bound' \in BOOLEAN
      /\ beat' \in {NoCall} \cup 0..MaxDelay
      /\ checks' \subseteq 0..CheckWait
      /\ acks' \subseteq 0..AckWait
      /\ aside' \in Aside /\ aside'.acks = {}
      /\ CleanUnlessTimedOut'
  <2>1. CASE phase = "loggedOut"
    <3>1. UNCHANGED <<bound, beat, checks, acks, aside>>
      BY <2>1 DEF CleanUpAndDie
    <3>2. TypeOK /\ aside.acks = {}
      BY <2>1 DEF IInv, AsideInGap
    <3>3. CleanUnlessTimedOut'
      BY <2>1, <3>1, <1>1 DEF IInv, CleanUnlessTimedOut
    <3> QED BY <3>1, <3>2, <3>3 DEF TypeOK
  <2>2. CASE phase # "loggedOut"
    <3>1. aside' = NothingAside /\ CancelAndRelease
      BY <2>2 DEF CleanUpAndDie
    <3>2. CASE ~fired
      BY <3>1, <3>2, Nothing, fired' = fired DEF CancelAndRelease, CleanUnlessTimedOut
    <3>3. CASE fired
      BY <3>1, <3>3, Nothing DEF CancelAndRelease, CleanUnlessTimedOut, IInv, TypeOK
    <3> QED BY <3>2, <3>3
  <2> QED BY <2>1, <2>2
<1>3. TypeOK'
  BY <1>1, <1>2 DEF IInv, TypeOK, Phase
<1>4. Beating' /\ AsideInGap' /\ DeadPeerNoticed'
  BY <1>1, <1>2 DEF Beating, AsideInGap, DeadPeerNoticed
<1> QED BY <1>2, <1>3, <1>4 DEF IInv

-----------------------------------------------------------------------------
(* The actions of the protocol.                                            *)

LEMMA LoggedOnKeeps == IInv /\ LoggedOn => IInv'
<1> SUFFICES ASSUME IInv, LoggedOn PROVE IInv'
  OBVIOUS
<1> USE DEF IInv
<1>1. PICK d \in Delays : ScheduleBeat(d)
  BY DEF LoggedOn
<1>2. d \in 1..MaxDelay /\ beat' = d /\ checks' = checks \cup {CheckWait}
  BY <1>1, Waits DEF ScheduleBeat
<1>3. TypeOK'
  BY <1>2, Waits, PeerAssumption DEF LoggedOn, TypeOK, Phase
<1>4. Beating'
  BY <1>2, Waits DEF LoggedOn, Beating, Watched, NoCall
<1>5. AsideInGap' /\ CleanUnlessTimedOut'
  BY DEF LoggedOn, AsideInGap, CleanUnlessTimedOut
<1>6. DeadPeerNoticed'
  BY Waits DEF LoggedOn, DeadPeerNoticed
<1> QED BY <1>3, <1>4, <1>5, <1>6

LEMMA SendHeartbeatKeeps == IInv /\ SendHeartbeat => IInv'
<1> SUFFICES ASSUME IInv, SendHeartbeat PROVE IInv'
  OBVIOUS
<1> USE DEF IInv
<1>1. PICK d \in Delays : ScheduleBeat(d)
  BY DEF SendHeartbeat
<1>2. d \in 1..MaxDelay /\ beat' = d /\ checks' = checks \cup {CheckWait}
  BY <1>1, Waits DEF ScheduleBeat
<1>3. TypeOK'
  BY <1>2, Waits DEF SendHeartbeat, TypeOK, peerVars
<1>4. Beating'
  <2>1. phase = "normal" => Watched'
    <3> SUFFICES ASSUME phase = "normal" PROVE Watched'
      OBVIOUS
    <3>1. Watched
      BY DEF Beating
    <3>2. CASE closing
      BY <3>2 DEF SendHeartbeat, Watched
    <3>3. CASE beat + silence <= MaxDelay
      <4>1. CheckWait + silence <= MaxDelay + CheckWait
        BY <3>3, Waits DEF SendHeartbeat, TypeOK
      <4> QED BY <4>1, <1>2 DEF SendHeartbeat, Watched
    <3>4. CASE \E c \in checks : c + silence <= MaxDelay + CheckWait
      BY <3>4, <1>2 DEF SendHeartbeat, Watched
    <3>5. CASE \E a \in acks : a + silence <= Longest
      BY <3>5 DEF SendHeartbeat, Watched
    <3> QED BY <3>1, <3>2, <3>3, <3>4, <3>5 DEF Watched
  <2> QED BY <2>1, <1>2, Waits DEF SendHeartbeat, Beating, NoCall
<1>5. AsideInGap' /\ CleanUnlessTimedOut'
  BY DEF SendHeartbeat, AsideInGap, CleanUnlessTimedOut, NoCall
<1>6. DeadPeerNoticed'
  BY DEF SendHeartbeat, DeadPeerNoticed
<1> QED BY <1>3, <1>4, <1>5, <1>6

LEMMA CheckHeartbeatKeeps == IInv /\ CheckHeartbeat => IInv'
<1> SUFFICES ASSUME IInv, CheckHeartbeat PROVE IInv'
  OBVIOUS
<1> USE DEF IInv
<1>1. TypeOK'
  BY Waits DEF CheckHeartbeat, TypeOK, peerVars
<1>2. Beating'
  <2>1. phase = "normal" => Watched'
    <3> SUFFICES ASSUME phase = "normal" PROVE Watched'
      OBVIOUS
    <3>1. Watched
      BY DEF Beating
    <3>2. CASE closing
      BY <3>2 DEF CheckHeartbeat, Watched
    <3>3. CASE beat + silence <= MaxDelay
      BY <3>3 DEF CheckHeartbeat, Watched
    <3>4. CASE \E c \in checks : c + silence <= MaxDelay + CheckWait
      <4>1. PICK c \in checks : c + silence <= MaxDelay + CheckWait
        BY <3>4
      <4>2. CASE c # 0
        BY <4>1, <4>2 DEF CheckHeartbeat, Watched
      <4>3. CASE c = 0
        <5>1. AckWait + silence <= Longest
          BY <4>1, <4>3, Waits DEF TypeOK, Longest
        <5> QED BY <5>1 DEF CheckHeartbeat, Watched
      <4> QED BY <4>2, <4>3
    <3>5. CASE \E a \in acks : a + silence <= Longest
      BY <3>5 DEF CheckHeartbeat, Watched
    <3> QED BY <3>1, <3>2, <3>3, <3>4, <3>5 DEF Watched
  <2> QED BY <2>1 DEF CheckHeartbeat, Beating
<1>3. AsideInGap' /\ CleanUnlessTimedOut' /\ DeadPeerNoticed'
  BY DEF CheckHeartbeat, AsideInGap, CleanUnlessTimedOut, DeadPeerNoticed
<1> QED BY <1>1, <1>2, <1>3

LEMMA TimeoutKeeps == IInv /\ CheckTestRequestAcknowledged => IInv'
<1> SUFFICES ASSUME IInv, CheckTestRequestAcknowledged PROVE IInv'
  OBVIOUS
<1> USE DEF IInv
<1>1. aside' \in Aside /\ aside'.acks = aside.acks \ {0}
  BY DEF CheckTestRequestAcknowledged, TypeOK, Aside
<1>2. link' \in {"up", "losing", "lost"}
  BY DEF CheckTestRequestAcknowledged, LoseConnection, TypeOK
<1>3. TypeOK'
  BY <1>1, <1>2 DEF CheckTestRequestAcknowledged, TypeOK
<1>4. Beating'
  BY DEF CheckTestRequestAcknowledged, Beating, Watched
<1>5. AsideInGap' /\ CleanUnlessTimedOut' /\ DeadPeerNoticed'
  BY <1>1 DEF CheckTestRequestAcknowledged, AsideInGap, CleanUnlessTimedOut, DeadPeerNoticed
<1> QED BY <1>3, <1>4, <1>5

LEMMA CleanUpKeeps == IInv /\ CleanUp => IInv'
BY CleanedUp DEF CleanUp, IInv, TypeOK

LEMMA ConnectionLostKeeps == IInv /\ ConnectionLost => IInv'
BY CleanedUp DEF ConnectionLost, IInv, TypeOK

LEMMA LogoffKeeps == IInv /\ Logoff => IInv'
<1> SUFFICES ASSUME IInv, Logoff PROVE IInv'
  OBVIOUS
<1>1. CASE phase = "normal" \/ phase = "loggedOut"
  <2>1. /\ phase' = "awaitingLogout" /\ silence' = 0
        /\ UNCHANGED <<bound, closing, beat, checks, acks, fired, aside, peer, answered, quiet>>
        /\ link' \in {"up", "losing", "lost"}
    BY <1>1 DEF Logoff, LoseConnection, IInv, TypeOK
  <2>2. TypeOK'
    BY <2>1 DEF IInv, TypeOK, Phase
  <2>3. Beating' /\ AsideInGap' /\ DeadPeerNoticed' /\ CleanUnlessTimedOut'
    BY <2>1, <1>1 DEF IInv, Beating, AsideInGap, DeadPeerNoticed, CleanUnlessTimedOut
  <2> QED BY <2>2, <2>3 DEF IInv
<1>2. CASE phase \notin {"normal", "loggedOut"}
  <2>1. /\ CleanUpAndDie /\ answered' = {} /\ silence' = 0
        /\ UNCHANGED <<closing, fired, peer, quiet>>
        /\ link' \in {"up", "losing", "lost"}
    BY <1>2 DEF Logoff, LoseConnection, IInv, TypeOK
  <2>2. closing' \in BOOLEAN
    BY <2>1 DEF IInv, TypeOK
  <2> QED BY <2>1, <2>2, CleanedUp
<1> QED BY <1>1, <1>2

-----------------------------------------------------------------------------
(* The peer and the clock.                                                 *)

LEMMA PeerHeartbeatKeeps == IInv /\ PeerHeartbeat => IInv'
<1> SUFFICES ASSUME IInv, PeerHeartbeat PROVE IInv'
  OBVIOUS
<1> USE DEF IInv
<1>1. /\ phase \in {"normal", "gap", "awaitingLogout"} /\ quiet' = 0
      /\ UNCHANGED <<phase, link, bound, closing, beat, acks, fired, peer, answered>>
  BY DEF PeerHeartbeat, LoggedOnPhase
<1>2. CASE phase = "normal"
  <2>1. checks' = {} /\ silence' = 0 /\ UNCHANGED aside
    BY <1>2 DEF PeerHeartbeat, HeartbeatClears
  <2>2. TypeOK'
    BY <1>1, <2>1, PeerAssumption DEF TypeOK
  <2>3. beat' + silence' <= MaxDelay
    BY <1>1, <1>2, <2>1, Waits DEF Beating, TypeOK, NoCall
  <2>4. Beating' /\ AsideInGap' /\ CleanUnlessTimedOut'
    BY <1>1, <1>2, <2>1, <2>3 DEF Beating, Watched, AsideInGap, CleanUnlessTimedOut
  <2>5. DeadPeerNoticed'
    BY <2>1, Waits DEF DeadPeerNoticed
  <2> QED BY <2>2, <2>4, <2>5
<1>3. CASE phase = "gap"
  <2>1. UNCHANGED <<checks, silence>> /\ aside' \in Aside /\ aside'.acks = aside.acks
    BY <1>3 DEF PeerHeartbeat, TypeOK, Aside
  <2>2. TypeOK'
    BY <1>1, <2>1, PeerAssumption DEF TypeOK
  <2>3. Beating' /\ AsideInGap' /\ CleanUnlessTimedOut' /\ DeadPeerNoticed'
    BY <1>1, <1>3, <2>1 DEF Beating, AsideInGap, CleanUnlessTimedOut, DeadPeerNoticed
  <2> QED BY <2>2, <2>3
<1>4. CASE phase = "awaitingLogout"
  <2>1. UNCHANGED <<checks, aside, silence>>
    BY <1>4 DEF PeerHeartbeat
  <2>2. TypeOK'
    BY <1>1, <2>1, PeerAssumption DEF TypeOK
  <2>3. Beating' /\ AsideInGap' /\ CleanUnlessTimedOut' /\ DeadPeerNoticed'
    BY <1>1, <1>4, <2>1 DEF Beating, AsideInGap, CleanUnlessTimedOut, DeadPeerNoticed
  <2> QED BY <2>2, <2>3
<1> QED BY <1>1, <1>2, <1>3, <1>4

LEMMA PeerAnswersKeeps == IInv /\ PeerAnswers => IInv'
<1> SUFFICES ASSUME IInv, PeerAnswers PROVE IInv'
  OBVIOUS
<1> USE DEF IInv
<1>1. /\ phase \in {"normal", "gap", "awaitingLogout"}
      /\ UNCHANGED <<phase, link, bound, closing, beat, checks, fired, peer, quiet>>
  BY DEF PeerAnswers, LoggedOnPhase
<1>2. CASE phase = "normal"
  <2>1. /\ acks' \subseteq acks /\ answered' \subseteq acks'
        /\ silence' = 0 /\ UNCHANGED aside
    BY <1>2 DEF PeerAnswers, AnswerClears
  <2>2. aside'.acks \subseteq answered'
    BY <1>2, <2>1 DEF AsideInGap
  <2>3. TypeOK'
    BY <1>1, <2>1, <2>2 DEF TypeOK
  <2>4. beat' + silence' <= MaxDelay
    BY <1>1, <1>2, <2>1, Waits DEF Beating, TypeOK, NoCall
  <2>5. Beating' /\ AsideInGap' /\ CleanUnlessTimedOut'
    BY <1>1, <1>2, <2>1, <2>4 DEF Beating, Watched, AsideInGap, CleanUnlessTimedOut
  <2>6. DeadPeerNoticed'
    BY <2>1, Waits DEF DeadPeerNoticed
  <2> QED BY <2>3, <2>5, <2>6
<1>3. CASE phase = "gap"
  <2>1. PICK a \in acks \ answered :
          /\ aside' = [aside EXCEPT !.acks = @ \cup {a}]
          /\ answered' = answered \cup {a}
          /\ UNCHANGED <<acks, silence>>
    BY <1>3 DEF PeerAnswers
  <2>2. aside' \in Aside /\ aside'.acks = aside.acks \cup {a}
    BY <2>1 DEF TypeOK, Aside
  <2>3. TypeOK'
    BY <1>1, <2>1, <2>2 DEF TypeOK
  <2>4. Beating' /\ AsideInGap' /\ CleanUnlessTimedOut' /\ DeadPeerNoticed'
    BY <1>1, <1>3, <2>1 DEF Beating, AsideInGap, CleanUnlessTimedOut, DeadPeerNoticed
  <2> QED BY <2>3, <2>4
<1>4. CASE phase = "awaitingLogout"
  <2>1. PICK a \in acks \ answered :
          answered' = answered \cup {a} /\ UNCHANGED <<acks, aside, silence>>
    BY <1>4 DEF PeerAnswers
  <2>2. TypeOK'
    BY <1>1, <2>1 DEF TypeOK
  <2>3. Beating' /\ AsideInGap' /\ CleanUnlessTimedOut' /\ DeadPeerNoticed'
    BY <1>1, <1>4, <2>1 DEF Beating, AsideInGap, CleanUnlessTimedOut, DeadPeerNoticed
  <2> QED BY <2>2, <2>3
<1> QED BY <1>1, <1>2, <1>3, <1>4

LEMMA PeerLogoutKeeps == IInv /\ PeerLogout => IInv'
<1> SUFFICES ASSUME IInv, PeerLogout PROVE IInv'
  OBVIOUS
<1> USE DEF IInv
<1>1. /\ UNCHANGED <<phase, bound, beat, checks, acks, fired, peer, answered, quiet, silence>>
      /\ phase # "loggedOut"
  BY DEF PeerLogout, LoggedOnPhase, timerVars, peerVars
<1>2. /\ link' \in {"up", "losing", "lost"} /\ closing' \in BOOLEAN
      /\ aside' \in Aside /\ aside'.acks = aside.acks
      /\ closing => closing'
  <2>1. link' \in {"up", "losing", "lost"}
    BY DEF PeerLogout, LoseConnection, TypeOK
  <2>2. closing' \in BOOLEAN /\ (closing => closing')
    <3>1. closing' = TRUE \/ closing' = closing
      BY DEF PeerLogout
    <3> QED BY <3>1 DEF TypeOK
  <2>3. aside' \in Aside /\ aside'.acks = aside.acks
    BY DEF PeerLogout, TypeOK, Aside
  <2> QED BY <2>1, <2>2, <2>3
<1>3. TypeOK'
  BY <1>1, <1>2 DEF TypeOK
<1>4. Beating' /\ AsideInGap' /\ CleanUnlessTimedOut' /\ DeadPeerNoticed'
  BY <1>1, <1>2 DEF Beating, Watched, AsideInGap, CleanUnlessTimedOut, DeadPeerNoticed
<1> QED BY <1>3, <1>4

LEMMA GapOpensKeeps == IInv /\ GapOpens => IInv'
<1> SUFFICES ASSUME IInv, GapOpens PROVE IInv'
  OBVIOUS
<1> USE DEF IInv
<1>1. /\ phase = "normal" /\ phase' = "gap" /\ aside' = NothingAside /\ silence' = 0
      /\ UNCHANGED <<bound, beat, checks, acks, fired, peer, answered, quiet>>
      /\ link' \in {"up", "losing", "lost"} /\ closing' \in BOOLEAN
  BY DEF GapOpens, LoseConnection, timerVars, peerVars, TypeOK
<1>2. TypeOK'
  BY <1>1, Nothing DEF TypeOK, Phase
<1>3. Beating' /\ AsideInGap' /\ CleanUnlessTimedOut' /\ DeadPeerNoticed'
  BY <1>1 DEF Beating, AsideInGap, CleanUnlessTimedOut, DeadPeerNoticed
<1> QED BY <1>2, <1>3

LEMMA GapFilledKeeps == IInv /\ GapFilled => IInv'
<1> SUFFICES ASSUME IInv, GapFilled PROVE IInv'
  OBVIOUS
<1> USE DEF IInv
<1>1. PICK b \in {FALSE, aside.beat}, l \in {FALSE, aside.logout}, done \in SUBSET aside.acks :
       /\ checks' = IF b THEN HeartbeatClears(checks) ELSE checks
       /\ acks' = acks \ done
       /\ answered' = answered \ done
       /\ closing' = (closing \/ l)
       /\ IF l THEN LoseConnection ELSE UNCHANGED link
       /\ \/ phase' = "normal" /\ aside' = NothingAside
          \/ /\ phase' = "gap"
             /\ \E kept \in SUBSET (aside.acks \ done) :
                  aside' = [beat |-> aside.beat /\ ~b, acks |-> kept,
                            logout |-> aside.logout /\ ~l]
  BY DEF GapFilled
<1>2. phase = "gap" /\ silence' = 0 /\ UNCHANGED <<bound, beat, fired, peer, quiet>>
  BY DEF GapFilled
<1>3. aside.beat \in BOOLEAN /\ aside.logout \in BOOLEAN /\ aside.acks \subseteq 0..AckWait
  BY DEF TypeOK, Aside
<1>4. aside' \in Aside /\ aside'.acks \subseteq aside.acks \ done
  <2>1. CASE aside' = NothingAside
    BY <2>1, Nothing
  <2>2. CASE \E kept \in SUBSET (aside.acks \ done) :
               aside' = [beat |-> aside.beat /\ ~b, acks |-> kept,
                         logout |-> aside.logout /\ ~l]
    BY <2>2, <1>3 DEF Aside
  <2> QED BY <1>1, <2>1, <2>2
<1>5. /\ link' \in {"up", "losing", "lost"} /\ checks' \subseteq checks
      /\ closing' \in BOOLEAN
  BY <1>1, <1>3 DEF LoseConnection, TypeOK, HeartbeatClears
<1>6. TypeOK'
  BY <1>1, <1>2, <1>4, <1>5 DEF TypeOK, Phase
<1>7. beat' + silence' <= MaxDelay
  BY <1>2, Waits DEF Beating, TypeOK, NoCall
<1>8. AsideInGap' /\ CleanUnlessTimedOut'
  BY <1>1, Nothing DEF AsideInGap, CleanUnlessTimedOut
<1>9. Beating'
  BY <1>1, <1>2, <1>7 DEF Beating, Watched
<1>10. DeadPeerNoticed'
  BY <1>2, Waits DEF DeadPeerNoticed
<1> QED BY <1>6, <1>8, <1>9, <1>10

LEMMA TickKeeps == IInv /\ Tick => IInv'
<1> SUFFICES ASSUME IInv, Tick PROVE IInv'
  OBVIOUS
<1> USE DEF IInv
<1>1. beat # 0 /\ 0 \notin checks /\ 0 \notin acks /\ ~closing
  BY DEF Tick, Due
<1>2. /\ beat' = IF beat = NoCall THEN NoCall ELSE beat - 1
      /\ checks' = {t - 1 : t \in checks}
      /\ acks' = {t - 1 : t \in acks}
      /\ answered' = {t - 1 : t \in answered}
      /\ silence' = IF phase = "normal" THEN silence + 1 ELSE silence
      /\ UNCHANGED <<phase, link, bound, closing, fired, peer>>
  BY DEF Tick, Earlier
<1>3. aside' \in Aside /\ aside'.acks = {t - 1 : t \in aside.acks}
  <2>1. aside' = [aside EXCEPT !.acks = {t - 1 : t \in @}]
    BY DEF Tick, Earlier
  <2>2. {t - 1 : t \in aside.acks} \in SUBSET (0..AckWait)
    <3>1. aside.acks \subseteq 0..AckWait /\ 0 \notin aside.acks
      BY <1>1 DEF TypeOK
    <3> QED BY <3>1, Waits
  <2> QED BY <2>1, <2>2 DEF TypeOK, Aside
<1>4. quiet' \in 0..BeatEvery
  BY PeerAssumption DEF Tick, PeerOwes, TypeOK
<1>5. TypeOK'
  <2>1. beat' \in {NoCall} \cup 0..MaxDelay
    BY <1>1, <1>2, Waits DEF TypeOK, NoCall
  <2>2. checks' \subseteq 0..CheckWait
    BY <1>1, <1>2, Waits DEF TypeOK
  <2>3. acks' \subseteq 0..AckWait
    BY <1>1, <1>2, Waits DEF TypeOK
  <2>4. answered' \subseteq acks' /\ aside'.acks \subseteq answered'
    BY <1>2, <1>3 DEF TypeOK
  <2>5. silence' \in Nat
    BY <1>2 DEF TypeOK
  <2> QED BY <1>2, <1>3, <1>4, <2>1, <2>2, <2>3, <2>4, <2>5 DEF TypeOK
<1>6. phase = "normal" => Watched' /\ silence' <= Longest
  <2> SUFFICES ASSUME phase = "normal" PROVE Watched' /\ silence' <= Longest
    OBVIOUS
  <2>1. silence' = silence + 1 /\ silence \in Nat
    BY <1>2 DEF TypeOK
  <2>2. CASE beat + silence <= MaxDelay
    <3>1. beat \in Nat \ {0} /\ beat' = beat - 1
      BY <1>1, <1>2 DEF Beating, TypeOK
    <3> QED BY <2>1, <2>2, <3>1, Waits DEF Watched, Longest
  <2>3. CASE \E c \in checks : c + silence <= MaxDelay + CheckWait
    <3>1. PICK c \in checks : c + silence <= MaxDelay + CheckWait
      BY <2>3
    <3>2. c \in Nat \ {0} /\ c - 1 \in checks'
      BY <1>1, <1>2 DEF TypeOK
    <3>3. (c - 1) + silence' <= MaxDelay + CheckWait
      BY <2>1, <3>1, <3>2, Waits
    <3>4. silence' <= Longest
      BY <2>1, <3>1, <3>2, Waits DEF Longest
    <3> QED BY <3>2, <3>3, <3>4 DEF Watched
  <2>4. CASE \E a \in acks : a + silence <= Longest
    <3>1. PICK a \in acks : a + silence <= Longest
      BY <2>4
    <3>2. a \in Nat \ {0} /\ a - 1 \in acks'
      BY <1>1, <1>2 DEF TypeOK
    <3>3. (a - 1) + silence' <= Longest /\ silence' <= Longest
      BY <2>1, <3>1, <3>2, Waits
    <3> QED BY <3>2, <3>3 DEF Watched, Longest
  <2> QED BY <1>1, <2>2, <2>3, <2>4 DEF Beating, Watched
<1>7. Beating' /\ DeadPeerNoticed'
  <2>1. phase \in {"normal", "gap"} => beat' # NoCall
    BY <1>1, <1>2, Waits DEF Beating, TypeOK, NoCall
  <2> QED BY <1>2, <1>6, <2>1 DEF Beating, DeadPeerNoticed
<1>8. AsideInGap' /\ CleanUnlessTimedOut'
  BY <1>2, <1>3 DEF AsideInGap, CleanUnlessTimedOut
<1> QED BY <1>5, <1>7, <1>8

-----------------------------------------------------------------------------
LEMMA StutterKeeps == IInv /\ UNCHANGED vars => IInv'
BY DEF IInv, TypeOK, Beating, Watched, AsideInGap, DeadPeerNoticed,
       CleanUnlessTimedOut, vars, timerVars, peerVars

LEMMA StepKeeps == IInv /\ [Next]_vars => IInv'
BY LoggedOnKeeps, SendHeartbeatKeeps, CheckHeartbeatKeeps, TimeoutKeeps, CleanUpKeeps,
   ConnectionLostKeeps, LogoffKeeps, PeerHeartbeatKeeps, PeerAnswersKeeps,
   PeerLogoutKeeps, GapOpensKeeps, GapFilledKeeps, TickKeeps, StutterKeeps DEF Next

LEMMA Invariance == Spec => []IInv
BY Start, StepKeeps, PTL DEF Spec

(* The type of the state, in particular that no clock or delayed call runs *)
(* past its longest wait.                                                  *)
THEOREM TypeCorrect == Spec => []TypeOK
BY Invariance, PTL DEF IInv

(* The chain send_heartbeat, check_heartbeat, check_test_request_          *)
(* acknowledged is never broken in the normal state: whatever the          *)
(* interval, the jitter and the waits, a silent peer is noticed.           *)
THEOREM SilenceIsBounded == Spec => []DeadPeerNoticed
BY Invariance, PTL DEF IInv

(* clean_up_and_die cancels every delayed call and frees the session,      *)
(* unless a test request of this protocol timed out.                       *)
THEOREM CleanUpIsComplete == Spec => []CleanUnlessTimedOut
BY Invariance, PTL DEF IInv

(* No step of such a protocol follows its clean-up.                        *)
THEOREM TheDeadStayDead == Spec => DeadStaysDead
<1>1. IInv /\ [Next]_vars => [phase = "loggedOut" /\ ~fired => phase' = "loggedOut" /\ ~fired']_vars
  <2> SUFFICES ASSUME IInv, Next, phase = "loggedOut", ~fired
               PROVE  phase' = "loggedOut" /\ ~fired'
    OBVIOUS
  <2>1. beat = NoCall /\ checks = {} /\ acks = {} /\ ~bound
    BY DEF IInv, CleanUnlessTimedOut
  <2>2. ~LoggedOn /\ ~SendHeartbeat /\ ~CheckHeartbeat /\ ~CheckTestRequestAcknowledged
    BY <2>1 DEF LoggedOn, SendHeartbeat, CheckHeartbeat, CheckTestRequestAcknowledged, NoCall
  <2>3. ~Logoff /\ ~PeerHeartbeat /\ ~PeerAnswers /\ ~PeerLogout /\ ~GapOpens /\ ~GapFilled
    BY <2>1 DEF Logoff, PeerHeartbeat, PeerAnswers, PeerLogout, GapOpens, GapFilled,
                LoggedOnPhase
  <2>4. CleanUp \/ ConnectionLost \/ Tick
    BY <2>2, <2>3 DEF Next
  <2> QED BY <2>4 DEF CleanUp, ConnectionLost, Tick, CleanUpAndDie
<1> QED BY <1>1, Invariance, PTL DEF Spec, DeadStaysDead


-----------------------------------------------------------------------------
(* The peers that answer in time.  Their messages come without gaps, so an *)
(* answer is handled when it arrives, and no request gets older than the   *)
(* time they take.  Only an unconnected protocol, or one about to be       *)
(* cleaned up, is beyond their reach.                                      *)
Live ==
  /\ phase = "awaitingLogon" =>
       /\ beat = NoCall
       /\ checks = {}
       /\ acks = {}
       /\ answered = {}
  /\ peer # "any" => phase # "gap"
  /\ peer # "any" /\ phase = "normal" =>
       /\ link = "up" \/ closing
       /\ answered = {}
       /\ \A a \in acks : AckWait - a <= AnswerWithin

(* The peers that also send their Heartbeats in time: a check that is      *)
(* pending was armed after the last of these, and no request is needed.    *)
Regular ==
  peer = "regular" =>
    /\ acks = {}
    /\ phase = "normal" => \A c \in checks : CheckWait - c <= quiet

LEMMA StartLive == Init => Live /\ Regular
BY DEF Init, Live, Regular

(* clean_up_and_die adds no call and leaves the normal state.              *)
LEMMA CleanedUpLive ==
  ASSUME IInv, Live, CleanUpAndDie, UNCHANGED <<peer, quiet>>
  PROVE  Live' /\ (Regular => Regular')
<1>1. phase' = "loggedOut" /\ acks' \subseteq acks
  BY DEF CleanUpAndDie, CancelAndRelease
<1>2. Live'
  BY <1>1 DEF Live
<1>3. Regular => Regular'
  BY <1>1 DEF Regular
<1> QED BY <1>2, <1>3

LEMMA LoggedOnLive == IInv /\ Live /\ LoggedOn => Live' /\ (Regular => Regular')
<1> SUFFICES ASSUME IInv, Live, LoggedOn PROVE Live' /\ (Regular => Regular')
  OBVIOUS
<1>1. /\ phase = "awaitingLogon" /\ phase' \in {"normal", "gap"}
      /\ phase' = "gap" => peer = "any"
      /\ link = "up" /\ quiet' = 0
      /\ UNCHANGED <<link, closing, acks, fired, aside, peer, answered>>
  BY DEF LoggedOn
<1>2. checks = {} /\ acks = {} /\ answered = {}
  BY <1>1 DEF Live
<1>3. checks' = {CheckWait}
  BY <1>2 DEF LoggedOn, ScheduleBeat
<1>4. Live'
  BY <1>1, <1>2 DEF Live
<1>5. Regular => Regular'
  BY <1>1, <1>2, <1>3, Waits DEF Regular
<1> QED BY <1>4, <1>5

LEMMA SendHeartbeatLive ==
  IInv /\ Live /\ SendHeartbeat => Live' /\ (Regular => Regular')
<1> SUFFICES ASSUME IInv, Live, SendHeartbeat PROVE Live' /\ (Regular => Regular')
  OBVIOUS
<1>1. /\ beat = 0 /\ checks' = checks \cup {CheckWait}
      /\ UNCHANGED <<phase, link, closing, acks, peer, answered, quiet>>
  BY DEF SendHeartbeat, ScheduleBeat, peerVars
<1>2. phase # "awaitingLogon"
  BY <1>1 DEF Live, NoCall
<1>3. Live'
  BY <1>1, <1>2 DEF Live
<1>4. quiet >= 0 /\ quiet \in Int
  BY PeerAssumption DEF IInv, TypeOK
<1>5. CheckWait - CheckWait <= quiet
  BY <1>4, Waits
<1>6. Regular => Regular'
  BY <1>1, <1>5 DEF Regular
<1> QED BY <1>3, <1>6

(* A check that falls due in the normal state was armed a whole wait ago.  *)
LEMMA CheckHeartbeatLive ==
  ASSUME IInv, Live, CheckHeartbeat
  PROVE  Live' /\ (BeatEvery < CheckWait /\ Regular => Regular')
<1>1. /\ 0 \in checks /\ checks' = checks \ {0}
      /\ acks' = IF phase = "normal" THEN acks \cup {AckWait} ELSE acks
      /\ UNCHANGED <<phase, link, closing, beat, peer, answered, quiet>>
  BY DEF CheckHeartbeat, peerVars
<1>2. phase # "awaitingLogon"
  BY <1>1 DEF Live
<1>3. AckWait - AckWait <= AnswerWithin
  BY Waits, PeerAssumption
<1>4. Live'
  BY <1>1, <1>2, <1>3 DEF Live
<1>5. BeatEvery < CheckWait /\ Regular => Regular'
  <2> SUFFICES ASSUME BeatEvery < CheckWait, Regular, peer = "regular" PROVE Regular'
    BY <1>1 DEF Regular
  <2>1. phase # "normal"
    <3> SUFFICES ASSUME phase = "normal" PROVE FALSE
      OBVIOUS
    <3>1. CheckWait - 0 <= quiet
      BY <1>1 DEF Regular
    <3>2. quiet \in 0..BeatEvery
      BY DEF IInv, TypeOK
    <3> QED BY <3>1, <3>2, Waits, PeerAssumption
  <2> QED BY <1>1, <2>1 DEF Regular
<1> QED BY <1>4, <1>5

LEMMA TimeoutLive ==
  IInv /\ Live /\ CheckTestRequestAcknowledged => Live' /\ (Regular => Regular')
<1> SUFFICES ASSUME IInv, Live, CheckTestRequestAcknowledged
             PROVE  Live' /\ (Regular => Regular')
  OBVIOUS
<1>1. /\ 0 \in acks /\ acks' = acks \ {0} /\ answered' = answered \ {0} /\ closing'
      /\ UNCHANGED <<phase, beat, checks, peer, quiet>>
  BY DEF CheckTestRequestAcknowledged
<1>2. Live'
  BY <1>1 DEF Live
<1>3. Regular => Regular'
  BY <1>1 DEF Regular
<1> QED BY <1>2, <1>3

LEMMA LogoffLive == IInv /\ Live /\ Logoff => Live' /\ (Regular => Regular')
<1> SUFFICES ASSUME IInv, Live, Logoff PROVE Live' /\ (Regular => Regular')
  OBVIOUS
<1>1. CASE phase \in {"normal", "loggedOut"}
  <2>1. phase' = "awaitingLogout" /\ UNCHANGED <<acks, peer>>
    BY <1>1 DEF Logoff
  <2> QED BY <2>1 DEF Live, Regular
<1>2. CASE phase \notin {"normal", "loggedOut"}
  <2>1. CleanUpAndDie /\ UNCHANGED <<peer, quiet>>
    BY <1>2 DEF Logoff
  <2> QED BY <2>1, CleanedUpLive
<1> QED BY <1>1, <1>2

LEMMA PeerHeartbeatLive ==
  IInv /\ Live /\ PeerHeartbeat => Live' /\ (Regular => Regular')
<1> SUFFICES ASSUME IInv, Live, PeerHeartbeat PROVE Live' /\ (Regular => Regular')
  OBVIOUS
<1>1. /\ phase # "awaitingLogon"
      /\ phase = "normal" => checks' = {}
      /\ UNCHANGED <<phase, link, closing, beat, acks, peer, answered>>
  BY DEF PeerHeartbeat, LoggedOnPhase, HeartbeatClears
<1>2. Live'
  BY <1>1 DEF Live
<1>3. Regular => Regular'
  BY <1>1 DEF Regular
<1> QED BY <1>2, <1>3

LEMMA PeerAnswersLive ==
  IInv /\ Live /\ PeerAnswers => Live' /\ (Regular => Regular')
<1> SUFFICES ASSUME IInv, Live, PeerAnswers PROVE Live' /\ (Regular => Regular')
  OBVIOUS
<1>1. /\ phase # "awaitingLogon"
      /\ UNCHANGED <<phase, link, closing, beat, checks, peer, quiet>>
  BY DEF PeerAnswers, LoggedOnPhase
<1>2. acks' \subseteq acks
  BY DEF PeerAnswers, AnswerClears
<1>3. phase = "normal" /\ answered = {} => answered' = {}
  BY DEF PeerAnswers, AnswerClears
<1>4. Live'
  BY <1>1, <1>2, <1>3 DEF Live
<1>5. Regular => Regular'
  BY <1>1, <1>2 DEF Regular
<1> QED BY <1>4, <1>5

LEMMA PeerLogoutLive ==
  IInv /\ Live /\ PeerLogout => Live' /\ (Regular => Regular')
<1> SUFFICES ASSUME IInv, Live, PeerLogout PROVE Live' /\ (Regular => Regular')
  OBVIOUS
<1>1. /\ phase # "awaitingLogon"
      /\ phase = "normal" => closing'
      /\ UNCHANGED <<phase, beat, checks, acks, peer, answered, quiet>>
  BY DEF PeerLogout, LoggedOnPhase, timerVars, peerVars
<1>2. Live'
  BY <1>1 DEF Live
<1>3. Regular => Regular'
  BY <1>1 DEF Regular
<1> QED BY <1>2, <1>3

(* A gap concerns the other kind of peer.                                  *)
LEMMA GapLive ==
  IInv /\ Live /\ (GapOpens \/ GapFilled) => Live' /\ (Regular => Regular')
<1> SUFFICES ASSUME IInv, Live, GapOpens \/ GapFilled
             PROVE  Live' /\ (Regular => Regular')
  OBVIOUS
<1>1. peer = "any" /\ peer' = peer /\ phase' # "awaitingLogon"
  <2>1. CASE GapOpens
    BY <2>1 DEF GapOpens, peerVars
  <2>2. CASE GapFilled
    BY <2>2 DEF GapFilled, Live
  <2> QED BY <2>1, <2>2
<1> QED BY <1>1 DEF Live, Regular

(* No tick passes while a call is due or the peer owes a message.          *)
LEMMA TickLive == IInv /\ Live /\ Tick => Live' /\ (Regular => Regular')
<1> SUFFICES ASSUME IInv, Live, Tick PROVE Live' /\ (Regular => Regular')
  OBVIOUS
<1>1. /\ 0 \notin checks /\ 0 \notin acks /\ ~closing
      /\ ~PeerOwes
  BY DEF Tick, Due
<1>2. /\ beat = NoCall => beat' = NoCall
      /\ checks' = {t - 1 : t \in checks}
      /\ acks' = {t - 1 : t \in acks}
      /\ answered' = {t - 1 : t \in answered}
      /\ quiet' = IF peer = "regular" /\ LoggedOnPhase THEN quiet + 1 ELSE quiet
      /\ UNCHANGED <<phase, link, closing, peer>>
  BY DEF Tick, Earlier
<1>3. peer # "any" /\ phase = "normal" => LoggedOnPhase
  BY <1>1 DEF Live, LoggedOnPhase
<1>4. checks \subseteq Int /\ acks \subseteq Int /\ quiet \in Int
  BY Waits, PeerAssumption DEF IInv, TypeOK
<1>5. Live'
  <2>1. ASSUME peer # "any", phase = "normal", NEW a \in acks'
        PROVE  AckWait - a <= AnswerWithin
    <3>1. PICK t \in acks : a = t - 1
      BY <1>2, <2>1
    <3>2. t \in acks \ answered
      BY <2>1, <3>1 DEF Live
    <3>3. ~(AckWait - t >= AnswerWithin)
      BY <1>1, <1>3, <2>1, <3>2 DEF PeerOwes
    <3> QED BY <1>4, <3>1, <3>3, Waits, PeerAssumption
  <2>2. phase = "awaitingLogon" => checks' = {} /\ acks' = {} /\ answered' = {}
    BY <1>2 DEF Live
  <2>3. peer # "any" /\ phase = "normal" => answered' = {}
    BY <1>2 DEF Live
  <2> QED BY <1>2, <2>1, <2>2, <2>3 DEF Live
<1>6. Regular => Regular'
  <2> HAVE Regular
  <2>1. ASSUME peer = "regular", phase = "normal", NEW c \in checks'
        PROVE  CheckWait - c <= quiet'
    <3>1. PICK t \in checks : c = t - 1
      BY <1>2, <2>1
    <3>2. CheckWait - t <= quiet
      BY <2>1, <3>1 DEF Regular
    <3>3. quiet' = quiet + 1
      BY <1>2, <1>3, <2>1
    <3> QED BY <1>4, <3>1, <3>2, <3>3, Waits
  <2>2. peer = "regular" => acks' = {}
    BY <1>2 DEF Regular
  <2> QED BY <1>2, <2>1, <2>2 DEF Regular
<1> QED BY <1>5, <1>6

LEMMA StepLive ==
  ASSUME IInv, Live, [Next]_vars
  PROVE  Live' /\ (BeatEvery < CheckWait /\ Regular => Regular')
<1>1. CASE CleanUp \/ ConnectionLost
  BY <1>1, CleanedUpLive DEF CleanUp, ConnectionLost
<1>2. CASE UNCHANGED vars
  BY <1>2 DEF Live, Regular, vars, timerVars, peerVars
<1> QED BY <1>1, <1>2, LoggedOnLive, SendHeartbeatLive, CheckHeartbeatLive, TimeoutLive,
           LogoffLive, PeerHeartbeatLive, PeerAnswersLive, PeerLogoutLive, GapLive,
           TickLive DEF Next

LEMMA LiveInvariance == Spec => [](IInv /\ Live)
<1>1. IInv /\ Live /\ [Next]_vars => (IInv /\ Live)'
  BY StepKeeps, StepLive
<1> QED BY Start, StartLive, <1>1, PTL DEF Spec

(* A peer that answers before the request is given up is never cut off in  *)
(* the normal state, whatever the interval, the jitter and the waits, and  *)
(* however many of its requests are pending at once.                       *)
THEOREM AnsweringPeerKept ==
  ASSUME AnswerWithin < AckWait
  PROVE  Spec => LivePeerKept
<1>1. IInv /\ Live /\ [Next]_vars =>
        [peer # "any" /\ phase = "normal" => fired' = fired]_vars
  <2> SUFFICES ASSUME IInv, Live, Next, peer # "any", phase = "normal"
               PROVE  fired' = fired
    OBVIOUS
  <2>1. ~CheckTestRequestAcknowledged
    <3> SUFFICES ASSUME 0 \in acks PROVE FALSE
      BY DEF CheckTestRequestAcknowledged
    <3>1. AckWait - 0 <= AnswerWithin
      BY DEF Live
    <3> QED BY <3>1, Waits, PeerAssumption
  <2> QED BY <2>1 DEF Next, LoggedOn, SendHeartbeat, CheckHeartbeat, CleanUp, ConnectionLost,
                      Logoff, PeerHeartbeat, PeerAnswers, PeerLogout, GapOpens, GapFilled,
                      Tick, timerVars
<1> QED BY <1>1, LiveInvariance, PTL DEF Spec, LivePeerKept

(* The margin of the comment in send_heartbeat: as long as the peer's      *)
(* longest pause is shorter than one and a half intervals, no jitter makes *)
(* this side send a TestRequest.                                           *)
THEOREM NoTestForARegularPeer ==
  ASSUME BeatEvery < CheckWait
  PROVE  Spec => []NoNeedlessTest
<1>1. IInv /\ Live /\ Regular /\ [Next]_vars => (IInv /\ Live /\ Regular)'
  BY StepKeeps, StepLive
<1>2. Regular => NoNeedlessTest
  BY DEF Regular, NoNeedlessTest
<1> QED BY Start, StartLive, <1>1, <1>2, PTL DEF Spec
=============================================================================
